----------------------- MODULE WorkflowVersionsProofs -----------------------
(***************************************************************************)
(* The versions of a workflow for any number of sessions and versions.     *)
(***************************************************************************)
EXTENDS WorkflowVersions, TLAPS

USE VersionsAssumption

----------------------------------------------------------------------------
(* The inductive invariant *)

\* What a request has read is a past state of the definition: its versions are still there,
\* and numbers have only grown.
Readings ==
    exists => \A s \in Sessions : request[s].op \in Operations =>
                  /\ request[s].seen.current \in DOMAIN versions
                  /\ request[s].target \in DOMAIN versions
                  /\ request[s].seen.latest <= definition.latest

\* The session is between saving a version as published and publishing it.
Publishing(s) == request[s].op = "saved" \/ (request[s].op = "publish" /\ request[s].mine)

\* Such a version is the session's, and no autosave has it for a draft.
OwnVersions ==
    exists => \A s \in Sessions : Publishing(s) =>
                  /\ request[s].target \in DOMAIN versions
                  /\ versions[request[s].target].content = s
                  /\ versions[request[s].target].status # "DRAFT"
                  /\ \A t \in Sessions : ~DecidedOnDraft(t, request[s].target)

WInv == TypeOK /\ OnePublished /\ VersionsAreDense /\ Readings /\ OwnVersions

----------------------------------------------------------------------------
(* Requests *)

\* The kinds of request are told apart by their operation.
LEMMA RequestKinds ==
    ASSUME TypeOK, NEW s \in Sessions
    PROVE  /\ request[s].op \in Operations => request[s] \in Reading
           /\ request[s].op = "saved" => request[s].target \in Numbers
<1>1. CASE request[s] \in Reading
  BY <1>1 DEF Reading, Operations
<1>2. CASE request[s] = Idle
  BY <1>2 DEF Idle, Operations
<1>3. ASSUME NEW n \in Numbers, request[s] = Saved(n)
      PROVE  request[s].op = "saved" /\ request[s].target = n
  BY <1>3 DEF Saved
<1> QED
  BY <1>1, <1>2, <1>3 DEF TypeOK, Operations

LEMMA InitWInv == Init => WInv
<1> SUFFICES ASSUME Init PROVE WInv
  OBVIOUS
<1>1. PICK status \in DefinitionStatus, t \in Sessions :
          /\ definition = [status |-> status, current |-> 1, latest |-> 1]
          /\ versions = [m \in {1} |->
                 [status |-> IF status = "ACTIVE" THEN "PUBLISHED" ELSE "DRAFT", content |-> t]]
  BY DEF Init
<1>2. DOMAIN versions = {1} /\ 1 \in Numbers /\ versions[1] \in Version
  BY <1>1 DEF Numbers, Version, VersionStatus
<1>3. TypeOK
  BY <1>1, <1>2 DEF Init, TypeOK, Rows, Numbers
<1>4. OnePublished /\ VersionsAreDense
  BY <1>1, <1>2 DEF Init, OnePublished, VersionsAreDense
<1>5. Readings /\ OwnVersions
  BY DEF Init, Readings, OwnVersions, Publishing, Idle, Operations
<1> QED
  BY <1>3, <1>4, <1>5 DEF WInv

\* A request that ends without a write.
LEMMA EndStep ==
    ASSUME WInv, NEW s \in Sessions, Reply(s), UNCHANGED <<exists, definition, versions>>
    PROVE  WInv'
<1> USE DEF WInv
<1>1. TypeOK'
  BY DEF TypeOK, Reply
<1>2. OnePublished' /\ VersionsAreDense'
  BY DEF OnePublished, VersionsAreDense
<1>3. \A t \in Sessions : request'[t] = request[t] \/ request'[t] = Idle
  BY DEF Reply, TypeOK
<1>4. Readings'
  BY <1>3 DEF Readings, Idle, Operations
<1>5. OwnVersions'
  BY <1>3 DEF OwnVersions, Publishing, DecidedOnDraft, Idle
<1> QED
  BY <1>1, <1>2, <1>4, <1>5

LEMMA ReadStep ==
    ASSUME WInv, NEW s \in Sessions, NEW op \in Operations, NEW n \in Numbers,
           NEW mine \in BOOLEAN, ReadDefinition(s, op, n, mine),
           mine => request[s].op = "saved" /\ n = request[s].target
    PROVE  WInv'
<1> USE DEF WInv
<1> DEFINE r == [op |-> op, seen |-> definition, target |-> n, mine |-> mine,
                 draft |-> versions[definition.current].status = "DRAFT"]
<1>1. /\ request' = [request EXCEPT ![s] = r]
      /\ UNCHANGED <<exists, definition, versions>>
      /\ exists /\ n \in DOMAIN versions
  BY DEF ReadDefinition
<1>2. r \in Reading
  BY DEF Reading, TypeOK
<1>3. TypeOK'
  BY <1>1, <1>2 DEF TypeOK
<1>4. OnePublished' /\ VersionsAreDense'
  BY <1>1 DEF OnePublished, VersionsAreDense
<1>5. \A t \in Sessions : t # s => request'[t] = request[t]
  BY <1>1 DEF TypeOK
<1>6. request'[s] = r
  BY <1>1 DEF TypeOK
<1>7. definition.latest <= definition.latest
  BY DEF TypeOK, Rows, Numbers
<1> HIDE DEF r
<1>8. r.seen = definition /\ r.op = op /\ r.target = n /\ r.mine = mine
      /\ r.draft = (versions[definition.current].status = "DRAFT")
  BY DEF r
<1>9. Readings'
  BY <1>1, <1>5, <1>6, <1>7, <1>8 DEF Readings, VersionsAreDense
<1>10. ASSUME NEW t \in Sessions, Publishing(t)'
       PROVE  /\ request[t].op = "saved" \/ Publishing(t)
              /\ request'[t].target = request[t].target
  <2>1. CASE t = s
    BY <1>6, <1>8, <1>10, <2>1 DEF Publishing, Operations
  <2>2. CASE t # s
    BY <1>5, <1>10, <2>2 DEF Publishing
  <2> QED
    BY <2>1, <2>2
<1>11. ASSUME NEW t \in Sessions, NEW m \in DOMAIN versions, versions[m].status # "DRAFT",
              ~DecidedOnDraft(t, m)
       PROVE  ~DecidedOnDraft(t, m)'
  <2>1. CASE t = s
    BY <1>6, <1>8, <1>11, <2>1 DEF DecidedOnDraft
  <2>2. CASE t # s
    BY <1>5, <1>11, <2>2 DEF DecidedOnDraft
  <2> QED
    BY <2>1, <2>2
<1>12. OwnVersions'
  BY <1>1, <1>10, <1>11 DEF OwnVersions, Publishing
<1> QED
  BY <1>3, <1>4, <1>9, <1>12

----------------------------------------------------------------------------
(* Transactions *)

\* The number a request counts on to is either taken or the next one.
LEMMA NextNumber ==
    ASSUME WInv, NEW s \in Sessions, exists, request[s].op \in Operations,
           ~VersionClash(request[s].seen.latest + 1)
    PROVE  /\ request[s].seen \in Rows
           /\ request[s].seen.latest = definition.latest
           /\ definition.latest \in Nat
<1>1. request[s].seen \in Rows /\ definition \in Rows
  BY RequestKinds DEF WInv, TypeOK, Reading
<1>2. /\ request[s].seen.latest \in Nat /\ definition.latest \in Nat
      /\ request[s].seen.latest >= 1
  BY <1>1 DEF Rows, Numbers
<1>3. request[s].seen.latest <= definition.latest /\ DOMAIN versions = 1..definition.latest
  BY DEF WInv, Readings, VersionsAreDense
<1>4. request[s].seen.latest + 1 \notin 1..definition.latest
  BY <1>3 DEF VersionClash
<1> QED
  BY <1>1, <1>2, <1>3, <1>4

\* A version inserted with the next number, whether the older ones keep their status or the
\* published ones are deprecated.
LEMMA InsertStep ==
    ASSUME WInv, NEW s \in Sessions, exists, request[s].op \in Operations,
           NEW n, n = request[s].seen.latest + 1, n \in Numbers, ~VersionClash(n),
           NEW status \in VersionStatus, NEW kept \in DefinitionStatus,
           UNCHANGED exists,
           definition' = [status |-> kept, current |-> n, latest |-> n],
           versions' = IF status = "PUBLISHED" THEN Deprecate(InsertVersion(n, status, s), n)
                                               ELSE InsertVersion(n, status, s),
           \/ Reply(s)
           \/ status = "PUBLISHED" /\ request' = [request EXCEPT ![s] = Saved(n)]
    PROVE  WInv'
<1> USE DEF WInv
<1>1. n = definition.latest + 1 /\ definition.latest \in Nat
  BY NextNumber
<1>2. DOMAIN versions' = DOMAIN versions \cup {n} /\ n \notin DOMAIN versions
  BY DEF Deprecate, InsertVersion, VersionClash
<1>3. versions'[n] = [status |-> status, content |-> s]
  BY <1>2 DEF Deprecate, InsertVersion
<1>4. \A m \in DOMAIN versions :
          /\ versions'[m].content = versions[m].content
          /\ versions[m].status # "DRAFT" => versions'[m].status # "DRAFT"
          /\ versions'[m].status = "PUBLISHED" => versions[m].status = "PUBLISHED"
                                                  /\ status # "PUBLISHED"
          /\ versions'[m] \in Version
  <2> SUFFICES ASSUME NEW m \in DOMAIN versions
               PROVE  /\ versions'[m].content = versions[m].content
                      /\ versions[m].status # "DRAFT" => versions'[m].status # "DRAFT"
                      /\ versions'[m].status = "PUBLISHED" => versions[m].status = "PUBLISHED"
                                                  /\ status # "PUBLISHED"
                      /\ versions'[m] \in Version
    OBVIOUS
  <2>1. m # n /\ versions[m] \in Version
    BY <1>2 DEF TypeOK
  <2>2. versions'[m] = IF status = "PUBLISHED" /\ versions[m].status = "PUBLISHED"
                       THEN [versions[m] EXCEPT !.status = "DEPRECATED"] ELSE versions[m]
    BY <1>2, <2>1 DEF Deprecate, InsertVersion
  <2> QED
    BY <2>1, <2>2 DEF Version, VersionStatus
<1>5. \A t \in Sessions : request'[t] = request[t] \/ request'[t] = Idle
                          \/ (t = s /\ status = "PUBLISHED" /\ request'[t] = Saved(n))
  BY DEF Reply, TypeOK
<1>6. versions' \in [DOMAIN versions' -> Version] /\ DOMAIN versions' \subseteq Numbers
  <2>1. versions'[n] \in Version
    BY <1>3 DEF Version
  <2>2. \A m \in DOMAIN versions' : versions'[m] \in Version
    BY <1>2, <1>4, <2>1
  <2>3. versions' = [m \in DOMAIN versions' |-> versions'[m]]
    BY <1>2 DEF Deprecate, InsertVersion
  <2> QED
    BY <1>2, <2>2, <2>3 DEF TypeOK
<1>7. TypeOK'
  <2>1. definition' \in Rows
    BY DEF Rows
  <2>2. request' \in [Sessions -> Reading \cup {Saved(m) : m \in Numbers} \cup {Idle}]
    BY DEF Reply, TypeOK
  <2> QED
    BY <1>6, <2>1, <2>2 DEF TypeOK
<1>8. OnePublished'
  <2> SUFFICES ASSUME NEW m \in DOMAIN versions', NEW k \in DOMAIN versions',
                      versions'[m].status = "PUBLISHED", versions'[k].status = "PUBLISHED"
               PROVE  m = k
    BY DEF OnePublished
  <2>1. CASE m = n /\ k = n
    BY <2>1
  <2>2. CASE m # n /\ k # n
    <3>1. m \in DOMAIN versions /\ k \in DOMAIN versions
      BY <1>2, <2>2
    <3>2. versions[m].status = "PUBLISHED" /\ versions[k].status = "PUBLISHED"
      BY <1>4, <3>1
    <3> QED
      BY <3>1, <3>2 DEF OnePublished
  <2>3. ASSUME NEW i \in DOMAIN versions', i # n, versions'[i].status = "PUBLISHED",
               versions'[n].status = "PUBLISHED"
        PROVE  FALSE
    <3>1. i \in DOMAIN versions
      BY <1>2, <2>3
    <3>2. status # "PUBLISHED"
      BY <1>4, <2>3, <3>1
    <3>3. status = "PUBLISHED"
      BY <1>3, <2>3
    <3> QED
      BY <3>2, <3>3
  <2> QED
    BY <2>1, <2>2, <2>3
<1>9. VersionsAreDense'
  <2>1. DOMAIN versions = 1..definition.latest
    BY DEF VersionsAreDense
  <2>2. DOMAIN versions' = 1..n
    <3>1. \A k \in Nat : 1..(k + 1) = (1..k) \cup {k + 1}
      OBVIOUS
    <3> QED
      BY <1>1, <1>2, <2>1, <3>1
  <2> QED
    BY <1>2, <2>2 DEF VersionsAreDense
<1>10. Readings'
  <2> SUFFICES ASSUME NEW t \in Sessions, request'[t].op \in Operations
               PROVE  /\ request'[t].seen.current \in DOMAIN versions'
                      /\ request'[t].target \in DOMAIN versions'
                      /\ request'[t].seen.latest <= definition'.latest
    BY DEF Readings
  <2>1. request'[t] = request[t]
    BY <1>5 DEF Idle, Saved, Operations
  <2>2. request[t].seen \in Rows /\ definition.latest \in Nat
    BY <2>1, <1>1, RequestKinds DEF Reading
  <2>3. request[t].seen.latest \in Nat /\ request[t].seen.latest <= definition.latest
    BY <2>1, <2>2 DEF Readings, Rows, Numbers
  <2>4. definition'.latest = definition.latest + 1
    BY <1>1
  <2>5. request[t].seen.current \in DOMAIN versions /\ request[t].target \in DOMAIN versions
    BY <2>1 DEF Readings
  <2> QED
    BY <1>1, <1>2, <2>1, <2>3, <2>4, <2>5
<1>11. OwnVersions'
  <2>1. ASSUME NEW t \in Sessions, NEW m \in DOMAIN versions', ~DecidedOnDraft(t, m) \/ m = n
        PROVE  ~DecidedOnDraft(t, m)'
    <3>1. CASE request'[t] = request[t] /\ m # n
      BY <2>1, <3>1 DEF DecidedOnDraft
    <3>2. CASE request'[t] = request[t] /\ m = n
      BY <1>2, <3>2 DEF DecidedOnDraft, Readings, Operations
    <3>3. CASE request'[t] # request[t]
      BY <1>5, <3>3 DEF DecidedOnDraft, Idle, Saved
    <3> QED
      BY <3>1, <3>2, <3>3
  <2> SUFFICES ASSUME NEW t \in Sessions, Publishing(t)'
               PROVE  /\ request'[t].target \in DOMAIN versions'
                      /\ versions'[request'[t].target].content = t
                      /\ versions'[request'[t].target].status # "DRAFT"
                      /\ \A u \in Sessions : ~DecidedOnDraft(u, request[t].target)'
    BY DEF OwnVersions
  <2>2. CASE request'[t] = request[t]
    <3>1. Publishing(t)
      BY <2>2 DEF Publishing
    <3>2. /\ request[t].target \in DOMAIN versions
          /\ versions[request[t].target].content = t
          /\ versions[request[t].target].status # "DRAFT"
          /\ \A u \in Sessions : ~DecidedOnDraft(u, request[t].target)
      BY <3>1 DEF OwnVersions
    <3> QED
      BY <1>2, <1>4, <2>1, <2>2, <3>2
  <2>3. CASE t = s /\ status = "PUBLISHED" /\ request'[t] = Saved(n)
    BY <1>2, <1>3, <2>1, <2>3 DEF Saved
  <2>4. CASE request'[t] = Idle
    BY <2>4 DEF Idle, Publishing
  <2> QED
    BY <1>5, <2>2, <2>3, <2>4
<1> QED
  BY <1>7, <1>8, <1>9, <1>10, <1>11

LEMMA OverwriteStep ==
    ASSUME WInv, NEW s \in Sessions, OverwriteDraft(s)
    PROVE  WInv'
<1> USE DEF WInv
<1> DEFINE c == request[s].seen.current
<1>1. request[s] \in Reading /\ request[s].op = "autosave" /\ request[s].draft /\ exists
  BY RequestKinds DEF OverwriteDraft, Doing, Operations
<1>2. c \in DOMAIN versions
  BY <1>1 DEF Readings, Operations
<1>3. /\ versions' = [versions EXCEPT ![c].content = s]
      /\ definition' = [definition EXCEPT !.status = AutosavedStatus(request[s].seen)]
      /\ request' = [request EXCEPT ![s] = Idle]
      /\ UNCHANGED exists
  BY DEF OverwriteDraft, Reply
<1> HIDE DEF c
<1>4. DOMAIN versions' = DOMAIN versions
      /\ \A m \in DOMAIN versions :
             /\ versions'[m].status = versions[m].status
             /\ m # c => versions'[m] = versions[m]
             /\ versions'[m] \in Version
  BY <1>2, <1>3 DEF TypeOK, Version
<1>5. definition'.latest = definition.latest /\ definition'.current = definition.current
      /\ definition' \in Rows
  BY <1>3 DEF TypeOK, Rows, AutosavedStatus, DefinitionStatus
<1>6. \A t \in Sessions : request'[t] = request[t] \/ request'[t] = Idle
  BY <1>3 DEF TypeOK
<1>7. TypeOK'
  <2>1. versions' \in [DOMAIN versions' -> Version]
    BY <1>2, <1>3, <1>4 DEF TypeOK, Version
  <2>2. request' \in [Sessions -> Reading \cup {Saved(n) : n \in Numbers} \cup {Idle}]
    BY <1>3 DEF TypeOK
  <2> QED
    BY <1>3, <1>4, <1>5, <2>1, <2>2 DEF TypeOK
<1>8. OnePublished' /\ VersionsAreDense'
  BY <1>3, <1>4, <1>5 DEF OnePublished, VersionsAreDense
<1>9. Readings'
  BY <1>3, <1>4, <1>5, <1>6 DEF Readings, Idle, Operations
<1>10. OwnVersions'
  <2> SUFFICES ASSUME NEW t \in Sessions, Publishing(t)'
               PROVE  /\ request'[t].target \in DOMAIN versions'
                      /\ versions'[request'[t].target].content = t
                      /\ versions'[request'[t].target].status # "DRAFT"
                      /\ \A u \in Sessions : ~DecidedOnDraft(u, request[t].target)'
    BY DEF OwnVersions
  <2>1. request'[t] = request[t] /\ Publishing(t)
    BY <1>6 DEF Publishing, Idle
  <2>2. /\ request[t].target \in DOMAIN versions
        /\ versions[request[t].target].content = t
        /\ versions[request[t].target].status # "DRAFT"
        /\ \A u \in Sessions : ~DecidedOnDraft(u, request[t].target)
    BY <1>1, <2>1 DEF OwnVersions
  <2>3. request[t].target # c
    BY <1>1, <2>2 DEF DecidedOnDraft, c
  <2> QED
    BY <1>4, <1>6, <2>1, <2>2, <2>3 DEF DecidedOnDraft, Idle
<1> QED
  BY <1>7, <1>8, <1>9, <1>10

LEMMA PublishStep ==
    ASSUME WInv, NEW s \in Sessions, Publish(s)
    PROVE  WInv'
<1> USE DEF WInv
<1> DEFINE n == request[s].target
<1>1. request[s] \in Reading /\ request[s].op = "publish" /\ exists
  BY RequestKinds DEF Publish, Doing, Operations
<1>2. n \in DOMAIN versions /\ n \in Numbers
  BY <1>1 DEF Readings, Operations, TypeOK
<1>3. /\ versions' = [Deprecate(versions, n) EXCEPT ![n].status = "PUBLISHED"]
      /\ definition' = [definition EXCEPT !.current = n, !.status = "ACTIVE"]
      /\ request' = [request EXCEPT ![s] = Idle]
      /\ UNCHANGED exists
  BY DEF Publish, Reply
<1> HIDE DEF n
<1>4. /\ DOMAIN versions' = DOMAIN versions
      /\ \A m \in DOMAIN versions :
             /\ versions'[m].content = versions[m].content
             /\ versions[m].status # "DRAFT" => versions'[m].status # "DRAFT"
             /\ versions'[m].status = "PUBLISHED" => m = n
             /\ versions'[m] \in Version
  <2>1. \A m \in DOMAIN versions : versions[m] \in Version
    BY DEF TypeOK
  <2> QED
    BY <1>2, <1>3, <2>1 DEF Deprecate, Version, VersionStatus
<1>5. definition'.latest = definition.latest /\ definition'.current = n /\ definition' \in Rows
  BY <1>2, <1>3 DEF TypeOK, Rows, DefinitionStatus
<1>6. \A t \in Sessions : request'[t] = request[t] \/ request'[t] = Idle
  BY <1>3 DEF TypeOK
<1>7. TypeOK'
  <2>1. versions' \in [DOMAIN versions' -> Version]
    <3>1. versions' = [m \in DOMAIN versions' |-> versions'[m]]
      BY <1>3 DEF Deprecate
    <3> QED
      BY <1>4, <3>1
  <2>2. request' \in [Sessions -> Reading \cup {Saved(m) : m \in Numbers} \cup {Idle}]
    BY <1>3 DEF TypeOK
  <2> QED
    BY <1>3, <1>4, <1>5, <2>1, <2>2 DEF TypeOK
<1>8. OnePublished' /\ VersionsAreDense'
  BY <1>1, <1>2, <1>3, <1>4, <1>5 DEF OnePublished, VersionsAreDense
<1>9. Readings'
  BY <1>3, <1>4, <1>5, <1>6 DEF Readings, Idle, Operations
<1>10. OwnVersions'
  <2> SUFFICES ASSUME NEW t \in Sessions, Publishing(t)'
               PROVE  /\ request'[t].target \in DOMAIN versions'
                      /\ versions'[request'[t].target].content = t
                      /\ versions'[request'[t].target].status # "DRAFT"
                      /\ \A u \in Sessions : ~DecidedOnDraft(u, request[t].target)'
    BY <1>6 DEF OwnVersions, Publishing, Idle
  <2>1. request'[t] = request[t] /\ Publishing(t)
    BY <1>6 DEF Publishing, Idle
  <2>2. /\ request[t].target \in DOMAIN versions
        /\ versions[request[t].target].content = t
        /\ versions[request[t].target].status # "DRAFT"
        /\ \A u \in Sessions : ~DecidedOnDraft(u, request[t].target)
    BY <1>1, <2>1 DEF OwnVersions
  <2>3. \A u \in Sessions : ~DecidedOnDraft(u, request[t].target)'
    BY <1>6, <2>1, <2>2 DEF DecidedOnDraft, Idle
  <2> QED
    BY <1>4, <2>1, <2>2, <2>3
<1> QED
  BY <1>7, <1>8, <1>9, <1>10

LEMMA UpdateStep ==
    ASSUME WInv, NEW s \in Sessions, NEW status \in DefinitionStatus, Update(s, status)
    PROVE  WInv'
<1> USE DEF WInv
<1>1. /\ definition' = [definition EXCEPT !.status = status]
      /\ request' = [request EXCEPT ![s] = Idle]
      /\ UNCHANGED <<exists, versions>>
  BY DEF Update, Reply
<1>2. definition'.latest = definition.latest /\ definition'.current = definition.current
      /\ definition' \in Rows
  BY <1>1 DEF TypeOK, Rows
<1>3. \A t \in Sessions : request'[t] = request[t] \/ request'[t] = Idle
  BY <1>1 DEF TypeOK
<1>4. TypeOK'
  BY <1>1, <1>2 DEF TypeOK
<1>5. OnePublished' /\ VersionsAreDense'
  BY <1>1, <1>2 DEF OnePublished, VersionsAreDense
<1>6. Readings'
  BY <1>1, <1>2, <1>3 DEF Readings, Idle, Operations
<1>7. OwnVersions'
  BY <1>1, <1>3 DEF OwnVersions, Publishing, DecidedOnDraft, Idle
<1> QED
  BY <1>4, <1>5, <1>6, <1>7

LEMMA DeleteStep ==
    ASSUME WInv, NEW s \in Sessions, Delete(s)
    PROVE  WInv'
<1> USE DEF WInv
<1>1. /\ exists' = FALSE
      /\ versions' = [n \in {} |-> versions[n]]
      /\ request' = [request EXCEPT ![s] = Idle]
      /\ UNCHANGED definition
  BY DEF Delete, Reply
<1>2. TypeOK'
  BY <1>1 DEF TypeOK
<1>3. OnePublished' /\ VersionsAreDense'
  BY <1>1 DEF OnePublished, VersionsAreDense
<1>4. Readings' /\ OwnVersions'
  BY <1>1 DEF Readings, OwnVersions
<1> QED
  BY <1>2, <1>3, <1>4

\* Every step, operation by operation.
LEMMA NextWInv == WInv /\ [Next]_vars => WInv'
<1> SUFFICES ASSUME WInv, [Next]_vars PROVE WInv'
  OBVIOUS
<1>1. CASE UNCHANGED vars
  BY <1>1 DEF vars, WInv, TypeOK, OnePublished, VersionsAreDense, Readings, OwnVersions,
              Publishing, DecidedOnDraft
<1>2. ASSUME NEW s \in Sessions, NEW op \in Operations, Start(s, op) PROVE WInv'
  BY <1>2, ReadStep DEF Start
<1>3. ASSUME NEW s \in Sessions, PublishSaved(s) PROVE WInv'
  <2>1. request[s].op = "saved" /\ request[s].target \in Numbers
    BY <1>3, RequestKinds DEF PublishSaved, WInv
  <2> QED
    BY <1>3, <2>1, ReadStep DEF PublishSaved, Operations
<1>4. ASSUME NEW s \in Sessions, Leave(s) PROVE WInv'
  BY <1>4, EndStep DEF Leave, Reply
<1>5. ASSUME NEW s \in Sessions, NEW status \in VersionStatus, CreateVersion(s, status)
      PROVE  WInv'
  <2> DEFINE seen == request[s].seen
             n == seen.latest + 1
             kept == IF status = "PUBLISHED" THEN "ACTIVE" ELSE seen.status
  <2>1. exists /\ request[s].op \in Operations /\ n \in Numbers /\ ~VersionClash(n)
    BY <1>5 DEF CreateVersion, Doing, Operations
  <2>2. kept \in DefinitionStatus
    BY <2>1, NextNumber DEF Rows, DefinitionStatus
  <2>3. /\ UNCHANGED exists
        /\ definition' = [status |-> kept, current |-> n, latest |-> n]
        /\ versions' = IF status = "PUBLISHED" THEN Deprecate(InsertVersion(n, status, s), n)
                                               ELSE InsertVersion(n, status, s)
        /\ \/ Reply(s)
           \/ status = "PUBLISHED" /\ request' = [request EXCEPT ![s] = Saved(n)]
    BY <1>5 DEF CreateVersion
  <2> QED
    BY <2>1, <2>2, <2>3, InsertStep
<1>6. ASSUME NEW s \in Sessions, OverwriteDraft(s) PROVE WInv'
  BY <1>6, OverwriteStep
<1>7. ASSUME NEW s \in Sessions, InsertDraft(s) PROVE WInv'
  <2> DEFINE n == request[s].seen.latest + 1
             kept == AutosavedStatus(request[s].seen)
  <2>1. exists /\ request[s].op \in Operations /\ n \in Numbers /\ ~VersionClash(n)
    BY <1>7 DEF InsertDraft, Doing, Operations
  <2>2. kept \in DefinitionStatus /\ "DRAFT" \in VersionStatus
    BY DEF AutosavedStatus, DefinitionStatus, VersionStatus
  <2>3. /\ UNCHANGED exists
        /\ definition' = [status |-> kept, current |-> n, latest |-> n]
        /\ versions' = InsertVersion(n, "DRAFT", s)
        /\ Reply(s)
    BY <1>7 DEF InsertDraft
  <2> QED
    BY <2>1, <2>2, <2>3, InsertStep
<1>8. ASSUME NEW s \in Sessions, Publish(s) PROVE WInv'
  BY <1>8, PublishStep
<1>9. ASSUME NEW s \in Sessions, NEW status \in DefinitionStatus, Update(s, status) PROVE WInv'
  BY <1>9, UpdateStep
<1>10. ASSUME NEW s \in Sessions, Delete(s) PROVE WInv'
  BY <1>10, DeleteStep
<1>11. ASSUME NEW s \in Sessions, Fail(s) PROVE WInv'
  BY <1>11, EndStep DEF Fail
<1> QED
  BY <1>1, <1>2, <1>3, <1>4, <1>5, <1>6, <1>7, <1>8, <1>9, <1>10, <1>11 DEF Next

\* Every reachable state satisfies the inductive invariant.
THEOREM WorkflowInvariant == Spec => []WInv
<1> QED
  BY InitWInv, NextWInv, PTL DEF Spec

----------------------------------------------------------------------------
(* What follows from it *)

\* The rows and requests have their types, for any number of sessions and versions.
THEOREM VersionsTypeCorrect == Spec => []TypeOK
<1>1. WInv => TypeOK
  BY DEF WInv
<1> QED
  BY <1>1, WorkflowInvariant, PTL

\* However many sessions publish at once, at most one version is published.
THEOREM AtMostOnePublished == Spec => []OnePublished
<1>1. WInv => OnePublished
  BY DEF WInv
<1> QED
  BY <1>1, WorkflowInvariant, PTL

\* Version numbers are given out once and without gaps, and a deleted workflow leaves none.
THEOREM NumbersAreDense == Spec => []VersionsAreDense
<1>1. WInv => VersionsAreDense
  BY DEF WInv
<1> QED
  BY <1>1, WorkflowInvariant, PTL

\* Only OverwriteDraft writes a version that was there before.
LEMMA WhoAltersContent ==
    ASSUME WInv, Next, NEW n \in DOMAIN versions, n \in DOMAIN versions',
           versions'[n].content # versions[n].content
    PROVE  \E s \in Sessions : OverwriteDraft(s) /\ request[s].seen.current = n
<1>1. versions[n] \in Version
  BY DEF WInv, TypeOK
<1>2. ASSUME NEW s \in Sessions, NEW status \in VersionStatus, CreateVersion(s, status)
      PROVE  FALSE
  <2> DEFINE m == request[s].seen.latest + 1
  <2>1. m \notin DOMAIN versions
    BY <1>2 DEF CreateVersion, VersionClash
  <2>2. versions' = IF status = "PUBLISHED" THEN Deprecate(InsertVersion(m, status, s), m)
                                            ELSE InsertVersion(m, status, s)
    BY <1>2 DEF CreateVersion
  <2> HIDE DEF m
  <2> QED
    BY <1>1, <2>1, <2>2 DEF Deprecate, InsertVersion, Version
<1>3. ASSUME NEW s \in Sessions, InsertDraft(s) PROVE FALSE
  <2> DEFINE m == request[s].seen.latest + 1
  <2>1. m \notin DOMAIN versions /\ versions' = InsertVersion(m, "DRAFT", s)
    BY <1>3 DEF InsertDraft, VersionClash
  <2> HIDE DEF m
  <2> QED
    BY <1>1, <2>1 DEF InsertVersion
<1>4. ASSUME NEW s \in Sessions, Publish(s) PROVE FALSE
  <2> DEFINE m == request[s].target
  <2>1. versions' = [Deprecate(versions, m) EXCEPT ![m].status = "PUBLISHED"]
    BY <1>4 DEF Publish
  <2> HIDE DEF m
  <2> QED
    BY <1>1, <2>1 DEF Deprecate, Version
<1>5. ASSUME NEW s \in Sessions, OverwriteDraft(s) PROVE request[s].seen.current = n
  BY <1>1, <1>5 DEF OverwriteDraft
<1>6. ASSUME NEW s \in Sessions, Delete(s) PROVE FALSE
  BY <1>6 DEF Delete
<1>7. versions' # versions
  OBVIOUS
<1> QED
  BY <1>2, <1>3, <1>4, <1>5, <1>6, <1>7
     DEF Next, Start, PublishSaved, ReadDefinition, Leave, Update, Fail

\* A released version is altered by nothing but an autosave that took it for a draft.
THEOREM ReleasesAreStable == Spec => ReleaseAlteredOnlyByStaleAutosave
<1>1. ASSUME WInv, [Next]_vars, NEW n \in DOMAIN versions, n \in DOMAIN versions',
             versions'[n].content # versions[n].content
      PROVE  \E s \in Sessions : DecidedOnDraft(s, n) /\ request'[s] = Idle
  <2>1. Next
    BY <1>1 DEF vars
  <2>2. PICK s \in Sessions : OverwriteDraft(s) /\ request[s].seen.current = n
    BY <1>1, <2>1, WhoAltersContent
  <2>3. request'[s] = Idle
    BY <1>1, <2>2 DEF OverwriteDraft, Reply, WInv, TypeOK
  <2> QED
    BY <2>2, <2>3 DEF OverwriteDraft, Doing, DecidedOnDraft
<1>2. WInv /\ [Next]_vars =>
          [\A n \in DOMAIN versions \cap DOMAIN versions' :
               versions[n].status # "DRAFT" /\ versions'[n].content # versions[n].content
                   => \E s \in Sessions : DecidedOnDraft(s, n) /\ request'[s] = Idle]_vars
  BY <1>1
<1> QED
  BY <1>2, WorkflowInvariant, PTL DEF Spec, ReleaseAlteredOnlyByStaleAutosave

\* A step that ends a request of s is a step of s.
LEMMA WhoEndsRequest ==
    ASSUME WInv, Next, NEW s \in Sessions, request[s].op = "publish", request'[s] = Idle
    PROVE  Publish(s) \/ Fail(s)
<1>1. request[s] # Idle
  BY DEF Idle
<1>2. \A r : \A t \in Sessions : t # s /\ request' = [request EXCEPT ![t] = r] => request'[s] # Idle
  BY <1>1 DEF WInv, TypeOK
<1>3. ASSUME NEW t \in Sessions, NEW op \in Operations, Start(t, op) PROVE FALSE
  <2>1. t # s
    BY <1>1, <1>3 DEF Start
  <2> QED
    BY <1>2, <1>3, <2>1 DEF Start, ReadDefinition
<1>4. ASSUME NEW t \in Sessions, PublishSaved(t) \/ Leave(t) PROVE FALSE
  <2>1. t # s
    BY <1>4 DEF PublishSaved, Leave
  <2> QED
    BY <1>2, <1>4, <2>1 DEF PublishSaved, Leave, ReadDefinition
<1>5. ASSUME NEW t \in Sessions, NEW status, CreateVersion(t, status) PROVE FALSE
  <2>1. t # s
    BY <1>5 DEF CreateVersion, Doing
  <2> QED
    BY <1>2, <1>5, <2>1 DEF CreateVersion, Reply
<1>6. ASSUME NEW t \in Sessions, OverwriteDraft(t) \/ InsertDraft(t) \/ Delete(t) PROVE FALSE
  <2>1. t # s
    BY <1>6 DEF OverwriteDraft, InsertDraft, Delete, Doing
  <2> QED
    BY <1>2, <1>6, <2>1 DEF OverwriteDraft, InsertDraft, Delete, Reply
<1>7. ASSUME NEW t \in Sessions, NEW status, Update(t, status) PROVE FALSE
  <2>1. t # s
    BY <1>7 DEF Update, Doing
  <2> QED
    BY <1>2, <1>7, <2>1 DEF Update, Reply
<1>8. ASSUME NEW t \in Sessions, Publish(t) \/ Fail(t) PROVE t = s
  BY <1>2, <1>8 DEF Publish, Fail, Reply
<1> QED
  BY <1>3, <1>4, <1>5, <1>6, <1>7, <1>8 DEF Next

\* What "save and publish" publishes is what its session saved.
THEOREM SavedIsPublished == Spec => PublishesWhatItSaved
<1>1. ASSUME WInv, [Next]_vars, NEW s \in Sessions, request[s].op = "publish", request[s].mine,
             request'[s] = Idle, versions' # versions, exists'
      PROVE  versions'[request[s].target] = [status |-> "PUBLISHED", content |-> s]
  <2> DEFINE n == request[s].target
  <2>1. Next
    BY <1>1 DEF vars
  <2>2. Publish(s)
    BY <1>1, <2>1, WhoEndsRequest DEF Fail
  <2>3. n \in DOMAIN versions /\ versions[n].content = s /\ versions[n] \in Version
    BY <1>1, <2>2 DEF Publish, Doing, WInv, OwnVersions, Publishing, TypeOK
  <2>4. versions' = [Deprecate(versions, n) EXCEPT ![n].status = "PUBLISHED"]
    BY <2>2 DEF Publish
  <2> HIDE DEF n
  <2>5. versions'[n] = [versions[n] EXCEPT !.status = "PUBLISHED"]
    BY <2>3, <2>4 DEF Deprecate
  <2>6. versions'[n] = [status |-> "PUBLISHED", content |-> s]
    BY <2>3, <2>5 DEF Version
  <2> QED
    BY <2>6 DEF n
<1>2. WInv /\ [Next]_vars =>
          [\A s \in Sessions :
               request[s].op = "publish" /\ request[s].mine /\ request'[s] = Idle
                   /\ versions' # versions /\ exists'
                   => versions'[request[s].target]
                          = [status |-> "PUBLISHED", content |-> s]]_vars
  BY <1>1
<1> QED
  BY <1>2, WorkflowInvariant, PTL DEF Spec, PublishesWhatItSaved

\* An active workflow with a published version is taken back by nothing but an update of its
\* status or a late autosave.
THEOREM ActiveIsKept == Spec => ActiveIsLostOnlyToStaleAutosave
<1> DEFINE Lost == definition.status = "ACTIVE" /\ definition'.status # "ACTIVE"
                   /\ exists' /\ versions'[definition'.current].status = "PUBLISHED"
           Cause == \E s \in Sessions :
                        /\ request'[s] = Idle
                        /\ \/ request[s].op = "update"
                           \/ \E n \in DOMAIN versions :
                                  /\ DecidedOnDraft(s, n)
                                  /\ definition.current # n \/ versions[n].status # "DRAFT"
<1>1. ASSUME WInv, [Next]_vars, Lost PROVE Cause
  <2>1. Next /\ definition' # definition
    BY <1>1 DEF vars
  <2>2. ASSUME NEW s \in Sessions, NEW status \in VersionStatus, CreateVersion(s, status)
        PROVE  FALSE
    <3> DEFINE m == request[s].seen.latest + 1
    <3>1. definition'.current = m /\ status # "PUBLISHED"
      BY <1>1, <2>2 DEF CreateVersion
    <3>2. versions' = InsertVersion(m, status, s)
      BY <2>2, <3>1 DEF CreateVersion
    <3> HIDE DEF m
    <3>3. versions'[m].status = status
      BY <3>2 DEF InsertVersion
    <3> QED
      BY <1>1, <3>1, <3>3
  <2>3. ASSUME NEW s \in Sessions, InsertDraft(s) PROVE FALSE
    <3> DEFINE m == request[s].seen.latest + 1
    <3>1. definition'.current = m /\ versions' = InsertVersion(m, "DRAFT", s)
      BY <2>3 DEF InsertDraft
    <3> HIDE DEF m
    <3>2. versions'[m].status = "DRAFT"
      BY <3>1 DEF InsertVersion
    <3> QED
      BY <1>1, <3>1, <3>2
  <2>4. ASSUME NEW s \in Sessions, Publish(s) PROVE FALSE
    BY <1>1, <2>4 DEF Publish, WInv, TypeOK, Rows
  <2>5. ASSUME NEW s \in Sessions, NEW status \in DefinitionStatus, Update(s, status) PROVE Cause
    BY <1>1, <2>5 DEF Update, Doing, Reply, WInv, TypeOK
  <2>6. ASSUME NEW s \in Sessions, OverwriteDraft(s) PROVE Cause
    <3> DEFINE n == request[s].seen.current
    <3>1. request'[s] = Idle /\ DecidedOnDraft(s, n)
      BY <1>1, <2>6 DEF OverwriteDraft, Doing, Reply, DecidedOnDraft, WInv, TypeOK
    <3>2. n \in DOMAIN versions
      BY <1>1, <2>6 DEF OverwriteDraft, Doing, WInv, Readings, Operations
    <3>3. /\ versions' = [versions EXCEPT ![n].content = s]
          /\ definition'.current = definition.current
      BY <1>1, <2>6 DEF OverwriteDraft, WInv, TypeOK, Rows
    <3> HIDE DEF n
    <3>4. definition.current = n => versions[n].status # "DRAFT"
      BY <1>1, <3>2, <3>3 DEF WInv, TypeOK, Version
    <3> QED
      BY <3>1, <3>2, <3>4
  <2> QED
    BY <2>1, <2>2, <2>3, <2>4, <2>5, <2>6
       DEF Next, Start, PublishSaved, ReadDefinition, Leave, Delete, Fail
<1>2. WInv /\ [Next]_vars => [Lost => Cause]_vars
  BY <1>1
<1> QED
  BY <1>2, WorkflowInvariant, PTL DEF Spec, ActiveIsLostOnlyToStaleAutosave
=============================================================================
