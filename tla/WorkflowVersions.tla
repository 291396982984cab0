-------------------------- MODULE WorkflowVersions --------------------------
(***************************************************************************)
(* The versions of one workflow definition: create, save a version,        *)
(* autosave, publish, update and delete, each of them a request that reads *)
(* the definition, and then writes it and its versions in a transaction    *)
(* without reading again what it decides on.                               *)
(*                                                                         *)
(* A transaction is one step.  Its statements are blind writes that end    *)
(* with the row of the definition, and the scan for PUBLISHED rows locks   *)
(* the range it scans, so that MySQL orders conflicting transactions or    *)
(* rolls one of them back; a rolled back transaction is Fail.  A version   *)
(* is known by its number; its content is the session that wrote it.       *)
(***************************************************************************)
EXTENDS Integers

CONSTANTS
    Sessions,     \* editors: browser tabs and API clients of the owner
    MaxVersions   \* bound: version numbers

ASSUME VersionsAssumption == MaxVersions \in Nat \ {0}

VARIABLES
    exists,       \* the definition has not been deleted
    definition,   \* its row: status, current version, latestVersionNo
    versions,     \* its version rows, by number
    request       \* what each session is doing, and what its request has read

vars == <<exists, definition, versions, request>>

DefinitionStatus == {"DRAFT", "ACTIVE", "ARCHIVED"}
VersionStatus    == {"DRAFT", "PUBLISHED", "DEPRECATED"}
Numbers          == 1..MaxVersions
Operations       == {"version", "autosave", "publish", "update", "delete"}

Rows    == [status : DefinitionStatus, current : Numbers, latest : Numbers]
Version == [status : VersionStatus, content : Sessions]

\* The row a request has read, whether its current version was a draft then, and the version
\* it will publish; "mine" when the session publishes the version it has just saved.
Reading == [op : Operations, seen : Rows, draft : BOOLEAN, target : Numbers, mine : BOOLEAN]

\* A version created by the first half of "save and publish", the publication still to come.
Idle     == [op |-> "none"]
Saved(n) == [op |-> "saved", target |-> n]

TypeOK ==
    /\ exists \in BOOLEAN
    /\ definition \in Rows
    /\ DOMAIN versions \subseteq Numbers
    /\ versions \in [DOMAIN versions -> Version]
    /\ request \in [Sessions -> Reading \cup {Saved(n) : n \in Numbers} \cup {Idle}]

-----------------------------------------------------------------------------
(* What the transactions write.                                             *)

\* The unique index on workflow and version number.
VersionClash(n) == n \in DOMAIN versions

InsertVersion(n, status, s) ==
    [m \in DOMAIN versions \cup {n} |->
        IF m = n THEN [status |-> status, content |-> s] ELSE versions[m]]

\* Mutant: only earlier versions are deprecated.
Deprecate_Older(rows, n) ==
    [m \in DOMAIN rows |->
        IF m < n /\ rows[m].status = "PUBLISHED"
        THEN [rows[m] EXCEPT !.status = "DEPRECATED"] ELSE rows[m]]

\* updateMany: every other published version becomes deprecated.
Deprecate(rows, n) ==
    [m \in DOMAIN rows |->
        IF m # n /\ rows[m].status = "PUBLISHED"
        THEN [rows[m] EXCEPT !.status = "DEPRECATED"] ELSE rows[m]]

\* An autosave leaves an archived workflow archived and makes any other a draft.
AutosavedStatus(seen) == IF seen.status = "ARCHIVED" THEN "ARCHIVED" ELSE "DRAFT"

-----------------------------------------------------------------------------
(* createWorkflowDefinition: the definition and its version 1, which is     *)
(* published at once when the definition is created active.                 *)

Init ==
    /\ exists = TRUE
    /\ \E status \in DefinitionStatus, s \in Sessions :
        /\ definition = [status |-> status, current |-> 1, latest |-> 1]
        /\ versions = [m \in {1} |->
               [status |-> IF status = "ACTIVE" THEN "PUBLISHED" ELSE "DRAFT", content |-> s]]
    /\ request = [s \in Sessions |-> Idle]

(* Every operation first reads the definition; publishing also looks its    *)
(* target up.                                                               *)
ReadDefinition(s, op, target, mine) ==
    /\ exists
    /\ target \in DOMAIN versions
    /\ request' = [request EXCEPT ![s] =
           [op |-> op, seen |-> definition, target |-> target, mine |-> mine,
            draft |-> versions[definition.current].status = "DRAFT"]]
    /\ UNCHANGED <<exists, definition, versions>>

Start(s, op) ==
    /\ request[s] = Idle
    /\ \E target \in Numbers :
        /\ op # "publish" => target = definition.current
        /\ ReadDefinition(s, op, target, FALSE)

\* The second half of "save and publish" in the editor.
PublishSaved(s) ==
    /\ request[s].op = "saved"
    /\ ReadDefinition(s, "publish", request[s].target, TRUE)

\* The tab is closed, or the request was a plain save.
Leave(s) ==
    /\ request[s].op = "saved"
    /\ request' = [request EXCEPT ![s] = Idle]
    /\ UNCHANGED <<exists, definition, versions>>

Reply(s) == request' = [request EXCEPT ![s] = Idle]

Doing(s, op) == exists /\ request[s].op = op

\* Mutant: the version is saved as a draft, to be published by the second request.
CreateVersion_AsDraft(s, status) ==
    LET seen == request[s].seen
        n == seen.latest + 1
    IN /\ Doing(s, "version")
       /\ n \in Numbers
       /\ ~VersionClash(n)
       /\ versions' = InsertVersion(n, "DRAFT", s)
       /\ definition' = [status |-> seen.status, current |-> n, latest |-> n]
       /\ IF status = "PUBLISHED"
          THEN request' = [request EXCEPT ![s] = Saved(n)]
          ELSE Reply(s)
       /\ UNCHANGED exists

CreateVersion(s, status) ==
    LET seen == request[s].seen
        n == seen.latest + 1
        rows == InsertVersion(n, status, s)
    IN /\ Doing(s, "version")
       /\ n \in Numbers
       /\ ~VersionClash(n)
       /\ versions' = IF status = "PUBLISHED" THEN Deprecate(rows, n) ELSE rows
       /\ definition' =
              [status |-> IF status = "PUBLISHED" THEN "ACTIVE" ELSE seen.status,
               current |-> n, latest |-> n]
       /\ IF status = "PUBLISHED"
          THEN request' = [request EXCEPT ![s] = Saved(n)]
          ELSE Reply(s)
       /\ UNCHANGED exists

\* Mutant: the current version is overwritten whatever its status.
OverwriteDraft_Any(s) ==
    LET seen == request[s].seen
    IN /\ Doing(s, "autosave")
       /\ versions' = [versions EXCEPT ![seen.current].content = s]
       /\ definition' = [definition EXCEPT !.status = AutosavedStatus(seen)]
       /\ Reply(s)
       /\ UNCHANGED exists

\* The draft seen as current is overwritten, whatever it is by now.
OverwriteDraft(s) ==
    LET seen == request[s].seen
    IN /\ Doing(s, "autosave")
       /\ request[s].draft
       /\ versions' = [versions EXCEPT ![seen.current].content = s]
       /\ definition' = [definition EXCEPT !.status = AutosavedStatus(seen)]
       /\ Reply(s)
       /\ UNCHANGED exists

\* Mutant: latestVersionNo is not advanced.
InsertDraft_KeepsLatest(s) ==
    LET seen == request[s].seen
        n == seen.latest + 1
    IN /\ Doing(s, "autosave")
       /\ ~request[s].draft
       /\ n \in Numbers
       /\ ~VersionClash(n)
       /\ versions' = InsertVersion(n, "DRAFT", s)
       /\ definition' = [definition EXCEPT !.status = AutosavedStatus(seen), !.current = n]
       /\ Reply(s)
       /\ UNCHANGED exists

\* Mutant: the new draft does not become the current version.
InsertDraft_KeepsCurrent(s) ==
    LET seen == request[s].seen
        n == seen.latest + 1
    IN /\ Doing(s, "autosave")
       /\ ~request[s].draft
       /\ n \in Numbers
       /\ ~VersionClash(n)
       /\ versions' = InsertVersion(n, "DRAFT", s)
       /\ definition' = [definition EXCEPT !.status = AutosavedStatus(seen), !.latest = n]
       /\ Reply(s)
       /\ UNCHANGED exists

InsertDraft(s) ==
    LET seen == request[s].seen
        n == seen.latest + 1
    IN /\ Doing(s, "autosave")
       /\ ~request[s].draft
       /\ n \in Numbers
       /\ ~VersionClash(n)
       /\ versions' = InsertVersion(n, "DRAFT", s)
       /\ definition' = [status |-> AutosavedStatus(seen), current |-> n, latest |-> n]
       /\ Reply(s)
       /\ UNCHANGED exists

Publish(s) ==
    LET n == request[s].target
    IN /\ Doing(s, "publish")
       /\ versions' = [Deprecate(versions, n) EXCEPT ![n].status = "PUBLISHED"]
       /\ definition' = [definition EXCEPT !.current = n, !.status = "ACTIVE"]
       /\ Reply(s)
       /\ UNCHANGED exists

Update(s, status) ==
    /\ Doing(s, "update")
    /\ definition' = [definition EXCEPT !.status = status]
    /\ Reply(s)
    /\ UNCHANGED <<exists, versions>>

\* The versions go with their definition.
Delete(s) ==
    /\ Doing(s, "delete")
    /\ exists' = FALSE
    /\ versions' = [n \in {} |-> versions[n]]
    /\ Reply(s)
    /\ UNCHANGED definition

\* Deleted meanwhile, a number taken by another request, a deadlock, a lost connection.
Fail(s) ==
    /\ request[s].op \in Operations
    /\ Reply(s)
    /\ UNCHANGED <<exists, definition, versions>>

Next ==
    \E s \in Sessions :
        \/ \E op \in Operations : Start(s, op)
        \/ PublishSaved(s)
        \/ Leave(s)
        \/ \E status \in VersionStatus : CreateVersion(s, status)
        \/ OverwriteDraft(s)
        \/ InsertDraft(s)
        \/ Publish(s)
        \/ \E status \in DefinitionStatus : Update(s, status)
        \/ Delete(s)
        \/ Fail(s)

Spec == Init /\ [][Next]_vars

-----------------------------------------------------------------------------
(* Properties.                                                              *)

\* However publications race, at most one version of the workflow is published.
OnePublished ==
    \A m, n \in DOMAIN versions :
        versions[m].status = "PUBLISHED" /\ versions[n].status = "PUBLISHED" => m = n

\* Numbers are given out once and without gaps although each request counts on from the
\* number it read: latestVersionNo is the number of versions, and the current version is one
\* of them.  Nothing is left of a deleted workflow.
VersionsAreDense ==
    /\ DOMAIN versions = IF exists THEN 1..definition.latest ELSE {}
    /\ exists => definition.current \in DOMAIN versions

\* s holds an autosave decided while version n was a draft.
DecidedOnDraft(s, n) ==
    request[s].op = "autosave" /\ request[s].draft /\ request[s].seen.current = n

\* The content of a version that has left the draft state is altered only by an autosave that
\* read it before it was released: every other save makes a version of its own.
ReleaseAlteredOnlyByStaleAutosave ==
    [][\A n \in DOMAIN versions \cap DOMAIN versions' :
           versions[n].status # "DRAFT" /\ versions'[n].content # versions[n].content
               => \E s \in Sessions : DecidedOnDraft(s, n) /\ request'[s] = Idle]_vars

\* "Save and publish" publishes what the session saved, whatever other sessions did between
\* its two requests.
PublishesWhatItSaved ==
    [][\A s \in Sessions :
           request[s].op = "publish" /\ request[s].mine /\ request'[s] = Idle
               /\ versions' # versions /\ exists'
               => versions'[request[s].target] = [status |-> "PUBLISHED", content |-> s]]_vars

\* A workflow whose current version is published stays active, unless its status is updated
\* by hand or an autosave comes late: one that read, as a draft, a version that has since
\* been released or is no longer the current one.
ActiveIsLostOnlyToStaleAutosave ==
    [][definition.status = "ACTIVE" /\ definition'.status # "ACTIVE"
           /\ exists' /\ versions'[definition'.current].status = "PUBLISHED"
           => \E s \in Sessions :
                  /\ request'[s] = Idle
                  /\ \/ request[s].op = "update"
                     \/ \E n \in DOMAIN versions :
                            /\ DecidedOnDraft(s, n)
                            /\ definition.current # n \/ versions[n].status # "DRAFT"]_vars
=============================================================================
