------------------------- MODULE PaymentOrderProofs -------------------------
(***************************************************************************)
(* Paid orders for any number of orders, handlers, levels and payloads,    *)
(* any number of attempts and any number of faults.                        *)
(***************************************************************************)
EXTENDS PaymentOrder, TLAPS

USE PaymentAssumption

----------------------------------------------------------------------------
(* The inductive invariant *)

Bought(s, o) == s.status[o] = "BENEFIT_GRANTED"
VerifiedIn(s, o) == {p \in s.payments : p.order = o /\ p.status = "VERIFIED"}

\* What holds of the committed rows holds of every snapshot, because a snapshot was
\* committed once.
Sound(s) ==
    /\ \A o \in Orders :
         /\ ~Bought(s, o) => s.grants[o] = <<>> /\ s.credits[o] = 0 /\ VerifiedIn(s, o) = {}
         /\ Bought(s, o) => /\ Len(s.grants[o]) = 1
                            /\ s.credits[o] = IF PaysPoints(o) THEN 1 ELSE 0
                            /\ \E p \in s.payments : VerifiedIn(s, o) = {p} /\ p.event = s.grants[o][1]
    /\ \A p \in s.payments : /\ p.status # "REJECTED"
                             /\ (p.status = "INTENT_CREATED") <=> (p.event = IntentKey)

\* Whoever works on an order has seen it, and the row of an order has one owner.
Owned ==
    /\ \A w \in Handlers : pc[w] # "idle" => status[Of(w)] # "none"
    /\ \A v, w \in Handlers : v # w /\ pc[v] = "locked" /\ pc[w] = "locked" => Of(v) # Of(w)

\* An intent or a local confirmation has read the order after it locked its row.
Current ==
    \A w \in Handlers : pc[w] = "locked" /\ load[w].op # "webhook" =>
        snap[w].status[Of(w)] = status[Of(w)]

\* Only a webhook waits for the row with a snapshot.
Waiting == \A w \in Handlers : pc[w] = "read" => load[w].op = "webhook"

PInv == TypeOK /\ Sound(Committed) /\ (\A w \in Handlers : Sound(snap[w])) /\ Owned /\ Current /\ Waiting

LEMMA BlankIsSound == Blank \in Rows /\ Sound(Blank)
BY DEF Blank, Rows, Sound, Bought, VerifiedIn

LEMMA InitPInv == Init => PInv
<1> SUFFICES ASSUME Init PROVE PInv
  OBVIOUS
<1>1. subs \in [Levels -> [status : {"none", "ACTIVE", "EXPIRED"}, end : Nat]]
  <2>1. Blank.subs \in [Levels -> [status : {"none", "ACTIVE", "EXPIRED"}, end : Nat]]
    BY BlankIsSound DEF Rows
  <2>2. [status |-> "ACTIVE", end |-> 1] \in [status : {"none", "ACTIVE", "EXPIRED"}, end : Nat]
    OBVIOUS
  <2>3. subs \in EarlierSubs
    BY DEF Init
  <2> QED
    BY <2>1, <2>2, <2>3 DEF EarlierSubs
<1>2. TypeOK
  <2>1. Committed \in Rows
    BY <1>1 DEF Init, Committed, Blank, Rows
  <2> QED
    BY <2>1, BlankIsSound DEF Init, TypeOK
<1>3. Sound(Committed) /\ \A w \in Handlers : Sound(snap[w])
  <2>1. Sound(Committed)
    BY DEF Init, Committed, Blank, Sound, Bought, VerifiedIn
  <2> QED
    BY <2>1, BlankIsSound DEF Init
<1>4. Owned /\ Current /\ Waiting
  BY DEF Init, Owned, Current, Waiting
<1> QED
  BY <1>2, <1>3, <1>4 DEF PInv

----------------------------------------------------------------------------
(* Steps that write no row *)

\* The snapshots are soundly kept by a step that leaves the rows alone.
LEMMA SnapshotsStaySound ==
    ASSUME PInv, UNCHANGED rows, NEW w \in Handlers,
           snap' = snap \/ snap' = [snap EXCEPT ![w] = Committed] \/ snap' = [snap EXCEPT ![w] = Blank]
    PROVE  /\ Committed' \in Rows /\ Sound(Committed')
           /\ snap' \in [Handlers -> Rows]
           /\ \A v \in Handlers : Sound(snap'[v])
<1>1. Committed' = Committed
  BY DEF rows, Committed
<1>2. Committed \in Rows /\ snap \in [Handlers -> Rows]
  BY DEF PInv, TypeOK
<1>3. snap' \in [Handlers -> Rows]
  BY <1>2, BlankIsSound
<1>4. \A v \in Handlers : Sound(snap'[v])
  <2> SUFFICES ASSUME NEW v \in Handlers PROVE Sound(snap'[v])
    OBVIOUS
  <2>1. snap'[v] = snap[v] \/ snap'[v] = Committed \/ snap'[v] = Blank
    BY <1>2
  <2> QED
    BY <2>1, BlankIsSound DEF PInv
<1>5. Sound(Committed')
  BY <1>1 DEF PInv
<1> QED
  BY <1>1, <1>2, <1>3, <1>4, <1>5

\* A step in the database that changes no row, and not who is where in it.
LEMMA QuietKeepsPInv ==
    ASSUME PInv, UNCHANGED <<rows, load, snap, pc, attempts>>,
           lease' \in [Orders -> Handlers \cup {Nobody}], faults' \in 0..MaxFaults
    PROVE  PInv'
<1>1. Committed' = Committed /\ UNCHANGED <<status, load, snap, pc, attempts>>
  BY DEF rows, Committed
<1>2. TypeOK'
  BY <1>1 DEF PInv, TypeOK
<1>3. Owned' /\ Current' /\ Waiting'
  BY <1>1 DEF PInv, Owned, Current, Waiting, Of
<1> QED
  BY <1>1, <1>2, <1>3 DEF PInv

LEMMA ArrivesKeepsPInv ==
    ASSUME PInv, NEW w \in Handlers, NEW p \in Payloads, Arrives(w, p),
           UNCHANGED <<rows, snap, attempts, faults>>,
           lease' \in [Orders -> Handlers \cup {Nobody}]
    PROVE  PInv'
<1>1. /\ Committed' \in Rows /\ Sound(Committed') /\ snap' \in [Handlers -> Rows]
      /\ \A v \in Handlers : Sound(snap'[v])
  BY SnapshotsStaySound DEF rows
<1>2. /\ pc[w] = "idle" /\ pc' = [pc EXCEPT ![w] = "claimed"] /\ load' = [load EXCEPT ![w] = p]
      /\ status[p.order] # "none" /\ status' = status /\ snap' = snap
  BY DEF Arrives, Goes, rows
<1>3. pc \in [Handlers -> {"idle", "claimed", "read", "locked", "leaving"}]
      /\ load \in [Handlers -> Payloads \cup {NoPayload}]
  BY DEF PInv, TypeOK
<1>4. p # NoPayload /\ p \in Payload
  BY DEF Payload, NoPayload
<1>5. TypeOK'
  <2>1. pc' \in [Handlers -> {"idle", "claimed", "read", "locked", "leaving"}]
        /\ load' \in [Handlers -> Payloads \cup {NoPayload}]
    BY <1>2, <1>3
  <2>2. attempts' \in [Handlers -> 0..MaxAttempts] /\ faults' \in 0..MaxFaults
    BY DEF PInv, TypeOK
  <2>3. \A v \in Handlers : pc'[v] # "leaving" => attempts'[v] < MaxAttempts
    BY <1>2, <1>3 DEF PInv, TypeOK
  <2>4. \A v \in Handlers : (load'[v] = NoPayload) <=> (pc'[v] = "idle")
    BY <1>2, <1>3, <1>4 DEF PInv, TypeOK
  <2> QED
    BY <1>1, <2>1, <2>2, <2>3, <2>4 DEF TypeOK
<1>6. Owned' /\ Current' /\ Waiting'
  BY <1>2, <1>3 DEF PInv, Owned, Current, Waiting, Of
<1> QED
  BY <1>1, <1>5, <1>6 DEF PInv

\* A transaction step of one handler that writes no row.
LEMMA ReadingKeepsPInv ==
    ASSUME PInv, NEW w \in Handlers, UNCHANGED <<rows, load, lease, attempts, faults>>,
           pc[w] \in {"claimed", "read", "locked"}, NEW to \in {"read", "locked", "leaving"}, pc' = [pc EXCEPT ![w] = to],
           snap' = snap \/ snap' = [snap EXCEPT ![w] = Committed] \/ snap' = [snap EXCEPT ![w] = Blank],
           to = "read" => load[w].op = "webhook",
           to = "locked" => /\ ~RowIsLocked(w)
                            /\ load[w].op # "webhook" => snap' = [snap EXCEPT ![w] = Committed]
    PROVE  PInv'
<1>1. /\ Committed' \in Rows /\ Sound(Committed') /\ snap' \in [Handlers -> Rows]
      /\ \A v \in Handlers : Sound(snap'[v])
  BY SnapshotsStaySound DEF rows
<1>2. /\ pc \in [Handlers -> {"idle", "claimed", "read", "locked", "leaving"}]
      /\ load \in [Handlers -> Payloads \cup {NoPayload}]
      /\ snap \in [Handlers -> Rows] /\ status' = status /\ load' = load
  BY DEF PInv, TypeOK, rows
<1>3. TypeOK'
  <2>1. pc' \in [Handlers -> {"idle", "claimed", "read", "locked", "leaving"}]
    BY <1>2
  <2>2. \A v \in Handlers : /\ (load'[v] = NoPayload) <=> (pc'[v] = "idle")
                            /\ pc'[v] # "leaving" => attempts'[v] < MaxAttempts
    <3> SUFFICES ASSUME NEW v \in Handlers
                 PROVE  /\ (load'[v] = NoPayload) <=> (pc'[v] = "idle")
                        /\ pc'[v] # "leaving" => attempts'[v] < MaxAttempts
      OBVIOUS
    <3>1. CASE v = w
      BY <1>2, <3>1 DEF PInv, TypeOK
    <3>2. CASE v # w
      BY <1>2, <3>2 DEF PInv, TypeOK
    <3> QED
      BY <3>1, <3>2
  <2> QED
    BY <1>1, <1>2, <2>1, <2>2 DEF PInv, TypeOK
<1>4. Owned'
  BY <1>2 DEF PInv, Owned, Of, RowIsLocked
<1>5. Current'
  <2> SUFFICES ASSUME NEW v \in Handlers, pc'[v] = "locked", load[v].op # "webhook"
               PROVE  snap'[v].status[Of(v)] = status[Of(v)]
    BY <1>2 DEF Current, Of
  <2>1. CASE v = w
    BY <1>2, <2>1 DEF Committed
  <2>2. CASE v # w
    BY <1>2, <2>2 DEF PInv, Current
  <2> QED
    BY <2>1, <2>2
<1>6. Waiting'
  BY <1>2 DEF PInv, Waiting
<1> QED
  BY <1>1, <1>3, <1>4, <1>5, <1>6 DEF PInv

\* A handler that is done, or whose instance has died.
LEMMA LeavingKeepsPInv ==
    ASSUME PInv, NEW w \in Handlers, UNCHANGED rows,
           pc' = [pc EXCEPT ![w] = "idle"], load' = [load EXCEPT ![w] = NoPayload],
           attempts' = [attempts EXCEPT ![w] = 0],
           snap' = snap \/ snap' = [snap EXCEPT ![w] = Blank],
           lease' \in [Orders -> Handlers \cup {Nobody}], faults' \in 0..MaxFaults
    PROVE  PInv'
<1>1. /\ Committed' \in Rows /\ Sound(Committed') /\ snap' \in [Handlers -> Rows]
      /\ \A v \in Handlers : Sound(snap'[v])
  BY SnapshotsStaySound
<1>2. /\ pc \in [Handlers -> {"idle", "claimed", "read", "locked", "leaving"}]
      /\ load \in [Handlers -> Payloads \cup {NoPayload}]
      /\ attempts \in [Handlers -> 0..MaxAttempts]
      /\ snap \in [Handlers -> Rows] /\ status' = status
  BY DEF PInv, TypeOK, rows
<1>3. TypeOK'
  <2>1. \A v \in Handlers : /\ (load'[v] = NoPayload) <=> (pc'[v] = "idle")
                            /\ pc'[v] # "leaving" => attempts'[v] < MaxAttempts
    BY <1>2 DEF PInv, TypeOK
  <2>2. /\ pc' \in [Handlers -> {"idle", "claimed", "read", "locked", "leaving"}]
        /\ load' \in [Handlers -> Payloads \cup {NoPayload}]
        /\ attempts' \in [Handlers -> 0..MaxAttempts]
    BY <1>2
  <2> QED
    BY <1>1, <2>1, <2>2 DEF TypeOK
<1>4. \A v \in Handlers : pc'[v] # "idle" => v # w /\ pc'[v] = pc[v] /\ load'[v] = load[v] /\ snap'[v] = snap[v]
  BY <1>2
<1>5. Owned'
  BY <1>2, <1>4 DEF PInv, Owned, Of
<1>6. Current' /\ Waiting'
  BY <1>2, <1>4 DEF PInv, Current, Waiting, Of
<1> QED
  BY <1>1, <1>3, <1>5, <1>6 DEF PInv

\* A deadlock: the handler runs its transaction again or gives up.
LEMMA RetryKeepsPInv ==
    ASSUME PInv, NEW w \in Handlers, Retry(w)
    PROVE  PInv'
<1>1. /\ Committed' \in Rows /\ Sound(Committed') /\ snap' \in [Handlers -> Rows]
      /\ \A v \in Handlers : Sound(snap'[v])
  BY SnapshotsStaySound DEF Retry
<1>2. /\ pc \in [Handlers -> {"idle", "claimed", "read", "locked", "leaving"}]
      /\ attempts \in [Handlers -> 0..MaxAttempts]
      /\ snap \in [Handlers -> Rows] /\ status' = status /\ load' = load /\ lease' = lease
      /\ faults \in 0..MaxFaults
  BY DEF PInv, TypeOK, rows, Retry
<1>3. attempts[w] < MaxAttempts /\ attempts[w] \in Nat
  BY <1>2 DEF Retry, PInv, TypeOK
<1>4. TypeOK'
  <2>1. pc' \in [Handlers -> {"idle", "claimed", "read", "locked", "leaving"}]
    BY <1>2 DEF Retry
  <2>2. attempts' \in [Handlers -> 0..MaxAttempts] /\ faults' \in 0..MaxFaults
    BY <1>2, <1>3 DEF Retry
  <2>3. \A v \in Handlers : /\ (load'[v] = NoPayload) <=> (pc'[v] = "idle")
                            /\ pc'[v] # "leaving" => attempts'[v] < MaxAttempts
    BY <1>2, <1>3 DEF PInv, TypeOK, Retry
  <2> QED
    BY <1>1, <1>2, <2>1, <2>2, <2>3 DEF PInv, TypeOK
<1>5. \A v \in Handlers : /\ pc'[v] # "idle" => pc[v] # "idle"
                          /\ pc'[v] \in {"read", "locked"} => v # w /\ pc'[v] = pc[v] /\ snap'[v] = snap[v]
  BY <1>2 DEF Retry
<1>6. Owned'
  BY <1>2, <1>5 DEF PInv, Owned, Of
<1>7. Current' /\ Waiting'
  BY <1>2, <1>5 DEF PInv, Current, Waiting, Of
<1> QED
  BY <1>1, <1>4, <1>6, <1>7 DEF PInv

----------------------------------------------------------------------------
(* Steps that write rows *)

LEMMA CreateOrderKeepsPInv ==
    ASSUME PInv, NEW o \in Orders, CreateOrder(o)
    PROVE  PInv'
<1>1. /\ status[o] = "none" /\ status' = [status EXCEPT ![o] = "PENDING"]
      /\ UNCHANGED <<payments, grants, credits, subs, load, snap, lease, pc, attempts, faults>>
      /\ status \in [Orders -> {"none", "PENDING", "PAYING", "BENEFIT_GRANTED"}]
  BY DEF CreateOrder, PInv, TypeOK, Committed, Rows
<1>2. TypeOK'
  BY <1>1 DEF PInv, TypeOK, Committed, Rows
<1>3. Sound(Committed')
  BY <1>1 DEF PInv, Sound, Committed, Bought, VerifiedIn
<1>4. Owned' /\ Current' /\ Waiting'
  BY <1>1 DEF PInv, Owned, Current, Waiting, Of
<1> QED
  BY <1>1, <1>2, <1>3, <1>4 DEF PInv

\* The end of the transaction of w, whatever it has written to the rows of its order.
LEMMA EndingKeepsPInv ==
    ASSUME PInv, NEW w \in Handlers, pc[w] = "locked", Ends(w, "locked"),
           UNCHANGED <<load, lease, attempts, faults>>,
           Committed' \in Rows, Sound(Committed'),
           \A o \in Orders : /\ o # Of(w) => status'[o] = status[o]
                             /\ status[o] # "none" => status'[o] # "none"
    PROVE  PInv'
<1>1. /\ pc \in [Handlers -> {"idle", "claimed", "read", "locked", "leaving"}]
      /\ load \in [Handlers -> Payloads \cup {NoPayload}]
      /\ snap \in [Handlers -> Rows]
      /\ pc' = [pc EXCEPT ![w] = "leaving"] /\ snap' = [snap EXCEPT ![w] = Blank]
  BY DEF PInv, TypeOK, Ends, Goes
<1>2. snap' \in [Handlers -> Rows] /\ \A v \in Handlers : Sound(snap'[v])
  BY <1>1, BlankIsSound DEF PInv
<1>3. TypeOK'
  <2>1. \A v \in Handlers : /\ (load'[v] = NoPayload) <=> (pc'[v] = "idle")
                            /\ pc'[v] # "leaving" => attempts'[v] < MaxAttempts
    BY <1>1 DEF PInv, TypeOK
  <2>2. pc' \in [Handlers -> {"idle", "claimed", "read", "locked", "leaving"}]
    BY <1>1
  <2> QED
    BY <1>2, <2>1, <2>2 DEF PInv, TypeOK
<1>4. \A v \in Handlers : pc'[v] # "idle" => Of(v) \in Orders /\ Of(v)' = Of(v)
  BY <1>1 DEF PInv, TypeOK, Of, Payload
<1>5. Owned'
  <2>1. \A v \in Handlers : pc'[v] # "idle" => pc[v] # "idle"
    BY <1>1
  <2>2. \A v \in Handlers : pc'[v] = "locked" => pc[v] = "locked"
    BY <1>1
  <2> QED
    BY <1>4, <2>1, <2>2 DEF PInv, Owned
<1>6. Current'
  <2> SUFFICES ASSUME NEW v \in Handlers, pc'[v] = "locked", load[v].op # "webhook"
               PROVE  snap'[v].status[Of(v)] = status'[Of(v)]
    BY DEF Current, Of
  <2>1. v # w /\ pc[v] = "locked" /\ snap'[v] = snap[v]
    BY <1>1
  <2>2. Of(v) # Of(w) /\ Of(v) \in Orders
    BY <1>4, <2>1 DEF PInv, Owned
  <2> QED
    BY <2>1, <2>2 DEF PInv, Current
<1>7. Waiting'
  BY <1>1 DEF PInv, Waiting
<1> QED
  BY <1>2, <1>3, <1>5, <1>6, <1>7 DEF PInv
\* What a handler with the row of its order works on.
LEMMA LockedWorks ==
    ASSUME PInv, NEW w \in Handlers, pc[w] = "locked"
    PROVE  /\ load[w] \in Payload /\ Of(w) \in Orders
           /\ (load[w].op = "intent") <=> (load[w].event = IntentKey)
           /\ \A st \in {"INTENT_CREATED", "VERIFIED", "REJECTED"} :
                PaymentRow(w, st) \in PaymentRows /\ PaymentsWith(w, st) \in SUBSET PaymentRows
<1>1. load[w] \in Payloads
  BY DEF PInv, TypeOK
<1>2. load[w] \in Payload /\ Of(w) \in Orders /\ load[w].event \in STRING
  BY <1>1 DEF Payload, Of
<1>3. \A st \in {"INTENT_CREATED", "VERIFIED", "REJECTED"} : PaymentRow(w, st) \in PaymentRows
  BY <1>2 DEF PaymentRow, PaymentRows
<1>4. payments \in SUBSET PaymentRows
  BY DEF PInv, TypeOK, Committed, Rows
<1> QED
  BY <1>1, <1>2, <1>3, <1>4 DEF PaymentsWith

LEMMA CreateIntentKeepsPInv ==
    ASSUME PInv, NEW w \in Handlers, CreateIntent(w)
    PROVE  PInv' /\ \A o \in Orders : Granted(o) => Granted(o)'
<1>1. /\ load[w].op = "intent" /\ pc[w] = "locked" /\ Ends(w, "locked")
      /\ UNCHANGED <<grants, credits, subs, load, lease, attempts, faults>>
  BY DEF CreateIntent, Ends, Goes
<1>2. Of(w) \in Orders /\ load[w].event = IntentKey
  BY <1>1, LockedWorks
<1>3. /\ status \in [Orders -> {"none", "PENDING", "PAYING", "BENEFIT_GRANTED"}]
      /\ payments \in SUBSET PaymentRows /\ Committed \in Rows
  BY DEF PInv, TypeOK, Committed, Rows
<1>4. snap[w].status[Of(w)] = status[Of(w)]
  BY <1>1 DEF PInv, Current
<1>5. \/ UNCHANGED <<payments, status>>
      \/ /\ status[Of(w)] \in {"PENDING", "PAYING"}
         /\ payments' = PaymentsWith(w, "INTENT_CREATED")
         /\ status' = [status EXCEPT ![Of(w)] = "PAYING"]
  BY <1>4 DEF CreateIntent
<1>6. CASE UNCHANGED <<payments, status>>
  <2>1. Committed' = Committed
    BY <1>1, <1>6 DEF Committed
  <2>2. PInv'
    BY <1>1, <1>6, <2>1, EndingKeepsPInv DEF PInv, TypeOK
  <2> QED
    BY <1>6, <2>2 DEF Granted
<1>7. CASE /\ status[Of(w)] \in {"PENDING", "PAYING"}
           /\ payments' = PaymentsWith(w, "INTENT_CREATED")
           /\ status' = [status EXCEPT ![Of(w)] = "PAYING"]
  <2>1. Committed' \in Rows
    BY <1>1, <1>3, <1>7, LockedWorks DEF Committed, Rows
  <2>2. \A o \in Orders : VerifiedIn(Committed', o) = VerifiedIn(Committed, o)
    BY <1>7 DEF VerifiedIn, Committed, PaymentsWith, PaymentRow
  <2>3. \A o \in Orders : Bought(Committed', o) <=> Bought(Committed, o)
    BY <1>2, <1>3, <1>7 DEF Bought, Committed
  <2>4. \A p \in Committed'.payments :
            p.status # "REJECTED" /\ ((p.status = "INTENT_CREATED") <=> (p.event = IntentKey))
    BY <1>2, <1>7 DEF PInv, Sound, Committed, PaymentsWith, PaymentRow
  <2>5. Sound(Committed')
    <3>1. ASSUME NEW o \in Orders, ~Bought(Committed', o)
          PROVE  /\ Committed'.grants[o] = <<>> /\ Committed'.credits[o] = 0
                 /\ VerifiedIn(Committed', o) = {}
      BY <1>1, <2>2, <2>3, <3>1 DEF PInv, Sound, Committed
    <3>2. ASSUME NEW o \in Orders, Bought(Committed', o)
          PROVE  /\ Len(Committed'.grants[o]) = 1
                 /\ Committed'.credits[o] = IF PaysPoints(o) THEN 1 ELSE 0
                 /\ \E p \in Committed'.payments :
                        VerifiedIn(Committed', o) = {p} /\ p.event = Committed'.grants[o][1]
      <4>1. /\ Len(grants[o]) = 1 /\ credits[o] = IF PaysPoints(o) THEN 1 ELSE 0
            /\ \E p \in payments : VerifiedIn(Committed, o) = {p} /\ p.event = grants[o][1]
        BY <2>3, <3>2 DEF PInv, Sound, Committed
      <4>2. payments \subseteq payments'
        BY <1>7 DEF PaymentsWith
      <4> QED
        BY <1>1, <2>2, <4>1, <4>2 DEF Committed
    <3> QED
      BY <2>4, <3>1, <3>2 DEF Sound
  <2>6. \A o \in Orders : /\ o # Of(w) => status'[o] = status[o]
                          /\ status[o] # "none" => status'[o] # "none"
    BY <1>2, <1>3, <1>7
  <2>7. PInv'
    BY <1>1, <2>1, <2>5, <2>6, EndingKeepsPInv
  <2> QED
    BY <2>3, <2>7 DEF Bought, Granted, Committed
<1> QED
  BY <1>5, <1>6, <1>7
\* An order that the snapshot shows without its benefit has none, or an insert fails.
LEMMA GrantIsNew ==
    ASSUME PInv, NEW w \in Handlers, pc[w] = "locked", load[w].op # "intent",
           snap[w].status[Of(w)] # "BENEFIT_GRANTED", ~BenefitClash(w)
    PROVE  /\ snap[w].grants[Of(w)] = <<>> /\ snap[w].credits[Of(w)] = 0 /\ ~Recorded(w)
           /\ status[Of(w)] # "BENEFIT_GRANTED" /\ grants[Of(w)] = <<>> /\ credits[Of(w)] = 0
           /\ VerifiedIn(Committed, Of(w)) = {}
<1>1. Of(w) \in Orders /\ load[w].event # IntentKey
  BY LockedWorks
<1>2. /\ snap[w].grants[Of(w)] = <<>> /\ snap[w].credits[Of(w)] = 0
      /\ VerifiedIn(snap[w], Of(w)) = {}
  BY <1>1 DEF PInv, Sound, Bought
<1>3. ~Recorded(w)
  <2> SUFFICES ASSUME NEW p \in snap[w].payments, p.order = Of(w), p.event = load[w].event
               PROVE  FALSE
    BY DEF Recorded
  <2>1. p.status \in {"INTENT_CREATED", "VERIFIED", "REJECTED"}
    BY DEF PInv, TypeOK, Rows, PaymentRows
  <2>2. p.status # "REJECTED" /\ p.status # "INTENT_CREATED"
    BY <1>1 DEF PInv, Sound
  <2> QED
    BY <1>2, <2>1, <2>2 DEF VerifiedIn
<1>4. grants[Of(w)] = <<>>
  BY <1>2 DEF BenefitClash
<1>5. Len(grants[Of(w)]) # 1
  BY <1>4
<1>6. /\ ~Bought(Committed, Of(w))
  BY <1>1, <1>5 DEF PInv, Sound, Committed
<1> QED
  BY <1>1, <1>2, <1>3, <1>4, <1>6 DEF PInv, Sound, Committed, Bought

\* The rows a confirmation writes: the benefit of its order, and nothing of another one.
LEMMA GrantIsSound ==
    ASSUME PInv, NEW w \in Handlers, pc[w] = "locked", load[w].op # "intent",
           snap[w].status[Of(w)] # "BENEFIT_GRANTED", ~BenefitClash(w), Grant(w)
    PROVE  Committed' \in Rows /\ Sound(Committed')
<1> DEFINE row == PaymentRow(w, "VERIFIED")
<1>1. /\ snap[w].grants[Of(w)] = <<>> /\ snap[w].credits[Of(w)] = 0 /\ ~Recorded(w)
      /\ status[Of(w)] # "BENEFIT_GRANTED" /\ grants[Of(w)] = <<>> /\ credits[Of(w)] = 0
      /\ VerifiedIn(Committed, Of(w)) = {}
  BY GrantIsNew
<1>2. /\ Of(w) \in Orders /\ load[w] \in Payload /\ load[w].event # IntentKey
      /\ load[w].event \in STRING /\ row \in PaymentRows
  BY LockedWorks DEF Payload
<1>3. /\ status \in [Orders -> {"none", "PENDING", "PAYING", "BENEFIT_GRANTED"}]
      /\ payments \in SUBSET PaymentRows /\ grants \in [Orders -> Seq(STRING)]
      /\ credits \in [Orders -> Nat]
      /\ subs \in [Levels -> [status : {"none", "ACTIVE", "EXPIRED"}, end : Nat]]
      /\ snap[w].subs \in [Levels -> [status : {"none", "ACTIVE", "EXPIRED"}, end : Nat]]
  BY DEF PInv, TypeOK, Committed, Rows
<1>4. /\ payments' = payments \cup {row}
      /\ credits' = IF PaysPoints(Of(w)) THEN [credits EXCEPT ![Of(w)] = @ + 1] ELSE credits
      /\ grants' = [grants EXCEPT ![Of(w)] = Append(@, load[w].event)]
      /\ status' = [status EXCEPT ![Of(w)] = "BENEFIT_GRANTED"]
      /\ subs' = SubsWith(w)
  BY <1>1 DEF Grant, PaymentsWith
<1>5. subs' \in [Levels -> [status : {"none", "ACTIVE", "EXPIRED"}, end : Nat]]
  <2>1. Length[Of(w)] \in Nat /\ Level[Of(w)] \in Levels \cup {NoLevel}
    BY <1>2
  <2>2. Member(Of(w)) => Activated(snap[w], w) \in [status : {"none", "ACTIVE", "EXPIRED"}, end : Nat]
    BY <1>3, <2>1 DEF Activated, Member
  <2>3. \A l \in Levels : [subs[l] EXCEPT !.status = "EXPIRED"]
                             \in [status : {"none", "ACTIVE", "EXPIRED"}, end : Nat]
    <3>1. ASSUME NEW r \in [status : {"none", "ACTIVE", "EXPIRED"}, end : Nat]
          PROVE  [r EXCEPT !.status = "EXPIRED"] \in [status : {"none", "ACTIVE", "EXPIRED"}, end : Nat]
      OBVIOUS
    <3> QED
      BY <1>3, <3>1
  <2> QED
    BY <1>3, <1>4, <2>2, <2>3 DEF SubsWith
<1>6. Committed' \in Rows
  <2>1. status' \in [Orders -> {"none", "PENDING", "PAYING", "BENEFIT_GRANTED"}]
    BY <1>3, <1>4
  <2>2. payments' \in SUBSET PaymentRows
    BY <1>2, <1>3, <1>4
  <2>3. grants' \in [Orders -> Seq(STRING)]
    BY <1>2, <1>3, <1>4
  <2>4. credits' \in [Orders -> Nat]
    BY <1>2, <1>3, <1>4
  <2> QED
    BY <1>5, <2>1, <2>2, <2>3, <2>4 DEF Committed, Rows
<1>7. row.order = Of(w) /\ row.status = "VERIFIED" /\ row.event = load[w].event
  BY DEF PaymentRow
<1>8. ASSUME NEW o \in Orders, o # Of(w)
      PROVE  /\ status'[o] = status[o] /\ grants'[o] = grants[o] /\ credits'[o] = credits[o]
             /\ VerifiedIn(Committed', o) = VerifiedIn(Committed, o)
  BY <1>3, <1>4, <1>7, <1>8 DEF VerifiedIn, Committed
<1>9. /\ status'[Of(w)] = "BENEFIT_GRANTED" /\ Len(grants'[Of(w)]) = 1
      /\ grants'[Of(w)][1] = load[w].event
      /\ credits'[Of(w)] = (IF PaysPoints(Of(w)) THEN 1 ELSE 0)
      /\ row \in payments' /\ VerifiedIn(Committed', Of(w)) = {row}
  <2>1. /\ status'[Of(w)] = "BENEFIT_GRANTED" /\ grants'[Of(w)] = Append(<<>>, load[w].event)
        /\ credits'[Of(w)] = (IF PaysPoints(Of(w)) THEN 1 ELSE 0) /\ row \in payments'
    BY <1>1, <1>2, <1>3, <1>4
  <2>2. VerifiedIn(Committed', Of(w)) = {row}
    BY <1>1, <1>4, <1>7 DEF VerifiedIn, Committed
  <2> QED
    BY <1>2, <2>1, <2>2
<1>10. \A p \in payments' : /\ p.status # "REJECTED"
                            /\ (p.status = "INTENT_CREATED") <=> (p.event = IntentKey)
  BY <1>2, <1>4, <1>7 DEF PInv, Sound, Committed
<1>11. ASSUME NEW o \in Orders, ~Bought(Committed', o)
       PROVE  /\ Committed'.grants[o] = <<>> /\ Committed'.credits[o] = 0
              /\ VerifiedIn(Committed', o) = {}
  <2>1. o # Of(w)
    BY <1>9, <1>11 DEF Bought, Committed
  <2> QED
    BY <1>8, <1>11, <2>1 DEF PInv, Sound, Committed, Bought
<1>12. ASSUME NEW o \in Orders, Bought(Committed', o)
       PROVE  /\ Len(Committed'.grants[o]) = 1
              /\ Committed'.credits[o] = IF PaysPoints(o) THEN 1 ELSE 0
              /\ \E p \in Committed'.payments :
                     VerifiedIn(Committed', o) = {p} /\ p.event = Committed'.grants[o][1]
  <2>1. CASE o = Of(w)
    BY <1>7, <1>9, <2>1 DEF Committed
  <2>2. CASE o # Of(w)
    <3>1. Bought(Committed, o)
      BY <1>8, <1>12, <2>2 DEF Bought, Committed
    <3>2. /\ Len(grants[o]) = 1 /\ credits[o] = IF PaysPoints(o) THEN 1 ELSE 0
          /\ \E p \in payments : VerifiedIn(Committed, o) = {p} /\ p.event = grants[o][1]
      BY <3>1 DEF PInv, Sound, Committed
    <3> QED
      BY <1>4, <1>8, <2>2, <3>2 DEF Committed
  <2> QED
    BY <2>1, <2>2
<1>13. Committed'.payments = payments'
  BY DEF Committed
<1> QED
  BY <1>6, <1>10, <1>11, <1>12, <1>13 DEF Sound

LEMMA ConfirmKeepsPInv ==
    ASSUME PInv, NEW w \in Handlers, Confirm(w)
    PROVE  PInv' /\ \A o \in Orders : Granted(o) => Granted(o)'
<1>1. /\ load[w].op # "intent" /\ pc[w] = "locked" /\ Ends(w, "locked")
      /\ UNCHANGED <<load, lease, attempts, faults>>
  BY DEF Confirm, Ends, Goes
<1>2. /\ Of(w) \in Orders /\ Committed \in Rows
      /\ status \in [Orders -> {"none", "PENDING", "PAYING", "BENEFIT_GRANTED"}]
  BY <1>1, LockedWorks DEF PInv, TypeOK, Committed, Rows
<1>3. CASE UNCHANGED rows
  <2>1. Committed' = Committed /\ status' = status
    BY <1>3 DEF Committed, rows
  <2>2. PInv'
    BY <1>1, <1>2, <2>1, EndingKeepsPInv DEF PInv
  <2> QED
    BY <2>1, <2>2 DEF Granted
<1>4. CASE snap[w].status[Of(w)] # "BENEFIT_GRANTED" /\ ~BenefitClash(w) /\ Grant(w)
  <2>1. Committed' \in Rows /\ Sound(Committed')
    BY <1>1, <1>4, GrantIsSound
  <2>2. status' = [status EXCEPT ![Of(w)] = "BENEFIT_GRANTED"]
    BY <1>4 DEF Grant
  <2>3. \A o \in Orders : /\ o # Of(w) => status'[o] = status[o]
                          /\ status[o] # "none" => status'[o] # "none"
    BY <1>2, <2>2
  <2>4. PInv'
    BY <1>1, <2>1, <2>3, EndingKeepsPInv
  <2> QED
    BY <1>2, <2>2, <2>4 DEF Granted
<1> QED
  BY <1>3, <1>4 DEF Confirm
LEMMA ReadOrderKeepsPInv ==
    ASSUME PInv, NEW w \in Handlers, ReadOrder(w)
    PROVE  PInv'
<1>1. pc[w] = "claimed" /\ load[w].op = "webhook" /\ UNCHANGED <<rows, load, lease, attempts, faults>>
  BY DEF ReadOrder, Ends, Goes
<1>2. CASE pc' = [pc EXCEPT ![w] = "read"] /\ snap' = [snap EXCEPT ![w] = Committed]
  BY <1>1, <1>2, ReadingKeepsPInv
<1>3. CASE pc' = [pc EXCEPT ![w] = "leaving"] /\ snap' = [snap EXCEPT ![w] = Blank]
  BY <1>1, <1>3, ReadingKeepsPInv
<1> QED
  BY <1>2, <1>3 DEF ReadOrder, Ends, Goes

LEMMA LockingKeepsPInv ==
    ASSUME PInv, NEW w \in Handlers, LockReadOrder(w) \/ LockOrder(w)
    PROVE  PInv'
<1>1. CASE LockReadOrder(w)
  <2>1. load[w].op = "webhook"
    BY <1>1 DEF PInv, Waiting, LockReadOrder, Goes
  <2> QED
    BY <1>1, <2>1, ReadingKeepsPInv DEF LockReadOrder, Goes
<1>2. CASE LockOrder(w)
  BY <1>2, ReadingKeepsPInv DEF LockOrder, Goes
<1> QED
  BY <1>1, <1>2

LEMMA EndsOfRequestKeepPInv ==
    ASSUME PInv, NEW w \in Handlers, ReleaseLease(w) \/ Crash(w)
    PROVE  PInv'
<1>1. lease \in [Orders -> Handlers \cup {Nobody}] /\ faults \in 0..MaxFaults
  BY DEF PInv, TypeOK
<1>2. CASE ReleaseLease(w)
  <2>1. lease' \in [Orders -> Handlers \cup {Nobody}]
    BY <1>1, <1>2 DEF ReleaseLease
  <2> QED
    BY <1>1, <1>2, <2>1, LeavingKeepsPInv DEF ReleaseLease, Goes
<1>3. CASE Crash(w)
  <2>1. /\ faults' \in 0..MaxFaults /\ lease' \in [Orders -> Handlers \cup {Nobody}]
        /\ UNCHANGED rows /\ pc' = [pc EXCEPT ![w] = "idle"]
        /\ load' = [load EXCEPT ![w] = NoPayload] /\ attempts' = [attempts EXCEPT ![w] = 0]
        /\ snap' = [snap EXCEPT ![w] = Blank]
    BY <1>1, <1>3 DEF Crash
  <2> QED
    BY <2>1, LeavingKeepsPInv
<1> QED
  BY <1>2, <1>3

LEMMA NextKeepsPInv == PInv /\ [Next]_vars => PInv'
<1> SUFFICES ASSUME PInv, [Next]_vars PROVE PInv'
  OBVIOUS
<1>1. lease \in [Orders -> Handlers \cup {Nobody}] /\ faults \in 0..MaxFaults
  BY DEF PInv, TypeOK
<1>2. ASSUME NEW o \in Orders, CreateOrder(o) PROVE PInv'
  BY <1>2, CreateOrderKeepsPInv
<1>3. ASSUME NEW o \in Orders, ExpireLease(o) PROVE PInv'
  <2>1. lease' \in [Orders -> Handlers \cup {Nobody}]
    BY <1>1, <1>3 DEF ExpireLease
  <2> QED
    BY <1>1, <1>3, <2>1, QuietKeepsPInv DEF ExpireLease
<1>4. ASSUME NEW w \in Handlers, NEW p \in Payloads, AcquireLock(w, p) PROVE PInv'
  <2>1. p.order \in Orders
    BY DEF Payload
  <2>2. lease' \in [Orders -> Handlers \cup {Nobody}]
    BY <1>1, <1>4, <2>1 DEF AcquireLock
  <2> QED
    BY <1>4, <2>2, ArrivesKeepsPInv DEF AcquireLock
<1>5. ASSUME NEW w \in Handlers, NEW p \in Payloads, BeginIntent(w, p) PROVE PInv'
  BY <1>1, <1>5, ArrivesKeepsPInv DEF BeginIntent
<1>6. ASSUME NEW w \in Handlers, Proceeds(w) PROVE PInv'
  BY <1>6, ReadOrderKeepsPInv, LockingKeepsPInv, CreateIntentKeepsPInv, ConfirmKeepsPInv,
     EndsOfRequestKeepPInv DEF Proceeds
<1>7. ASSUME NEW w \in Handlers, Retry(w) \/ Crash(w) PROVE PInv'
  BY <1>7, RetryKeepsPInv, EndsOfRequestKeepPInv
<1>8. CASE UNCHANGED vars
  BY <1>1, <1>8, QuietKeepsPInv DEF vars, rows
<1> QED
  BY <1>2, <1>3, <1>4, <1>5, <1>6, <1>7, <1>8 DEF Next

LEMMA AlwaysPInv == Spec => []PInv
BY InitPInv, NextKeepsPInv, PTL DEF Spec

----------------------------------------------------------------------------
(* Theorems *)

\* Every row of the payment tables, every request and every lock has its type.
THEOREM TypeCorrect == Spec => []TypeOK
<1>1. PInv => TypeOK
  BY DEF PInv
<1> QED
  BY <1>1, AlwaysPInv, PTL

\* An order is granted once, with its points, whatever the Redis locks do: of two
\* confirmations from stale snapshots the unique indexes refuse the second.
THEOREM BenefitsGrantedOnce == Spec => []GrantedOnce
<1>1. ASSUME PInv, NEW o \in Orders
      PROVE  /\ Len(grants[o]) = IF Granted(o) THEN 1 ELSE 0
             /\ credits[o] = IF Granted(o) /\ PaysPoints(o) THEN 1 ELSE 0
  <2>1. CASE Granted(o)
    BY <1>1, <2>1 DEF PInv, Sound, Committed, Bought, Granted
  <2>2. CASE ~Granted(o)
    <3>1. grants[o] = <<>> /\ credits[o] = 0
      BY <1>1, <2>2 DEF PInv, Sound, Committed, Bought, Granted
    <3> QED
      BY <2>2, <3>1
  <2> QED
    BY <2>1, <2>2
<1>2. PInv => GrantedOnce
  BY <1>1 DEF GrantedOnce
<1> QED
  BY <1>2, AlwaysPInv, PTL

\* Orders and verified payments belong together: one granted order, one verified row, and
\* the benefit refers to it.
THEOREM BenefitsArePaid == Spec => []BenefitIsPaid
<1>1. ASSUME PInv, NEW o \in Orders
      PROVE  /\ Granted(o) <=> Verified(o) # {}
             /\ \A p, q \in Verified(o) : p = q
             /\ \A i \in 1..Len(grants[o]) : \E p \in Verified(o) : p.event = grants[o][i]
  <2>1. Verified(o) = VerifiedIn(Committed, o)
    BY DEF Verified, VerifiedIn, Committed
  <2>2. CASE Granted(o)
    <3>1. Len(grants[o]) = 1 /\ \E p \in payments : Verified(o) = {p} /\ p.event = grants[o][1]
      BY <1>1, <2>1, <2>2 DEF PInv, Sound, Committed, Bought, Granted
    <3> QED
      BY <2>2, <3>1
  <2>3. CASE ~Granted(o)
    <3>1. grants[o] = <<>> /\ Verified(o) = {}
      BY <1>1, <2>1, <2>3 DEF PInv, Sound, Committed, Bought, Granted
    <3>2. Len(grants[o]) = 0
      BY <3>1
    <3> QED
      BY <2>3, <3>1, <3>2
  <2> QED
    BY <2>2, <2>3
<1>2. PInv => BenefitIsPaid
  BY <1>1 DEF BenefitIsPaid
<1> QED
  BY <1>2, AlwaysPInv, PTL

\* No step reopens a granted order: an intent decides on the status its row has while the
\* row is locked, and a confirmation only ever grants.
THEOREM GrantsAreFinal == Spec => GrantedIsFinal
<1>1. ASSUME PInv, [Next]_vars
      PROVE  \A o \in Orders : Granted(o) => Granted(o)'
  <2>1. CASE UNCHANGED status
    BY <2>1 DEF Granted
  <2>2. ASSUME NEW o \in Orders, CreateOrder(o) PROVE \A x \in Orders : Granted(x) => Granted(x)'
    BY <1>1, <2>2 DEF CreateOrder, Granted, PInv, TypeOK, Committed, Rows
  <2>3. ASSUME NEW w \in Handlers, CreateIntent(w) \/ Confirm(w)
        PROVE  \A o \in Orders : Granted(o) => Granted(o)'
    BY <1>1, <2>3, CreateIntentKeepsPInv, ConfirmKeepsPInv
  <2> QED
    BY <1>1, <2>1, <2>2, <2>3 DEF Next, vars, rows, Proceeds, ExpireLease, AcquireLock, BeginIntent,
       ReadOrder, LockReadOrder, LockOrder, ReleaseLease, Retry, Crash
<1> QED
  BY <1>1, AlwaysPInv, PTL DEF Spec, GrantedIsFinal

\* Paid time is never lost to retries, repeated notifications or expired locks alone: only
\* to a confirmation whose snapshot of the subscriptions was out of date.
THEOREM MembershipTimeLoss == Spec => TimeIsLostOnlyToStaleReads
<1> DEFINE Added(o) == TimeLeft(Level[o])' = TimeLeft(Level[o]) + Length[o]
<1>1. ASSUME PInv, [Next]_vars, NEW o \in Orders, Member(o), ~Granted(o), Granted(o)'
      PROVE  Added(o) \/ StaleConfirm
  <2>1. status'[o] # status[o] /\ status'[o] = "BENEFIT_GRANTED"
    BY <1>1 DEF Granted
  <2>2. PICK w \in Handlers : /\ pc[w] = "locked" /\ pc'[w] = "leaving"
                              /\ subs' = SubsWith(w)
                              /\ status' = [status EXCEPT ![Of(w)] = "BENEFIT_GRANTED"]
    <3>1. status \in [Orders -> {"none", "PENDING", "PAYING", "BENEFIT_GRANTED"}]
      BY <1>1 DEF PInv, TypeOK, Committed, Rows
    <3>2. PICK w \in Handlers : Confirm(w) /\ Grant(w)
      BY <1>1, <2>1, <3>1 DEF Next, vars, rows, Proceeds, CreateOrder, ExpireLease, AcquireLock,
         BeginIntent, ReadOrder, LockReadOrder, LockOrder, CreateIntent, Confirm, ReleaseLease,
         Retry, Crash
    <3>3. pc[w] = "locked" /\ pc'[w] = "leaving"
      BY <1>1, <3>2 DEF Confirm, Ends, Goes, PInv, TypeOK
    <3> QED
      BY <3>2, <3>3 DEF Grant
  <2>3. Of(w) = o
    BY <1>1, <2>1, <2>2 DEF PInv, TypeOK, Committed, Rows
  <2>4. CASE snap[w].subs # subs
    BY <2>2, <2>4 DEF StaleConfirm
  <2>5. CASE snap[w].subs = subs
    <3>1. Level[o] \in Levels
      BY <1>1, PaymentAssumption DEF Member
    <3>2. subs'[Level[o]] = Activated(snap[w], w)
      BY <1>1, <2>2, <2>3, <3>1 DEF SubsWith
    <3>3. subs'[Level[o]] = [status |-> "ACTIVE", end |-> TimeLeft(Level[o]) + Length[o]]
      BY <2>3, <2>5, <3>2 DEF Activated, TimeLeft
    <3> QED
      BY <3>3 DEF TimeLeft
  <2> QED
    BY <2>4, <2>5
<1>2. ASSUME PInv, [Next]_vars
      PROVE  \A o \in Orders : Member(o) /\ ~Granted(o) /\ Granted(o)' => Added(o) \/ StaleConfirm
  BY <1>1, <1>2
<1> QED
  BY <1>2, AlwaysPInv, PTL DEF Spec, TimeIsLostOnlyToStaleReads
=============================================================================
