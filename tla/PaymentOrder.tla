---------------------------- MODULE PaymentOrder ----------------------------
(***************************************************************************)
(* The paid orders of ONE user (server/marketing-center/service.ts): an    *)
(* order is created PENDING, a payment intent makes it PAYING, and a       *)
(* webhook of the provider, or the local simulation, confirms the payment  *)
(* and grants what was bought, all in one transaction.                     *)
(*                                                                         *)
(* Handlers are the requests the service works on at one time; each one    *)
(* serves any payload of Payloads, again and again, so a notification may  *)
(* arrive twice at once.  A handler takes a Redis lock per order that is   *)
(* never renewed, so it may expire under it.                               *)
(*                                                                         *)
(* The transaction of a webhook reads the order before                     *)
(* it locks its row: in repeatable read, the default of MySQL, everything  *)
(* it selects afterwards comes from that first snapshot, while its inserts *)
(* and updates meet the committed rows.  Intents and local confirmations   *)
(* lock first.  What a transaction writes is visible when it commits and   *)
(* its row locks are held until then, so its writes are one step.          *)
(*                                                                         *)
(* An upsert of the client library reads, then inserts or updates.  Time   *)
(* does not pass: the end of a membership is counted in paid periods.      *)
(***************************************************************************)
EXTENDS Integers, Sequences

CONSTANTS
    Orders,
    Handlers,     \* requests served at the same time
    Levels,       \* membership levels
    Level,        \* Level[o]: what o buys; NoLevel for a recharge order
    NoLevel,
    Held,         \* the levels the user may be a member of before
    Length,       \* Length[o]: the periods o buys
    Bonus,        \* the membership orders that also grant points
    Payloads,     \* what the requests carry
    Nobody,
    MaxAttempts,  \* attempts of runPrismaTransactionWithRetry
    MaxFaults     \* bound: deadlocks and crashes

\* The idempotency key of an intent; the other keys come with the payload.
IntentKey == "INTENT"
Payload == [op : {"intent", "webhook", "local"}, order : Orders, event : STRING,
            paid : BOOLEAN, exact : BOOLEAN]
NoPayload == [op |-> "none"]

ASSUME PaymentAssumption ==
    /\ Nobody \notin Handlers
    /\ NoLevel \notin Levels
    /\ Level \in [Orders -> Levels \cup {NoLevel}]
    /\ Held \subseteq Levels
    /\ Length \in [Orders -> Nat \ {0}]
    /\ Bonus \subseteq Orders
    /\ Payloads \subseteq Payload
    /\ \A p \in Payloads : (p.op = "intent") <=> (p.event = IntentKey)
    /\ MaxAttempts \in Nat \ {0}
    /\ MaxFaults \in Nat

VARIABLES
    status,    \* of the order rows
    payments,  \* rows of payment_transactions
    grants,    \* the rows of benefit_grants of each order: the keys of their payments
    credits,   \* the number of rows of point_account_logs each order has paid for
    subs,      \* rows of user_subscriptions, per level
    load,      \* what a handler works on
    snap,      \* what its transaction sees
    lease,     \* the Redis lock of an order
    pc, attempts, faults

rows == <<status, payments, grants, credits, subs>>
vars == <<status, payments, grants, credits, subs, load, snap, lease, pc, attempts, faults>>

Of(w) == load[w].order
Member(o) == Level[o] # NoLevel
PaysPoints(o) == ~Member(o) \/ o \in Bonus

PaymentRows == [order : Orders, event : STRING, payId : BOOLEAN,
                status : {"INTENT_CREATED", "VERIFIED", "REJECTED"}]
Rows == [status : [Orders -> {"none", "PENDING", "PAYING", "BENEFIT_GRANTED"}],
         payments : SUBSET PaymentRows,
         grants : [Orders -> Seq(STRING)],
         credits : [Orders -> Nat],
         subs : [Levels -> [status : {"none", "ACTIVE", "EXPIRED"}, end : Nat]]]

\* The committed rows, as a consistent read finds them.
Committed == [status |-> status, payments |-> payments, grants |-> grants,
              credits |-> credits, subs |-> subs]

Blank == [status |-> [o \in Orders |-> "none"], payments |-> {},
          grants |-> [o \in Orders |-> <<>>], credits |-> [o \in Orders |-> 0],
          subs |-> [l \in Levels |-> [status |-> "none", end |-> 0]]]

\* The user may hold a membership with a period left.
EarlierSubs ==
    {Blank.subs} \cup
        {[Blank.subs EXCEPT ![l] = [status |-> "ACTIVE", end |-> 1]] : l \in Held}

TypeOK ==
    /\ Committed \in Rows
    /\ load \in [Handlers -> Payloads \cup {NoPayload}]
    /\ snap \in [Handlers -> Rows]
    /\ lease \in [Orders -> Handlers \cup {Nobody}]
    /\ pc \in [Handlers -> {"idle", "claimed", "read", "locked", "leaving"}]
    /\ \A w \in Handlers : (load[w] = NoPayload) <=> (pc[w] = "idle")
    /\ attempts \in [Handlers -> 0..MaxAttempts]
    /\ \A w \in Handlers : pc[w] # "leaving" => attempts[w] < MaxAttempts
    /\ faults \in 0..MaxFaults

Init ==
    /\ status = Blank.status
    /\ payments = Blank.payments
    /\ grants = Blank.grants
    /\ credits = Blank.credits
    /\ subs \in EarlierSubs
    /\ load = [w \in Handlers |-> NoPayload]
    /\ snap = [w \in Handlers |-> Blank]
    /\ lease = [o \in Orders |-> Nobody]
    /\ pc = [w \in Handlers |-> "idle"]
    /\ attempts = [w \in Handlers |-> 0]
    /\ faults = 0

Goes(w, from, to) == pc[w] = from /\ pc' = [pc EXCEPT ![w] = to]

\* The transaction ends and with it the snapshot.
Ends(w, from) == Goes(w, from, "leaving") /\ snap' = [snap EXCEPT ![w] = Blank]

----------------------------------------------------------------------------
(* Orders *)

\* createMembershipPurchaseOrder, createRechargePurchaseOrder
CreateOrder(o) ==
    /\ status[o] = "none"
    /\ status' = [status EXCEPT ![o] = "PENDING"]
    /\ UNCHANGED <<payments, grants, credits, subs, load, snap, lease, pc, attempts, faults>>

----------------------------------------------------------------------------
(* The Redis lock of handleMarketingPaymentWebhook and of                  *)
(* confirmLocalPaymentAndGrantBenefits; an intent takes none               *)

\* A request arrives, the first time or again.
Arrives(w, p) ==
    /\ status[p.order] # "none"
    /\ Goes(w, "idle", "claimed")
    /\ load' = [load EXCEPT ![w] = p]

\* Without the lock, or without an answer of Redis, the request is refused and has
\* changed nothing; its sender repeats it.
AcquireLock(w, p) ==
    /\ p.op # "intent"
    /\ Arrives(w, p)
    /\ lease[p.order] = Nobody
    /\ lease' = [lease EXCEPT ![p.order] = w]
    /\ UNCHANGED <<rows, snap, attempts, faults>>

BeginIntent(w, p) ==
    /\ p.op = "intent"
    /\ Arrives(w, p)
    /\ UNCHANGED <<rows, snap, lease, attempts, faults>>

\* Mutant: the lock is set without PX.
ExpireLease_Never(o) == FALSE /\ UNCHANGED vars

ExpireLease(o) ==
    /\ lease[o] # Nobody
    /\ lease' = [lease EXCEPT ![o] = Nobody]
    /\ UNCHANGED <<rows, load, snap, pc, attempts, faults>>

\* The finally block: only the own token is deleted.
ReleaseLease(w) ==
    /\ Goes(w, "leaving", "idle")
    /\ load' = [load EXCEPT ![w] = NoPayload]
    /\ lease' = IF lease[Of(w)] = w THEN [lease EXCEPT ![Of(w)] = Nobody] ELSE lease
    /\ attempts' = [attempts EXCEPT ![w] = 0]
    /\ UNCHANGED <<rows, snap, faults>>

----------------------------------------------------------------------------
(* The transactions *)

\* readOrderForPayment of a webhook: the snapshot of its transaction.
ReadOrder(w) ==
    /\ load[w].op = "webhook"
    /\ \/ /\ load[w].paid /\ status[Of(w)] # "BENEFIT_GRANTED"
          /\ Goes(w, "claimed", "read")
          /\ snap' = [snap EXCEPT ![w] = Committed]
       \/ ~load[w].paid /\ Ends(w, "claimed")                                \* ignored
       \/ load[w].paid /\ status[Of(w)] = "BENEFIT_GRANTED" /\ Ends(w, "claimed")
    /\ UNCHANGED <<rows, load, lease, attempts, faults>>

\* Somebody else holds the row of the order with FOR UPDATE.
RowIsLocked(w) == \E v \in Handlers \ {w} : pc[v] = "locked" /\ Of(v) = Of(w)

\* A webhook keeps the snapshot it has ...
LockReadOrder(w) ==
    /\ Goes(w, "read", "locked")
    /\ ~RowIsLocked(w)
    /\ UNCHANGED <<rows, load, snap, lease, attempts, faults>>

\* Mutant: an intent reads the order before it waits for the row.
LockOrder_ReadsFirst(w) ==
    /\ load[w].op # "webhook"
    /\ \/ /\ Goes(w, "claimed", "read")
          /\ snap' = [snap EXCEPT ![w] = Committed]
       \/ /\ Goes(w, "read", "locked")
          /\ ~RowIsLocked(w)
          /\ UNCHANGED snap
    /\ UNCHANGED <<rows, load, lease, attempts, faults>>

\* ... the others read after the lock: whatever the row's last holder wrote.
LockOrder(w) ==
    /\ load[w].op # "webhook"
    /\ Goes(w, "claimed", "locked")
    /\ ~RowIsLocked(w)
    /\ snap' = [snap EXCEPT ![w] = Committed]
    /\ UNCHANGED <<rows, load, lease, attempts, faults>>

\* recordPaymentTransaction: a row with the same key is returned as it is, a new one
\* must be unique in the order's keys and in the provider's payment id, which the
\* intent and the webhooks of an order share.
PaymentRow(w, st) ==
    [order |-> Of(w), event |-> load[w].event, payId |-> load[w].op # "local", status |-> st]

Recorded(w) == \E p \in snap[w].payments : p.order = Of(w) /\ p.event = load[w].event

PaymentClash(w) ==
    /\ ~Recorded(w)
    /\ \E p \in payments : /\ p.order = Of(w)
                           /\ p.event = load[w].event \/ (p.payId /\ load[w].op # "local")

PaymentsWith(w, st) == IF Recorded(w) THEN payments ELSE payments \cup {PaymentRow(w, st)}

\* createPaymentIntentInTransaction
CreateIntent(w) ==
    /\ load[w].op = "intent"
    /\ IF snap[w].status[Of(w)] \in {"PENDING", "PAYING"} /\ ~PaymentClash(w)
       THEN /\ payments' = PaymentsWith(w, "INTENT_CREATED")
            /\ status' = [status EXCEPT ![Of(w)] = "PAYING"]
       ELSE UNCHANGED <<payments, status>>
    /\ Ends(w, "locked")
    /\ UNCHANGED <<grants, credits, subs, load, lease, attempts, faults>>

\* Mutant: a membership always starts now.
Activated_FromNow(s, w) == [status |-> "ACTIVE", end |-> Length[Of(w)]]

\* activateMembership extends the active period it has read.
Activated(s, w) ==
    LET old == s.subs[Level[Of(w)]]
    IN  [status |-> "ACTIVE", end |-> (IF old.status = "ACTIVE" THEN old.end ELSE 0) + Length[Of(w)]]

\* The subscription rows after it: every other level expires.
SubsWith(w) ==
    IF ~Member(Of(w)) THEN subs
    ELSE [l \in Levels |->
            IF l = Level[Of(w)] THEN Activated(snap[w], w)
            ELSE IF subs[l].status = "ACTIVE" THEN [subs[l] EXCEPT !.status = "EXPIRED"] ELSE subs[l]]

\* A point row or subscription row that the snapshot lacks is there by now.
CreditClash(w) == PaysPoints(Of(w)) /\ snap[w].credits[Of(w)] = 0 /\ credits[Of(w)] > 0
SubClash(w)    == /\ Member(Of(w))
                  /\ snap[w].subs[Level[Of(w)]].status = "none"
                  /\ subs[Level[Of(w)]].status # "none"

\* Mutant: neither benefit_grants nor point_account_logs has its unique index.
BenefitClash_NoIndex(w) == SubClash(w)

\* activateMembership, appendPointLog and createSuccessfulBenefitGrant look into the
\* snapshot and insert against the unique indexes.
BenefitClash(w) ==
    SubClash(w) \/ CreditClash(w) \/ (snap[w].grants[Of(w)] = <<>> /\ grants[Of(w)] # <<>>)

\* The writes of confirmMembershipPaymentInTransaction and confirmRechargePaymentInTransaction.
Grant(w) ==
    /\ payments' = PaymentsWith(w, "VERIFIED")
    /\ subs' = SubsWith(w)
    /\ credits' = IF PaysPoints(Of(w)) /\ snap[w].credits[Of(w)] = 0
                  THEN [credits EXCEPT ![Of(w)] = @ + 1] ELSE credits
    /\ grants' = IF snap[w].grants[Of(w)] = <<>>
                 THEN [grants EXCEPT ![Of(w)] = Append(@, load[w].event)] ELSE grants
    /\ status' = [status EXCEPT ![Of(w)] = "BENEFIT_GRANTED"]

\* Mutant: the row of a mismatch survives its transaction.
Confirm_KeepsRejected(w) ==
    /\ load[w].op # "intent"
    /\ Ends(w, "locked")
    /\ IF snap[w].status[Of(w)] = "BENEFIT_GRANTED" \/ PaymentClash(w) \/ BenefitClash(w)
       THEN UNCHANGED rows
       ELSE IF load[w].exact THEN Grant(w)
       ELSE payments' = PaymentsWith(w, "REJECTED") /\ UNCHANGED <<status, grants, credits, subs>>
    /\ UNCHANGED <<load, lease, attempts, faults>>

\* An order that is granted in the snapshot is left alone.  A mismatch writes a REJECTED
\* row and throws, so that row goes with the transaction; so does everything else when
\* an insert meets a unique index.
Confirm(w) ==
    /\ load[w].op # "intent"
    /\ Ends(w, "locked")
    /\ \/ /\ snap[w].status[Of(w)] # "BENEFIT_GRANTED" /\ load[w].exact
          /\ ~PaymentClash(w) /\ ~BenefitClash(w)
          /\ Grant(w)
       \/ /\ \/ snap[w].status[Of(w)] = "BENEFIT_GRANTED" \/ ~load[w].exact
             \/ PaymentClash(w) \/ BenefitClash(w)
          /\ UNCHANGED rows
    /\ UNCHANGED <<load, lease, attempts, faults>>

----------------------------------------------------------------------------
(* Faults *)

\* A deadlock or lock timeout rolls back; the transaction runs again with a new snapshot,
\* and gives up after the last attempt.
Retry(w) ==
    /\ pc[w] \in {"read", "locked"}
    /\ faults < MaxFaults /\ faults' = faults + 1
    /\ snap' = [snap EXCEPT ![w] = Blank]
    /\ attempts' = [attempts EXCEPT ![w] = @ + 1]
    /\ pc' = [pc EXCEPT ![w] = IF attempts[w] + 1 < MaxAttempts THEN "claimed" ELSE "leaving"]
    /\ UNCHANGED <<rows, load, lease>>

\* The instance dies: no finally block runs.
Crash(w) ==
    /\ pc[w] # "idle"
    /\ faults < MaxFaults /\ faults' = faults + 1
    /\ load' = [load EXCEPT ![w] = NoPayload]
    /\ snap' = [snap EXCEPT ![w] = Blank]
    /\ pc' = [pc EXCEPT ![w] = "idle"]
    /\ attempts' = [attempts EXCEPT ![w] = 0]
    /\ UNCHANGED <<rows, lease>>

Genuine(p) == p.op = "webhook" /\ p.paid /\ p.exact

Proceeds(w) ==
    \/ ReadOrder(w) \/ LockReadOrder(w) \/ LockOrder(w) \/ CreateIntent(w) \/ Confirm(w)
    \/ ReleaseLease(w)

Next ==
    \/ \E o \in Orders : CreateOrder(o) \/ ExpireLease(o)
    \/ \E w \in Handlers, p \in Payloads : AcquireLock(w, p) \/ BeginIntent(w, p)
    \/ \E w \in Handlers : Proceeds(w) \/ Retry(w) \/ Crash(w)

Spec == Init /\ [][Next]_vars

\* Redis removes a key at its TTL, a row lock that keeps becoming free is granted, and a
\* provider repeats the notification of a payment until one delivery finds the lock free.
Fairness ==
    /\ \A o \in Orders : WF_vars(ExpireLease(o))
    /\ \A w \in Handlers : SF_vars(Proceeds(w))
    /\ \A p \in {q \in Payloads : Genuine(q)} : SF_vars(\E w \in Handlers : AcquireLock(w, p))

FairSpec == Spec /\ Fairness

----------------------------------------------------------------------------
(* Properties *)

Granted(o) == status[o] = "BENEFIT_GRANTED"
Verified(o) == {p \in payments : p.order = o /\ p.status = "VERIFIED"}

\* What an order buys is given once and only together with its status, even when the
\* Redis lock has expired and two webhooks confirm from stale snapshots.
GrantedOnce ==
    \A o \in Orders :
        /\ Len(grants[o]) = IF Granted(o) THEN 1 ELSE 0
        /\ credits[o] = IF Granted(o) /\ PaysPoints(o) THEN 1 ELSE 0

\* A benefit belongs to the one VERIFIED payment of its order: no payment is verified
\* without its benefit, and no benefit refers to a refused payment.
BenefitIsPaid ==
    \A o \in Orders :
        /\ Granted(o) <=> Verified(o) # {}
        /\ \A p, q \in Verified(o) : p = q
        /\ \A i \in 1..Len(grants[o]) : \E p \in Verified(o) : p.event = grants[o][i]

\* A granted order stays granted: no intent created at the same time reopens it.
GrantedIsFinal == [][\A o \in Orders : Granted(o) => Granted(o)']_vars

\* What is left of a membership, and whether a confirmation is about to use an old answer.
TimeLeft(l) == IF subs[l].status = "ACTIVE" THEN subs[l].end ELSE 0
StaleConfirm == \E w \in Handlers : pc[w] = "locked" /\ pc'[w] = "leaving" /\ snap[w].subs # subs

\* A membership order adds the whole time it pays for to what is left of its level, unless
\* another order was granted after the confirmation had taken its snapshot.
TimeIsLostOnlyToStaleReads ==
    [][\A o \in Orders :
         Member(o) /\ ~Granted(o) /\ Granted(o)' =>
            TimeLeft(Level[o])' = TimeLeft(Level[o]) + Length[o] \/ StaleConfirm]_vars

\* A payment that the provider keeps notifying with the right amount is granted in the
\* end, unless a payment intent was made for the order.
HasIntent(o) == \E q \in payments : q.order = o /\ q.status = "INTENT_CREATED"
GenuinePaymentIsGranted ==
    \A p \in Payloads : Genuine(p) =>
        (status[p.order] = "PENDING") ~> (Granted(p.order) \/ HasIntent(p.order))

\* What the tests say of the webhook of a PAYING order: a genuine payment that gets to its
\* confirmation leaves the order granted.
PaidWebhookGrants ==
    [][\A w \in Handlers : pc[w] = "locked" /\ pc'[w] = "leaving" /\ Genuine(load[w])
                             /\ faults' = faults => Granted(Of(w))']_vars
=============================================================================
