---------------------------- MODULE PointLedger ----------------------------
(***************************************************************************)
(* The point account of ONE user: the rows of point_account_logs and the   *)
(* database transactions that append to it (server/marketing-center, and   *)
(* the compensation of server/admin-marketing).                            *)
(*                                                                         *)
(* There is no balance column: a writer reads balanceAfter of the latest   *)
(* row (createdAt, id) and appends a row of its own.  Consumptions and     *)
(* refunds first take the row of the user with FOR UPDATE, so what they    *)
(* read afterwards is committed and current.  Every other writer (login,   *)
(* register and check-in rewards, cards, paid orders) reads in the         *)
(* snapshot its transaction took at its first SELECT, and shares the row   *)
(* of the user from its first insert on (the foreign key).  Transactions   *)
(* run in repeatable read, the default of the database; rows are created   *)
(* in the order of their inserts (the servers' clocks agree).              *)
(***************************************************************************)
EXTENDS Integers

CONSTANTS
    Consumes,       \* consumeGenerationPoints, one per task
    Refunds,        \* refundGenerationPoints called by the task's runner
    Compensations,  \* ... called by executeGenerationPointCompensation
    Forced,         \* the compensations with forceManual
    Credits,        \* the writers that do not lock
    Of,             \* Of[r]: the consumption a refund or compensation returns
    SourceOf,       \* SourceOf[w]: the day, card or order a credit is for
    Amount,         \* points of a consumption or credit
    Opening,        \* the balance the history so far has left
    MaxAttempts     \* attempts of runPrismaTransactionWithRetry

Returns == Refunds \cup Compensations
Locking == Consumes \cup Returns
Writers == Locking \cup Credits

ASSUME LedgerAssumption ==
    /\ Consumes \cap Returns = {} /\ Refunds \cap Compensations = {}
    /\ Credits \cap Locking = {}
    /\ Of \in [Returns -> Consumes]
    /\ Forced \subseteq Compensations
    /\ Amount \in [Consumes \cup Credits -> Nat \ {0}]
    /\ Opening \in Nat
    /\ MaxAttempts \in Nat \ {0}

VARIABLES
    pc,        \* where each writer is
    seen,      \* the balance its transaction has read
    stamp,     \* createdAt of its row
    clock,
    latest,    \* the latest committed row: its createdAt and balanceAfter
    attempts,  \* failed attempts of a locking writer
    status,    \* the generation record of a consumption
    total      \* ghost: the sum of all committed changes

vars == <<pc, seen, stamp, clock, latest, attempts, status, total>>

Places == {"idle", "readStatus", "ready", "locked", "snapshot", "read", "claimed", "inserted",
           "committed", "failed", "skipped"}

TypeOK ==
    /\ pc \in [Writers -> Places]
    /\ seen \in [Writers -> Int]
    /\ stamp \in [Writers -> Nat]
    /\ clock \in Nat
    /\ latest \in [stamp : Nat, balance : Int]
    /\ attempts \in [Locking -> 0..MaxAttempts]
    /\ status \in [Consumes -> {"none", "open", "closed", "completed"}]
    /\ total \in Int

Init ==
    /\ pc = [w \in Writers |-> IF w \in Returns THEN "idle" ELSE "ready"]
    /\ seen = [w \in Writers |-> 0]
    /\ stamp = [w \in Writers |-> 0]
    /\ clock = 0
    /\ latest = [stamp |-> 0, balance |-> Opening]
    /\ attempts = [w \in Locking |-> 0]
    /\ status = [c \in Consumes |-> "none"]
    /\ total = Opening

Goes(w, from, to) == pc[w] = from /\ pc' = [pc EXCEPT ![w] = to]

\* The change a writer's row makes.
Change(w) == IF w \in Consumes THEN 0 - Amount[w]
             ELSE IF w \in Returns THEN Amount[Of[w]] ELSE Amount[w]

Excludes(w) == w \in Locking /\ pc[w] \in {"locked", "read", "inserted"}  \* holds FOR UPDATE
Shares(w)   == w \in Credits /\ pc[w] \in {"claimed", "inserted"}         \* holds the key share

----------------------------------------------------------------------------
(* consumeGenerationPoints and refundGenerationPoints *)

\* Mutant: the balance is read without the lock.
LockUser_NoWait(w) ==
    /\ w \in Locking
    /\ Goes(w, "ready", "locked")
    /\ UNCHANGED <<seen, stamp, clock, latest, attempts, status, total>>

\* lockUserBillingRow waits for every other holder.
LockUser(w) ==
    /\ w \in Locking
    /\ \A v \in Writers \ {w} : ~Excludes(v) /\ ~Shares(v)
    /\ Goes(w, "ready", "locked")
    /\ UNCHANGED <<seen, stamp, clock, latest, attempts, status, total>>

\* Mutant: the balance is not compared with the cost.
ReadBalance_NoCheck(w) ==
    /\ w \in Locking
    /\ Goes(w, "locked", "read")
    /\ seen' = [seen EXCEPT ![w] = latest.balance]
    /\ UNCHANGED <<stamp, clock, latest, attempts, status, total>>

ReadBalance(w) ==
    /\ w \in Locking
    /\ w \in Consumes => latest.balance >= Amount[w]
    /\ Goes(w, "locked", "read")
    /\ seen' = [seen EXCEPT ![w] = latest.balance]
    /\ UNCHANGED <<stamp, clock, latest, attempts, status, total>>

\* INSUFFICIENT_POINTS
Refuse(w) ==
    /\ w \in Consumes /\ latest.balance < Amount[w]
    /\ Goes(w, "locked", "failed")
    /\ UNCHANGED <<seen, stamp, clock, latest, attempts, status, total>>

----------------------------------------------------------------------------
(* The other writers *)

SameSource(w) == {v \in Credits \ {w} : SourceOf[v] = SourceOf[w]}

\* The first SELECT finds the day, card or order unclaimed and fixes the snapshot.
TakeSnapshot(w) ==
    /\ w \in Credits
    /\ Goes(w, "ready", IF \E v \in SameSource(w) : pc[v] = "committed" THEN "skipped"
                                                                        ELSE "snapshot")
    /\ seen' = [seen EXCEPT ![w] = latest.balance]
    /\ UNCHANGED <<stamp, clock, latest, attempts, status, total>>

\* Mutant: nothing but the SELECT guards a source.
Claim_NoIndex(w) ==
    /\ w \in Credits
    /\ \A v \in Locking : ~Excludes(v)
    /\ Goes(w, "snapshot", "claimed")
    /\ UNCHANGED <<seen, stamp, clock, latest, attempts, status, total>>

\* The claim, redemption or payment row: its foreign key waits for the locking
\* writer, its unique index for another claim of the same source.
Claim(w) ==
    /\ w \in Credits
    /\ \A v \in Locking : ~Excludes(v)
    /\ \A v \in SameSource(w) : pc[v] \notin {"claimed", "inserted"}
    /\ Goes(w, "snapshot", IF \E v \in SameSource(w) : pc[v] = "committed" THEN "failed"
                                                                           ELSE "claimed")
    /\ UNCHANGED <<seen, stamp, clock, latest, attempts, status, total>>

----------------------------------------------------------------------------
(* appendPointLog, and the end of a transaction *)

\* The row takes its createdAt; its balanceAfter is seen[w] + Change(w).
AppendPointLog(w) ==
    /\ \/ w \in Locking /\ Goes(w, "read", "inserted")
       \/ w \in Credits /\ Goes(w, "claimed", "inserted")
    /\ clock' = clock + 1
    /\ stamp' = [stamp EXCEPT ![w] = clock + 1]
    /\ UNCHANGED <<seen, latest, attempts, status, total>>

\* Readers see the row with the latest createdAt, whoever commits last.
Commit(w) ==
    /\ Goes(w, "inserted", "committed")
    /\ latest' = IF stamp[w] > latest.stamp
                 THEN [stamp |-> stamp[w], balance |-> seen[w] + Change(w)] ELSE latest
    /\ total' = total + Change(w)
    /\ UNCHANGED <<seen, stamp, clock, attempts, status>>

\* A deadlock, a lock wait or a pool timeout: rolled back and tried again.
Abort(w) ==
    /\ w \in Locking /\ pc[w] \in {"ready", "locked", "read", "inserted"}
    /\ attempts' = [attempts EXCEPT ![w] = @ + 1]
    /\ pc' = [pc EXCEPT ![w] = IF attempts[w] + 1 < MaxAttempts THEN "ready" ELSE "failed"]
    /\ UNCHANGED <<seen, stamp, clock, latest, status, total>>

\* Any other error, and every error of a writer without retries.
Fail(w) ==
    /\ pc[w] \in {"ready", "locked", "snapshot", "read", "claimed", "inserted"}
    /\ pc' = [pc EXCEPT ![w] = "failed"]
    /\ UNCHANGED <<seen, stamp, clock, latest, attempts, status, total>>

----------------------------------------------------------------------------
(* The task of a consumption, and executeGenerationPointCompensation *)

\* createGenerationRecord, attachGenerationPointRecordId.
RecordCreated(c) ==
    /\ pc[c] = "committed" /\ status[c] = "none"
    /\ status' = [status EXCEPT ![c] = "open"]
    /\ UNCHANGED <<pc, seen, stamp, clock, latest, attempts, total>>

\* The runner completes the record, or closes it after its refund was settled;
\* a stop or a snapshot on another instance closes it at any time.
RecordWritten(c) ==
    /\ status[c] # "none"
    /\ status' \in {[status EXCEPT ![c] = s] : s \in {"completed", "closed"}}
    /\ UNCHANGED <<pc, seen, stamp, clock, latest, attempts, total>>

\* refundTaskPointsIfNeeded of the runner.
StartRefund(r) ==
    /\ r \in Refunds /\ status[Of[r]] # "none"
    /\ Goes(r, "idle", "ready")
    /\ UNCHANGED <<seen, stamp, clock, latest, attempts, status, total>>

Refunded(c) == \E r \in Returns : Of[r] = c /\ pc[r] = "committed"

\* The consumption has been found; its refunds are read, and later its record.
ReadRefunds(k) ==
    /\ k \in Compensations /\ pc[Of[k]] = "committed"
    /\ Goes(k, "idle", IF Refunded(Of[k]) THEN "skipped" ELSE "readStatus")
    /\ UNCHANGED <<seen, stamp, clock, latest, attempts, status, total>>

ReadStatus(k) ==
    /\ k \in Compensations
    /\ Goes(k, "readStatus",
            IF k \in Forced \/ status[Of[k]] = "closed" THEN "ready" ELSE "skipped")
    /\ UNCHANGED <<seen, stamp, clock, latest, attempts, status, total>>

----------------------------------------------------------------------------
Transaction(w) ==
    \/ LockUser(w) \/ ReadBalance(w) \/ Refuse(w)
    \/ TakeSnapshot(w) \/ Claim(w)
    \/ AppendPointLog(w) \/ Commit(w) \/ Abort(w) \/ Fail(w)
    \/ StartRefund(w) \/ ReadRefunds(w) \/ ReadStatus(w)

Task(c) == RecordCreated(c) \/ RecordWritten(c)

Next == (\E w \in Writers : Transaction(w)) \/ (\E c \in Consumes : Task(c))

Spec == Init /\ [][Next]_vars

----------------------------------------------------------------------------
(* Properties *)

Committed == {w \in Writers : pc[w] = "committed"}

\* The account that users rely on: balance and bookings as PointAccount has them.
Account == INSTANCE PointAccount WITH balance <- latest.balance, applied <- Committed

\* With consumptions, refunds and compensations only, however they interleave
\* and are retried, the ledger is such an account.
IsAnAccount == Account!Spec

\* The latest row is the sum of all changes.
LedgerIsRunningSum == latest.balance = total

\* Whatever the unlocked writers do, a committed consumption or refund changes
\* the visible balance by exactly its own amount.
LockedRowsAreExact ==
    [][\A w \in Locking : pc[w] # "committed" /\ pc'[w] = "committed" =>
           latest'.balance = latest.balance + Change(w)]_vars

\* The account is never overdrawn.
NeverOverdrawn == latest.balance >= 0

\* A day, a card or an order is credited once, however many requests race.
CreditedOnce ==
    \A v, w \in Credits :
        SourceOf[v] = SourceOf[w] /\ pc[v] = "committed" /\ pc[w] = "committed" => v = w

=============================================================================
