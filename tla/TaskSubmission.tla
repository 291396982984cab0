--------------------------- MODULE TaskSubmission ---------------------------
(***************************************************************************)
(* Admission of generation tasks: startGenerationTask from the idempotency *)
(* claim to the background start, and the release of the concurrency slots *)
(* when the task ends.                                                     *)
(*                                                                         *)
(* A submission is one HTTP request; repeated clicks are submissions with  *)
(* the same idempotency key.  Every await is a step boundary.  Without a   *)
(* Redis client the claim and the slots are granted unconditionally and    *)
(* completing, clearing and releasing do nothing: a deployment without     *)
(* Redis behaves as one whose outage never ends.  What the task does while *)
(* it runs is the subject of TaskExecution; here it ends in one step.      *)
(***************************************************************************)
EXTENDS Naturals, FiniteSets

CONSTANTS
    Submissions,  \* requests to start a task
    Keys,         \* idempotency keys: hashes of user, strategy and payload
    SlotKeys,     \* concurrency counters: per user, per skill, per provider
    KeyOf,        \* KeyOf[s]: the key of a submission
    SlotKeyOf,    \* SlotKeyOf[s][i]: its user, skill and provider counters
    Limit,        \* Limit[k]: the limit of a counter
    Faults,       \* what may go wrong, see FaultKinds
    MaxFaults     \* bound: how many times

Scopes == 1..3    \* the order of acquisition: user, skill, provider

\* Awaited calls that may throw, and the environment's own faults.
ThrowingCalls == {"claim", "acquire", "consume", "create", "attach", "complete", "sync",
                  "release", "clear"}
FaultKinds == ThrowingCalls \cup {"outage", "entryTTL", "counterTTL", "crash"}

ASSUME SubmissionAssumption ==
    /\ IsFiniteSet(Submissions)
    /\ KeyOf \in [Submissions -> Keys]
    /\ SlotKeyOf \in [Submissions -> [Scopes -> SlotKeys]]
    /\ \A s \in Submissions, i, j \in Scopes : SlotKeyOf[s][i] = SlotKeyOf[s][j] => i = j
    /\ Limit \in [SlotKeys -> Nat \ {0}]
    /\ Faults \subseteq FaultKinds
    /\ MaxFaults \in Nat

VARIABLES
    entry,         \* the idempotency keys in Redis
    count,         \* the concurrency counters in Redis
    redisUp,
    pc,            \* where each submission, then its task, is
    holding,       \* the scopes each one believes to hold a slot of
    releaseThrew,  \* a release in Promise.all was rejected
    charge,        \* CONSUME row of the submission, and its REFUND
    record,        \* its generation record
    faults,        \* how many faults happened
    uncounted      \* ghost: a slot was granted or dropped without the counter

clientVars == <<pc, holding, releaseThrew>>
dbVars     == <<charge, record>>
vars == <<entry, count, redisUp, clientVars, dbVars, faults, uncounted>>

Absent == [status |-> "absent"]
Pending(s)   == [status |-> "pending", token |-> s]
Completed(s) == [status |-> "completed", token |-> s]  \* its data name the record of s

EntryValues == {Absent} \cup {Pending(s) : s \in Submissions} \cup {Completed(s) : s \in Submissions}

Submitting == {"inspect", "acquire", "consume", "create", "attach", "complete", "sync"}
Releasing  == {"giveUp", "unwind", "finally"}
Rest       == {"idle", "replayed", "conflict", "rejected", "done", "crashed"}
Places     == Submitting \cup Releasing \cup Rest \cup {"clear", "running"}

TypeOK ==
    /\ entry \in [Keys -> EntryValues]
    /\ count \in [SlotKeys -> Nat]
    /\ redisUp \in BOOLEAN
    /\ pc \in [Submissions -> Places]
    /\ holding \in [Submissions -> SUBSET Scopes]
    /\ releaseThrew \in [Submissions -> BOOLEAN]
    /\ charge \in [Submissions -> {"none", "taken", "refunded"}]
    /\ record \in [Submissions -> {"none", "open", "completed", "closed"}]
    /\ faults \in 0..MaxFaults
    /\ uncounted \in BOOLEAN

Init ==
    /\ entry = [k \in Keys |-> Absent]
    /\ count = [k \in SlotKeys |-> 0]
    /\ redisUp = TRUE
    /\ pc = [s \in Submissions |-> "idle"]
    /\ holding = [s \in Submissions |-> {}]
    /\ releaseThrew = [s \in Submissions |-> FALSE]
    /\ charge = [s \in Submissions |-> "none"]
    /\ record = [s \in Submissions |-> "none"]
    /\ faults = 0
    /\ uncounted = FALSE

\* One more fault of this kind may happen, and does.
Fault(kind) ==
    /\ kind \in Faults /\ faults < MaxFaults
    /\ faults' = faults + 1

Goes(s, from, to) == pc[s] = from /\ pc' = [pc EXCEPT ![s] = to]

\* A counter, and what the two Lua scripts of redis/concurrency.ts make of it.
Counted(s, i) == count[SlotKeyOf[s][i]]
SetCount(s, i, n) == count' = [count EXCEPT ![SlotKeyOf[s][i]] = n]

Less(n) == IF n <= 1 THEN 0 ELSE n - 1

----------------------------------------------------------------------------
(* claimIdempotencyKey *)

\* Mutant: the key is set without NX.
Claim_Always(s) ==
    /\ Goes(s, "idle", "acquire")
    /\ entry' = IF redisUp THEN [entry EXCEPT ![KeyOf[s]] = Pending(s)] ELSE entry
    /\ UNCHANGED <<count, redisUp, holding, releaseThrew, dbVars, faults, uncounted>>

\* SET NX of a pending value; without a client the claim is always granted.
Claim(s) ==
    /\ \/ ~redisUp /\ Goes(s, "idle", "acquire") /\ UNCHANGED entry
       \/ /\ redisUp /\ entry[KeyOf[s]] = Absent
          /\ Goes(s, "idle", "acquire")
          /\ entry' = [entry EXCEPT ![KeyOf[s]] = Pending(s)]
       \/ redisUp /\ entry[KeyOf[s]] # Absent /\ Goes(s, "idle", "inspect") /\ UNCHANGED entry
    /\ UNCHANGED <<count, redisUp, holding, releaseThrew, dbVars, faults, uncounted>>

\* The claim is outside the try block: when it throws nothing is cleared.
ClaimFails(s) ==
    /\ pc[s] \in {"idle", "inspect"}
    /\ \/ redisUp /\ Fault("claim")
       \/ ~redisUp /\ pc[s] = "inspect" /\ UNCHANGED faults
    /\ pc' = [pc EXCEPT ![s] = "rejected"]
    /\ \/ UNCHANGED entry
       \/ /\ redisUp /\ pc[s] = "idle" /\ entry[KeyOf[s]] = Absent
          /\ entry' = [entry EXCEPT ![KeyOf[s]] = Pending(s)]
    /\ UNCHANGED <<count, redisUp, holding, releaseThrew, dbVars, uncounted>>

\* The value is read by a GET of its own: a key gone by now reads as in progress.
Inspect(s) ==
    /\ redisUp
    /\ Goes(s, "inspect",
            IF entry[KeyOf[s]].status = "completed" THEN "replayed" ELSE "conflict")
    /\ UNCHANGED <<entry, count, redisUp, holding, releaseThrew, dbVars, faults, uncounted>>

----------------------------------------------------------------------------
(* acquireTaskConcurrencySlots *)

NextScope(s, i) == i \notin holding[s] /\ \A j \in Scopes : j < i => j \in holding[s]

\* Mutant: the limit itself is still admitted.
AcquireSlot_OffByOne(s, i) ==
    /\ NextScope(s, i)
    /\ Goes(s, "acquire", IF i = 3 THEN "consume" ELSE "acquire")
    /\ holding' = [holding EXCEPT ![s] = @ \cup {i}]
    /\ \/ ~redisUp /\ uncounted' = TRUE /\ UNCHANGED count
       \/ /\ redisUp /\ Counted(s, i) <= Limit[SlotKeyOf[s][i]]
          /\ SetCount(s, i, Counted(s, i) + 1)
          /\ UNCHANGED uncounted
    /\ UNCHANGED <<entry, redisUp, releaseThrew, dbVars, faults>>

AcquireSlot(s, i) ==
    /\ NextScope(s, i)
    /\ Goes(s, "acquire", IF i = 3 THEN "consume" ELSE "acquire")
    /\ holding' = [holding EXCEPT ![s] = @ \cup {i}]
    /\ \/ ~redisUp /\ uncounted' = TRUE /\ UNCHANGED count
       \/ /\ redisUp /\ Counted(s, i) < Limit[SlotKeyOf[s][i]]
          /\ SetCount(s, i, Counted(s, i) + 1)
          /\ UNCHANGED uncounted
    /\ UNCHANGED <<entry, redisUp, releaseThrew, dbVars, faults>>

\* 429: the slots acquired so far are given back.
LimitReached(s, i) ==
    /\ redisUp /\ NextScope(s, i) /\ Counted(s, i) >= Limit[SlotKeyOf[s][i]]
    /\ Goes(s, "acquire", "giveUp")
    /\ UNCHANGED <<entry, count, redisUp, holding, releaseThrew, dbVars, faults, uncounted>>

\* The script throws, before or after it incremented the counter.
AcquireFails(s, i) ==
    /\ redisUp /\ NextScope(s, i) /\ Fault("acquire")
    /\ Goes(s, "acquire", "giveUp")
    /\ \/ UNCHANGED count
       \/ Counted(s, i) < Limit[SlotKeyOf[s][i]] /\ SetCount(s, i, Counted(s, i) + 1)
    /\ UNCHANGED <<entry, redisUp, holding, releaseThrew, dbVars, uncounted>>

----------------------------------------------------------------------------
(* Charge, record, key, background start *)

Consume(s) ==
    /\ Goes(s, "consume", "create")
    /\ charge' = [charge EXCEPT ![s] = "taken"]
    /\ UNCHANGED <<entry, count, redisUp, holding, releaseThrew, record, faults, uncounted>>

\* The balance does not cover the cost (or the price cannot be resolved).
Unaffordable(s) ==
    /\ Goes(s, "consume", "unwind")
    /\ UNCHANGED <<entry, count, redisUp, holding, releaseThrew, dbVars, faults, uncounted>>

CreateRecord(s) ==
    /\ Goes(s, "create", "attach")
    /\ record' = [record EXCEPT ![s] = "open"]
    /\ UNCHANGED <<entry, count, redisUp, holding, releaseThrew, charge, faults, uncounted>>

AttachRecordId(s) ==
    /\ Goes(s, "attach", "complete")
    /\ UNCHANGED <<entry, count, redisUp, holding, releaseThrew, dbVars, faults, uncounted>>

\* Only the holder of the pending token turns it into a completed value.
CompleteKey(s) ==
    /\ Goes(s, "complete", "sync")
    /\ entry' = IF redisUp /\ entry[KeyOf[s]] = Pending(s)
                THEN [entry EXCEPT ![KeyOf[s]] = Completed(s)] ELSE entry
    /\ UNCHANGED <<count, redisUp, holding, releaseThrew, dbVars, faults, uncounted>>

\* syncSharedTaskRuntime('queued'), then runTaskInBackground.
StartTask(s) ==
    /\ Goes(s, "sync", "running")
    /\ UNCHANGED <<entry, count, redisUp, holding, releaseThrew, dbVars, faults, uncounted>>

\* One of these calls throws, before or after its effect: the catch block follows.
StartFails(s) ==
    /\ pc[s] \in {"consume", "create", "attach", "complete", "sync"}
    /\ Fault(pc[s])
    /\ pc[s] \in {"complete", "sync"} => redisUp
    /\ pc' = [pc EXCEPT ![s] = "unwind"]
    /\ \/ UNCHANGED <<entry, dbVars>>
       \/ /\ pc[s] = "consume"
          /\ charge' = [charge EXCEPT ![s] = "taken"] /\ UNCHANGED <<entry, record>>
       \/ /\ pc[s] = "create"
          /\ record' = [record EXCEPT ![s] = "open"] /\ UNCHANGED <<entry, charge>>
       \/ /\ pc[s] = "complete" /\ entry[KeyOf[s]] = Pending(s)
          /\ entry' = [entry EXCEPT ![KeyOf[s]] = Completed(s)] /\ UNCHANGED dbVars
    /\ UNCHANGED <<count, redisUp, holding, releaseThrew, uncounted>>

\* The task as its user sees it: completed and paid, or closed and refunded, or
\* skipped because the execution lock could not be asked for.
TaskEnds(s) ==
    /\ Goes(s, "running", "finally")
    /\ \/ record' = [record EXCEPT ![s] = "completed"] /\ UNCHANGED charge
       \/ /\ record' = [record EXCEPT ![s] = "closed"]
          /\ charge' = [charge EXCEPT ![s] = "refunded"]
       \/ ~redisUp /\ UNCHANGED dbVars
    /\ UNCHANGED <<entry, count, redisUp, holding, releaseThrew, faults, uncounted>>

----------------------------------------------------------------------------
(* releaseTaskConcurrencySlots in the two catch blocks and in finally *)

\* Mutant: the slots of a refused submission are kept.
ReleaseSlot_KeepsOnGiveUp(s, i) ==
    /\ pc[s] \in Releasing /\ i \in holding[s]
    /\ holding' = [holding EXCEPT ![s] = @ \ {i}]
    /\ count' = IF redisUp /\ pc[s] # "giveUp"
                THEN [count EXCEPT ![SlotKeyOf[s][i]] = Less(@)] ELSE count
    /\ UNCHANGED <<entry, redisUp, pc, releaseThrew, dbVars, faults, uncounted>>

\* The releases of Promise.all, in any order; without a client none happens.
ReleaseSlot(s, i) ==
    /\ pc[s] \in Releasing /\ i \in holding[s]
    /\ holding' = [holding EXCEPT ![s] = @ \ {i}]
    /\ count' = IF redisUp THEN [count EXCEPT ![SlotKeyOf[s][i]] = Less(@)] ELSE count
    /\ UNCHANGED <<entry, redisUp, pc, releaseThrew, dbVars, faults, uncounted>>

ReleaseFails(s, i) ==
    /\ redisUp /\ Fault("release")
    /\ pc[s] \in Releasing /\ i \in holding[s]
    /\ holding' = [holding EXCEPT ![s] = @ \ {i}]
    /\ count' \in {count, [count EXCEPT ![SlotKeyOf[s][i]] = Less(@)]}
    /\ releaseThrew' = [releaseThrew EXCEPT ![s] = TRUE]
    /\ UNCHANGED <<entry, redisUp, pc, dbVars, uncounted>>

\* A release that threw in startGenerationTask's catch skips the clearing of the
\* key; thrown in acquireTaskConcurrencySlots' catch it does not.
SlotsReleased(s) ==
    /\ holding[s] = {}
    /\ \/ Goes(s, "giveUp", "clear")
       \/ Goes(s, "unwind", IF releaseThrew[s] THEN "rejected" ELSE "clear")
       \/ Goes(s, "finally", "done")
    /\ UNCHANGED <<entry, count, redisUp, holding, releaseThrew, dbVars, faults, uncounted>>

\* Mutant: the token is not compared.
ClearPendingKey_AnyToken(s) ==
    /\ Goes(s, "clear", "rejected")
    /\ entry' = IF redisUp THEN [entry EXCEPT ![KeyOf[s]] = Absent] ELSE entry
    /\ UNCHANGED <<count, redisUp, holding, releaseThrew, dbVars, faults, uncounted>>

\* clearPendingIdempotencyKey: only a pending value with the submission's token.
ClearPendingKey(s) ==
    /\ Goes(s, "clear", "rejected")
    /\ entry' = IF redisUp /\ entry[KeyOf[s]] = Pending(s)
                THEN [entry EXCEPT ![KeyOf[s]] = Absent] ELSE entry
    /\ UNCHANGED <<count, redisUp, holding, releaseThrew, dbVars, faults, uncounted>>

ClearFails(s) ==
    /\ redisUp /\ Fault("clear")
    /\ Goes(s, "clear", "rejected")
    /\ UNCHANGED <<entry, count, redisUp, holding, releaseThrew, dbVars, uncounted>>

----------------------------------------------------------------------------
(* Environment *)

\* The process serving s dies; nobody releases what s held.
Crash(s) ==
    /\ Fault("crash")
    /\ pc[s] \notin Rest
    /\ pc' = [pc EXCEPT ![s] = "crashed"]
    /\ holding' = [holding EXCEPT ![s] = {}]
    /\ UNCHANGED <<entry, count, redisUp, releaseThrew, dbVars, uncounted>>

RedisGoesDown ==
    /\ redisUp /\ Fault("outage")
    /\ redisUp' = FALSE
    /\ UNCHANGED <<entry, count, clientVars, dbVars, uncounted>>

RedisComesBack ==
    /\ ~redisUp
    /\ redisUp' = TRUE
    /\ UNCHANGED <<entry, count, clientVars, dbVars, faults, uncounted>>

\* taskIdempotencyTtlSeconds (10 minutes).
EntryExpires(k) ==
    /\ entry[k] # Absent /\ Fault("entryTTL")
    /\ entry' = [entry EXCEPT ![k] = Absent]
    /\ UNCHANGED <<count, redisUp, clientVars, dbVars, uncounted>>

\* taskConcurrencyTtlSeconds (30 minutes) after the last acquisition.
CounterExpires(k) ==
    /\ count[k] > 0 /\ Fault("counterTTL")
    /\ count' = [count EXCEPT ![k] = 0]
    /\ uncounted' = TRUE
    /\ UNCHANGED <<entry, redisUp, clientVars, dbVars>>

----------------------------------------------------------------------------
Submit(s) ==
    \/ Claim(s) \/ ClaimFails(s) \/ Inspect(s)
    \/ \E i \in Scopes : AcquireSlot(s, i) \/ LimitReached(s, i) \/ AcquireFails(s, i)
    \/ Consume(s) \/ Unaffordable(s) \/ CreateRecord(s) \/ AttachRecordId(s)
    \/ CompleteKey(s) \/ StartTask(s) \/ StartFails(s) \/ TaskEnds(s)
    \/ \E i \in Scopes : ReleaseSlot(s, i) \/ ReleaseFails(s, i)
    \/ SlotsReleased(s) \/ ClearPendingKey(s) \/ ClearFails(s)

Environment ==
    \/ \E s \in Submissions : Crash(s)
    \/ RedisGoesDown \/ RedisComesBack
    \/ \E k \in Keys : EntryExpires(k)
    \/ \E k \in SlotKeys : CounterExpires(k)

Next == (\E s \in Submissions : Submit(s)) \/ Environment

Spec == Init /\ [][Next]_vars

\* Awaited calls return or throw: a submission that was received, and the task
\* it started, are scheduled until they end.
FairSpec == Spec /\ \A s \in Submissions : WF_vars(pc[s] # "idle" /\ Submit(s))

----------------------------------------------------------------------------
(* Properties *)

Holders(k) == {s \in Submissions : \E i \in holding[s] : SlotKeyOf[s][i] = k}

\* As long as every grant went through the counter: no user, skill or provider
\* ever has more tasks admitted than its limit, whatever throws or crashes.
AdmissionBound == ~uncounted => \A k \in SlotKeys : Cardinality(Holders(k)) <= Limit[k]

\* Without faults the counters are exact: every way out of a submission and of
\* its task releases each slot once.
SlotsMatchHolders == faults = 0 => \A k \in SlotKeys : count[k] = Cardinality(Holders(k))

\* Without faults, repeated clicks create one record and one charge.
OneTaskPerKey ==
    faults = 0 =>
        \A s, t \in Submissions :
            KeyOf[s] = KeyOf[t] /\ record[s] # "none" /\ record[t] # "none" => s = t

\* A submission whose claim expired neither completes nor clears the claim a
\* later one made meanwhile.
ForeignClaimSurvives ==
    [][\A s \in Submissions : pc'[s] # pc[s] =>
           (entry[KeyOf[s]] \in {Absent, Pending(s), Completed(s)}
            \/ entry'[KeyOf[s]] = entry[KeyOf[s]])]_vars

\* Liveness, without faults: whatever limits refuse and however submissions
\* interleave, in the end every counter is back at zero.
SlotsDrain == <>[](faults > 0 \/ \A k \in SlotKeys : count[k] = 0)

=============================================================================
