------------------------ MODULE TaskExecutionProofs ------------------------
(***************************************************************************)
(* Proofs about TaskExecution for every set of instances and requests,     *)
(* every strategy and every bound on outages and errors.  IInv says, for   *)
(* each place the runner can be in, what it already wrote and gave back.   *)
(***************************************************************************)
EXTENDS TaskExecution, TLAPS

\* Where the executor is running (the renew timer is on only here).
Before    == {"created", "enqueue", "acquire"}
Body      == {"execute", "ensureFirst", "upstream", "ensureLast", "write", "syncThenWrite",
              "writeLast", "innerRefund"}
InnerDone == {"innerSync", "innerWrite"}
Running   == Body \cup InnerDone \cup {"syncCompleted", "leave"}
Handler   == {"refund", "settle", "syncSettled"}
Closing   == {"finally", "clearAbort", "done"}

\* The flag covers every row, so there is at most one.
Accounting == refunds <= 1 /\ (refunds = 1 => refundCommitted)

\* Outside writers only ever write "stopped".
WriterInv ==
    /\ writer = "nobody" => record = "open"
    /\ writer \in {"stopper", "reader"} => record = "stopped"

\* Which local of the background shell has been set where.
ControlInv ==
    /\ timer => pc \in Running
    /\ pc \in Before \cup Running \cup {"clearAbort", "skipped"} => ~threw
    /\ pc \in Handler => threw
    /\ pc \in Handler \cup InnerDone \cup {"innerRefund"} => verdict # "none"
    /\ lockLost /\ pc \in Closing \cup {"release"} => threw

\* A runner that is through has told its subscribers.
EventInv ==
    /\ pc = "leave" \/ pc \in Closing => emitted # "none"
    /\ pc = "release" /\ ~threw => emitted # "none"

\* The runner's own last write agrees with the ledger.
Balanced ==
    /\ writer = "runner" => (record = "completed" <=> refunds = 0)
    /\ refunds = 1 => record # "completed"

MoneyInv ==
    errors = 0 =>
        /\ refundCommitted => refunds = 1
        /\ pc \in Before \cup Body => refunds = 0 /\ record # "completed"
        /\ pc = "syncCompleted" => Balanced /\ refunds = 0
        /\ pc \in InnerDone => refunds = 1 /\ record # "completed"
        /\ pc = "leave" => Balanced
        /\ pc = "release" /\ ~threw => Balanced
        /\ pc = "settle" => refunds = 1
        /\ pc = "syncSettled" => refunds = 1 /\ Balanced
        /\ pc \in Closing => Balanced /\ (threw => refunds = 1)

IInv == TypeOK /\ Accounting /\ WriterInv /\ ControlInv /\ EventInv /\ MoneyInv

USE ExecutionAssumption
USE DEF IInv, TypeOK, Accounting, WriterInv, ControlInv, EventInv, MoneyInv, Balanced,
        Before, Body, InnerDone, Running, Handler, Closing
USE DEF dbVars, redisVars, envVars, runVars, taskVars, renewVars, requestVars,
        Outcomes, Statuses, StopReasons, given, CanThrow, RedisEnabled, RedisReady,
        SetSharedStatus, AbortWith, WriteRecord, ThrowOut, ThrowInside, InnerCatch

\* A step of the runner.
LEMMA RunnerStep == IInv /\ Runner => IInv'
<1> SUFFICES ASSUME IInv, Runner PROVE IInv'
  OBVIOUS
<1>1. CASE SetLocalRunningTask
  BY <1>1 DEF SetLocalRunningTask
<1>2. CASE EnqueueTask
  BY <1>2 DEF EnqueueTask
<1>3. CASE EnqueueFails
  BY <1>3 DEF EnqueueFails
<1>4. CASE RunWithoutRedis
  BY <1>4 DEF RunWithoutRedis
<1>5. CASE AcquireLock
  BY <1>5 DEF AcquireLock
<1>6. CASE SkipExecution
  BY <1>6 DEF SkipExecution
<1>7. CASE AcquireFails
  BY <1>7 DEF AcquireFails
<1>8. CASE StartRunning
  BY <1>8 DEF StartRunning
<1>9. CASE EnsureTaskNotAborted
  <2>1. threw' \in BOOLEAN /\ timer' \in BOOLEAN /\ local' \in BOOLEAN
    BY <1>9 DEF EnsureTaskNotAborted, AbortSeen
  <2>. QED
    BY <1>9, <2>1 DEF EnsureTaskNotAborted, AbortSeen
<1>10. CASE UpstreamAnswers
  BY <1>10 DEF UpstreamAnswers
<1>11. CASE UpstreamFails
  <2>1. threw' \in BOOLEAN /\ timer' \in BOOLEAN /\ local' \in BOOLEAN
    BY <1>11 DEF UpstreamFails
  <2>. QED
    BY <1>11, <2>1 DEF UpstreamFails
<1>12. CASE WriteCompleted
  BY <1>12 DEF WriteCompleted
<1>13. CASE SyncCompleted
  BY <1>13 DEF SyncCompleted
<1>14. CASE SyncThenWrite
  BY <1>14 DEF SyncThenWrite
<1>15. CASE WriteLast
  BY <1>15 DEF WriteLast
<1>16. CASE BodyCallFails
  <2>1. threw' \in BOOLEAN /\ timer' \in BOOLEAN /\ local' \in BOOLEAN
    BY <1>16 DEF BodyCallFails
  <2>. QED
    BY <1>16, <2>1 DEF BodyCallFails
<1>17. CASE InnerRefund
  BY <1>17 DEF InnerRefund, CommitRefund
<1>18. CASE InnerSync
  BY <1>18 DEF InnerSync
<1>19. CASE InnerWrite
  BY <1>19 DEF InnerWrite
<1>20. CASE InnerCallFails
  <2>1. threw' \in BOOLEAN /\ timer' \in BOOLEAN /\ refundCommitted' \in BOOLEAN
    BY <1>20 DEF InnerCallFails, RefundThrows
  <2>2. errors' # 0 /\ refunds' \in Nat
    BY <1>20 DEF InnerCallFails, RefundThrows
  <2>3. Accounting'
    BY <1>20 DEF InnerCallFails, RefundThrows
  <2>. QED
    BY <1>20, <2>1, <2>2, <2>3 DEF InnerCallFails
<1>21. CASE LeaveExecution
  <2>1. threw' \in BOOLEAN /\ timer' \in BOOLEAN /\ local' \in BOOLEAN
    BY <1>21 DEF LeaveExecution
  <2>. QED
    BY <1>21, <2>1 DEF LeaveExecution
<1>22. CASE ReleaseLock
  <2>1. threw' \in BOOLEAN /\ lock' \in BOOLEAN
    BY <1>22 DEF ReleaseLock
  <2>2. TypeOK'
    <3>1. /\ abortFlag' \in BOOLEAN /\ lock' \in BOOLEAN /\ redisUp' \in BOOLEAN
          /\ local' \in BOOLEAN /\ refundCommitted' \in BOOLEAN /\ threw' \in BOOLEAN
          /\ lockLost' \in BOOLEAN /\ timer' \in BOOLEAN
      BY <1>22 DEF ReleaseLock
    <3>2. verdict' \in {"none", "failed", "stopped"} /\ pc' \in {"refund", "finally"}
      BY <1>22 DEF ReleaseLock
    <3>3. UNCHANGED <<record, writer, refunds, runtime, outages, errors, abort, patch, emitted,
                      strategy, deployment, at, request>>
      BY <1>22 DEF ReleaseLock
    <3>. QED
      BY <3>1, <3>2, <3>3
  <2>3. Accounting'
    BY <1>22, <2>1 DEF ReleaseLock
  <2>4. WriterInv'
    BY <1>22, <2>1 DEF ReleaseLock
  <2>5. ControlInv'
    BY <1>22, <2>1 DEF ReleaseLock
  <2>6. EventInv'
    BY <1>22, <2>1 DEF ReleaseLock
  <2>7. MoneyInv'
    BY <1>22, <2>1 DEF ReleaseLock
  <2>. QED
    BY <2>2, <2>3, <2>4, <2>5, <2>6, <2>7
<1>23. CASE ReleaseFails
  BY <1>23 DEF ReleaseFails
<1>24. CASE Refund
  BY <1>24 DEF Refund, CommitRefund
<1>25. CASE Settle
  BY <1>25 DEF Settle
<1>26. CASE SyncSettled
  BY <1>26 DEF SyncSettled
<1>27. CASE HandlerFails
  <2>1. /\ refundCommitted' \in BOOLEAN
        /\ errors' # 0
        /\ refunds' \in Nat
    <3>1. CASE pc = "refund"
      BY <1>27, <3>1 DEF HandlerFails, RefundThrows
    <3>2. CASE pc # "refund"
      BY <1>27, <3>2 DEF HandlerFails
    <3>. QED
      BY <3>1, <3>2
  <2>2. Accounting'
    BY <1>27 DEF HandlerFails, RefundThrows
  <2>. QED
    BY <1>27, <2>1, <2>2 DEF HandlerFails
<1>28. CASE Finally
  <2>1. threw' \in BOOLEAN /\ timer' \in BOOLEAN /\ local' \in BOOLEAN
    BY <1>28 DEF Finally
  <2>. QED
    BY <1>28, <2>1 DEF Finally
<1>29. CASE ClearAbort
  <2>1. abortFlag' \in BOOLEAN /\ pc' = "done"
    BY <1>29 DEF ClearAbort
  <2>2. TypeOK'
    <3>1. /\ abortFlag' \in BOOLEAN /\ lock' \in BOOLEAN /\ redisUp' \in BOOLEAN
          /\ local' \in BOOLEAN /\ refundCommitted' \in BOOLEAN /\ threw' \in BOOLEAN
          /\ lockLost' \in BOOLEAN /\ timer' \in BOOLEAN
      BY <1>29 DEF ClearAbort
    <3>2. verdict' \in {"none", "failed", "stopped"} /\ pc' = "done"
      BY <1>29 DEF ClearAbort
    <3>3. UNCHANGED <<record, writer, refunds, runtime, outages, errors, abort, patch, emitted,
                      strategy, deployment, at, request>>
      BY <1>29 DEF ClearAbort
    <3>. QED
      BY <3>1, <3>2, <3>3
  <2>3. Accounting'
    BY <1>29, <2>1 DEF ClearAbort
  <2>4. WriterInv'
    BY <1>29, <2>1 DEF ClearAbort
  <2>5. ControlInv'
    BY <1>29, <2>1 DEF ClearAbort
  <2>6. EventInv'
    BY <1>29, <2>1 DEF ClearAbort
  <2>7. MoneyInv'
    BY <1>29, <2>1 DEF ClearAbort
  <2>. QED
    BY <2>2, <2>3, <2>4, <2>5, <2>6, <2>7
<1>. QED
  BY <1>1, <1>2, <1>3, <1>4, <1>5, <1>6, <1>7, <1>8, <1>9, <1>10, <1>11, <1>12, <1>13,
     <1>14, <1>15, <1>16, <1>17, <1>18, <1>19, <1>20, <1>21, <1>22, <1>23, <1>24, <1>25,
     <1>26, <1>27, <1>28, <1>29, Zenon DEF Runner

\* A partial save of the chat or the workspace happens only before the result.
LEMMA PartialStep == IInv /\ PersistPartialContent => IInv'
  BY DEF PersistPartialContent

\* The timer aborts the task but never touches what the ledger relates.
LEMMA RenewalStep == IInv /\ Renewal => IInv'
<1> SUFFICES ASSUME IInv, Renewal PROVE IInv'
  OBVIOUS
<1>1. CASE RenewDiscoversLoss
  <2>1. lockLost' \in BOOLEAN /\ timer /\ timer' = timer /\ pc' = pc
    BY <1>1 DEF RenewDiscoversLoss
  <2>. QED
    BY <1>1, <2>1 DEF RenewDiscoversLoss
<1>2. CASE RenewErrs
  BY <1>2 DEF RenewErrs
<1>3. CASE PatchRead
  BY <1>3 DEF PatchRead, SharedStatus
<1>4. CASE PatchWrite
  BY <1>4 DEF PatchWrite
<1>. QED
  BY <1>1, <1>2, <1>3, <1>4, Zenon DEF Renewal

\* Requests write the record only with "stopped".
LEMMA ServeStep == ASSUME NEW r \in Requests, IInv, Serve(r) PROVE IInv'
<1> USE DEF Goes
<1>0. request' \in [Requests -> {"idle", "readRuntime", "markAbort", "readRecord", "close", "done"}]
  BY Zenon DEF Serve, StopLocally, StopElsewhere, StopReadsRuntime, MarkAbortRequested,
      StopReadsRecord, StopClosesRecord, SnapshotReadsRecord, SnapshotReadsRuntime,
      SnapshotClosesRecord
<1>1. CASE StopLocally(r)
  BY <1>0, <1>1 DEF StopLocally
<1>2. CASE StopElsewhere(r)
  BY <1>0, <1>2 DEF StopElsewhere
<1>3. CASE StopReadsRuntime(r)
  BY <1>0, <1>3 DEF StopReadsRuntime
<1>4. CASE MarkAbortRequested(r)
  BY <1>0, <1>4 DEF MarkAbortRequested
<1>5. CASE StopReadsRecord(r)
  BY <1>0, <1>5 DEF StopReadsRecord
<1>6. CASE StopClosesRecord(r)
  BY <1>0, <1>6 DEF StopClosesRecord
<1>7. CASE SnapshotReadsRecord(r)
  BY <1>0, <1>7 DEF SnapshotReadsRecord
<1>8. CASE SnapshotReadsRuntime(r)
  BY <1>0, <1>8 DEF SnapshotReadsRuntime
<1>9. CASE SnapshotClosesRecord(r)
  BY <1>0, <1>9 DEF SnapshotClosesRecord
<1>. QED
  BY <1>1, <1>2, <1>3, <1>4, <1>5, <1>6, <1>7, <1>8, <1>9, Zenon DEF Serve

\* Outages, expiring keys and a crash.
LEMMA EnvironmentStep == IInv /\ Environment => IInv'
<1> SUFFICES ASSUME IInv, Environment PROVE IInv'
  OBVIOUS
<1>1. CASE RedisGoesDown
  <2>1. redisUp' \in BOOLEAN
    BY <1>1 DEF RedisGoesDown
  <2>. QED
    BY <1>1, <2>1 DEF RedisGoesDown
<1>2. CASE RedisComesBack
  BY <1>2 DEF RedisComesBack
<1>3. CASE LockExpires
  <2>1. lock' \in BOOLEAN
    BY <1>3 DEF LockExpires
  <2>. QED
    BY <1>3, <2>1 DEF LockExpires
<1>4. CASE RuntimeExpires
  BY <1>4 DEF RuntimeExpires
<1>5. CASE AbortFlagExpires
  <2>1. abortFlag' \in BOOLEAN
    BY <1>5 DEF AbortFlagExpires
  <2>. QED
    BY <1>5, <2>1 DEF AbortFlagExpires
<1>6. CASE Crash
  <2>1. local' \in BOOLEAN /\ timer' \in BOOLEAN
    BY <1>6 DEF Crash
  <2>. QED
    BY <1>6, <2>1 DEF Crash
<1>. QED
  BY <1>1, <1>2, <1>3, <1>4, <1>5, <1>6, Zenon DEF Environment

----------------------------------------------------------------------------
LEMMA InitIInv == Init => IInv
<1> SUFFICES ASSUME Init PROVE IInv
  OBVIOUS
<1>1. redisUp \in BOOLEAN /\ pc = "created" /\ errors = 0
  BY DEF Init
<1>2. request \in [Requests -> {"idle", "readRuntime", "markAbort", "readRecord", "close", "done"}]
  BY DEF Init
<1>3. TypeOK
  <2>1. /\ abortFlag \in BOOLEAN /\ lock \in BOOLEAN /\ redisUp \in BOOLEAN
        /\ local \in BOOLEAN /\ refundCommitted \in BOOLEAN /\ threw \in BOOLEAN
        /\ lockLost \in BOOLEAN /\ timer \in BOOLEAN
    BY DEF Init
  <2>2. /\ record = "open" /\ writer = "nobody" /\ refunds = 0 /\ runtime = "none"
        /\ outages = 0 /\ errors = 0 /\ abort = "none" /\ verdict = "none"
        /\ patch = "idle" /\ emitted = "none"
        /\ strategy \in Strategies /\ deployment \in Deployments /\ at \in [Requests -> Instances]
    BY DEF Init
  <2>. QED
    BY <1>1, <1>2, <2>1, <2>2
<1>4. Accounting /\ WriterInv /\ ControlInv /\ EventInv /\ MoneyInv
  BY <1>1 DEF Init
<1>. QED
  BY <1>3, <1>4

LEMMA NextIInv == IInv /\ [Next]_vars => IInv'
<1> SUFFICES ASSUME IInv, [Next]_vars PROVE IInv'
  OBVIOUS
<1>1. CASE Runner
  BY <1>1, RunnerStep, Zenon
<1>2. CASE PersistPartialContent
  BY <1>2, PartialStep, Zenon
<1>3. CASE Renewal
  BY <1>3, RenewalStep, Zenon
<1>4. CASE \E r \in Requests : Serve(r)
  BY <1>4, ServeStep, Zenon
<1>5. CASE Environment
  BY <1>5, EnvironmentStep, Zenon
<1>6. CASE UNCHANGED vars
  BY <1>6 DEF vars
<1>. QED
  BY <1>1, <1>2, <1>3, <1>4, <1>5, <1>6, Zenon DEF Next

HIDE DEF IInv, TypeOK, Accounting, WriterInv, ControlInv, EventInv, MoneyInv, Balanced

\* The inductive invariant holds in every reachable state.
THEOREM Inductive == Spec => []IInv
  BY InitIInv, NextIInv, PTL DEF Spec

\* Every variable keeps its type: no step of a request, of the runner or of
\* Redis leaves a status, a reason or a program counter outside its set.
THEOREM TypeCorrect == Spec => []TypeOK
<1>1. IInv => TypeOK
  BY Zenon DEF IInv
<1>. QED
  BY <1>1, Inductive, PTL

\* A task's points are given back at most once (refundTaskPointsIfNeeded),
\* whoever fails, stops, crashes or throws.
THEOREM RefundOnce == Spec => []RefundedAtMostOnce
<1>1. IInv => RefundedAtMostOnce
  BY DEF IInv, TypeOK, Accounting, ControlInv, EventInv, MoneyInv, Balanced, RefundedAtMostOnce
<1>. QED
  BY <1>1, Inductive, PTL

\* Without a thrown call, a task that ended and was refunded shows no completed
\* result, whoever wrote its record last (handleStopped / handleFailed).
THEOREM NoFreeDeliveryHolds == Spec => []NoFreeDelivery
<1>1. IInv => NoFreeDelivery
  BY DEF IInv, TypeOK, Accounting, ControlInv, EventInv, MoneyInv, Balanced, NoFreeDelivery, Ended, NoCallThrew
<1>. QED
  BY <1>1, Inductive, PTL

\* Without a thrown call, the runner's own last word on the record agrees with
\* the ledger: completed exactly when the charge was kept.
THEOREM RunnerSettlesItsChargeHolds == Spec => []RunnerSettlesItsCharge
<1>1. IInv => RunnerSettlesItsCharge
  BY DEF IInv, TypeOK, Accounting, ControlInv, EventInv, MoneyInv, Balanced, RunnerSettlesItsCharge, Ended, NoCallThrew
<1>. QED
  BY <1>1, Inductive, PTL

\* Without a thrown call, a runner that discovered the loss of its lock ends
\* with the points given back (runTaskWithExecutionLock's late exception).
THEOREM LostLockIsRefundedHolds == Spec => []LostLockIsRefunded
<1>1. IInv => LostLockIsRefunded
  BY DEF IInv, TypeOK, Accounting, ControlInv, EventInv, MoneyInv, Balanced, LostLockIsRefunded, Ended, NoCallThrew
<1>. QED
  BY <1>1, Inductive, PTL

\* Whatever throws, a runner that ended has told its subscribers the outcome.
THEOREM SubscribersAreToldHolds == Spec => []SubscribersAreTold
<1>1. IInv => SubscribersAreTold
  BY DEF IInv, TypeOK, Accounting, ControlInv, EventInv, MoneyInv, Balanced, SubscribersAreTold, Ended
<1>. QED
  BY <1>1, Inductive, PTL

----------------------------------------------------------------------------
(* A stop that arrives while the upstream call is in flight *)

\* No completed result is written before the upstream call has answered.
Unwritten ==
    pc \in Before \cup {"execute", "ensureFirst", "upstream", "ensureLast", "write",
                        "syncThenWrite", "writeLast"} => record # "completed"

HeedsStop == strategy \in {"image", "agent-workspace"}

StopInFlight == pc = "upstream" /\ abort \in StopReasons /\ HeedsStop

\* From there on the runner is on its way out: it never comes to a write of the result.
OnTheWayOut ==
    /\ abort \in StopReasons /\ HeedsStop /\ record # "completed"
    /\ pc \in {"upstream", "ensureLast", "innerRefund", "innerSync", "innerWrite", "leave",
               "release", "refund", "settle", "syncSettled", "finally", "clearAbort", "done",
               "crashed"}

USE DEF Unwritten, HeedsStop, OnTheWayOut, Before, TypeOK

LEMMA RunnerKeepsUnwritten == TypeOK /\ Unwritten /\ Runner => Unwritten'
<1> SUFFICES ASSUME TypeOK, Unwritten, Runner PROVE Unwritten'
  OBVIOUS
<1>1. CASE SetLocalRunningTask \/ EnqueueTask \/ EnqueueFails
  BY <1>1 DEF SetLocalRunningTask, EnqueueTask, EnqueueFails
<1>2. CASE RunWithoutRedis \/ AcquireLock \/ SkipExecution \/ AcquireFails
  BY <1>2 DEF RunWithoutRedis, AcquireLock, SkipExecution, AcquireFails
<1>3. CASE StartRunning \/ EnsureTaskNotAborted
  BY <1>3 DEF StartRunning, EnsureTaskNotAborted
<1>4. CASE UpstreamAnswers \/ UpstreamFails
  BY <1>4 DEF UpstreamAnswers, UpstreamFails
<1>5. CASE WriteCompleted \/ SyncCompleted \/ SyncThenWrite \/ WriteLast
  BY <1>5 DEF WriteCompleted, SyncCompleted, SyncThenWrite, WriteLast
<1>6. CASE BodyCallFails
  BY <1>6 DEF BodyCallFails
<1>7. CASE InnerRefund \/ InnerSync \/ InnerWrite \/ InnerCallFails
  BY <1>7 DEF InnerRefund, InnerSync, InnerWrite, InnerCallFails
<1>8. CASE LeaveExecution \/ ReleaseLock \/ ReleaseFails
  BY <1>8 DEF LeaveExecution, ReleaseLock, ReleaseFails
<1>9. CASE Refund \/ Settle \/ SyncSettled \/ HandlerFails
  BY <1>9 DEF Refund, Settle, SyncSettled, HandlerFails
<1>10. CASE Finally \/ ClearAbort
  BY <1>10 DEF Finally, ClearAbort
<1> QED
  BY <1>1, <1>2, <1>3, <1>4, <1>5, <1>6, <1>7, <1>8, <1>9, <1>10, Zenon DEF Runner

\* Nobody but the runner writes a completed result, undoes a stop or moves the runner,
\* except that its process may die.
LEMMA OthersKeepOut ==
    ASSUME TypeOK, PersistPartialContent \/ Renewal \/ (\E r \in Requests : Serve(r)) \/ Environment
    PROVE  /\ pc' \in {pc, "crashed"} /\ record' \in {record, "open", "stopped"}
           /\ abort \in StopReasons => abort' = abort
           /\ strategy' = strategy
<1>1. CASE PersistPartialContent
  BY <1>1 DEF PersistPartialContent
<1>2. CASE Renewal
  BY <1>2 DEF Renewal, RenewDiscoversLoss, RenewErrs, PatchRead, PatchWrite
<1>3. ASSUME NEW r \in Requests, Serve(r)
      PROVE  /\ pc' \in {pc, "crashed"} /\ record' \in {record, "open", "stopped"}
             /\ abort \in StopReasons => abort' = abort
             /\ strategy' = strategy
  BY <1>3 DEF Serve, StopLocally, StopElsewhere, StopReadsRuntime, MarkAbortRequested,
              StopReadsRecord, StopClosesRecord, SnapshotReadsRecord, SnapshotReadsRuntime,
              SnapshotClosesRecord
<1>4. CASE Environment
  BY <1>4 DEF Environment, RedisGoesDown, RedisComesBack, LockExpires, RuntimeExpires,
              AbortFlagExpires, Crash
<1> QED
  BY <1>1, <1>2, <1>3, <1>4, Zenon

LEMMA NextKeepsUnwritten == TypeOK /\ Unwritten /\ [Next]_vars => Unwritten'
<1> SUFFICES ASSUME TypeOK, Unwritten, [Next]_vars PROVE Unwritten'
  OBVIOUS
<1>1. CASE Runner
  BY <1>1, RunnerKeepsUnwritten
<1>2. CASE PersistPartialContent \/ Renewal \/ (\E r \in Requests : Serve(r)) \/ Environment
  BY <1>2, OthersKeepOut
<1>3. CASE UNCHANGED vars
  BY <1>3 DEF vars
<1> QED
  BY <1>1, <1>2, <1>3, Zenon DEF Next

LEMMA RunnerStaysOnItsWay == TypeOK /\ OnTheWayOut /\ Runner => OnTheWayOut'
<1> SUFFICES ASSUME TypeOK, OnTheWayOut, Runner PROVE OnTheWayOut'
  OBVIOUS
<1>1. CASE SetLocalRunningTask \/ EnqueueTask \/ EnqueueFails
  BY <1>1 DEF SetLocalRunningTask, EnqueueTask, EnqueueFails
<1>2. CASE RunWithoutRedis \/ AcquireLock \/ SkipExecution \/ AcquireFails
  BY <1>2 DEF RunWithoutRedis, AcquireLock, SkipExecution, AcquireFails
<1>3. CASE StartRunning
  BY <1>3 DEF StartRunning
<1>4. CASE EnsureTaskNotAborted
  <2>1. AbortSeen
    BY DEF AbortSeen
  <2> QED
    BY <1>4, <2>1 DEF EnsureTaskNotAborted
<1>5. CASE UpstreamAnswers \/ UpstreamFails
  BY <1>5 DEF UpstreamAnswers, UpstreamFails
<1>6. CASE WriteCompleted \/ SyncCompleted \/ SyncThenWrite \/ WriteLast
  BY <1>6 DEF WriteCompleted, SyncCompleted, SyncThenWrite, WriteLast
<1>7. CASE BodyCallFails
  BY <1>7 DEF BodyCallFails
<1>8. CASE InnerRefund \/ InnerSync \/ InnerWrite \/ InnerCallFails
  BY <1>8 DEF InnerRefund, InnerSync, InnerWrite, InnerCallFails
<1>9. CASE LeaveExecution \/ ReleaseLock \/ ReleaseFails
  BY <1>9 DEF LeaveExecution, ReleaseLock, ReleaseFails
<1>10. CASE Refund \/ Settle \/ SyncSettled \/ HandlerFails
  BY <1>10 DEF Refund, Settle, SyncSettled, HandlerFails
<1>11. CASE Finally \/ ClearAbort
  BY <1>11 DEF Finally, ClearAbort
<1> QED
  BY <1>1, <1>2, <1>3, <1>4, <1>5, <1>6, <1>7, <1>8, <1>9, <1>10, <1>11, Zenon DEF Runner

LEMMA NextStaysOnItsWay == TypeOK /\ OnTheWayOut /\ [Next]_vars => OnTheWayOut'
<1> SUFFICES ASSUME TypeOK, OnTheWayOut, [Next]_vars PROVE OnTheWayOut'
  OBVIOUS
<1>1. CASE Runner
  BY <1>1, RunnerStaysOnItsWay
<1>2. CASE PersistPartialContent \/ Renewal \/ (\E r \in Requests : Serve(r)) \/ Environment
  BY <1>2, OthersKeepOut
<1>3. CASE UNCHANGED vars
  BY <1>3 DEF vars
<1> QED
  BY <1>1, <1>2, <1>3, Zenon DEF Next

\* A stop that reaches the image or the workspace executor while its upstream call is in
\* flight is never answered with a completed result, whatever throws, crashes or is lost
\* afterwards (ensureTaskNotAborted, sleepWithWorkspaceAbort).
THEOREM StopInFlightHolds == Spec => StopInFlightIsFinal
<1>1. Init => Unwritten
  BY DEF Init
<1>2. Unwritten /\ StopInFlight => OnTheWayOut
  BY DEF StopInFlight
<1>3. OnTheWayOut => record # "completed"
  OBVIOUS
<1>4. StopInFlight <=> (/\ pc = "upstream" /\ abort \in StopReasons
                        /\ strategy \in {"image", "agent-workspace"})
  BY DEF StopInFlight
<1> HIDE DEF Unwritten, OnTheWayOut, StopReasons
<1> QED
  BY <1>1, <1>2, <1>3, <1>4, TypeCorrect, NextKeepsUnwritten, NextStaysOnItsWay, PTL
     DEF Spec, StopInFlightIsFinal
=============================================================================
