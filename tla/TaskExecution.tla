--------------------------- MODULE TaskExecution ---------------------------
(***************************************************************************)
(* The execution of ONE generation task after its record was created and   *)
(* its points were charged: server/generation-tasks.                       *)
(*                                                                         *)
(* The task runs in the background on the instance Home.  Requests for the *)
(* same record (stop, snapshot) may reach any instance; instances share    *)
(* the database (record, points) and, when it is enabled, Redis (runtime   *)
(* status, abort flag, execution lock).  Every await of the source is a    *)
(* step boundary; what runs between two awaits is one step, placed at the  *)
(* effect of the awaited call.                                             *)
(***************************************************************************)
EXTENDS Naturals

CONSTANTS
    Instances,     \* server processes
    Home,          \* the one that started the task
    Stoppers,      \* stop requests for the record
    Readers,       \* snapshot requests (GET and SSE subscribe) for the record
    Strategies,    \* execution strategies the task may have
    Deployments,   \* with Redis configured, without, or either
    CanCrash,      \* may the process Home die?
    MaxOutages,    \* bound: how often Redis becomes unreachable
    MaxErrors      \* bound: awaited database or Redis calls that throw

ASSUME ExecutionAssumption ==
    /\ Home \in Instances
    /\ Stoppers \cap Readers = {}
    /\ Strategies \subseteq {"image", "agent-chat", "agent-workspace", "research-report"}
    /\ Deployments \subseteq {"redis", "noRedis"}
    /\ CanCrash \in BOOLEAN
    /\ MaxOutages \in Nat
    /\ MaxErrors \in Nat

Requests == Stoppers \cup Readers

VARIABLES
    record,          \* generation_records: open, or the outcome it was closed with
    writer,          \* ghost: who wrote the record last
    refunds,         \* REFUND rows of the task in point_account_logs
    runtime,         \* status in the shared runtime key, "none" when absent
    abortFlag,       \* the shared abort key exists
    lock,            \* the execution lock key holds this task's token
    redisUp, outages, errors,
    pc,              \* where startGenerationTask / runTaskInBackground is
    local,           \* the task is in runningGenerationTasks of Home
    abort,           \* reason of task.abortController, "none" when not aborted
    refundCommitted, \* task.refundCommitted
    verdict,         \* how the task is being closed after an error
    threw,           \* runTaskWithExecutionLock is leaving by an exception
    lockLost, timer, \* locals of runTaskWithExecutionLock
    patch,           \* markTaskExecutionState fired by the renew timer
    emitted,         \* last terminal event on the task's stream
    strategy, deployment,  \* the task's strategy and the deployment: never change
    at, request      \* instance and program counter of each request

dbVars      == <<record, writer, refunds>>
redisVars   == <<runtime, abortFlag, lock>>
envVars     == <<redisUp, outages, errors>>
runVars     == <<pc, verdict, threw>>
taskVars    == <<local, abort, refundCommitted>>
renewVars   == <<lockLost, timer, patch>>
given       == <<strategy, deployment, at>>
requestVars == <<given, request>>
vars == <<dbVars, redisVars, envVars, runVars, taskVars, renewVars, emitted, requestVars>>

Outcomes    == {"completed", "failed", "stopped"}
Statuses    == {"queued", "running"} \cup Outcomes
StopReasons == {"user_stop", "shared_stop"}

TypeOK ==
    /\ record \in {"open"} \cup Outcomes
    /\ writer \in {"nobody", "runner", "stopper", "reader"}
    /\ refunds \in Nat
    /\ runtime \in {"none"} \cup Statuses
    /\ abortFlag \in BOOLEAN
    /\ lock \in BOOLEAN
    /\ redisUp \in BOOLEAN
    /\ outages \in 0..MaxOutages
    /\ errors \in 0..MaxErrors
    /\ pc \in {"created", "enqueue", "acquire", "execute", "ensureFirst", "upstream",
               "ensureLast", "write", "syncCompleted", "syncThenWrite", "writeLast",
               "innerRefund", "innerSync", "innerWrite", "leave", "release", "refund",
               "settle", "syncSettled", "skipped", "finally", "clearAbort", "done", "abandoned",
               "rejected", "crashed"}
    /\ local \in BOOLEAN
    /\ abort \in {"none", "execution_lock_lost"} \cup StopReasons
    /\ refundCommitted \in BOOLEAN
    /\ verdict \in {"none", "failed", "stopped"}
    /\ threw \in BOOLEAN
    /\ lockLost \in BOOLEAN
    /\ timer \in BOOLEAN
    /\ patch \in {"idle", "asked"} \cup Statuses
    /\ emitted \in {"none"} \cup Outcomes
    /\ strategy \in Strategies
    /\ deployment \in Deployments
    /\ at \in [Requests -> Instances]
    /\ request \in [Requests -> {"idle", "readRuntime", "markAbort", "readRecord", "close", "done"}]

----------------------------------------------------------------------------
(* Shared services *)

RedisEnabled == deployment = "redis"         \* isRedisEnabled()

RedisReady == RedisEnabled /\ redisUp        \* getRedisClient() returns a client

SharedStatus == IF RedisReady THEN runtime ELSE "none"       \* getSharedTaskRuntime

\* patchSharedTaskRuntime: the status part; a no-op without a client.
SetSharedStatus(s) == runtime' = IF RedisReady THEN s ELSE runtime

\* AbortController.abort: the first reason stays.
AbortWith(reason) == abort' = IF abort = "none" THEN reason ELSE abort

CanThrow == errors < MaxErrors

WriteRecord(s, who) == record' = s /\ writer' = who

Init ==
    /\ strategy \in Strategies /\ deployment \in Deployments
    /\ record = "open" /\ writer = "nobody" /\ refunds = 0
    /\ runtime = "none" /\ abortFlag = FALSE /\ lock = FALSE
    /\ redisUp = RedisEnabled /\ outages = 0 /\ errors = 0
    /\ pc = "created" /\ verdict = "none" /\ threw = FALSE
    /\ local = FALSE /\ abort = "none" /\ refundCommitted = FALSE
    /\ lockLost = FALSE /\ timer = FALSE /\ patch = "idle"
    /\ emitted = "none"
    /\ at \in [Requests -> Instances]
    /\ request = [r \in Requests |-> "idle"]

----------------------------------------------------------------------------
(* startGenerationTask, after the record exists *)

\* setLocalRunningTask, after the awaits that attach and complete the submission.
SetLocalRunningTask ==
    /\ pc = "created"
    /\ local' = TRUE
    /\ pc' = "enqueue"
    /\ UNCHANGED <<dbVars, redisVars, envVars, verdict, threw, abort, refundCommitted,
                   renewVars, emitted, requestVars>>

\* syncSharedTaskRuntime(task, 'queued'); runTaskInBackground follows at once.
EnqueueTask ==
    /\ pc = "enqueue"
    /\ SetSharedStatus("queued")
    /\ pc' = "acquire"
    /\ UNCHANGED <<dbVars, abortFlag, lock, envVars, verdict, threw, taskVars,
                   renewVars, emitted, requestVars>>

\* The sync throws: the request fails, nothing runs and the map entry stays.
EnqueueFails ==
    /\ pc = "enqueue" /\ RedisEnabled /\ CanThrow
    /\ errors' = errors + 1
    /\ pc' = "rejected"
    /\ UNCHANGED <<dbVars, redisVars, redisUp, outages, verdict, threw, taskVars,
                   renewVars, emitted, requestVars>>

----------------------------------------------------------------------------
(* runTaskWithExecutionLock: taking the lock *)

RunWithoutRedis ==
    /\ pc = "acquire" /\ ~RedisEnabled
    /\ pc' = "execute"
    /\ UNCHANGED <<dbVars, redisVars, envVars, verdict, threw, taskVars, renewVars,
                   emitted, requestVars>>

\* The key is the record's own, so SET NX finds it free; the renew timer starts.
AcquireLock ==
    /\ pc = "acquire" /\ RedisReady
    /\ lock' = TRUE
    /\ timer' = TRUE
    /\ pc' = "execute"
    /\ UNCHANGED <<dbVars, runtime, abortFlag, envVars, verdict, threw, taskVars,
                   lockLost, patch, emitted, requestVars>>

\* acquireRedisLock returns null: runner() is not called, false is returned.
SkipExecution ==
    /\ pc = "acquire" /\ RedisEnabled /\ ~redisUp
    /\ pc' = "skipped"
    /\ UNCHANGED <<dbVars, redisVars, envVars, verdict, threw, taskVars, renewVars,
                   emitted, requestVars>>

\* SET throws (nothing taken), or the first markTaskExecutionState does, before
\* the try block that releases the lock.
AcquireFails ==
    /\ pc = "acquire" /\ RedisReady /\ CanThrow
    /\ errors' = errors + 1
    /\ lock' \in BOOLEAN
    /\ threw' = TRUE
    /\ verdict' = IF abort \in StopReasons THEN "stopped" ELSE "failed"
    /\ pc' = "refund"
    /\ UNCHANGED <<dbVars, runtime, abortFlag, redisUp, outages, taskVars, renewVars,
                   emitted, requestVars>>

----------------------------------------------------------------------------
(* The executors *)

InnerCatch == strategy = "agent-workspace"  \* its body is wrapped in try/catch

\* An exception leaves the runner; finally clears the renew timer.
ThrowOut ==
    /\ pc' = "release" /\ threw' = TRUE /\ timer' = FALSE
    /\ UNCHANGED verdict

\* An exception inside the body, with the outcome the workspace's catch gives it.
ThrowInside(v) ==
    \/ InnerCatch /\ pc' = "innerRefund" /\ verdict' = v /\ UNCHANGED <<threw, timer>>
    \/ ~InnerCatch /\ ThrowOut

StartRunning ==
    /\ pc = "execute"
    /\ SetSharedStatus("running")
    /\ pc' = "ensureFirst"
    /\ UNCHANGED <<dbVars, abortFlag, lock, envVars, verdict, threw, taskVars,
                   renewVars, emitted, requestVars>>

\* The local signal, then the shared flag.
AbortSeen == abort # "none" \/ (RedisReady /\ abortFlag)

\* An abort seen here leaves the runner at once.
EnsureTaskNotAborted ==
    /\ pc \in {"ensureFirst", "ensureLast"}
    /\ \/ /\ ~AbortSeen
          /\ pc' = IF pc = "ensureFirst" THEN "upstream" ELSE "write"
          /\ UNCHANGED <<abort, verdict, threw, timer>>
       \/ /\ AbortSeen
          /\ AbortWith("shared_stop")
          /\ ThrowOut
    /\ UNCHANGED <<dbVars, redisVars, envVars, local, refundCommitted, lockLost, patch,
                   emitted, requestVars>>

\* persistAgentTaskContentIfNeeded / persistAgentWorkspaceRecord with done: false.
PersistPartialContent ==
    /\ pc = "upstream" /\ strategy \in {"agent-chat", "agent-workspace"}
    /\ WriteRecord("open", "runner")
    /\ UNCHANGED <<refunds, redisVars, envVars, runVars, taskVars, renewVars, emitted,
                   requestVars>>

\* Mutant: the workspace's last sleep does not look at the signal.
UpstreamAnswers_IgnoresAbort ==
    /\ pc = "upstream"
    /\ pc' = IF strategy = "image" THEN "ensureLast"
             ELSE IF InnerCatch THEN "syncThenWrite" ELSE "write"
    /\ UNCHANGED <<dbVars, redisVars, envVars, verdict, threw, taskVars, renewVars,
                   emitted, requestVars>>

\* The upstream calls succeed.  The workspace ends in sleepWithWorkspaceAbort,
\* which throws when aborted; the chat loop just ends, content in hand.
UpstreamAnswers ==
    /\ pc = "upstream"
    /\ InnerCatch => abort = "none"
    /\ pc' = IF strategy = "image" THEN "ensureLast"
             ELSE IF InnerCatch THEN "syncThenWrite" ELSE "write"
    /\ UNCHANGED <<dbVars, redisVars, envVars, verdict, threw, taskVars, renewVars,
                   emitted, requestVars>>

\* An upstream error, or the rejection of an aborted fetch or sleep.  The
\* workspace knows a stop only by its own AgentWorkspaceStoppedError.
UpstreamFails ==
    /\ pc = "upstream"
    /\ \E v \in IF abort = "none" THEN {"failed"} ELSE {"failed", "stopped"} : ThrowInside(v)
    /\ UNCHANGED <<dbVars, redisVars, envVars, taskVars, lockLost, patch, emitted,
                   requestVars>>

\* updateGenerationRecord(done) of the image, chat and research executors.
WriteCompleted ==
    /\ pc = "write"
    /\ WriteRecord("completed", "runner")
    /\ pc' = "syncCompleted"
    /\ UNCHANGED <<refunds, redisVars, envVars, verdict, threw, taskVars, renewVars,
                   emitted, requestVars>>

SyncCompleted ==
    /\ pc = "syncCompleted"
    /\ SetSharedStatus("completed")
    /\ emitted' = "completed"
    /\ pc' = "leave"
    /\ UNCHANGED <<dbVars, abortFlag, lock, envVars, verdict, threw, taskVars,
                   renewVars, requestVars>>

\* The workspace tells Redis first and writes run_completed after.
SyncThenWrite ==
    /\ pc = "syncThenWrite"
    /\ SetSharedStatus("completed")
    /\ pc' = "writeLast"
    /\ UNCHANGED <<dbVars, abortFlag, lock, envVars, verdict, threw, taskVars,
                   renewVars, emitted, requestVars>>

WriteLast ==
    /\ pc = "writeLast"
    /\ WriteRecord("completed", "runner")
    /\ emitted' = "completed"
    /\ pc' = "leave"
    /\ UNCHANGED <<refunds, redisVars, envVars, verdict, threw, taskVars, renewVars,
                   requestVars>>

\* An awaited call of the body throws; re-reading the record counts as part of
\* the step after its write, except in writeLast, which does both.
BodyCallFails ==
    /\ CanThrow
    /\ \/ /\ pc \in {"execute", "ensureFirst"} /\ RedisEnabled
          /\ ThrowOut /\ UNCHANGED <<record, writer>>
       \/ /\ pc \in {"ensureLast", "syncThenWrite"} /\ RedisEnabled
          /\ ThrowInside("failed") /\ UNCHANGED <<record, writer>>
       \/ /\ pc \in {"write", "syncCompleted", "writeLast"}
          /\ ThrowInside("failed") /\ UNCHANGED <<record, writer>>
       \/ /\ pc = "writeLast"
          /\ ThrowInside("failed") /\ WriteRecord("completed", "runner")
    /\ errors' = errors + 1
    /\ UNCHANGED <<refunds, redisVars, redisUp, outages, taskVars, lockLost, patch,
                   emitted, requestVars>>

----------------------------------------------------------------------------
(* refundTaskPointsIfNeeded and the two places that call it *)

\* Mutant: refundCommitted is not consulted.
CommitRefund_Always == refundCommitted' = TRUE /\ refunds' = refunds + 1

\* The flag is raised before the REFUND row is awaited.
CommitRefund ==
    /\ refundCommitted' = TRUE
    /\ refunds' = IF refundCommitted THEN refunds ELSE refunds + 1

\* The refund throws, before its row is committed or after (its cache call).
RefundThrows ==
    /\ refundCommitted' = TRUE
    /\ refunds' \in {refunds} \cup (IF refundCommitted THEN {} ELSE {refunds + 1})

\* The catch block of executeAgentWorkspaceTaskFlow.
InnerRefund ==
    /\ pc = "innerRefund"
    /\ CommitRefund
    /\ pc' = "innerSync"
    /\ UNCHANGED <<record, writer, redisVars, envVars, verdict, threw, local, abort,
                   renewVars, emitted, requestVars>>

InnerSync ==
    /\ pc = "innerSync"
    /\ SetSharedStatus(verdict)
    /\ pc' = "innerWrite"
    /\ UNCHANGED <<dbVars, abortFlag, lock, envVars, verdict, threw, taskVars,
                   renewVars, emitted, requestVars>>

InnerWrite ==
    /\ pc = "innerWrite"
    /\ WriteRecord(verdict, "runner")
    /\ emitted' = verdict
    /\ pc' = "leave"
    /\ UNCHANGED <<refunds, redisVars, envVars, verdict, threw, taskVars, renewVars,
                   requestVars>>

InnerCallFails ==
    /\ pc \in {"innerRefund", "innerSync", "innerWrite"} /\ CanThrow
    /\ pc = "innerSync" => RedisEnabled
    /\ errors' = errors + 1
    /\ ThrowOut
    /\ \/ pc = "innerRefund" /\ RefundThrows /\ UNCHANGED <<record, writer>>
       \/ pc # "innerRefund" /\ UNCHANGED <<dbVars, refundCommitted>>
       \/ pc = "innerWrite" /\ WriteRecord(verdict, "runner") /\ UNCHANGED <<refunds, refundCommitted>>
    /\ UNCHANGED <<redisVars, redisUp, outages, local, abort, lockLost, patch, emitted,
                   requestVars>>

\* Mutant: a lost lock is not reported once the runner has returned.
LeaveExecution_IgnoresLoss ==
    /\ pc = "leave"
    /\ timer' = FALSE
    /\ pc' = "release"
    /\ UNCHANGED <<dbVars, redisVars, envVars, verdict, threw, taskVars, lockLost, patch,
                   emitted, requestVars>>

\* The runner returned: a lost lock turns the success into an exception.
LeaveExecution ==
    /\ pc = "leave"
    /\ threw' = lockLost
    /\ timer' = FALSE
    /\ pc' = "release"
    /\ UNCHANGED <<dbVars, redisVars, envVars, verdict, taskVars, lockLost, patch,
                   emitted, requestVars>>

\* runTaskInBackground's catch tells a stop from a failure by the abort reason.
ReleaseLock ==
    /\ pc = "release"
    /\ lock' = IF RedisReady THEN FALSE ELSE lock
    /\ \/ threw /\ pc' = "refund"
          /\ verdict' = IF abort \in StopReasons THEN "stopped" ELSE "failed"
       \/ ~threw /\ pc' = "finally" /\ UNCHANGED verdict
    /\ UNCHANGED <<dbVars, runtime, abortFlag, envVars, threw, taskVars, renewVars,
                   emitted, requestVars>>

\* An error of the release replaces whatever the runner returned.
ReleaseFails ==
    /\ pc = "release" /\ RedisReady /\ lock /\ CanThrow
    /\ errors' = errors + 1
    /\ threw' = TRUE
    /\ verdict' = IF abort \in StopReasons THEN "stopped" ELSE "failed"
    /\ pc' = "refund"
    /\ UNCHANGED <<dbVars, redisVars, redisUp, outages, taskVars, renewVars, emitted,
                   requestVars>>

\* Mutant: stopped tasks are not refunded.
Refund_OnlyFailures ==
    /\ pc = "refund"
    /\ IF verdict = "failed" THEN CommitRefund ELSE UNCHANGED <<refundCommitted, refunds>>
    /\ pc' = "settle"
    /\ UNCHANGED <<record, writer, redisVars, envVars, verdict, threw, local, abort,
                   renewVars, emitted, requestVars>>

\* handleStopped / handleFailed: refund, (mark,) write the record, sync, emit.
Refund ==
    /\ pc = "refund"
    /\ CommitRefund
    /\ pc' = "settle"
    /\ UNCHANGED <<record, writer, redisVars, envVars, verdict, threw, local, abort,
                   renewVars, emitted, requestVars>>

\* Mutant: a record that is already completed is left alone.
Settle_KeepsCompleted ==
    /\ pc = "settle"
    /\ IF record = "completed" THEN UNCHANGED <<record, writer>>
                               ELSE WriteRecord(verdict, "runner")
    /\ pc' = "syncSettled"
    /\ UNCHANGED <<refunds, redisVars, envVars, verdict, threw, taskVars, renewVars,
                   emitted, requestVars>>

\* Mutant: only failures are written.
Settle_OnlyFailures ==
    /\ pc = "settle"
    /\ IF verdict = "failed" THEN WriteRecord(verdict, "runner")
                             ELSE UNCHANGED <<record, writer>>
    /\ pc' = "syncSettled"
    /\ UNCHANGED <<refunds, redisVars, envVars, verdict, threw, taskVars, renewVars,
                   emitted, requestVars>>

Settle ==
    /\ pc = "settle"
    /\ WriteRecord(verdict, "runner")
    /\ pc' = "syncSettled"
    /\ UNCHANGED <<refunds, redisVars, envVars, verdict, threw, taskVars, renewVars,
                   emitted, requestVars>>

SyncSettled ==
    /\ pc = "syncSettled"
    /\ SetSharedStatus(verdict)
    /\ emitted' = verdict
    /\ pc' = "finally"
    /\ UNCHANGED <<dbVars, abortFlag, lock, envVars, verdict, threw, taskVars,
                   renewVars, requestVars>>

\* Mutant: no fallback event.
HandlerFails_Silent ==
    /\ pc \in {"refund", "settle", "syncSettled"} /\ CanThrow
    /\ errors' = errors + 1
    /\ \/ pc = "refund" /\ RefundThrows
       \/ pc # "refund" /\ UNCHANGED <<refunds, refundCommitted>>
    /\ pc' = "finally"
    /\ UNCHANGED <<record, writer, redisVars, redisUp, outages, verdict, threw, local, abort,
                   emitted, renewVars, requestVars>>

\* The handler throws: the fallback only emits a failed event.
HandlerFails ==
    /\ pc \in {"refund", "settle", "syncSettled"} /\ CanThrow
    /\ errors' = errors + 1
    /\ \/ pc = "refund" /\ RefundThrows
       \/ pc # "refund" /\ UNCHANGED <<refunds, refundCommitted>>
    /\ emitted' = "failed"
    /\ pc' = "finally"
    /\ UNCHANGED <<record, writer, redisVars, redisUp, outages, verdict, threw, local, abort,
                   renewVars, requestVars>>

\* finally: deleteLocalRunningTask; the flag is cleared only when the runner
\* returned normally with the lock (or without Redis).
Finally ==
    /\ local' = FALSE
    /\ \/ pc = "skipped" /\ pc' = "abandoned"
       \/ pc = "finally" /\ pc' = IF threw THEN "done" ELSE "clearAbort"
    /\ UNCHANGED <<dbVars, redisVars, envVars, verdict, threw, abort, refundCommitted,
                   renewVars, emitted, requestVars>>

ClearAbort ==
    /\ pc = "clearAbort"
    /\ abortFlag' = IF RedisReady THEN FALSE ELSE abortFlag
    /\ pc' = "done"
    /\ UNCHANGED <<dbVars, runtime, lock, envVars, verdict, threw, taskVars, renewVars,
                   emitted, requestVars>>

----------------------------------------------------------------------------
(* The renew timer and the life of the keys in Redis *)

\* A tick finds the token gone, or Redis unreachable for a whole TTL (the key
\* has expired by then): the task is aborted and its runtime key patched.
RenewDiscoversLoss ==
    /\ timer /\ ~lock /\ ~lockLost
    /\ lockLost' = TRUE
    /\ AbortWith("execution_lock_lost")
    /\ patch' = IF patch = "idle" THEN "asked" ELSE patch
    /\ UNCHANGED <<dbVars, redisVars, envVars, runVars, local, refundCommitted, timer,
                   emitted, requestVars>>

\* One renewal fails with redis_error before the deadline: only the patch.
RenewErrs ==
    /\ timer /\ lock /\ RedisReady /\ CanThrow /\ patch = "idle"
    /\ errors' = errors + 1
    /\ patch' = "asked"
    /\ UNCHANGED <<dbVars, redisVars, redisUp, outages, runVars, taskVars, lockLost,
                   timer, emitted, requestVars>>

\* markTaskExecutionState is not awaited: it reads the runtime key ...
PatchRead ==
    /\ patch = "asked"
    /\ patch' = IF SharedStatus = "none" THEN "idle" ELSE SharedStatus
    /\ UNCHANGED <<dbVars, redisVars, envVars, runVars, taskVars, lockLost, timer,
                   emitted, requestVars>>

\* ... and later writes the whole object back, the status it read included.
PatchWrite ==
    /\ patch \in Statuses
    /\ SetSharedStatus(patch)
    /\ patch' = "idle"
    /\ UNCHANGED <<dbVars, abortFlag, lock, envVars, runVars, taskVars, lockLost, timer,
                   emitted, requestVars>>

RedisGoesDown ==
    /\ redisUp /\ outages < MaxOutages
    /\ redisUp' = FALSE
    /\ outages' = outages + 1
    /\ UNCHANGED <<dbVars, redisVars, errors, runVars, taskVars, renewVars, emitted,
                   requestVars>>

RedisComesBack ==
    /\ RedisEnabled /\ ~redisUp
    /\ redisUp' = TRUE
    /\ UNCHANGED <<dbVars, redisVars, outages, errors, runVars, taskVars, renewVars,
                   emitted, requestVars>>

\* The lock key outlives its TTL: renewals do not reach Redis, or the owner died.
LockExpires ==
    /\ lock
    /\ ~redisUp \/ ~timer
    /\ lock' = FALSE
    /\ UNCHANGED <<dbVars, runtime, abortFlag, envVars, runVars, taskVars, renewVars,
                   emitted, requestVars>>

\* taskRuntimeTtlSeconds after its last write, which a dead owner never renews.
RuntimeExpires ==
    /\ pc \in {"done", "abandoned", "rejected", "crashed"} /\ runtime # "none" /\ patch = "idle"
    /\ runtime' = "none"
    /\ UNCHANGED <<dbVars, abortFlag, lock, envVars, runVars, taskVars, renewVars,
                   emitted, requestVars>>

\* taskAbortTtlSeconds: a stop nobody consumed in time is forgotten.
AbortFlagExpires ==
    /\ abortFlag
    /\ abortFlag' = FALSE
    /\ UNCHANGED <<dbVars, runtime, lock, envVars, runVars, taskVars, renewVars, emitted,
                   requestVars>>

\* The process Home dies with everything it keeps in memory.
Crash ==
    /\ CanCrash /\ pc # "crashed"
    /\ pc' = "crashed"
    /\ local' = FALSE /\ timer' = FALSE /\ patch' = "idle"
    /\ UNCHANGED <<dbVars, redisVars, envVars, verdict, threw, abort, refundCommitted,
                   lockLost, emitted, requestVars>>

----------------------------------------------------------------------------
(* stopGenerationTask, served by at[r] *)

Goes(r, from, to) == request[r] = from /\ request' = [request EXCEPT ![r] = to]

Reachable(r) == ~(pc = "crashed" /\ at[r] = Home)

RunsHere(r) == at[r] = Home /\ local

StopLocally(r) ==
    /\ r \in Stoppers /\ RunsHere(r)
    /\ Goes(r, "idle", "done")
    /\ AbortWith("user_stop")
    /\ UNCHANGED <<dbVars, redisVars, envVars, runVars, local, refundCommitted, renewVars,
                   emitted, given>>

StopElsewhere(r) ==
    /\ r \in Stoppers /\ ~RunsHere(r) /\ Reachable(r)
    /\ Goes(r, "idle", "readRuntime")
    /\ UNCHANGED <<dbVars, redisVars, envVars, runVars, taskVars, renewVars, emitted, given>>

StopReadsRuntime(r) ==
    /\ r \in Stoppers /\ Reachable(r)
    /\ Goes(r, "readRuntime", IF SharedStatus = "running" THEN "markAbort" ELSE "readRecord")
    /\ UNCHANGED <<dbVars, redisVars, envVars, runVars, taskVars, renewVars, emitted, given>>

MarkAbortRequested(r) ==
    /\ r \in Stoppers /\ Reachable(r)
    /\ Goes(r, "markAbort", "done")
    /\ abortFlag' = (RedisReady \/ abortFlag)
    /\ UNCHANGED <<dbVars, runtime, lock, envVars, runVars, taskVars, renewVars, emitted, given>>

StopReadsRecord(r) ==
    /\ r \in Stoppers /\ Reachable(r)
    /\ Goes(r, "readRecord", IF record = "open" THEN "close" ELSE "done")
    /\ UNCHANGED <<dbVars, redisVars, envVars, runVars, taskVars, renewVars, emitted, given>>

StopClosesRecord(r) ==
    /\ r \in Stoppers /\ Reachable(r)
    /\ Goes(r, "close", "done")
    /\ WriteRecord("stopped", "stopper")
    /\ emitted' = "stopped"
    /\ UNCHANGED <<refunds, redisVars, envVars, runVars, taskVars, renewVars, given>>

----------------------------------------------------------------------------
(* resolveTaskRecordSnapshot, served by at[r] *)

SnapshotReadsRecord(r) ==
    /\ r \in Readers /\ Reachable(r)
    /\ Goes(r, "idle", IF record = "open" THEN "readRuntime" ELSE "done")
    /\ UNCHANGED <<dbVars, redisVars, envVars, runVars, taskVars, renewVars, emitted, given>>

\* The record read before, the local map and the shared status decide.
SnapshotReadsRuntime(r) ==
    /\ r \in Readers /\ Reachable(r)
    /\ Goes(r, "readRuntime",
            IF RunsHere(r) \/ SharedStatus \in {"running", "queued"} THEN "done" ELSE "close")
    /\ UNCHANGED <<dbVars, redisVars, envVars, runVars, taskVars, renewVars, emitted, given>>

SnapshotClosesRecord(r) ==
    /\ r \in Readers /\ Reachable(r)
    /\ Goes(r, "close", "done")
    /\ WriteRecord("stopped", "reader")
    /\ UNCHANGED <<refunds, redisVars, envVars, runVars, taskVars, renewVars, emitted, given>>

----------------------------------------------------------------------------
Runner ==
    \/ SetLocalRunningTask \/ EnqueueTask \/ EnqueueFails
    \/ RunWithoutRedis \/ AcquireLock \/ SkipExecution \/ AcquireFails
    \/ StartRunning \/ EnsureTaskNotAborted
    \/ UpstreamAnswers \/ UpstreamFails
    \/ WriteCompleted \/ SyncCompleted \/ SyncThenWrite \/ WriteLast \/ BodyCallFails
    \/ InnerRefund \/ InnerSync \/ InnerWrite \/ InnerCallFails
    \/ LeaveExecution \/ ReleaseLock \/ ReleaseFails
    \/ Refund \/ Settle \/ SyncSettled \/ HandlerFails
    \/ Finally \/ ClearAbort

Renewal == RenewDiscoversLoss \/ RenewErrs \/ PatchRead \/ PatchWrite

Serve(r) ==
    \/ StopLocally(r) \/ StopElsewhere(r) \/ StopReadsRuntime(r)
    \/ MarkAbortRequested(r) \/ StopReadsRecord(r) \/ StopClosesRecord(r)
    \/ SnapshotReadsRecord(r) \/ SnapshotReadsRuntime(r) \/ SnapshotClosesRecord(r)

Environment == RedisGoesDown \/ RedisComesBack \/ LockExpires \/ RuntimeExpires
               \/ AbortFlagExpires \/ Crash

Next ==
    \/ Runner
    \/ PersistPartialContent
    \/ Renewal
    \/ \E r \in Requests : Serve(r)
    \/ Environment

Spec == Init /\ [][Next]_vars

\* A started runner is scheduled until it ends: awaited calls return or throw
\* (the HTTP client bounds header and body time), and so do patches in flight.
Fairness == WF_vars(Runner) /\ WF_vars(PatchRead) /\ WF_vars(PatchWrite)

FairSpec == Spec /\ Fairness

----------------------------------------------------------------------------
(* Properties *)

Ended == pc = "done"             \* runTaskInBackground ran the task to its end
NoCallThrew == errors = 0

\* The points of a task are given back at most once, although the workspace
\* executor refunds in its own catch and the background shell refunds again
\* when the execution lock was lost meanwhile.
RefundedAtMostOnce == refunds <= 1

\* While no awaited call throws: a finished task whose points went back has no
\* completed result left in its record, lock loss and outside writers included.
NoFreeDelivery == Ended /\ NoCallThrew /\ refunds > 0 => record # "completed"

\* While no awaited call throws: when the runner wrote the record last, the
\* user paid exactly for a completed result.
RunnerSettlesItsCharge ==
    Ended /\ NoCallThrew /\ writer = "runner" => (record = "completed" <=> refunds = 0)

\* A runner told that it lost its lock gives the points back, whatever its
\* executor had already written and published.
LostLockIsRefunded == Ended /\ NoCallThrew /\ lockLost => refunds = 1

\* Whatever throws, a task that ran ends with a terminal event on its stream
\* (the fallback event of runTaskInBackground).
SubscribersAreTold == Ended => emitted # "none"

\* Liveness: a task whose executor started is closed for good, by its runner
\* or by somebody else, however often Redis goes away meanwhile.
ExecutedTaskSettles == (pc = "execute") ~> [](record # "open")

\* A stop that reaches the image or workspace executor while its upstream call
\* is in flight is never answered with a completed result.
StopInFlightIsFinal ==
    [](/\ pc = "upstream" /\ abort \in StopReasons
       /\ strategy \in {"image", "agent-workspace"}
       => [](record # "completed"))

=============================================================================
