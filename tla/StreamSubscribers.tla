------------------------- MODULE StreamSubscribers -------------------------
(***************************************************************************)
(* The event streams that ONE user opens on ONE record at ONE instance     *)
(* (server/generation-tasks/task-stream-subscription.ts): how they are     *)
(* counted (local-runtime.ts) and how they share the instance's Redis      *)
(* subscription to the record's channel (event-bus.ts, redis/pubsub.ts).   *)
(*                                                                         *)
(* A stream is one HTTP response; it is used once.  Its handler runs from  *)
(* await to await, and each of these stretches is a step.  The response    *)
(* may end at any time: its client leaves, its 30 minutes are over, or an  *)
(* event finds its buffer full.  The code is told of the end only from the *)
(* moment it has attached its handlers of 'close' and 'error'.             *)
(*                                                                         *)
(* Commands of one Redis connection are executed in the order they are     *)
(* sent, so SUBSCRIBE and UNSUBSCRIBE take effect when they are sent.      *)
(***************************************************************************)
EXTENDS Naturals, FiniteSets

CONSTANTS
    Streams,
    Limit,       \* SSE_PER_USER_LIMIT
    Nobody,
    MaxOutages   \* bound: how often Redis goes away

ASSUME StreamsAssumption ==
    /\ IsFiniteSet(Streams)
    /\ Limit \in Nat \ {0}
    /\ Nobody \notin Streams
    /\ MaxOutages \in Nat

VARIABLES
    pc,          \* where the handler of a stream is
    closed,      \* the responses that have ended
    sawDone,     \* the streams that have read a finished record
    finished,    \* the record is finished
    subscribers, \* taskStreamSubscribers of the record
    userSet,     \* userStreamSubscribers of the user
    bound,       \* subscriberBound: the connection has its 'message' listener
    creator,     \* channelHandlers has an entry for the channel, made by this stream ...
    handlers,    \* ... with the handlers of these streams
    listening,   \* Redis sends the channel's messages to this instance
    unsubscribe, \* remoteUnsubscribeMap of the record: whose subscription it ends
    blank,       \* the streams whose subscription was made without Redis: it ends nothing
    redisUp, outages,
    overlapped   \* ghost: two streams have been set up at the same time

streamVars == <<pc, closed, sawDone, finished>>
countVars == <<subscribers, userSet>>
channelVars == <<bound, creator, handlers, listening, unsubscribe, blank>>
redisVars == <<redisUp, outages>>
vars == <<streamVars, countVars, channelVars, redisVars, overlapped>>

Binding == {"binding", "locating", "subscribing"}
SettingUp == {"admitted", "read", "ready"} \cup Binding
Places == {"idle", "refused", "failed", "ended", "late", "open", "released"} \cup SettingUp

TypeOK ==
    /\ pc \in [Streams -> Places]
    /\ closed \subseteq Streams
    /\ sawDone \subseteq Streams
    /\ finished \in BOOLEAN
    /\ subscribers \subseteq Streams
    /\ userSet \subseteq Streams
    /\ bound \in BOOLEAN
    /\ creator \in Streams \cup {Nobody}
    /\ handlers \subseteq Streams
    /\ creator = Nobody => handlers = {}
    /\ listening \in BOOLEAN
    /\ unsubscribe \in Streams \cup {Nobody}
    /\ blank \subseteq Streams
    /\ redisUp \in BOOLEAN
    /\ outages \in 0..MaxOutages
    /\ overlapped \in BOOLEAN

Init ==
    /\ pc = [c \in Streams |-> "idle"]
    /\ closed = {} /\ sawDone = {} /\ finished = FALSE
    /\ subscribers = {} /\ userSet = {}
    /\ bound = FALSE
    /\ creator = Nobody /\ handlers = {} /\ listening = FALSE
    /\ unsubscribe = Nobody /\ blank = {}
    /\ redisUp = TRUE /\ outages = 0
    /\ overlapped = FALSE

Goes(c, from, to) == pc[c] = from /\ pc' = [pc EXCEPT ![c] = to]

----------------------------------------------------------------------------
(* subscribeGenerationTaskStream *)

\* Mutant: one stream more is admitted than the limit says.
Check_OffByOne(c) ==
    /\ Goes(c, "idle", IF Cardinality(userSet) > Limit THEN "refused" ELSE "admitted")
    /\ closed' = IF pc'[c] = "refused" THEN closed \cup {c} ELSE closed
    /\ overlapped' = (overlapped \/ \E d \in Streams : pc[d] \in SettingUp)
    /\ UNCHANGED <<sawDone, finished, countVars, channelVars, redisVars>>

\* isUserStreamSubscriberLimitReached; two awaits lie between this and the count.
Check(c) ==
    /\ Goes(c, "idle", IF Cardinality(userSet) >= Limit THEN "refused" ELSE "admitted")
    /\ closed' = IF pc'[c] = "refused" THEN closed \cup {c} ELSE closed
    /\ overlapped' = (overlapped \/ \E d \in Streams : pc[d] \in SettingUp)
    /\ UNCHANGED <<sawDone, finished, countVars, channelVars, redisVars>>

\* resolveTaskRecordSnapshot
ReadRecord(c) ==
    /\ Goes(c, "admitted", "read")
    /\ sawDone' = IF finished THEN sawDone \cup {c} ELSE sawDone
    /\ UNCHANGED <<closed, finished, countVars, channelVars, redisVars, overlapped>>

\* addTaskStreamSubscriber, whether or not the response still lives, and the start of
\* ensureDistributedTaskSubscription and bindSubscriberMessageListener.
Join(c) ==
    /\ Goes(c, "read", IF unsubscribe # Nobody THEN "ready"
                       ELSE IF bound THEN "locating" ELSE "binding")
    /\ subscribers' = subscribers \cup {c}
    /\ userSet' = userSet \cup {c}
    /\ UNCHANGED <<closed, sawDone, finished, channelVars, redisVars, overlapped>>

\* The listener of the connection, if Redis can be reached.
Bind(c) ==
    /\ Goes(c, "binding", "locating")
    /\ bound' = (bound \/ redisUp)
    /\ UNCHANGED <<closed, sawDone, finished, countVars, creator, handlers, listening,
                   unsubscribe, blank, redisVars, overlapped>>

\* subscribeJsonMessage without Redis: nothing is subscribed, yet the map has an entry.
LocateNothing(c) ==
    /\ ~redisUp
    /\ Goes(c, "locating", "ready")
    /\ unsubscribe' = c
    /\ blank' = blank \cup {c}
    /\ UNCHANGED <<closed, sawDone, finished, countVars, bound, creator, handlers, listening,
                   redisVars, overlapped>>

\* The channel is known: its handlers get one more.
LocateChannel(c) ==
    /\ redisUp /\ creator # Nobody
    /\ Goes(c, "locating", "ready")
    /\ handlers' = handlers \cup {c}
    /\ unsubscribe' = c
    /\ UNCHANGED <<closed, sawDone, finished, countVars, bound, creator, listening, blank,
                   redisVars, overlapped>>

\* It is not: the entry is made first and SUBSCRIBE sent.
CreateChannel(c) ==
    /\ redisUp /\ creator = Nobody
    /\ Goes(c, "locating", "subscribing")
    /\ creator' = c
    /\ listening' = TRUE
    /\ UNCHANGED <<closed, sawDone, finished, countVars, bound, handlers, unsubscribe, blank,
                   redisVars, overlapped>>

\* The answer: the handler goes to the set that c made, which may have left the map.
Subscribed(c) ==
    /\ redisUp
    /\ Goes(c, "subscribing", "ready")
    /\ handlers' = IF creator = c THEN handlers \cup {c} ELSE handlers
    /\ unsubscribe' = c
    /\ UNCHANGED <<closed, sawDone, finished, countVars, bound, creator, listening, blank,
                   redisVars, overlapped>>

\* The connection is lost first: the handler of the request throws, and the entry of the
\* channel, the subscriber and its count stay.
SubscribeFails(c) ==
    /\ ~redisUp
    /\ Goes(c, "subscribing", "failed")
    /\ listening' = IF creator = c THEN FALSE ELSE listening
    /\ UNCHANGED <<closed, sawDone, finished, countVars, bound, creator, handlers, unsubscribe,
                   blank, redisVars, overlapped>>

\* connected, snapshot, replay.  The stream of a finished record ends here ...
EndAtOnce(c) ==
    /\ c \in sawDone
    /\ Goes(c, "ready", "ended")
    /\ closed' = closed \cup {c}
    /\ UNCHANGED <<sawDone, finished, countVars, channelVars, redisVars, overlapped>>

\* ... and any other gets its timers and the handlers of 'close' and 'error', which are
\* never called if it has ended already.
Attach(c) ==
    /\ c \notin sawDone
    /\ Goes(c, "ready", IF c \in closed THEN "late" ELSE "open")
    /\ UNCHANGED <<closed, sawDone, finished, countVars, channelVars, redisVars, overlapped>>

----------------------------------------------------------------------------
(* The end of a response *)

\* What unsubscribe?.() does: whoever empties the set removes the channel.
Unsubscribed ==
    LET left == handlers \ {unsubscribe}
    IN  IF unsubscribe = Nobody \/ unsubscribe \in blank \/ creator = Nobody
        THEN UNCHANGED <<creator, handlers, listening>>
        ELSE /\ handlers' = left
             /\ creator' = IF left = {} THEN Nobody ELSE creator
             /\ listening' = IF left = {} THEN FALSE ELSE listening

\* Mutant: the idle check of cleanupDistributedTaskSubscriptionIfIdle is missing.
Cleanup_Eager(c) ==
    /\ userSet' = userSet \ {c}
    /\ subscribers' = subscribers \ {c}
    /\ Unsubscribed /\ unsubscribe' = Nobody
    /\ UNCHANGED <<bound, blank>>

\* Mutant: removeTaskStreamSubscriber is called without the user.
Cleanup_NoUser(c) ==
    /\ userSet' = userSet
    /\ subscribers' = subscribers \ {c}
    /\ IF subscribers' = {} THEN Unsubscribed /\ unsubscribe' = Nobody
       ELSE UNCHANGED <<creator, handlers, listening, unsubscribe>>
    /\ UNCHANGED <<bound, blank>>

\* Mutant: the entry of remoteUnsubscribeMap is called but stays.
Cleanup_KeepsEntry(c) ==
    /\ userSet' = userSet \ {c}
    /\ subscribers' = subscribers \ {c}
    /\ IF subscribers' = {} THEN Unsubscribed
       ELSE UNCHANGED <<creator, handlers, listening>>
    /\ UNCHANGED <<bound, unsubscribe, blank>>

\* cleanup: removeTaskStreamSubscriber and cleanupDistributedTaskSubscriptionIfIdle.
Cleanup(c) ==
    /\ userSet' = userSet \ {c}
    /\ subscribers' = subscribers \ {c}
    /\ IF subscribers' = {} THEN Unsubscribed /\ unsubscribe' = Nobody
       ELSE UNCHANGED <<creator, handlers, listening, unsubscribe>>
    /\ UNCHANGED <<bound, blank>>

\* The response of c ends: with its handlers attached the clean-up runs.
Ends(c, left) ==
    /\ pc[c] \notin {"idle", "refused", "ended"}
    /\ c \notin closed
    /\ closed' = closed \cup {c}
    /\ IF pc[c] = "open"
       THEN Goes(c, "open", "released") /\ Cleanup(c)
       ELSE subscribers' = left /\ UNCHANGED <<pc, userSet, channelVars>>
    /\ UNCHANGED <<sawDone, finished, redisVars, overlapped>>

ClientLeaves(c) == Ends(c, subscribers)
LifetimeEnds(c) == pc[c] = "open" /\ Ends(c, subscribers)

\* emitLocalTaskStreamEvent drops a subscriber whose write returns false: one that is too
\* slow, whose response it ends, or one that has ended.
WriteFails(c) ==
    /\ c \in subscribers
    /\ \/ c \notin closed /\ Ends(c, subscribers \ {c})
       \/ /\ c \in closed
          /\ subscribers' = subscribers \ {c}
          /\ UNCHANGED <<streamVars, userSet, channelVars, redisVars, overlapped>>

----------------------------------------------------------------------------
(* The task and Redis *)

Finish ==
    /\ ~finished /\ finished' = TRUE
    /\ UNCHANGED <<pc, closed, sawDone, countVars, channelVars, redisVars, overlapped>>

\* The client of Redis subscribes again to its channels when the connection returns.
RedisGoes ==
    /\ redisUp /\ redisUp' = FALSE
    /\ outages < MaxOutages /\ outages' = outages + 1
    /\ UNCHANGED <<streamVars, countVars, channelVars, overlapped>>

RedisReturns ==
    /\ ~redisUp /\ redisUp' = TRUE
    /\ UNCHANGED <<streamVars, countVars, channelVars, outages, overlapped>>

Subscribe(c) ==
    \/ ReadRecord(c) \/ Join(c) \/ Bind(c)
    \/ LocateNothing(c) \/ LocateChannel(c) \/ CreateChannel(c)
    \/ Subscribed(c) \/ SubscribeFails(c)
    \/ EndAtOnce(c) \/ Attach(c)

Next ==
    \/ \E c \in Streams : Check(c) \/ Subscribe(c)
    \/ \E c \in Streams : ClientLeaves(c) \/ LifetimeEnds(c) \/ WriteFails(c)
    \/ Finish \/ RedisGoes \/ RedisReturns

Spec == Init /\ [][Next]_vars

----------------------------------------------------------------------------
(* Properties *)

Leaked == userSet \cap closed
Hears == handlers # {} /\ listening /\ bound

\* A response that has ended is still counted against its user only if it ended before
\* the handlers that take it off were attached.
OnlyLateHandlersLeak ==
    \A c \in Leaked : pc[c] \in {"failed", "ended", "late"} \cup SettingUp

\* The limit is exceeded, and a message of Redis reaches a stream twice, only if two
\* streams were set up at the same time.
OverrunNeedsOverlap ==
    ~overlapped => Cardinality(userSet) <= Limit /\ Cardinality(handlers) <= 1

\* A stream that is open hears the events of other instances, unless Redis was away or
\* some response ended while its stream was being set up.
OpenStreamsHear ==
    outages = 0 /\ Leaked = {} => \A c \in Streams : pc[c] = "open" => Hears

\* When every stream has been released the channel is forgotten, outages or not, unless two
\* streams were set up at the same time.
IdleRecordIsForgotten ==
    ~overlapped /\ (\A c \in Streams : pc[c] \in {"idle", "refused", "released"})
    => creator = Nobody /\ unsubscribe = Nobody /\ ~listening /\ subscribers = {} /\ userSet = {}
=============================================================================
