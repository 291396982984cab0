----------------------------- MODULE TaskStream -----------------------------
(***************************************************************************)
(* The events of ONE task on their way to ONE client: numbered and cached  *)
(* by the instance that executes it (task-event-emitter.ts,                *)
(* task-event-replay.ts), published to the others (event-bus.ts), written  *)
(* to the client's stream and replayed when it connects again              *)
(* (task-stream-subscription.ts, src/api/generation-tasks.ts).             *)
(*                                                                         *)
(* The load balancer sends each connection to some instance.  Event number *)
(* NEvents is the terminal one; the record is finished just before it.     *)
(* Between the steps of a subscription lie its awaits.  What the limit and *)
(* the clean-up of streams do is in StreamSubscribers; here Forget may end *)
(* the Redis subscription of an instance the client is not connected to.   *)
(***************************************************************************)
EXTENDS Integers, FiniteSets, Sequences

CONSTANTS
    Home,        \* the instance that executes the task
    Away,        \* the other instances
    Nowhere,
    NEvents,
    Cap,         \* REPLAY_CAP
    MaxDrops,    \* bound: broken connections
    MaxLosses    \* bound: events that find Redis away

ASSUME StreamAssumption ==
    /\ Home \notin Away
    /\ Nowhere \notin Away \cup {Home}
    /\ NEvents \in Nat \ {0} /\ Cap \in Nat \ {0}
    /\ MaxDrops \in Nat /\ MaxLosses \in Nat

Instances == Away \cup {Home}
Done == 0                                  \* the snapshot of a finished record
Ids == 1..NEvents

VARIABLES
    emitted,    \* the counter of the executing instance
    recordDone, \* the record in the database
    cache,      \* localReplayEvents of each instance
    backup,     \* the list in Redis
    hearing,    \* the other instances that are subscribed to the channel
    wire,       \* what Redis has still to deliver to each of them
    at, stage,  \* where the client is connected, and how far that stream is
    asked,      \* the lastEventId of its request
    sawDone,    \* what its record said
    pipe,       \* written to the stream, not yet read
    last, got,  \* the client's lastEventId and the numbers it has received
    ended,      \* it knows that the task has ended
    drops, losses,
    visited, fetched,   \* ghosts: where it was connected; it had a replay from Redis
    overtaken           \* ghost: a live event passed a replay

taskVars == <<emitted, recordDone>>
busVars == <<cache, backup, hearing, wire>>
streamVars == <<at, stage, asked, sawDone>>
clientVars == <<last, got, ended>>
vars == <<taskVars, busVars, streamVars, pipe, clientVars, drops, losses, visited, fetched, overtaken>>

Joined == {"joined", "fetching", "live"}

TypeOK ==
    /\ emitted \in 0..NEvents
    /\ recordDone \in BOOLEAN
    /\ cache \in [Instances -> Seq(Ids)] /\ \A i \in Instances : Len(cache[i]) <= Cap
    /\ backup \in Seq(Ids) /\ Len(backup) <= Cap
    /\ hearing \subseteq Away
    /\ wire \in [Away -> Seq(Ids)]
    /\ at \in Instances \cup {Nowhere}
    /\ stage \in {"none", "asked", "read", "over"} \cup Joined
    /\ (at = Nowhere) <=> (stage = "none")
    /\ asked \in 0..NEvents /\ last \in 0..NEvents
    /\ asked <= last
    /\ sawDone \in BOOLEAN /\ ended \in BOOLEAN
    /\ sawDone => recordDone
    /\ pipe \in Seq(Ids \cup {Done}) /\ got \in Seq(Ids)
    /\ drops \in 0..MaxDrops /\ losses \in 0..MaxLosses
    /\ visited \subseteq Instances /\ fetched \in BOOLEAN /\ overtaken \in BOOLEAN

Init ==
    /\ emitted = 0 /\ recordDone = FALSE
    /\ cache = [i \in Instances |-> <<>>]
    /\ backup = <<>>
    /\ hearing = {} /\ wire = [i \in Away |-> <<>>]
    /\ at = Nowhere /\ stage = "none" /\ asked = 0 /\ sawDone = FALSE
    /\ pipe = <<>>
    /\ last = 0 /\ got = <<>> /\ ended = FALSE
    /\ drops = 0 /\ losses = 0
    /\ visited = {} /\ fetched = FALSE /\ overtaken = FALSE

----------------------------------------------------------------------------
(* The task and the event bus *)

\* Mutant: one entry more than the cap stays.
Newest_OffByOne(s) == SubSeq(s, IF Len(s) > Cap THEN Len(s) - Cap ELSE 1, Len(s))

\* arr.splice, ltrim: the newest Cap entries stay.
Newest(s) == SubSeq(s, IF Len(s) > Cap THEN Len(s) - Cap + 1 ELSE 1, Len(s))
Pushed(s, e) == Newest(Append(s, e))

\* recordReplayEvent: the cache of the instance, and the list that all instances share.
RecordReplay(i, e, reached) ==
    /\ cache' = [cache EXCEPT ![i] = Pushed(@, e)]
    /\ backup' = IF reached THEN Pushed(backup, e) ELSE backup

\* emitLocalTaskStreamEvent
EmitLocal(i, e) ==
    IF at = i /\ stage \in Joined
    THEN /\ pipe' = Append(pipe, e)
         /\ overtaken' = (overtaken \/ (stage # "live" /\ asked > 0))
    ELSE UNCHANGED <<pipe, overtaken>>

\* emitTaskStreamEvent: numbered, cached, written to the own subscribers, published.
EmitTaskStreamEvent ==
    LET e == emitted + 1
    IN  /\ e < NEvents \/ (e = NEvents /\ recordDone)
        /\ emitted' = e
        /\ \E reached \in BOOLEAN :
              /\ reached \/ losses < MaxLosses
              /\ losses' = IF reached THEN losses ELSE losses + 1
              /\ RecordReplay(Home, e, reached)
              /\ wire' = [i \in Away |-> IF reached /\ i \in hearing THEN Append(wire[i], e) ELSE wire[i]]
        /\ EmitLocal(Home, e)
        /\ UNCHANGED <<recordDone, hearing, streamVars, clientVars, drops, visited, fetched>>

\* The strategies write the record before they publish the terminal event.
WriteRecord ==
    /\ emitted = NEvents - 1 /\ ~recordDone
    /\ recordDone' = TRUE
    /\ UNCHANGED <<emitted, busVars, streamVars, pipe, clientVars, drops, losses, visited, fetched, overtaken>>

\* The message handler of ensureDistributedTaskSubscription.
Deliver(i) ==
    /\ wire[i] # <<>>
    /\ wire' = [wire EXCEPT ![i] = Tail(@)]
    /\ RecordReplay(i, Head(wire[i]), TRUE)
    /\ EmitLocal(i, Head(wire[i]))
    /\ UNCHANGED <<taskVars, hearing, streamVars, clientVars, drops, losses, visited, fetched>>

\* cleanupDistributedTaskSubscriptionIfIdle: the cache is kept.
Forget(i) ==
    /\ i \in hearing /\ ~(at = i /\ stage \in Joined)
    /\ hearing' = hearing \ {i}
    /\ wire' = [wire EXCEPT ![i] = <<>>]
    /\ UNCHANGED <<taskVars, cache, backup, streamVars, pipe, clientVars, drops, losses,
                   visited, fetched, overtaken>>

----------------------------------------------------------------------------
(* subscribeGenerationTaskStream *)

ReadRecord ==
    /\ stage = "asked" /\ stage' = "read"
    /\ sawDone' = recordDone
    /\ UNCHANGED <<taskVars, busVars, at, asked, pipe, clientVars, drops, losses, visited, fetched, overtaken>>

\* addTaskStreamSubscriber
Join ==
    /\ stage = "read" /\ stage' = "joined"
    /\ UNCHANGED <<taskVars, busVars, at, asked, sawDone, pipe, clientVars, drops, losses,
                   visited, fetched, overtaken>>

\* filter: the entries of s above n, in their order.
After(s, n) ==
    LET kept == {k \in 1..Len(s) : s[k] > n}
        Rank(k) == Cardinality({i \in kept : i <= k})
    IN  [j \in 1..Cardinality(kept) |-> s[CHOOSE k \in kept : Rank(k) = j]]

\* getReplayEventsAfter: the first cached number decides where the events are taken from.
Covers(i) == cache[i] # <<>> /\ cache[i][1] <= asked + 1

\* Mutant: the replay starts with the event the client already has.
Replayed_Inclusive == After(cache[at], asked - 1)

Replayed == After(cache[at], asked)

\* ensureDistributedTaskSubscription has returned: a snapshot, and either the end of the
\* response or the replay, from the cache at once or with a request to Redis.
Greet ==
    /\ stage = "joined"
    /\ hearing' = IF at \in Away THEN hearing \cup {at} ELSE hearing
    /\ \/ sawDone /\ stage' = "over" /\ pipe' = Append(pipe, Done)
       \/ ~sawDone /\ asked = 0 /\ stage' = "live" /\ UNCHANGED pipe
       \/ ~sawDone /\ asked > 0 /\ Covers(at) /\ stage' = "live" /\ pipe' = pipe \o Replayed
       \/ ~sawDone /\ asked > 0 /\ ~Covers(at) /\ stage' = "fetching" /\ UNCHANGED pipe
    /\ UNCHANGED <<taskVars, cache, backup, wire, at, asked, sawDone, clientVars, drops, losses,
                   visited, fetched, overtaken>>

\* The list of Redis, or the cache as it is if Redis is away.
Fetched ==
    /\ stage = "fetching" /\ stage' = "live"
    /\ \/ pipe' = pipe \o After(backup, asked) /\ UNCHANGED losses
       \/ losses < MaxLosses /\ losses' = losses + 1 /\ pipe' = pipe \o Replayed
    /\ fetched' = TRUE
    /\ UNCHANGED <<taskVars, busVars, at, asked, sawDone, clientVars, drops, visited, overtaken>>

\* Mutant: there is no lifetime timer.
LifetimeEnds_Never == FALSE /\ UNCHANGED vars

LifetimeEnds ==
    /\ stage = "live" /\ stage' = "over"
    /\ UNCHANGED <<taskVars, busVars, at, asked, sawDone, pipe, clientVars, drops, losses,
                   visited, fetched, overtaken>>

\* An event has found the buffer of the response full.
SlowEnds ==
    /\ stage \in Joined /\ stage' = "over"
    /\ pipe # <<>>
    /\ UNCHANGED <<taskVars, busVars, at, asked, sawDone, pipe, clientVars, drops, losses,
                   visited, fetched, overtaken>>

----------------------------------------------------------------------------
(* The client: subscribeGenerationTaskEvents *)

\* Mutant: the client does not send its lastEventId.
Connect_NoId(i) ==
    /\ stage = "none" /\ ~ended
    /\ stage' = "asked" /\ at' = i /\ asked' = 0
    /\ visited' = visited \cup {i}
    /\ UNCHANGED <<taskVars, busVars, sawDone, pipe, clientVars, drops, losses, fetched, overtaken>>

\* subscribeGenerationTaskEvents connects, the first time or again.
Connect(i) ==
    /\ stage = "none" /\ ~ended
    /\ stage' = "asked" /\ at' = i /\ asked' = last
    /\ visited' = visited \cup {i}
    /\ UNCHANGED <<taskVars, busVars, sawDone, pipe, clientVars, drops, losses, fetched, overtaken>>

\* A message is read; whoever learns of the end aborts.
Receive ==
    /\ pipe # <<>> /\ ~ended
    /\ pipe' = Tail(pipe)
    /\ LET m == Head(pipe)
       IN  /\ got' = IF m = Done THEN got ELSE Append(got, m)
           /\ last' = IF m > last THEN m ELSE last
           /\ ended' = (m \in {Done, NEvents})
    /\ UNCHANGED <<taskVars, busVars, streamVars, drops, losses, visited, fetched, overtaken>>

Closed == stage' = "none" /\ at' = Nowhere /\ pipe' = <<>>

\* The end of the response has been read.
ReadEnd ==
    /\ stage = "over" /\ pipe = <<>>
    /\ Closed
    /\ UNCHANGED <<taskVars, busVars, asked, sawDone, clientVars, drops, losses, visited, fetched, overtaken>>

\* The network breaks, or the client has learned of the end: the rest is lost.
Drop ==
    /\ stage # "none"
    /\ \/ ended /\ UNCHANGED drops
       \/ ~ended /\ drops < MaxDrops /\ drops' = drops + 1
    /\ Closed
    /\ UNCHANGED <<taskVars, busVars, asked, sawDone, clientVars, losses, visited, fetched, overtaken>>

Proceeds == ReadRecord \/ Join \/ Greet \/ Fetched \/ Receive \/ ReadEnd
Working == EmitTaskStreamEvent \/ WriteRecord

Next ==
    \/ Working \/ Proceeds \/ LifetimeEnds \/ SlowEnds \/ Drop
    \/ \E i \in Away : Deliver(i) \/ Forget(i)
    \/ \E i \in Instances : Connect(i)

Spec == Init /\ [][Next]_vars

\* Awaits return, the task ends (TaskExecution), a stream has a lifetime, and a client that
\* stays connects again.
Fairness ==
    /\ WF_vars(Working) /\ WF_vars(Proceeds) /\ WF_vars(LifetimeEnds)
    /\ WF_vars(\E i \in Instances : Connect(i))

FairSpec == Spec /\ Fairness

----------------------------------------------------------------------------
(* Properties *)

\* While the executing instance has dropped nothing from its cache, a client that was only
\* ever connected to it receives every event after its first one, once and in order, unless
\* a live event passed a replay: over broken and ended connections, and up to what is
\* already written to its stream.
Complete == visited \subseteq {Home} /\ ~overtaken /\ Len(cache[Home]) = emitted
Numbers == IF pipe # <<>> /\ pipe[Len(pipe)] = Done THEN SubSeq(pipe, 1, Len(pipe) - 1) ELSE pipe
Told == got \o Numbers
OnceAndInOrder ==
    Complete => \A k \in 1..(Len(Told) - 1) : Told[k + 1] = Told[k] + 1

\* And what such a client has not been told it can still ask for.
NothingIsBehind ==
    Complete /\ stage = "live" /\ Len(Told) > 0 => Told[Len(Told)] = emitted

\* A client that always comes to the same instance, whichever it is, receives rising
\* numbers, unless a live event passed a replay or a replay came from the list of Redis,
\* which every instance that hears an event appends to.
SameInstanceInOrder ==
    Cardinality(visited) <= 1 /\ ~fetched /\ ~overtaken =>
        \A k \in 1..(Len(Told) - 1) : Told[k + 1] > Told[k]

\* A client that stays learns that the task has ended, although a stream that has read the
\* record before its end and joined after the terminal event is never told.
ClientLearnsTheEnd == <>ended
=============================================================================
