---------------------- MODULE StreamSubscribersProofs ----------------------
(***************************************************************************)
(* Event streams for any number of streams, any limit and any number of    *)
(* outages.                                                                *)
(***************************************************************************)
EXTENDS StreamSubscribers, FiniteSetTheorems, TLAPS

USE StreamsAssumption

----------------------------------------------------------------------------
(* The inductive invariant *)

Before == {"idle", "refused", "admitted", "read"}
Pending == {c \in Streams : pc[c] \in {"admitted", "read"}}

\* Who is counted, and who has a handler or an empty subscription.
Placed ==
    /\ \A c \in Streams :
         /\ pc[c] \in Before \cup {"released"} => c \notin userSet
         /\ pc[c] = "open" => c \notin closed
         /\ c \in handlers \cup blank => pc[c] \notin Before \cup Binding
    /\ handlers \cap blank = {}

\* While streams are set up one after another: one at a time waits for Redis, it found no
\* subscription, and the only handler is the one the map can take away.
Alone ==
    ~overlapped =>
        /\ \A c, d \in Streams : pc[c] \in SettingUp /\ pc[d] \in SettingUp => c = d
        /\ \A c \in Streams : pc[c] \in Binding => unsubscribe = Nobody
        /\ handlers \subseteq {unsubscribe}
        /\ Cardinality(userSet \cup Pending) <= Limit

SInv == TypeOK /\ Placed /\ Alone
\* Fewer streams counted or admitted are fewer in number.
LEMMA FewerAreFewer ==
    ASSUME TypeOK, NEW S \in SUBSET (userSet \cup Pending)
    PROVE  Cardinality(S) \in Nat /\ Cardinality(S) <= Cardinality(userSet \cup Pending)
           /\ Cardinality(userSet \cup Pending) \in Nat
<1>1. userSet \cup Pending \subseteq Streams
  BY DEF TypeOK, Pending
<1>2. IsFiniteSet(userSet \cup Pending)
  BY <1>1, FS_Subset
<1> QED
  BY <1>2, FS_Subset, FS_CardinalityType

LEMMA InitSInv == Init => SInv
<1> SUFFICES ASSUME Init PROVE SInv
  OBVIOUS
<1>1. TypeOK
  <2>1. pc \in [Streams -> Places]
    BY DEF Init, Places
  <2>2. outages \in 0..MaxOutages
    BY DEF Init
  <2> QED
    BY <2>1, <2>2 DEF Init, TypeOK
<1>2. Placed
  BY DEF Init, Placed
<1>3. userSet \cup Pending = {} /\ Cardinality({}) = 0
  BY FS_EmptySet DEF Init, Pending
<1>4. Alone
  BY <1>3 DEF Init, Alone, SettingUp, Binding
<1> QED
  BY <1>1, <1>2, <1>4 DEF SInv

----------------------------------------------------------------------------
(* A stream is set up *)

LEMMA CheckKeepsSInv ==
    ASSUME SInv, NEW c \in Streams, Check(c)
    PROVE  SInv'
<1>1. /\ TypeOK /\ pc[c] = "idle"
      /\ UNCHANGED <<sawDone, finished, countVars, channelVars, redisVars>>
      /\ closed' \in {closed, closed \cup {c}}
      /\ pc' = [pc EXCEPT ![c] = "refused"] \/
         (pc' = [pc EXCEPT ![c] = "admitted"] /\ ~(Cardinality(userSet) >= Limit))
      /\ overlapped' = (overlapped \/ \E d \in Streams : pc[d] \in SettingUp)
  BY DEF SInv, Check, Goes
<1>2. TypeOK'
  BY <1>1 DEF TypeOK, Places, SettingUp, countVars, channelVars, redisVars
<1>3. Placed'
  BY <1>1 DEF SInv, Placed, TypeOK, Before, Binding, countVars, channelVars
<1>4. ASSUME ~overlapped' PROVE Cardinality(userSet' \cup Pending') <= Limit
  <2>1. Pending = {}
    BY <1>1, <1>4 DEF Pending, SettingUp
  <2>2. CASE pc' = [pc EXCEPT ![c] = "refused"]
    <3>1. Pending' = {} /\ userSet' = userSet
      BY <1>1, <2>1, <2>2 DEF Pending, TypeOK, countVars
    <3> QED
      BY <1>1, <1>4, <2>1, <3>1 DEF SInv, Alone
  <2>3. CASE pc' = [pc EXCEPT ![c] = "admitted"] /\ ~(Cardinality(userSet) >= Limit)
    <3>1. userSet' \cup Pending' = userSet \cup {c}
      BY <1>1, <2>1, <2>3 DEF Pending, TypeOK, countVars
    <3>2. IsFiniteSet(userSet) /\ Cardinality(userSet) \in Nat
      BY <1>1, FS_Subset, FS_CardinalityType DEF TypeOK
    <3>3. Cardinality(userSet \cup {c})
              = IF c \in userSet THEN Cardinality(userSet) ELSE Cardinality(userSet) + 1
      BY <3>2, FS_AddElement
    <3>4. Cardinality(userSet) + 1 <= Limit
      BY <2>3, <3>2
    <3>5. Cardinality(userSet \cup {c}) <= Limit
      BY <3>2, <3>3, <3>4
    <3> QED
      BY <3>1, <3>5
  <2> QED
    BY <1>1, <2>2, <2>3
<1>5. ASSUME ~overlapped'
      PROVE  /\ \A a, d \in Streams : pc'[a] \in SettingUp /\ pc'[d] \in SettingUp => a = d
             /\ \A a \in Streams : pc'[a] \in Binding => unsubscribe' = Nobody
             /\ handlers' \subseteq {unsubscribe'}
  <2>1. \A d \in Streams : pc[d] \notin SettingUp
    BY <1>1, <1>5
  <2>2. \A a \in Streams : pc'[a] \in SettingUp => a = c
    BY <1>1, <2>1 DEF TypeOK
  <2>3. \A a \in Streams : pc'[a] \notin Binding
    BY <1>1, <2>1 DEF TypeOK, SettingUp, Binding
  <2> QED
    BY <1>1, <1>5, <2>2, <2>3 DEF SInv, Alone, channelVars
<1> QED
  BY <1>2, <1>3, <1>4, <1>5 DEF SInv, Alone

\* A step of a stream that is being set up: it goes on, and no stream begins.
LEMMA GoingOnKeepsAlone ==
    ASSUME SInv, NEW c \in Streams, pc[c] \in SettingUp, overlapped' = overlapped,
           NEW to \in Places \ {"idle", "admitted"}, pc' = [pc EXCEPT ![c] = to],
           to = "read" => pc[c] = "admitted",
           to \in Binding => unsubscribe' = Nobody,
           userSet' = userSet \/ (userSet' = userSet \cup {c} /\ pc[c] = "read"),
           unsubscribe' \in {unsubscribe, c},
           ~overlapped => handlers' \subseteq {unsubscribe'}
    PROVE  Alone'
<1>1. TypeOK
  BY DEF SInv
<1>2. userSet' \cup Pending' \subseteq userSet \cup Pending
  BY <1>1 DEF Pending, TypeOK
<1>3. SUFFICES ASSUME ~overlapped
               PROVE  /\ \A a, d \in Streams : pc'[a] \in SettingUp /\ pc'[d] \in SettingUp => a = d
                      /\ \A a \in Streams : pc'[a] \in Binding => unsubscribe' = Nobody
                      /\ Cardinality(userSet' \cup Pending') <= Limit
  BY DEF Alone
<1>4. \A d \in Streams : pc[d] \in SettingUp => d = c
  BY <1>3 DEF SInv, Alone
<1>5. \A d \in Streams : pc'[d] \in SettingUp => d = c
  BY <1>1, <1>4 DEF TypeOK
<1>6. \A d \in Streams : pc'[d] \in Binding => d = c
  BY <1>5 DEF SettingUp
<1>7. \A d \in Streams : pc'[d] \in Binding => unsubscribe' = Nobody
  BY <1>1, <1>6 DEF TypeOK
<1>8. Cardinality(userSet' \cup Pending') <= Limit
  <2>1. Cardinality(userSet \cup Pending) <= Limit
    BY <1>3 DEF SInv, Alone
  <2> HIDE DEF Pending
  <2> QED
    BY <1>1, <1>2, <2>1, FewerAreFewer
<1> QED
  BY <1>5, <1>7, <1>8

LEMMA SubscribeKeepsSInv ==
    ASSUME SInv, NEW c \in Streams, Subscribe(c)
    PROVE  SInv'
<1> USE DEF SInv
<1>1. CASE ReadRecord(c)
  <2>1. TypeOK'
    BY <1>1 DEF ReadRecord, Goes, TypeOK, Places, SettingUp, Binding, streamVars, countVars, channelVars, redisVars
  <2>2. Placed'
    BY <1>1 DEF ReadRecord, Goes, TypeOK, Places, SettingUp, Binding, streamVars, countVars, channelVars, redisVars, Placed, Before
  <2>3. Alone'
    BY <1>1, GoingOnKeepsAlone DEF ReadRecord, Goes, TypeOK, Places, SettingUp, Binding, streamVars, countVars, channelVars, redisVars, Alone, Placed
  <2> QED
    BY <2>1, <2>2, <2>3
<1>2. CASE Join(c)
  <2>1. TypeOK'
    BY <1>2 DEF Join, Goes, TypeOK, Places, SettingUp, Binding, streamVars, countVars, channelVars, redisVars
  <2>2. Placed'
    BY <1>2 DEF Join, Goes, TypeOK, Places, SettingUp, Binding, streamVars, countVars, channelVars, redisVars, Placed, Before
  <2>3. Alone'
    BY <1>2, GoingOnKeepsAlone DEF Join, Goes, TypeOK, Places, SettingUp, Binding, streamVars, countVars, channelVars, redisVars, Alone, Placed
  <2> QED
    BY <2>1, <2>2, <2>3
<1>3. CASE Bind(c)
  <2>1. TypeOK'
    BY <1>3 DEF Bind, Goes, TypeOK, Places, SettingUp, Binding, streamVars, countVars, channelVars, redisVars
  <2>2. Placed'
    BY <1>3 DEF Bind, Goes, TypeOK, Places, SettingUp, Binding, streamVars, countVars, channelVars, redisVars, Placed, Before
  <2>3. Alone'
    BY <1>3, GoingOnKeepsAlone DEF Bind, Goes, TypeOK, Places, SettingUp, Binding, streamVars, countVars, channelVars, redisVars, Alone, Placed
  <2> QED
    BY <2>1, <2>2, <2>3
<1>4. CASE LocateNothing(c)
  <2>1. TypeOK'
    BY <1>4 DEF LocateNothing, Goes, TypeOK, Places, SettingUp, Binding, streamVars, countVars, channelVars, redisVars
  <2>2. Placed'
    BY <1>4 DEF LocateNothing, Goes, TypeOK, Places, SettingUp, Binding, streamVars, countVars, channelVars, redisVars, Placed, Before
  <2>3. /\ pc[c] \in Binding /\ pc' = [pc EXCEPT ![c] = "ready"] /\ unsubscribe' = c
        /\ overlapped' = overlapped /\ userSet' = userSet /\ handlers' \subseteq handlers \cup {c}
    BY <1>4 DEF LocateNothing, Goes, Binding, countVars
  <2>4. ~overlapped => handlers = {}
    BY <2>3 DEF Alone, TypeOK
  <2>5. Alone'
    BY <2>3, <2>4, GoingOnKeepsAlone DEF Places, SettingUp, Binding
  <2> QED
    BY <2>1, <2>2, <2>5
<1>5. CASE LocateChannel(c)
  <2>1. TypeOK'
    BY <1>5 DEF LocateChannel, Goes, TypeOK, Places, SettingUp, Binding, streamVars, countVars, channelVars, redisVars
  <2>2. Placed'
    BY <1>5 DEF LocateChannel, Goes, TypeOK, Places, SettingUp, Binding, streamVars, countVars, channelVars, redisVars, Placed, Before
  <2>3. /\ pc[c] \in Binding /\ pc' = [pc EXCEPT ![c] = "ready"] /\ unsubscribe' = c
        /\ overlapped' = overlapped /\ userSet' = userSet /\ handlers' \subseteq handlers \cup {c}
    BY <1>5 DEF LocateChannel, Goes, Binding, countVars
  <2>4. ~overlapped => handlers = {}
    BY <2>3 DEF Alone, TypeOK
  <2>5. Alone'
    BY <2>3, <2>4, GoingOnKeepsAlone DEF Places, SettingUp, Binding
  <2> QED
    BY <2>1, <2>2, <2>5
<1>6. CASE CreateChannel(c)
  <2>1. TypeOK'
    BY <1>6 DEF CreateChannel, Goes, TypeOK, Places, SettingUp, Binding, streamVars, countVars, channelVars, redisVars
  <2>2. Placed'
    BY <1>6 DEF CreateChannel, Goes, TypeOK, Places, SettingUp, Binding, streamVars, countVars, channelVars, redisVars, Placed, Before
  <2>3. Alone'
    BY <1>6, GoingOnKeepsAlone DEF CreateChannel, Goes, TypeOK, Places, SettingUp, Binding, streamVars, countVars, channelVars, redisVars, Alone, Placed
  <2> QED
    BY <2>1, <2>2, <2>3
<1>7. CASE Subscribed(c)
  <2>1. TypeOK'
    BY <1>7 DEF Subscribed, Goes, TypeOK, Places, SettingUp, Binding, streamVars, countVars, channelVars, redisVars
  <2>2. Placed'
    BY <1>7 DEF Subscribed, Goes, TypeOK, Places, SettingUp, Binding, streamVars, countVars, channelVars, redisVars, Placed, Before
  <2>3. Alone'
    BY <1>7, GoingOnKeepsAlone DEF Subscribed, Goes, TypeOK, Places, SettingUp, Binding, streamVars, countVars, channelVars, redisVars, Alone, Placed
  <2> QED
    BY <2>1, <2>2, <2>3
<1>8. CASE SubscribeFails(c)
  <2>1. TypeOK'
    BY <1>8 DEF SubscribeFails, Goes, TypeOK, Places, SettingUp, Binding, streamVars, countVars, channelVars, redisVars
  <2>2. Placed'
    BY <1>8 DEF SubscribeFails, Goes, TypeOK, Places, SettingUp, Binding, streamVars, countVars, channelVars, redisVars, Placed, Before
  <2>3. Alone'
    BY <1>8, GoingOnKeepsAlone DEF SubscribeFails, Goes, TypeOK, Places, SettingUp, Binding, streamVars, countVars, channelVars, redisVars, Alone, Placed
  <2> QED
    BY <2>1, <2>2, <2>3
<1>9. CASE EndAtOnce(c)
  <2>1. TypeOK'
    BY <1>9 DEF EndAtOnce, Goes, TypeOK, Places, SettingUp, Binding, streamVars, countVars, channelVars, redisVars
  <2>2. Placed'
    BY <1>9 DEF EndAtOnce, Goes, TypeOK, Places, SettingUp, Binding, streamVars, countVars, channelVars, redisVars, Placed, Before
  <2>3. Alone'
    BY <1>9, GoingOnKeepsAlone DEF EndAtOnce, Goes, TypeOK, Places, SettingUp, Binding, streamVars, countVars, channelVars, redisVars, Alone, Placed
  <2> QED
    BY <2>1, <2>2, <2>3
<1>10. CASE Attach(c)
  <2>1. TypeOK'
    BY <1>10 DEF Attach, Goes, TypeOK, Places, SettingUp, Binding, streamVars, countVars, channelVars, redisVars
  <2>2. Placed'
    BY <1>10 DEF Attach, Goes, TypeOK, Places, SettingUp, Binding, streamVars, countVars, channelVars, redisVars, Placed, Before
  <2>3. Alone'
    BY <1>10, GoingOnKeepsAlone DEF Attach, Goes, TypeOK, Places, SettingUp, Binding, streamVars, countVars, channelVars, redisVars, Alone, Placed
  <2> QED
    BY <2>1, <2>2, <2>3
<1> QED
  BY <1>1, <1>2, <1>3, <1>4, <1>5, <1>6, <1>7, <1>8, <1>9, <1>10 DEF Subscribe
----------------------------------------------------------------------------
(* A response ends; the task and Redis *)

\* What a clean-up leaves of the channel.
LEMMA CleanupShrinks ==
    ASSUME SInv, NEW c \in Streams, Cleanup(c)
    PROVE  /\ handlers' \subseteq handlers /\ unsubscribe' \in {unsubscribe, Nobody}
           /\ creator' \in {creator, Nobody} /\ listening' \in {listening, FALSE}
           /\ creator' = Nobody => handlers' = {}
           /\ handlers \subseteq {unsubscribe} => handlers' \subseteq {unsubscribe'}
           /\ userSet' = userSet \ {c} /\ subscribers' = subscribers \ {c}
           /\ bound' = bound /\ blank' = blank
<1>1. handlers \cap blank = {} /\ (creator = Nobody => handlers = {}) /\ handlers \subseteq Streams
  BY DEF SInv, TypeOK, Placed
<1>2. userSet' = userSet \ {c} /\ subscribers' = subscribers \ {c} /\ bound' = bound /\ blank' = blank
  BY DEF Cleanup
<1>3. CASE UNCHANGED <<creator, handlers, listening, unsubscribe>>
  BY <1>1, <1>2, <1>3
<1>4. CASE Unsubscribed /\ unsubscribe' = Nobody
  <2>1. CASE unsubscribe = Nobody \/ unsubscribe \in blank \/ creator = Nobody
    BY <1>1, <1>2, <1>4, <2>1 DEF Unsubscribed
  <2>2. CASE ~(unsubscribe = Nobody \/ unsubscribe \in blank \/ creator = Nobody)
    BY <1>1, <1>2, <1>4, <2>2 DEF Unsubscribed
  <2> QED
    BY <2>1, <2>2
<1> QED
  BY <1>3, <1>4 DEF Cleanup

LEMMA EndsKeepsSInv ==
    ASSUME SInv, NEW c \in Streams, NEW left \in SUBSET Streams, Ends(c, left)
    PROVE  SInv'
<1>1. /\ TypeOK /\ Placed /\ Alone /\ closed' = closed \cup {c}
      /\ UNCHANGED <<sawDone, finished, redisUp, outages, overlapped>>
  BY DEF SInv, Ends, redisVars
<1>2. CASE pc[c] = "open" /\ pc' = [pc EXCEPT ![c] = "released"] /\ Cleanup(c)
  <2>1. /\ handlers' \subseteq handlers /\ unsubscribe' \in {unsubscribe, Nobody}
        /\ creator' \in {creator, Nobody} /\ listening' \in {listening, FALSE}
        /\ creator' = Nobody => handlers' = {}
        /\ handlers \subseteq {unsubscribe} => handlers' \subseteq {unsubscribe'}
        /\ userSet' = userSet \ {c} /\ subscribers' = subscribers \ {c}
        /\ bound' = bound /\ blank' = blank
    BY <1>2, CleanupShrinks
  <2>2. TypeOK'
    BY <1>1, <1>2, <2>1 DEF TypeOK, Places
  <2>3. Placed'
    BY <1>1, <1>2, <2>1 DEF Placed, TypeOK, Before, Binding
  <2>4. Alone'
    <3>1. userSet' \cup Pending' \subseteq userSet \cup Pending
      BY <1>1, <1>2, <2>1 DEF Pending, TypeOK
    <3>2. \A d \in Streams : pc'[d] \in SettingUp => pc[d] \in SettingUp /\ pc'[d] = pc[d]
      BY <1>1, <1>2 DEF TypeOK, SettingUp, Binding
    <3>3. \A d \in Streams : pc'[d] \in Binding => pc[d] \in Binding
      BY <1>1, <1>2 DEF TypeOK, Binding
    <3>4. SUFFICES ASSUME ~overlapped
                   PROVE  /\ \A a, d \in Streams : pc'[a] \in SettingUp /\ pc'[d] \in SettingUp => a = d
                          /\ \A a \in Streams : pc'[a] \in Binding => unsubscribe' = Nobody
                          /\ handlers' \subseteq {unsubscribe'}
                          /\ Cardinality(userSet' \cup Pending') <= Limit
      BY <1>1 DEF Alone
    <3>5. Cardinality(userSet' \cup Pending') <= Limit
      <4>1. Cardinality(userSet \cup Pending) <= Limit
        BY <1>1, <3>4 DEF Alone
      <4> HIDE DEF Pending
      <4> QED
        BY <1>1, <3>1, <4>1, FewerAreFewer
    <3> QED
      BY <1>1, <2>1, <3>2, <3>3, <3>4, <3>5 DEF Alone
  <2> QED
    BY <2>2, <2>3, <2>4 DEF SInv
<1>3. CASE pc[c] # "open" /\ subscribers' = left /\ UNCHANGED <<pc, userSet, channelVars>>
  <2>1. TypeOK'
    BY <1>1, <1>3 DEF TypeOK, channelVars
  <2>2. Placed'
    BY <1>1, <1>3 DEF Placed, channelVars
  <2>3. Alone'
    BY <1>1, <1>3 DEF Alone, Pending, channelVars
  <2> QED
    BY <2>1, <2>2, <2>3 DEF SInv
<1> QED
  BY <1>2, <1>3 DEF Ends, Goes

\* Steps that leave the streams, their count and the channel alone.
LEMMA QuietKeepsSInv ==
    ASSUME SInv, UNCHANGED <<pc, closed, sawDone, userSet, channelVars, overlapped>>,
           subscribers' \in SUBSET Streams, finished' \in BOOLEAN, redisUp' \in BOOLEAN,
           outages' \in 0..MaxOutages
    PROVE  SInv'
<1>1. TypeOK'
  BY DEF SInv, TypeOK, channelVars
<1>2. Placed' /\ Alone'
  BY DEF SInv, Placed, Alone, Pending, channelVars
<1> QED
  BY <1>1, <1>2 DEF SInv

LEMMA NextKeepsSInv == SInv /\ [Next]_vars => SInv'
<1> SUFFICES ASSUME SInv, [Next]_vars PROVE SInv'
  OBVIOUS
<1>1. /\ subscribers \in SUBSET Streams /\ finished \in BOOLEAN /\ redisUp \in BOOLEAN
      /\ outages \in 0..MaxOutages
  BY DEF SInv, TypeOK
<1>2. ASSUME NEW c \in Streams, Check(c) \/ Subscribe(c) PROVE SInv'
  BY <1>2, CheckKeepsSInv, SubscribeKeepsSInv
<1>3. ASSUME NEW c \in Streams, ClientLeaves(c) \/ LifetimeEnds(c) PROVE SInv'
  BY <1>1, <1>3, EndsKeepsSInv DEF ClientLeaves, LifetimeEnds
<1>4. ASSUME NEW c \in Streams, WriteFails(c) PROVE SInv'
  <2>1. CASE Ends(c, subscribers \ {c})
    BY <1>1, <2>1, EndsKeepsSInv
  <2>2. CASE /\ subscribers' = subscribers \ {c}
             /\ UNCHANGED <<streamVars, userSet, channelVars, redisVars, overlapped>>
    BY <1>1, <2>2, QuietKeepsSInv DEF streamVars, redisVars
  <2> QED
    BY <1>4, <2>1, <2>2 DEF WriteFails
<1>5. CASE Finish
  BY <1>1, <1>5, QuietKeepsSInv DEF Finish, countVars, redisVars
<1>6. CASE RedisGoes
  <2>1. outages' \in 0..MaxOutages
    BY <1>1, <1>6 DEF RedisGoes
  <2> QED
    BY <1>1, <1>6, <2>1, QuietKeepsSInv DEF RedisGoes, streamVars, countVars
<1>7. CASE RedisReturns
  BY <1>1, <1>7, QuietKeepsSInv DEF RedisReturns, streamVars, countVars
<1>8. CASE UNCHANGED vars
  BY <1>1, <1>8, QuietKeepsSInv DEF vars, streamVars, countVars, redisVars
<1> QED
  BY <1>2, <1>3, <1>4, <1>5, <1>6, <1>7, <1>8 DEF Next

LEMMA AlwaysSInv == Spec => []SInv
BY InitSInv, NextKeepsSInv, PTL DEF Spec

----------------------------------------------------------------------------
(* What the channel owes to its streams *)

Rest == {"idle", "refused", "released"}
Stays == {"failed", "ended", "late"}
Held == {"ready", "open"} \cup Binding
Stuck == \E c \in Streams : pc[c] \in Stays

\* The counts follow the streams; as long as the channel has an entry somebody is on the way
\* or will take it away, unless a stream has got stuck.
Kept ==
    /\ subscribers \subseteq userSet
    /\ \A c \in Streams : pc[c] \in Held \cup Stays => c \in userSet
    /\ listening => creator # Nobody
    /\ unsubscribe # Nobody => \E c \in Streams : pc[c] \notin Rest
    /\ ~overlapped /\ creator # Nobody =>
          \/ Stuck
          \/ pc[creator] = "subscribing"
          \/ unsubscribe # Nobody /\ unsubscribe \notin blank

\* Without outages and leaks: the connection is bound before the channel is made, and
\* whoever is past the subscription relies on a handler.
Wired ==
    /\ redisUp /\ blank = {}
    /\ \A c \in userSet : c \in subscribers /\ pc[c] \in Held
    /\ \A c \in Streams : pc[c] \in Held \ {"binding"} => bound
    /\ \A c \in Streams : pc[c] \in {"ready", "open"} => handlers # {}
    /\ \A c \in Streams : pc[c] = "subscribing" => creator = c
    /\ unsubscribe # Nobody => bound /\ handlers # {}
    /\ creator # Nobody => listening

Hearing == outages = 0 /\ Leaked = {} => Wired

\* A leak stays: only a stream that has not ended is taken off the count.
LEMMA LeaksStay == SInv /\ Next /\ Leaked' = {} => Leaked = {}
<1> SUFFICES ASSUME SInv, Next PROVE Leaked \subseteq Leaked'
  OBVIOUS
<1>1. ASSUME NEW c \in Streams, NEW left, Ends(c, left)
      PROVE  Leaked \subseteq Leaked'
  BY <1>1 DEF Ends, Cleanup, Leaked
<1>2. ASSUME NEW c \in Streams, Check(c) \/ Subscribe(c)
      PROVE  Leaked \subseteq Leaked'
  BY <1>2 DEF Check, Subscribe, ReadRecord, Join, Bind, LocateNothing, LocateChannel,
              CreateChannel, Subscribed, SubscribeFails, EndAtOnce, Attach, Leaked, countVars
<1>3. ASSUME NEW c \in Streams, ClientLeaves(c) \/ LifetimeEnds(c) \/ WriteFails(c)
      PROVE  Leaked \subseteq Leaked'
  BY <1>1, <1>3 DEF ClientLeaves, LifetimeEnds, WriteFails, Leaked, streamVars
<1>4. CASE Finish \/ RedisGoes \/ RedisReturns
  BY <1>4 DEF Finish, RedisGoes, RedisReturns, Leaked, streamVars, countVars
<1> QED
  BY <1>2, <1>3, <1>4 DEF Next

LEMMA SubscribeKeepsKept ==
    ASSUME SInv, SInv', Kept, NEW c \in Streams, Subscribe(c)
    PROVE  Kept'
<1>1. TypeOK /\ Placed /\ Alone /\ Placed'
  BY DEF SInv
<1>2. CASE ReadRecord(c)
  BY <1>1, <1>2 DEF ReadRecord, TypeOK, Places, SettingUp, Binding, streamVars, countVars, channelVars, redisVars, Goes, Kept, Rest, Stays, Held, Stuck
<1>3. CASE Join(c)
  BY <1>1, <1>3 DEF Join, TypeOK, Places, SettingUp, Binding, streamVars, countVars, channelVars, redisVars, Goes, Kept, Rest, Stays, Held, Stuck
<1>4. CASE Bind(c)
  BY <1>1, <1>4 DEF Bind, TypeOK, Places, SettingUp, Binding, streamVars, countVars, channelVars, redisVars, Goes, Kept, Rest, Stays, Held, Stuck
<1>5. CASE LocateNothing(c)
  BY <1>1, <1>5 DEF LocateNothing, TypeOK, Places, SettingUp, Binding, streamVars, countVars, channelVars, redisVars, Goes, Kept, Rest, Stays, Held, Stuck, Placed, Alone
<1>6. CASE LocateChannel(c)
  BY <1>1, <1>6 DEF LocateChannel, TypeOK, Places, SettingUp, Binding, streamVars, countVars, channelVars, redisVars, Goes, Kept, Rest, Stays, Held, Stuck, Placed, Alone
<1>7. CASE CreateChannel(c)
  BY <1>1, <1>7 DEF CreateChannel, TypeOK, Places, SettingUp, Binding, streamVars, countVars, channelVars, redisVars, Goes, Kept, Rest, Stays, Held, Stuck, Placed, Alone
<1>8. CASE Subscribed(c)
  BY <1>1, <1>8 DEF Subscribed, TypeOK, Places, SettingUp, Binding, streamVars, countVars, channelVars, redisVars, Goes, Kept, Rest, Stays, Held, Stuck, Placed, Alone
<1>9. CASE SubscribeFails(c)
  BY <1>1, <1>9 DEF SubscribeFails, TypeOK, Places, SettingUp, Binding, streamVars, countVars, channelVars, redisVars, Goes, Kept, Rest, Stays, Held, Stuck, Placed, Alone
<1>10. CASE EndAtOnce(c)
  BY <1>1, <1>10 DEF EndAtOnce, TypeOK, Places, SettingUp, Binding, streamVars, countVars, channelVars, redisVars, Goes, Kept, Rest, Stays, Held, Stuck
<1>11. CASE Attach(c)
  BY <1>1, <1>11 DEF Attach, TypeOK, Places, SettingUp, Binding, streamVars, countVars, channelVars, redisVars, Goes, Kept, Rest, Stays, Held, Stuck
<1> QED
  BY <1>2, <1>3, <1>4, <1>5, <1>6, <1>7, <1>8, <1>9, <1>10, <1>11 DEF Subscribe

LEMMA SubscribeKeepsWired ==
    ASSUME SInv, Kept, Wired, NEW c \in Streams, Subscribe(c), Leaked' = {}
    PROVE  Wired'
<1>1. TypeOK /\ Placed
  BY DEF SInv
<1>2. CASE ReadRecord(c)
  BY <1>1, <1>2 DEF ReadRecord, TypeOK, Places, SettingUp, Binding, streamVars, countVars, channelVars, redisVars, Goes, Wired, Held
<1>3. CASE Join(c)
  BY <1>1, <1>3 DEF Join, TypeOK, Places, SettingUp, Binding, streamVars, countVars, channelVars, redisVars, Goes, Wired, Held
<1>4. CASE Bind(c)
  BY <1>1, <1>4 DEF Bind, TypeOK, Places, SettingUp, Binding, streamVars, countVars, channelVars, redisVars, Goes, Wired, Held
<1>5. CASE LocateNothing(c)
  BY <1>1, <1>5 DEF LocateNothing, TypeOK, Places, SettingUp, Binding, streamVars, countVars, channelVars, redisVars, Goes, Wired, Held
<1>6. CASE LocateChannel(c)
  BY <1>1, <1>6 DEF LocateChannel, TypeOK, Places, SettingUp, Binding, streamVars, countVars, channelVars, redisVars, Goes, Wired, Held
<1>7. CASE CreateChannel(c)
  BY <1>1, <1>7 DEF CreateChannel, TypeOK, Places, SettingUp, Binding, streamVars, countVars, channelVars, redisVars, Goes, Wired, Held
<1>8. CASE Subscribed(c)
  BY <1>1, <1>8 DEF Subscribed, TypeOK, Places, SettingUp, Binding, streamVars, countVars, channelVars, redisVars, Goes, Wired, Held
<1>9. CASE SubscribeFails(c)
  BY <1>1, <1>9 DEF SubscribeFails, TypeOK, Places, SettingUp, Binding, streamVars, countVars, channelVars, redisVars, Goes, Wired, Held
<1>10. CASE EndAtOnce(c)
  BY <1>1, <1>10 DEF EndAtOnce, TypeOK, Places, SettingUp, Binding, streamVars, countVars, channelVars, redisVars, Goes, Wired, Held, Kept, Leaked
<1>11. CASE Attach(c)
  BY <1>1, <1>11 DEF Attach, TypeOK, Places, SettingUp, Binding, streamVars, countVars, channelVars, redisVars, Goes, Wired, Held, Kept, Leaked
<1> QED
  BY <1>2, <1>3, <1>4, <1>5, <1>6, <1>7, <1>8, <1>9, <1>10, <1>11 DEF Subscribe

LEMMA EndsKeepsKept ==
    ASSUME SInv, SInv', Kept, NEW c \in Streams, NEW left \in SUBSET subscribers, Ends(c, left)
    PROVE  Kept'
<1>1. TypeOK /\ Placed /\ Alone /\ Placed' /\ overlapped' = overlapped
  BY DEF SInv, Ends
<1>2. CASE pc[c] = "open" /\ pc' = [pc EXCEPT ![c] = "released"] /\ Cleanup(c)
  <2>1. /\ subscribers' = subscribers \ {c} /\ userSet' = userSet \ {c}
        /\ creator' \in {creator, Nobody} /\ blank' = blank
    BY <1>2, CleanupShrinks
  <2>2. \A d \in Streams : d # c => pc'[d] = pc[d]
    BY <1>1, <1>2 DEF TypeOK
  <2>3. pc'[c] = "released"
    BY <1>1, <1>2 DEF TypeOK
  <2>4. Stuck => Stuck'
    BY <1>2, <2>2 DEF Stuck, Stays
  <2>5. subscribers' \subseteq userSet' /\ \A d \in Streams : pc'[d] \in Held \cup Stays => d \in userSet'
    BY <1>1, <2>1, <2>2, <2>3 DEF Kept, Held, Stays, Binding
  <2>6. CASE subscribers' = {}
    <3>1. unsubscribe' = Nobody /\ Unsubscribed
      BY <1>2, <2>6 DEF Cleanup
    <3>2. listening' => creator' # Nobody
      BY <1>1, <3>1 DEF Unsubscribed, Kept
    <3>3. ASSUME ~overlapped, creator' # Nobody
          PROVE  Stuck' \/ pc'[creator'] = "subscribing"
      <4>1. creator' = creator /\ (unsubscribe = Nobody \/ unsubscribe \in blank)
        BY <1>1, <3>1, <3>3 DEF Unsubscribed, Alone
      <4>2. Stuck \/ pc[creator] = "subscribing"
        BY <3>3, <4>1 DEF Kept
      <4> QED
        BY <1>1, <1>2, <2>2, <2>4, <3>3, <4>1, <4>2 DEF TypeOK
    <3> QED
      BY <1>1, <2>5, <3>1, <3>2, <3>3 DEF Kept
  <2>7. CASE subscribers' # {}
    <3>1. UNCHANGED <<creator, handlers, listening, unsubscribe>>
      BY <1>2, <2>7 DEF Cleanup
    <3>2. PICK d \in Streams : d \in subscribers'
      BY <1>1, <2>1, <2>7 DEF TypeOK
    <3>3. pc'[d] \notin Rest
      BY <1>1, <2>1, <2>5, <2>2, <3>2 DEF Rest, Placed, Before, TypeOK
    <3>4. ~overlapped /\ creator' # Nobody =>
            Stuck' \/ pc'[creator'] = "subscribing" \/ (unsubscribe' # Nobody /\ unsubscribe' \notin blank')
      BY <1>1, <1>2, <2>1, <2>2, <2>4, <3>1 DEF Kept, TypeOK
    <3> QED
      BY <1>1, <2>5, <3>1, <3>2, <3>3, <3>4 DEF Kept
  <2> QED
    BY <2>6, <2>7
<1>3. CASE pc[c] # "open" /\ subscribers' = left /\ UNCHANGED <<pc, userSet, channelVars>>
  BY <1>1, <1>3 DEF Kept, Stuck, channelVars
<1> QED
  BY <1>2, <1>3 DEF Ends, Goes

LEMMA EndsKeepsWired ==
    ASSUME SInv, Kept, Wired, NEW c \in Streams, NEW left \in {subscribers, subscribers \ {c}},
           Ends(c, left), Leaked' = {}
    PROVE  Wired'
<1>1. TypeOK /\ Placed /\ closed' = closed \cup {c} /\ redisUp' = redisUp
  BY DEF SInv, Ends, redisVars
<1>2. c \notin userSet'
  BY <1>1 DEF Leaked
<1>3. \/ pc[c] = "open" /\ pc' = [pc EXCEPT ![c] = "released"] /\ Cleanup(c)
      \/ left = subscribers /\ subscribers' = left /\ UNCHANGED <<pc, userSet, channelVars>>
  <2>1. c \notin userSet => subscribers \ {c} = subscribers
    BY DEF Kept
  <2>2. CASE pc[c] = "open"
    BY <2>2 DEF Ends, Goes
  <2>3. CASE pc[c] # "open"
    BY <1>2, <2>1, <2>3 DEF Ends
  <2> QED
    BY <2>2, <2>3
<1>4. CASE pc[c] = "open" /\ pc' = [pc EXCEPT ![c] = "released"] /\ Cleanup(c)
  <2>1. /\ subscribers' = subscribers \ {c} /\ userSet' = userSet \ {c}
        /\ bound' = bound /\ blank' = blank
    BY <1>4, CleanupShrinks
  <2>2. \A d \in Streams : pc'[d] \in Held => d # c /\ pc'[d] = pc[d]
    BY <1>1, <1>4 DEF TypeOK, Held, Binding
  <2>3. \A d \in userSet' : d \in subscribers' /\ pc'[d] \in Held
    BY <1>1, <1>4, <2>1 DEF TypeOK, Wired
  <2>4. CASE subscribers' = {}
    <3>1. \A d \in Streams : pc'[d] \notin Held
      BY <2>1, <2>2, <2>3, <2>4 DEF Kept
    <3>2. unsubscribe' = Nobody /\ (creator' # Nobody => listening')
      BY <1>4, <2>4 DEF Cleanup, Unsubscribed, Wired
    <3> QED
      BY <1>1, <2>1, <2>3, <3>1, <3>2 DEF Wired, Held, Binding
  <2>5. CASE subscribers' # {}
    <3>1. UNCHANGED <<creator, handlers, listening, unsubscribe>>
      BY <1>4, <2>5 DEF Cleanup
    <3> QED
      BY <1>1, <2>1, <2>2, <2>3, <3>1 DEF Wired, Held, Binding
  <2> QED
    BY <2>4, <2>5
<1>5. CASE left = subscribers /\ subscribers' = left /\ UNCHANGED <<pc, userSet, channelVars>>
  BY <1>1, <1>5 DEF Wired, channelVars
<1> QED
  BY <1>3, <1>4, <1>5

LEMMA NextKeepsKept == SInv /\ SInv' /\ Kept /\ [Next]_vars => Kept'
<1> SUFFICES ASSUME SInv, SInv', Kept, [Next]_vars PROVE Kept'
  OBVIOUS
<1>1. TypeOK
  BY DEF SInv
<1>2. ASSUME NEW c \in Streams, Check(c) PROVE Kept'
  BY <1>1, <1>2 DEF Check, Goes, Kept, TypeOK, Rest, Stays, Held, Stuck, Binding, SettingUp, Places, countVars, channelVars
<1>3. ASSUME NEW c \in Streams, Subscribe(c) PROVE Kept'
  BY <1>3, SubscribeKeepsKept
<1>4. ASSUME NEW c \in Streams, ClientLeaves(c) \/ LifetimeEnds(c) PROVE Kept'
  BY <1>4, EndsKeepsKept DEF ClientLeaves, LifetimeEnds
<1>5. ASSUME NEW c \in Streams, WriteFails(c) PROVE Kept'
  <2>1. CASE Ends(c, subscribers \ {c})
    BY <2>1, EndsKeepsKept
  <2>2. CASE subscribers' = subscribers \ {c} /\ UNCHANGED <<streamVars, userSet, channelVars, overlapped>>
    BY <2>2 DEF Kept, Stuck, streamVars, channelVars
  <2> QED
    BY <1>5, <2>1, <2>2 DEF WriteFails
<1>6. CASE Finish \/ RedisGoes \/ RedisReturns \/ UNCHANGED vars
  BY <1>6 DEF Finish, RedisGoes, RedisReturns, Kept, Stuck, vars, streamVars, countVars, channelVars
<1> QED
  BY <1>2, <1>3, <1>4, <1>5, <1>6 DEF Next

LEMMA NextKeepsHearing ==
    SInv /\ Kept /\ Hearing /\ [Next]_vars => Hearing'
<1> SUFFICES ASSUME SInv, Kept, Hearing, [Next]_vars, outages' = 0, Leaked' = {}
             PROVE  Wired'
  BY DEF Hearing
<1>1. CASE UNCHANGED vars
  <2>1. outages = 0 /\ Leaked = {}
    BY <1>1 DEF vars, redisVars, streamVars, countVars, Leaked
  <2> QED
    BY <1>1, <2>1 DEF Hearing, Wired, vars, redisVars, streamVars, countVars, channelVars
<1>2. CASE Next
  <2>1. Leaked = {}
    BY <1>2, LeaksStay
  <2>2. ~RedisGoes /\ outages = 0
    <3>1. outages' = outages \/ RedisGoes
      BY <1>2 DEF Next, RedisReturns, Finish, Check, Subscribe, ReadRecord, Join, Bind,
                  LocateNothing, LocateChannel, CreateChannel, Subscribed, SubscribeFails,
                  EndAtOnce, Attach, ClientLeaves, LifetimeEnds, WriteFails, Ends, redisVars
    <3>2. outages \in Nat
      BY DEF SInv, TypeOK
    <3> QED
      BY <3>1, <3>2 DEF RedisGoes
  <2>3. Wired /\ TypeOK
    BY <2>1, <2>2 DEF Hearing, SInv
  <2>4. ASSUME NEW c \in Streams, Check(c) PROVE Wired'
    <3>1. c \notin userSet
      BY <2>4 DEF Check, Goes, SInv, Placed, Before
    <3> QED
      BY <2>3, <2>4, <3>1 DEF Check, Goes, Wired, TypeOK, Held, Binding, SettingUp, Places, countVars, channelVars, redisVars
  <2>5. ASSUME NEW c \in Streams, Subscribe(c) PROVE Wired'
    BY <2>3, <2>5, SubscribeKeepsWired
  <2>6. ASSUME NEW c \in Streams, ClientLeaves(c) \/ LifetimeEnds(c) PROVE Wired'
    BY <2>3, <2>6, EndsKeepsWired DEF ClientLeaves, LifetimeEnds
  <2>7. ASSUME NEW c \in Streams, WriteFails(c) PROVE Wired'
    <3>1. CASE Ends(c, subscribers \ {c})
      BY <2>3, <3>1, EndsKeepsWired
    <3>2. CASE c \in closed
      BY <2>1, <2>7, <3>2 DEF WriteFails, Leaked, Kept
    <3> QED
      BY <2>7, <3>1, <3>2 DEF WriteFails
  <2>8. CASE Finish \/ RedisReturns
    BY <2>3, <2>8 DEF Finish, RedisReturns, Wired, streamVars, countVars, channelVars, redisVars
  <2> QED
    BY <1>2, <2>2, <2>4, <2>5, <2>6, <2>7, <2>8 DEF Next
<1> QED
  BY <1>1, <1>2

LEMMA AlwaysKept == Spec => []Kept
<1>1. Init => Kept
  BY DEF Init, Kept, Held, Stays, Rest, Binding
<1> QED
  BY <1>1, AlwaysSInv, NextKeepsKept, PTL DEF Spec

----------------------------------------------------------------------------
(* Theorems *)

\* The maps and sets of the instance and the places of the handlers have their types.
THEOREM StreamsTypeCorrect == Spec => []TypeOK
<1>1. SInv => TypeOK
  BY DEF SInv
<1> QED
  BY <1>1, AlwaysSInv, PTL

\* Whatever the order of ends, events and awaits, a response that leaks had no handlers of
\* 'close' when it ended: the clean-up itself never misses a stream.
THEOREM LeaksAreLate == Spec => []OnlyLateHandlersLeak
<1>1. SInv => OnlyLateHandlersLeak
  <2> SUFFICES ASSUME SInv, NEW c \in userSet \cap closed
               PROVE  pc[c] \in {"failed", "ended", "late"} \cup SettingUp
    BY DEF OnlyLateHandlersLeak, Leaked
  <2>1. c \in Streams /\ pc[c] \in Places
    BY DEF SInv, TypeOK
  <2>2. pc[c] \notin Before \cup {"released", "open"}
    BY <2>1 DEF SInv, Placed
  <2> QED
    BY <2>1, <2>2 DEF Places, Before
<1> QED
  BY <1>1, AlwaysSInv, PTL

\* The limit of streams per user, and one handler per channel, hold as long as no stream is
\* set up during the awaits of another.
THEOREM LimitHoldsInTurn == Spec => []OverrunNeedsOverlap
<1>1. SInv => OverrunNeedsOverlap
  <2> SUFFICES ASSUME SInv, ~overlapped
               PROVE  Cardinality(userSet) <= Limit /\ Cardinality(handlers) <= 1
    BY DEF OverrunNeedsOverlap
  <2>1. Cardinality(userSet \cup Pending) <= Limit /\ handlers \subseteq {unsubscribe}
    BY DEF SInv, Alone
  <2>2. Cardinality(userSet) <= Limit
    <3> HIDE DEF Pending
    <3>1. TypeOK /\ userSet \in SUBSET (userSet \cup Pending)
      BY DEF SInv
    <3> QED
      BY <2>1, <3>1, FewerAreFewer
  <2>3. Cardinality(handlers) <= 1
    <3>1. IsFiniteSet({unsubscribe}) /\ Cardinality({unsubscribe}) = 1
      BY FS_Singleton
    <3>2. Cardinality(handlers) <= Cardinality({unsubscribe})
      BY <2>1, <3>1, FS_Subset
    <3> QED
      BY <3>1, <3>2
  <2> QED
    BY <2>2, <2>3
<1> QED
  BY <1>1, AlwaysSInv, PTL

\* A stream that is open has a handler on a channel Redis sends to and a connection that
\* listens, whatever its neighbours do, as long as nothing leaked and Redis stayed.
THEOREM NeighboursDoNotDeafen == Spec => []OpenStreamsHear
<1>1. Init => Hearing
  BY DEF Init, Hearing, Wired, Held, Binding
<1>2. SInv /\ Hearing => OpenStreamsHear
  BY DEF SInv, TypeOK, Hearing, OpenStreamsHear, Wired, Hears, Held, Binding
<1> QED
  BY <1>1, <1>2, AlwaysSInv, AlwaysKept, NextKeepsHearing, PTL DEF Spec

\* The last clean-up finds the one subscription there is to end: an idle record has no
\* channel, no entry in the maps and no count.
THEOREM TheLastOneCleansUp == Spec => []IdleRecordIsForgotten
<1>1. SInv /\ Kept => IdleRecordIsForgotten
  <2> SUFFICES ASSUME SInv, Kept, ~overlapped, \A c \in Streams : pc[c] \in Rest
               PROVE  /\ creator = Nobody /\ unsubscribe = Nobody /\ ~listening
                      /\ subscribers = {} /\ userSet = {}
    BY DEF IdleRecordIsForgotten, Rest
  <2>1. TypeOK /\ Placed
    BY DEF SInv
  <2>2. userSet = {} /\ subscribers = {}
    BY <2>1 DEF TypeOK, Placed, Before, Rest, Kept
  <2>3. unsubscribe = Nobody /\ ~Stuck
    BY DEF Kept, Stuck, Stays, Rest
  <2>4. creator = Nobody /\ ~listening
    BY <2>1, <2>3 DEF Kept, TypeOK, Rest
  <2> QED
    BY <2>2, <2>3, <2>4
<1> QED
  BY <1>1, AlwaysSInv, AlwaysKept, PTL
=============================================================================
