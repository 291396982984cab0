-------------------------- MODULE TaskStreamProofs --------------------------
(***************************************************************************)
(* The delivery of events for any number of instances and events, any cap  *)
(* of the caches and any number of broken connections and lost messages.   *)
(***************************************************************************)
EXTENDS TaskStream, FiniteSetTheorems, SequenceTheorems, WellFoundedInduction, TLAPS

USE StreamAssumption DEF Ids, Done, Instances

Rising(s) == \A j, k \in 1..Len(s) : j < k => s[j] < s[k]
Steady(s) == \A k \in 1..(Len(s) - 1) : s[k + 1] = s[k] + 1
Final(s) == s[Len(s)]

----------------------------------------------------------------------------
(* The inductive invariants *)

\* The executing instance caches what it emits, the newest at the end.
HomeCached ==
    /\ Len(cache[Home]) = IF emitted < Cap THEN emitted ELSE Cap
    /\ \A k \in 1..Len(cache[Home]) : cache[Home][k] = emitted - Len(cache[Home]) + k

\* Every other instance has rising numbers, and those it will still hear are higher.
AwayCached ==
    \A i \in Away :
        /\ Rising(cache[i]) /\ Rising(wire[i])
        /\ \A k \in 1..Len(cache[i]) : cache[i][k] <= emitted
        /\ \A k \in 1..Len(wire[i]) : wire[i][k] <= emitted
        /\ \A j \in 1..Len(cache[i]), k \in 1..Len(wire[i]) : cache[i][j] < wire[i][k]

\* What a stream can hold at each stage of the connection.
Staged ==
    /\ IsFiniteSet(visited)
    /\ at # Nowhere => at \in visited
    /\ last > 0 => visited # {}
    /\ stage \in {"none", "asked", "read"} => pipe = <<>>
    /\ stage \in {"asked", "read"} => asked = last
    /\ stage \in {"joined", "fetching"} /\ asked > 0 /\ ~overtaken => pipe = <<>> /\ asked = last
    /\ \A k \in 1..Len(pipe) : pipe[k] = Done => k = Len(pipe) /\ stage = "over"

\* The client of one instance: what it has and what comes next rise, and the instance has
\* cached all of it.
Onward ==
    /\ Rising(got) /\ Rising(Numbers)
    /\ last = IF got = <<>> THEN 0 ELSE Final(got)
    /\ \A k \in 1..Len(Numbers) : last < Numbers[k]
    /\ \A i \in visited :
          /\ last > 0 => cache[i] # <<>> /\ last <= Final(cache[i])
          /\ Numbers # <<>> => cache[i] # <<>> /\ Final(Numbers) <= Final(cache[i])

OneInstance == (\A i, j \in visited : i = j) /\ ~fetched /\ ~overtaken
SameOnward == OneInstance => Onward

\* The client of the executing instance, while nothing has been dropped from its cache.
Seamless ==
    /\ ~fetched /\ stage # "fetching"
    /\ Steady(got) /\ Steady(Numbers)
    /\ got # <<>> /\ Numbers # <<>> => Numbers[1] = last + 1
    /\ stage = "live" \/ (stage = "joined" /\ asked = 0) =>
          IF Numbers = <<>> THEN got # <<>> => last = emitted ELSE Final(Numbers) = emitted

Unbroken == Complete => Seamless

DInv == TypeOK /\ HomeCached /\ AwayCached /\ Staged /\ SameOnward /\ Unbroken

----------------------------------------------------------------------------
(* Replays *)

\* A set of natural numbers has a least element.
LEMMA Least ==
    ASSUME NEW T \in SUBSET Nat, T # {}
    PROVE  \E m \in T : \A k \in T : m <= k
<1>1. PICK m \in T : \A k \in T : <<k, m>> \notin OpToRel(<, Nat)
  BY NatLessThanWellFounded, WFMin, Zenon
<1>2. ASSUME NEW k \in T PROVE ~(k < m)
  <2>1. m \in Nat /\ k \in Nat /\ <<k, m>> \notin OpToRel(<, Nat)
    BY <1>1, Zenon
  <2> QED
    BY <2>1, Zenon DEF OpToRel
<1>3. m \in Nat
  OBVIOUS
<1> HIDE DEF OpToRel
<1> QED
  BY <1>2, <1>3

\* Some entry of kept has any rank from 1 to the number of entries.
LEMMA RankExists ==
    ASSUME NEW len \in Nat, NEW kept \in SUBSET (1..len), NEW j \in 1..Cardinality(kept)
    PROVE  /\ IsFiniteSet(kept) /\ Cardinality(kept) \in Nat
           /\ \E k \in kept : Cardinality({i \in kept : i <= k}) = j
<1> DEFINE Upto(m) == {i \in kept : i <= m}
<1>0. \A i \in kept : i \in Nat /\ 1 <= i /\ i <= len
  OBVIOUS
<1>1. IsFiniteSet(1..len)
  BY FS_Interval
<1>2. IsFiniteSet(kept) /\ Cardinality(kept) \in Nat
  BY <1>1, FS_Subset, FS_CardinalityType
<1>3. \A m : IsFiniteSet(Upto(m)) /\ Cardinality(Upto(m)) \in Nat
  <2> SUFFICES ASSUME NEW m PROVE IsFiniteSet(Upto(m)) /\ Cardinality(Upto(m)) \in Nat
    OBVIOUS
  <2>1. Upto(m) \subseteq kept
    OBVIOUS
  <2> QED
    BY <1>2, <2>1, FS_Subset, FS_CardinalityType
<1> DEFINE T == {m \in Nat : j <= Cardinality(Upto(m))}
<1>4. len \in T
  <2>1. Upto(len) = kept
    BY <1>0, Zenon
  <2> QED
    BY <1>2, <2>1
<1>5. PICK m \in T : \A k \in T : m <= k
  <2> HIDE DEF T
  <2> QED
    BY <1>4, Least DEF T
<1>6. m \in Nat /\ j <= Cardinality(Upto(m)) /\ j \in Nat \ {0}
  BY <1>2, <1>5
<1>7. m # 0
  <2>1. \A i \in kept : ~(i <= 0)
    BY <1>0
  <2>2. Upto(0) = {} /\ Cardinality({}) = 0
    BY <2>1, FS_EmptySet, Zenon
  <2> HIDE DEF Upto
  <2> QED
    BY <1>6, <2>2
<1>8. m - 1 \in Nat /\ ~(j <= Cardinality(Upto(m - 1)))
  <2>1. m - 1 \in Nat /\ ~(m <= m - 1)
    BY <1>6, <1>7
  <2> QED
    BY <1>5, <2>1, Zenon
<1>9. CASE m \notin kept
  <2>1. \A i \in kept : i <= m <=> i <= m - 1
    BY <1>0, <1>6, <1>8, <1>9
  <2>2. Upto(m) = Upto(m - 1)
    BY <2>1, Zenon
  <2> QED
    BY <1>6, <1>8, <2>2, Zenon
<1>10. CASE m \in kept
  <2>0. \A i \in kept : i <= m <=> (i <= m - 1 \/ i = m)
    BY <1>0, <1>6, <1>8
  <2>1. Upto(m) = Upto(m - 1) \cup {m}
    BY <1>10, <2>0, Zenon
  <2>2. Cardinality(Upto(m)) <= Cardinality(Upto(m - 1)) + 1
    <3>1. IsFiniteSet(Upto(m - 1)) /\ Cardinality(Upto(m - 1)) \in Nat
      BY <1>3, Zenon
    <3> HIDE DEF Upto
    <3>2. Cardinality(Upto(m - 1) \cup {m}) \in {Cardinality(Upto(m - 1)), Cardinality(Upto(m - 1)) + 1}
      BY <3>1, FS_AddElement
    <3> QED
      BY <2>1, <3>1, <3>2
  <2>3. Cardinality(Upto(m)) = j
    <3> HIDE DEF Upto
    <3> QED
      BY <1>3, <1>6, <1>8, <2>2
  <2> QED
    BY <1>2, <1>10, <2>3
<1> QED
  BY <1>9, <1>10

\* The places of s that a replay takes, and the one it takes j-th.
Kept(s, n) == {k \in 1..Len(s) : s[k] > n}
Rank(K, k) == Cardinality({i \in K : i <= k})
Place(K, j) == CHOOSE k \in K : Rank(K, k) = j

LEMMA AfterByPlace ==
    ASSUME NEW s, NEW n
    PROVE  After(s, n) = [j \in 1..Cardinality(Kept(s, n)) |-> s[Place(Kept(s, n), j)]]
BY Zenon DEF After, Kept, Rank, Place

LEMMA PlaceIsKept ==
    ASSUME NEW len \in Nat, NEW K \in SUBSET (1..len), NEW j \in 1..Cardinality(K)
    PROVE  Place(K, j) \in K /\ Rank(K, Place(K, j)) = j
<1>1. \E k \in K : Rank(K, k) = j
  BY RankExists DEF Rank
<1> QED
  BY <1>1, Zenon DEF Place

\* A replay holds entries of the list it is made from, all above the number asked for.
LEMMA AfterSelects ==
    ASSUME NEW S \in SUBSET Nat, NEW s \in Seq(S), NEW n \in Nat
    PROVE  /\ After(s, n) \in Seq(S)
           /\ \A j \in 1..Len(After(s, n)) : After(s, n)[j] > n
<1> DEFINE K == Kept(s, n)
           c == Cardinality(K)
<1>1. Len(s) \in Nat /\ K \in SUBSET (1..Len(s)) /\ \A k \in K : s[k] \in S /\ s[k] > n
  BY DEF Kept
<1>2. c \in Nat
  <2>1. IsFiniteSet(1..Len(s))
    BY <1>1, FS_Interval
  <2> HIDE DEF K
  <2> QED
    BY <1>1, <2>1, FS_Subset, FS_CardinalityType
<1>3. \A j \in 1..c : Place(K, j) \in K
  <2> HIDE DEF K
  <2> QED
    BY <1>1, PlaceIsKept
<1>4. After(s, n) = [j \in 1..c |-> s[Place(K, j)]]
  BY AfterByPlace
<1> HIDE DEF K, c
<1>5. \A j \in 1..c : s[Place(K, j)] \in S /\ s[Place(K, j)] > n
  BY <1>1, <1>3
<1> QED
  BY <1>2, <1>4, <1>5

\* In a rising list the entries above a number are those from some place on.
LEMMA RisingSplits ==
    ASSUME NEW s \in Seq(Nat), Rising(s), NEW n \in Nat
    PROVE  \E m \in 0..Len(s) : \A k \in 1..Len(s) : s[k] > n <=> k > m
<1> DEFINE T == {m \in Nat : \A k \in 1..Len(s) : k > m => s[k] > n}
<1>1. Len(s) \in T
  OBVIOUS
<1>2. PICK m \in T : \A k \in T : m <= k
  <2> HIDE DEF T
  <2> QED
    BY <1>1, Least DEF T
<1>3. m \in Nat /\ m <= Len(s) /\ \A k \in 1..Len(s) : k > m => s[k] > n
  BY <1>1, <1>2
<1>4. ASSUME NEW k \in 1..Len(s), k <= m PROVE ~(s[k] > n)
  <2>1. m - 1 \in Nat /\ m \in 1..Len(s)
    BY <1>3, <1>4
  <2>2. m - 1 \notin T
    <3>1. ~(m <= m - 1)
      BY <2>1
    <3> HIDE DEF T
    <3> QED
      BY <1>2, <3>1
  <2>3. PICK i \in 1..Len(s) : i > m - 1 /\ ~(s[i] > n)
    BY <2>1, <2>2
  <2>4. i = m
    BY <1>3, <2>1, <2>3
  <2> QED
    BY <1>4, <2>1, <2>3, <2>4 DEF Rising
<1>5. \A k \in 1..Len(s) : s[k] > n <=> k > m
  BY <1>3, <1>4
<1> QED
  BY <1>3, <1>5

\* A replay of a rising list is the rest of it.
LEMMA AfterIsTheRest ==
    ASSUME NEW s \in Seq(Nat), Rising(s), NEW n \in Nat
    PROVE  \E m \in 0..Len(s) :
             /\ \A k \in 1..Len(s) : s[k] > n <=> k > m
             /\ Len(After(s, n)) = Len(s) - m
             /\ \A j \in 1..(Len(s) - m) : After(s, n)[j] = s[m + j]
<1>1. PICK m \in 0..Len(s) : \A k \in 1..Len(s) : s[k] > n <=> k > m
  BY RisingSplits
<1> DEFINE K == Kept(s, n)
<1>2. K = (m + 1)..Len(s)
  BY <1>1 DEF Kept
<1>3. Cardinality(K) = Len(s) - m
  <2>1. m + 1 \in Int /\ Len(s) \in Int
    OBVIOUS
  <2>2. Cardinality((m + 1)..Len(s)) = IF m + 1 > Len(s) THEN 0 ELSE Len(s) - (m + 1) + 1
    BY <2>1, FS_Interval
  <2> HIDE DEF K
  <2> QED
    BY <1>2, <2>2
<1>4. ASSUME NEW k \in (m + 1)..Len(s) PROVE Rank(K, k) = k - m
  <2>1. m + 1 \in Int /\ k \in Int /\ m \in Int /\ k > m
    OBVIOUS
  <2>2. Cardinality((m + 1)..k) = IF m + 1 > k THEN 0 ELSE k - (m + 1) + 1
    BY <2>1, FS_Interval
  <2>3. Cardinality((m + 1)..k) = k - m
    BY <2>1, <2>2
  <2> HIDE DEF K
  <2>4. {i \in K : i <= k} = (m + 1)..k
    BY <1>2
  <2> QED
    BY <2>3, <2>4 DEF Rank
<1> HIDE DEF K
<1>5. ASSUME NEW j \in 1..(Len(s) - m) PROVE Place(K, j) = m + j
  <2>1. K \in SUBSET (1..Len(s)) /\ Len(s) \in Nat
    BY <1>2
  <2>2. Place(K, j) \in K /\ Rank(K, Place(K, j)) = j
    BY <1>3, <2>1, PlaceIsKept
  <2> QED
    BY <1>2, <1>4, <2>2
<1>6. After(s, n) = [j \in 1..Cardinality(K) |-> s[Place(K, j)]]
  BY AfterByPlace DEF K
<1>7. Len(After(s, n)) = Len(s) - m
  BY <1>3, <1>6
<1>8. \A j \in 1..(Len(s) - m) : After(s, n)[j] = s[m + j]
  BY <1>3, <1>5, <1>6
<1> QED
  BY <1>1, <1>7, <1>8

----------------------------------------------------------------------------
(* Caches *)

\* A cache that gets an entry keeps its newest entries, in their order.
LEMMA PushKeepsNewest ==
    ASSUME NEW s \in Seq(Ids), Len(s) <= Cap, NEW e \in Ids
    PROVE  LET p == Pushed(s, e)
               out == Len(s) + 1 - Len(p)
           IN  /\ p \in Seq(Ids) /\ p # <<>> /\ Final(p) = e
               /\ Len(p) = IF Len(s) < Cap THEN Len(s) + 1 ELSE Cap
               /\ out \in {0, 1}
               /\ \A k \in 1..(Len(p) - 1) : out + k \in 1..Len(s) /\ p[k] = s[out + k]
<1> DEFINE a == Append(s, e)
           from == IF Len(a) > Cap THEN Len(a) - Cap + 1 ELSE 1
           p == SubSeq(a, from, Len(a))
<1>1. Pushed(s, e) = p
  BY DEF Pushed, Newest
<1>2. /\ a \in Seq(Ids) /\ Len(a) = Len(s) + 1 /\ Len(s) \in Nat /\ Cap \in Nat \ {0}
      /\ a[Len(a)] = e /\ \A k \in 1..Len(s) : a[k] = s[k]
  OBVIOUS
<1> HIDE DEF a
<1>3. from \in 1..Len(a) /\ from = IF Len(s) < Cap THEN 1 ELSE 2
  BY <1>2
<1> HIDE DEF from
<1>4. /\ p \in Seq(Ids) /\ Len(p) = Len(a) - from + 1
      /\ \A k \in 1..Len(p) : p[k] = a[from + k - 1]
  BY <1>2, <1>3
<1> HIDE DEF p
<1>5. Len(p) = IF Len(s) < Cap THEN Len(s) + 1 ELSE Cap
  BY <1>2, <1>3, <1>4
<1>6. /\ from \in Int /\ Len(p) \in Nat \ {0} /\ Len(a) \in Int /\ Len(s) \in Int
      /\ Len(p) = Len(a) - from + 1 /\ Len(a) = Len(s) + 1
  BY <1>2, <1>3, <1>4
<1>7. p # <<>> /\ Final(p) = e
  <2>1. Len(p) \in 1..Len(p) /\ from + Len(p) - 1 = Len(a)
    BY <1>6
  <2>2. p[Len(p)] = a[Len(a)]
    BY <1>4, <2>1
  <2>3. p # <<>>
    BY <1>6
  <2> QED
    BY <1>2, <2>2, <2>3 DEF Final
<1>8. Len(s) + 1 - Len(p) = from - 1 /\ from - 1 \in {0, 1}
  BY <1>3, <1>6
<1>9. ASSUME NEW k \in 1..(Len(p) - 1)
      PROVE  from - 1 + k \in 1..Len(s) /\ p[k] = s[from - 1 + k]
  <2>1. k \in 1..Len(p) /\ from + k - 1 = from - 1 + k /\ from - 1 + k \in 1..Len(s)
    BY <1>3, <1>6
  <2> QED
    BY <1>2, <1>4, <2>1
<1> QED
  BY <1>1, <1>4, <1>5, <1>7, <1>8, <1>9

\* Rising stays rising when the entry is above the rest.
LEMMA PushKeepsRising ==
    ASSUME NEW s \in Seq(Ids), Len(s) <= Cap, NEW e \in Ids, Rising(s),
           \A k \in 1..Len(s) : s[k] < e
    PROVE  Rising(Pushed(s, e)) /\ \A k \in 1..Len(Pushed(s, e)) : Pushed(s, e)[k] <= e
<1> DEFINE p == Pushed(s, e)
           out == Len(s) + 1 - Len(p)
<1>1. /\ p \in Seq(Ids) /\ p[Len(p)] = e /\ out \in {0, 1}
      /\ \A k \in 1..(Len(p) - 1) : out + k \in 1..Len(s) /\ p[k] = s[out + k]
  BY PushKeepsNewest DEF Final
<1> HIDE DEF p, out
<1>2. \A k \in 1..(Len(p) - 1) : p[k] < e
  BY <1>1
<1>3. e \in Nat /\ Len(p) \in Nat
  BY <1>1
<1>4. \A k \in 1..Len(p) : p[k] <= e
  BY <1>1, <1>2, <1>3
<1>5. ASSUME NEW j \in 1..Len(p), NEW k \in 1..Len(p), j < k PROVE p[j] < p[k]
  <2>1. j \in 1..(Len(p) - 1)
    BY <1>3, <1>5
  <2>2. CASE k = Len(p)
    BY <1>1, <1>2, <2>1, <2>2
  <2>3. CASE k \in 1..(Len(p) - 1)
    <3>1. out + j < out + k
      BY <1>1, <1>5
    <3>2. s[out + j] < s[out + k]
      BY <1>1, <2>1, <2>3, <3>1 DEF Rising
    <3> QED
      BY <1>1, <2>1, <2>3, <3>2
  <2> QED
    BY <1>3, <2>2, <2>3
<1> QED
  BY <1>4, <1>5 DEF Rising, p

----------------------------------------------------------------------------
(* Types *)

HIDE DEF Ids, Done, Instances

Messages == Ids \cup {Done}

LEMMA SeqTyped ==
    ASSUME NEW S, NEW s \in Seq(S)
    PROVE  /\ <<>> \in Seq(S)
           /\ \A e \in S : Append(s, e) \in Seq(S)
           /\ \A t \in Seq(S) : s \o t \in Seq(S)
           /\ s # <<>> => Head(s) \in S /\ Tail(s) \in Seq(S)
BY EmptySeq, ConcatProperties, HeadTailProperties

LEMMA IdsAreMessages == Ids \in SUBSET Nat /\ Seq(Ids) \subseteq Seq(Messages)
<1>1. Ids \subseteq Messages /\ Ids \subseteq Nat
  BY DEF Ids, Messages
<1> QED
  BY <1>1, SeqMonotonic

LEMMA PushTyped ==
    ASSUME NEW s \in Seq(Ids), Len(s) <= Cap, NEW e \in Ids
    PROVE  Pushed(s, e) \in Seq(Ids) /\ Len(Pushed(s, e)) <= Cap
<1> DEFINE p == Pushed(s, e)
<1>1. p \in Seq(Ids) /\ Len(p) = IF Len(s) < Cap THEN Len(s) + 1 ELSE Cap
  BY PushKeepsNewest
<1>2. Len(s) \in Nat /\ Cap \in Nat
  OBVIOUS
<1> HIDE DEF p
<1>3. p \in Seq(Ids) /\ Len(p) <= Cap
  BY <1>1, <1>2
<1> QED
  BY <1>3 DEF p

LEMMA ReplayTyped ==
    ASSUME TypeOK, stage # "none"
    PROVE  After(cache[at], asked) \in Seq(Ids) /\ After(backup, asked) \in Seq(Ids)
<1>1. cache[at] \in Seq(Ids) /\ backup \in Seq(Ids) /\ asked \in Nat /\ Ids \in SUBSET Nat
  BY IdsAreMessages DEF TypeOK, Ids
<1> QED
  BY <1>1, AfterSelects

LEMMA InitTypeOK == Init => TypeOK
<1>1. <<>> \in Seq(Ids) /\ <<>> \in Seq(Ids \cup {Done}) /\ Len(<<>>) = 0
  BY EmptySeq
<1> SUFFICES ASSUME Init PROVE TypeOK
  OBVIOUS
<1>2. /\ cache \in [Instances -> Seq(Ids)] /\ \A i \in Instances : Len(cache[i]) <= Cap
      /\ wire \in [Away -> Seq(Ids)]
  BY <1>1 DEF Init
<1>3. /\ backup \in Seq(Ids) /\ Len(backup) <= Cap
      /\ pipe \in Seq(Ids \cup {Done}) /\ got \in Seq(Ids)
  BY <1>1 DEF Init
<1>4. /\ recordDone = FALSE /\ sawDone = FALSE /\ ended = FALSE /\ fetched = FALSE /\ overtaken = FALSE
      /\ at = Nowhere /\ stage = "none" /\ visited = {} /\ hearing = {}
      /\ emitted = 0 /\ asked = 0 /\ last = 0 /\ drops = 0 /\ losses = 0
  BY DEF Init
<1>5. 0 \in 0..NEvents /\ 0 \in 0..MaxDrops /\ 0 \in 0..MaxLosses
  OBVIOUS
<1>6. /\ emitted \in 0..NEvents /\ asked \in 0..NEvents /\ last \in 0..NEvents
  BY <1>4, <1>5
<1>7. asked <= last /\ hearing \subseteq Away /\ visited \subseteq Instances
  BY <1>4
<1>8. drops \in 0..MaxDrops /\ losses \in 0..MaxLosses
  BY <1>4, <1>5
<1>9. /\ at \in Instances \cup {Nowhere} /\ stage \in {"none", "asked", "read", "over"} \cup Joined
      /\ (at = Nowhere) <=> (stage = "none")
  BY <1>4
<1>10. /\ recordDone \in BOOLEAN /\ sawDone \in BOOLEAN /\ ended \in BOOLEAN
       /\ fetched \in BOOLEAN /\ overtaken \in BOOLEAN /\ (sawDone => recordDone)
  BY <1>4
<1> QED
  BY <1>2, <1>3, <1>6, <1>7, <1>8, <1>9, <1>10 DEF TypeOK

LEMMA NextKeepsTypeOK == TypeOK /\ [Next]_vars => TypeOK'
<1> SUFFICES ASSUME TypeOK, [Next]_vars PROVE TypeOK'
  OBVIOUS
<1>1. CASE EmitTaskStreamEvent
  <2> DEFINE e == emitted + 1
  <2>0. /\ cache[Home] \in Seq(Ids) /\ Len(cache[Home]) <= Cap
        /\ backup \in Seq(Ids) /\ Len(backup) <= Cap
        /\ \A i \in Away : wire[i] \in Seq(Ids)
        /\ pipe \in Seq(Ids \cup {Done}) /\ overtaken \in BOOLEAN
    BY DEF TypeOK, Instances
  <2>1. e \in Ids /\ emitted' = e
    BY <1>1 DEF EmitTaskStreamEvent, TypeOK, Ids
  <2>2. PICK reached \in BOOLEAN :
          /\ reached \/ losses < MaxLosses
          /\ losses' = IF reached THEN losses ELSE losses + 1
          /\ RecordReplay(Home, e, reached)
          /\ wire' = [i \in Away |-> IF reached /\ i \in hearing THEN Append(wire[i], e) ELSE wire[i]]
    BY <1>1 DEF EmitTaskStreamEvent
  <2> HIDE DEF e
  <2>3. Pushed(cache[Home], e) \in Seq(Ids) /\ Len(Pushed(cache[Home], e)) <= Cap
    BY <2>0, <2>1, PushTyped
  <2>4. Pushed(backup, e) \in Seq(Ids) /\ Len(Pushed(backup, e)) <= Cap
    BY <2>0, <2>1, PushTyped
  <2>5. /\ cache' = [cache EXCEPT ![Home] = Pushed(cache[Home], e)]
        /\ backup' \in {Pushed(backup, e), backup}
    BY <2>2 DEF RecordReplay
  <2>6. cache' \in [Instances -> Seq(Ids)] /\ \A i \in Instances : Len(cache'[i]) <= Cap
    BY <2>3, <2>5 DEF TypeOK
  <2>7. backup' \in Seq(Ids) /\ Len(backup') <= Cap
    BY <2>4, <2>5 DEF TypeOK
  <2>8. wire' \in [Away -> Seq(Ids)]
    <3>1. \A i \in Away : Append(wire[i], e) \in Seq(Ids)
      BY <2>0, <2>1, SeqTyped
    <3> QED
      BY <2>0, <2>2, <3>1
  <2>9. losses' \in 0..MaxLosses
    BY <2>2 DEF TypeOK
  <2>10. pipe' \in Seq(Ids \cup {Done}) /\ overtaken' \in BOOLEAN
    <3>1. pipe' \in {pipe, Append(pipe, e)} /\ (overtaken' \in BOOLEAN \/ overtaken' = overtaken)
      BY <1>1 DEF EmitTaskStreamEvent, EmitLocal, e
    <3>2. Append(pipe, e) \in Seq(Ids \cup {Done})
      BY <2>0, <2>1, SeqTyped
    <3> QED
      BY <2>0, <3>1, <3>2
  <2>11. UNCHANGED <<recordDone, hearing, streamVars, clientVars, drops, visited, fetched>>
    BY <1>1 DEF EmitTaskStreamEvent
  <2> QED
    BY <2>1, <2>6, <2>7, <2>8, <2>9, <2>10, <2>11 DEF TypeOK, streamVars, clientVars, Ids
<1>2. CASE WriteRecord
  BY <1>2 DEF WriteRecord, TypeOK, busVars, streamVars, clientVars
<1>3. ASSUME NEW i \in Away, Deliver(i) PROVE TypeOK'
  <2> DEFINE e == Head(wire[i])
  <2>0. /\ cache[i] \in Seq(Ids) /\ Len(cache[i]) <= Cap
        /\ backup \in Seq(Ids) /\ Len(backup) <= Cap
        /\ pipe \in Seq(Ids \cup {Done}) /\ overtaken \in BOOLEAN
    BY DEF TypeOK, Instances
  <2>1. wire[i] \in Seq(Ids) /\ wire[i] # <<>> /\ e \in Ids /\ Tail(wire[i]) \in Seq(Ids)
    BY <1>3, SeqTyped DEF Deliver, TypeOK
  <2>2. /\ cache' = [cache EXCEPT ![i] = Pushed(cache[i], e)] /\ backup' = Pushed(backup, e)
        /\ wire' = [wire EXCEPT ![i] = Tail(wire[i])]
        /\ EmitLocal(i, e)
        /\ UNCHANGED <<taskVars, hearing, streamVars, clientVars, drops, losses, visited, fetched>>
    BY <1>3 DEF Deliver, RecordReplay
  <2> HIDE DEF e
  <2>3. Pushed(cache[i], e) \in Seq(Ids) /\ Len(Pushed(cache[i], e)) <= Cap
    BY <2>0, <2>1, PushTyped
  <2>4. Pushed(backup, e) \in Seq(Ids) /\ Len(Pushed(backup, e)) <= Cap
    BY <2>0, <2>1, PushTyped
  <2>5. \A j \in Instances : cache'[j] \in Seq(Ids) /\ Len(cache'[j]) <= Cap
    <3>1. \A j \in Instances : cache'[j] \in {cache[j], Pushed(cache[i], e)}
      BY <2>2
    <3> QED
      BY <2>3, <3>1 DEF TypeOK
  <2>6. \A j \in Away : wire'[j] \in Seq(Ids)
    <3>1. \A j \in Away : wire'[j] \in {wire[j], Tail(wire[i])}
      BY <2>2
    <3> QED
      BY <2>1, <3>1 DEF TypeOK
  <2>7. pipe' \in Seq(Ids \cup {Done}) /\ overtaken' \in BOOLEAN
    <3>1. pipe' \in {pipe, Append(pipe, e)} /\ (overtaken' \in BOOLEAN \/ overtaken' = overtaken)
      BY <2>2 DEF EmitLocal
    <3>2. Append(pipe, e) \in Seq(Ids \cup {Done})
      BY <2>0, <2>1, SeqTyped
    <3> QED
      BY <2>0, <3>1, <3>2
  <2> QED
    BY <2>2, <2>4, <2>5, <2>6, <2>7 DEF TypeOK, taskVars, streamVars, clientVars
<1>4. ASSUME NEW i \in Away, Forget(i) PROVE TypeOK'
  <2>1. \A j \in Away : wire'[j] \in {wire[j], <<>>}
    BY <1>4 DEF Forget
  <2>2. \A j \in Away : wire'[j] \in Seq(Ids)
    BY <2>1, EmptySeq DEF TypeOK
  <2> QED
    BY <1>4, <2>2 DEF Forget, TypeOK, taskVars, streamVars, clientVars
<1>5. CASE ReadRecord
  BY <1>5 DEF ReadRecord, TypeOK, Joined, taskVars, busVars, clientVars
<1>6. CASE Join
  BY <1>6 DEF Join, TypeOK, Joined, taskVars, busVars, clientVars
<1>7. CASE Greet
  <2>1. pipe' \in Seq(Ids \cup {Done})
    <3>1. Replayed \in Seq(Ids)
      BY <1>7, ReplayTyped DEF Greet, Replayed
    <3>2. pipe' \in {pipe, Append(pipe, Done), pipe \o Replayed}
      BY <1>7 DEF Greet
    <3>3. Replayed \in Seq(Messages) /\ Done \in Messages /\ pipe \in Seq(Messages)
      BY <3>1, IdsAreMessages DEF Messages, TypeOK
    <3>4. \A s \in Seq(Messages) : pipe \o s \in Seq(Messages)
      BY <3>3, SeqTyped
    <3>5. Append(pipe, Done) \in Seq(Messages)
      BY <3>3, SeqTyped
    <3> QED
      BY <3>2, <3>3, <3>4, <3>5 DEF Messages
  <2> QED
    BY <1>7, <2>1 DEF Greet, TypeOK, Joined, taskVars, clientVars
<1>8. CASE Fetched
  <2>1. pipe' \in Seq(Ids \cup {Done})
    <3>1. Replayed \in Seq(Ids) /\ After(backup, asked) \in Seq(Ids)
      BY <1>8, ReplayTyped DEF Fetched, Replayed
    <3>2. pipe' \in {pipe \o After(backup, asked), pipe \o Replayed}
      BY <1>8 DEF Fetched
    <3>3. /\ Replayed \in Seq(Messages) /\ After(backup, asked) \in Seq(Messages)
          /\ pipe \in Seq(Messages)
      BY <3>1, IdsAreMessages DEF Messages, TypeOK
    <3>4. \A s \in Seq(Messages) : pipe \o s \in Seq(Messages)
      BY <3>3, SeqTyped
    <3> QED
      BY <3>2, <3>3, <3>4 DEF Messages
  <2> QED
    BY <1>8, <2>1 DEF Fetched, TypeOK, Joined, taskVars, busVars, clientVars
<1>9. CASE LifetimeEnds \/ SlowEnds
  BY <1>9 DEF LifetimeEnds, SlowEnds, TypeOK, Joined, taskVars, busVars, clientVars
<1>10. ASSUME NEW i \in Instances, Connect(i) PROVE TypeOK'
  BY <1>10 DEF Connect, TypeOK, Joined, Instances, taskVars, busVars, clientVars
<1>11. CASE Receive
  <2>1. /\ Head(pipe) \in Ids \cup {Done} /\ pipe' = Tail(pipe) /\ pipe # <<>>
        /\ got' = IF Head(pipe) = Done THEN got ELSE Append(got, Head(pipe))
        /\ last' = IF Head(pipe) > last THEN Head(pipe) ELSE last
        /\ ended' \in BOOLEAN
    BY <1>11, SeqTyped DEF Receive, TypeOK
  <2>2. pipe' \in Seq(Ids \cup {Done}) /\ got' \in Seq(Ids)
    BY <2>1, SeqTyped DEF TypeOK
  <2>3. last' \in 0..NEvents /\ last <= last'
    BY <2>1 DEF TypeOK, Ids, Done
  <2>4. asked <= last'
    BY <2>3 DEF TypeOK
  <2> QED
    BY <1>11, <2>1, <2>2, <2>3, <2>4 DEF Receive, TypeOK, taskVars, busVars, streamVars
<1>12. CASE ReadEnd
  BY <1>12, EmptySeq DEF ReadEnd, Closed, TypeOK, Joined, taskVars, busVars, clientVars
<1>13. CASE Drop
  BY <1>13, EmptySeq DEF Drop, Closed, TypeOK, Joined, taskVars, busVars, clientVars
<1>14. CASE UNCHANGED vars
  BY <1>14 DEF vars, TypeOK, taskVars, busVars, streamVars, clientVars
<1> QED
  BY <1>1, <1>2, <1>3, <1>4, <1>5, <1>6, <1>7, <1>8, <1>9, <1>10, <1>11, <1>12, <1>13, <1>14
     DEF Next, Working, Proceeds

----------------------------------------------------------------------------
(* The caches of the instances *)

LEMMA RisingAppend ==
    ASSUME NEW s \in Seq(Nat), NEW e \in Nat, Rising(s), \A k \in 1..Len(s) : s[k] < e
    PROVE  /\ Rising(Append(s, e)) /\ Len(Append(s, e)) = Len(s) + 1
           /\ Append(s, e)[Len(s) + 1] = e
           /\ \A k \in 1..Len(s) : Append(s, e)[k] = s[k]
<1>1. /\ Len(Append(s, e)) = Len(s) + 1 /\ Append(s, e)[Len(s) + 1] = e
      /\ \A k \in 1..Len(s) : Append(s, e)[k] = s[k]
  OBVIOUS
<1>2. Rising(Append(s, e))
  BY <1>1 DEF Rising
<1> QED
  BY <1>1, <1>2

LEMMA RisingTail ==
    ASSUME NEW s \in Seq(Nat), s # <<>>
    PROVE  /\ Len(Tail(s)) = Len(s) - 1 /\ Tail(s) \in Seq(Nat)
           /\ Len(s) \in Nat \ {0} /\ Head(s) = s[1]
           /\ \A k \in 1..Len(Tail(s)) : k + 1 \in 1..Len(s) /\ Tail(s)[k] = s[k + 1]
           /\ Rising(s) => Rising(Tail(s)) /\ \A k \in 1..Len(Tail(s)) : Head(s) < Tail(s)[k]
<1>1. /\ Len(Tail(s)) = Len(s) - 1 /\ Tail(s) \in Seq(Nat) /\ Len(s) \in Nat \ {0} /\ Head(s) = s[1]
      /\ \A k \in 1..Len(Tail(s)) : k + 1 \in 1..Len(s) /\ Tail(s)[k] = s[k + 1]
  BY HeadTailProperties, EmptySeq
<1> DEFINE t == Tail(s)
<1> HIDE DEF t
<1>2. Rising(s) => Rising(t)
  BY <1>1 DEF Rising, t
<1>3. Rising(s) => \A k \in 1..Len(t) : s[1] < t[k]
  BY <1>1 DEF Rising, t
<1> QED
  BY <1>1, <1>2, <1>3 DEF t

\* Only an emission and a delivery change a cache.
LEMMA WhoCaches ==
    ASSUME Next
    PROVE  \/ EmitTaskStreamEvent
           \/ \E i \in Away : Deliver(i)
           \/ \E i \in Away : Forget(i)
           \/ UNCHANGED <<emitted, cache, wire>>
<1>1. CASE WriteRecord
  BY <1>1 DEF WriteRecord, busVars
<1>2. CASE ReadRecord \/ Join \/ Greet
  BY <1>2 DEF ReadRecord, Join, Greet, taskVars, busVars
<1>3. CASE Fetched \/ LifetimeEnds \/ SlowEnds
  BY <1>3 DEF Fetched, LifetimeEnds, SlowEnds, taskVars, busVars
<1>4. CASE Receive \/ ReadEnd \/ Drop
  BY <1>4 DEF Receive, ReadEnd, Drop, taskVars, busVars
<1>5. ASSUME NEW i \in Instances, Connect(i) PROVE UNCHANGED <<emitted, cache, wire>>
  BY <1>5 DEF Connect, taskVars, busVars
<1> QED
  BY <1>1, <1>2, <1>3, <1>4, <1>5 DEF Next, Working, Proceeds

\* What an emission does to the caches and to what is under way.
LEMMA Emission ==
    ASSUME TypeOK, EmitTaskStreamEvent
    PROVE  /\ emitted \in Nat /\ emitted' = emitted + 1 /\ emitted' \in Ids
           /\ cache' = [cache EXCEPT ![Home] = Pushed(cache[Home], emitted')]
           /\ \A i \in Away : wire'[i] \in {wire[i], Append(wire[i], emitted')}
           /\ EmitLocal(Home, emitted')
           /\ UNCHANGED <<recordDone, hearing, streamVars, clientVars, drops, visited, fetched>>
<1>1. emitted \in Nat /\ emitted' = emitted + 1 /\ emitted' \in Ids
  BY DEF EmitTaskStreamEvent, TypeOK, Ids
<1>2. PICK reached \in BOOLEAN :
        /\ RecordReplay(Home, emitted', reached)
        /\ wire' = [i \in Away |-> IF reached /\ i \in hearing THEN Append(wire[i], emitted') ELSE wire[i]]
  BY <1>1 DEF EmitTaskStreamEvent
<1>3. cache' = [cache EXCEPT ![Home] = Pushed(cache[Home], emitted')]
  BY <1>2 DEF RecordReplay
<1>4. \A i \in Away : wire'[i] \in {wire[i], Append(wire[i], emitted')}
  BY <1>2
<1>5. /\ EmitLocal(Home, emitted')
      /\ UNCHANGED <<recordDone, hearing, streamVars, clientVars, drops, visited, fetched>>
  BY <1>1 DEF EmitTaskStreamEvent
<1> QED
  BY <1>1, <1>3, <1>4, <1>5

LEMMA CacheTyped ==
    ASSUME TypeOK
    PROVE  /\ \A i \in Instances : /\ cache[i] \in Seq(Ids) /\ cache[i] \in Seq(Nat)
                                   /\ Len(cache[i]) <= Cap /\ Len(cache[i]) \in Nat
                                   /\ \A k \in 1..Len(cache[i]) : cache[i][k] \in Ids
           /\ \A i \in Away : /\ wire[i] \in Seq(Ids) /\ wire[i] \in Seq(Nat)
                              /\ \A k \in 1..Len(wire[i]) : wire[i][k] \in Ids
<1>1. Seq(Ids) \subseteq Seq(Nat)
  BY IdsAreMessages, SeqMonotonic
<1>2. \A s \in Seq(Ids) : Len(s) \in Nat /\ \A k \in 1..Len(s) : s[k] \in Ids
  BY LenProperties, ElementOfSeq
<1> QED
  BY <1>1, <1>2 DEF TypeOK

LEMMA NextKeepsHomeCached ==
    ASSUME TypeOK, HomeCached, Next
    PROVE  HomeCached'
<1>1. CASE EmitTaskStreamEvent
  <2> DEFINE s == cache[Home]
             e == emitted'
             p == Pushed(s, e)
             out == Len(s) + 1 - Len(p)
  <2>1. /\ emitted \in Nat /\ e = emitted + 1 /\ e \in Ids
        /\ cache' = [cache EXCEPT ![Home] = p]
    BY <1>1, Emission
  <2>2. s \in Seq(Ids) /\ Len(s) <= Cap /\ Len(s) \in Nat /\ cache'[Home] = p
    BY <2>1, CacheTyped DEF TypeOK, Instances
  <2>3. /\ p \in Seq(Ids) /\ p[Len(p)] = e /\ out \in {0, 1}
        /\ Len(p) = IF Len(s) < Cap THEN Len(s) + 1 ELSE Cap
        /\ \A k \in 1..(Len(p) - 1) : out + k \in 1..Len(s) /\ p[k] = s[out + k]
    BY <2>1, <2>2, PushKeepsNewest DEF Final
  <2>4. /\ Len(s) = IF emitted < Cap THEN emitted ELSE Cap
        /\ \A k \in 1..Len(s) : s[k] = emitted - Len(s) + k
    BY DEF HomeCached
  <2>5. Len(p) = IF e < Cap THEN e ELSE Cap
    BY <2>1, <2>2, <2>3, <2>4
  <2> HIDE DEF s, e, p
  <2>6. ASSUME NEW k \in 1..Len(p) PROVE p[k] = e - Len(p) + k
    <3>1. Len(p) \in Nat
      BY <2>3
    <3>2. CASE k = Len(p)
      BY <2>1, <2>3, <3>1, <3>2
    <3>3. CASE k # Len(p)
      <4>1. k \in 1..(Len(p) - 1)
        BY <3>1, <3>3
      <4>2. p[k] = s[out + k] /\ s[out + k] = emitted - Len(s) + (out + k)
        BY <2>3, <2>4, <4>1
      <4> QED
        BY <2>1, <2>2, <3>1, <4>1, <4>2
    <3> QED
      BY <3>2, <3>3
  <2> QED
    BY <2>2, <2>5, <2>6 DEF HomeCached, e
<1>2. ASSUME NEW i \in Away, Deliver(i) PROVE HomeCached'
  <2>1. cache'[Home] = cache[Home] /\ emitted' = emitted
    BY <1>2 DEF Deliver, RecordReplay, taskVars, TypeOK, Instances
  <2> QED
    BY <2>1 DEF HomeCached
<1>3. ASSUME NEW i \in Away, Forget(i) PROVE HomeCached'
  BY <1>3 DEF Forget, HomeCached, taskVars
<1>4. CASE UNCHANGED <<emitted, cache, wire>>
  BY <1>4 DEF HomeCached
<1> QED
  BY <1>1, <1>2, <1>3, <1>4, WhoCaches

LEMMA NextKeepsAwayCached ==
    ASSUME TypeOK, AwayCached, Next
    PROVE  AwayCached'
<1>0. \A i \in Away : /\ Rising(cache[i]) /\ Rising(wire[i])
                      /\ \A k \in 1..Len(cache[i]) : cache[i][k] <= emitted
                      /\ \A k \in 1..Len(wire[i]) : wire[i][k] <= emitted
                      /\ \A j \in 1..Len(cache[i]), k \in 1..Len(wire[i]) : cache[i][j] < wire[i][k]
  BY DEF AwayCached
<1>1. CASE EmitTaskStreamEvent
  <2> SUFFICES ASSUME NEW i \in Away
               PROVE  /\ Rising(cache'[i]) /\ Rising(wire'[i])
                      /\ \A k \in 1..Len(cache'[i]) : cache'[i][k] <= emitted'
                      /\ \A k \in 1..Len(wire'[i]) : wire'[i][k] <= emitted'
                      /\ \A j \in 1..Len(cache'[i]), k \in 1..Len(wire'[i]) : cache'[i][j] < wire'[i][k]
    BY DEF AwayCached
  <2>1. /\ emitted \in Nat /\ emitted' = emitted + 1
        /\ cache'[i] = cache[i] /\ wire'[i] \in {wire[i], Append(wire[i], emitted')}
    BY <1>1, Emission DEF TypeOK, Instances
  <2>2. /\ wire[i] \in Seq(Nat) /\ \A k \in 1..Len(wire[i]) : wire[i][k] \in Nat
        /\ \A k \in 1..Len(cache[i]) : cache[i][k] \in Nat
    BY CacheTyped, IdsAreMessages DEF Instances
  <2>3. CASE wire'[i] = wire[i]
    BY <1>0, <2>1, <2>2, <2>3
  <2>4. CASE wire'[i] = Append(wire[i], emitted')
    <3>1. \A k \in 1..Len(wire[i]) : wire[i][k] < emitted'
      BY <1>0, <2>1, <2>2
    <3>2. /\ Rising(wire'[i]) /\ Len(wire'[i]) = Len(wire[i]) + 1
          /\ wire'[i][Len(wire[i]) + 1] = emitted'
          /\ \A k \in 1..Len(wire[i]) : wire'[i][k] = wire[i][k]
      BY <1>0, <2>1, <2>2, <2>4, <3>1, RisingAppend
    <3>3. Len(wire[i]) \in Nat /\ \A k \in 1..Len(wire'[i]) : k \in 1..Len(wire[i]) \/ k = Len(wire[i]) + 1
      BY <2>2, <3>2
    <3>4. \A k \in 1..Len(wire'[i]) : wire'[i][k] <= emitted'
      <4>1. ASSUME NEW k \in 1..Len(wire[i]) PROVE wire'[i][k] <= emitted'
        <5>1. wire'[i][k] = wire[i][k] /\ wire[i][k] \in Nat /\ wire[i][k] < emitted'
          BY <2>2, <3>1, <3>2
        <5> QED
          BY <2>1, <5>1
      <4> QED
        BY <2>1, <3>2, <3>3, <4>1
    <3>5. ASSUME NEW j \in 1..Len(cache[i]), NEW k \in 1..Len(wire'[i])
          PROVE  cache[i][j] < wire'[i][k]
      <4>1. CASE k \in 1..Len(wire[i])
        BY <1>0, <3>2, <4>1
      <4>2. CASE k = Len(wire[i]) + 1
        BY <1>0, <2>1, <2>2, <3>2, <4>2
      <4> QED
        BY <3>3, <4>1, <4>2
    <3>6. \A k \in 1..Len(cache[i]) : cache[i][k] <= emitted'
      BY <1>0, <2>1, <2>2
    <3> QED
      BY <1>0, <2>1, <3>2, <3>4, <3>5, <3>6
  <2> QED
    BY <2>1, <2>3, <2>4
<1>2. ASSUME NEW d \in Away, Deliver(d) PROVE AwayCached'
  <2> DEFINE e == Head(wire[d])
  <2>1. /\ wire[d] # <<>> /\ emitted' = emitted /\ emitted \in Nat
        /\ cache'[d] = Pushed(cache[d], e) /\ wire'[d] = Tail(wire[d])
        /\ \A i \in Away \ {d} : cache'[i] = cache[i] /\ wire'[i] = wire[i]
    BY <1>2 DEF Deliver, RecordReplay, taskVars, TypeOK, Instances
  <2>2. /\ cache[d] \in Seq(Ids) /\ Len(cache[d]) <= Cap
        /\ wire[d] \in Seq(Nat) /\ wire[d] \in Seq(Ids)
    BY CacheTyped DEF Instances
  <2>3. e \in Ids /\ e = wire[d][1] /\ 1 \in 1..Len(wire[d])
    BY <2>1, <2>2, RisingTail, HeadTailProperties
  <2>4. \A k \in 1..Len(cache[d]) : cache[d][k] < e
    BY <1>0, <2>3
  <2>5. /\ Rising(cache'[d])
        /\ \A k \in 1..Len(cache'[d]) : cache'[d][k] <= e
    BY <1>0, <2>1, <2>2, <2>3, <2>4, PushKeepsRising
  <2>6. /\ Rising(wire'[d])
        /\ \A k \in 1..Len(wire'[d]) : e < wire'[d][k] /\ wire'[d][k] <= emitted
    <3>1. /\ Rising(Tail(wire[d])) /\ \A k \in 1..Len(Tail(wire[d])) : e < Tail(wire[d])[k]
          /\ \A k \in 1..Len(Tail(wire[d])) : k + 1 \in 1..Len(wire[d]) /\ Tail(wire[d])[k] = wire[d][k + 1]
      BY <1>0, <2>1, <2>2, RisingTail
    <3> QED
      BY <1>0, <2>1, <3>1
  <2>7. /\ e <= emitted /\ e \in Nat
        /\ \A k \in 1..Len(cache'[d]) : cache'[d][k] \in Nat
        /\ \A k \in 1..Len(wire'[d]) : wire'[d][k] \in Nat
    <3>1. TypeOK'
      BY NextKeepsTypeOK
    <3>2. /\ \A k \in 1..Len(cache'[d]) : cache'[d][k] \in Ids
          /\ \A k \in 1..Len(wire'[d]) : wire'[d][k] \in Ids
      BY <2>1, <2>2, <2>3, <3>1, LenProperties, ElementOfSeq DEF TypeOK, Instances
    <3> QED
      BY <1>0, <2>3, <3>2, IdsAreMessages
  <2> HIDE DEF e
  <2>8. \A k \in 1..Len(cache'[d]) : cache'[d][k] <= emitted'
    <3>1. \A a \in Nat : a <= e => a <= emitted'
      BY <2>1, <2>7
    <3> QED
      BY <2>5, <2>7, <3>1, Zenon
  <2>9. \A j \in 1..Len(cache'[d]), k \in 1..Len(wire'[d]) : cache'[d][j] < wire'[d][k]
    <3>1. \A a, b \in Nat : a <= e /\ e < b => a < b
      BY <2>7
    <3> QED
      BY <2>5, <2>6, <2>7, <3>1, Zenon
  <2> QED
    BY <1>0, <2>1, <2>5, <2>6, <2>8, <2>9 DEF AwayCached
<1>3. ASSUME NEW d \in Away, Forget(d) PROVE AwayCached'
  <2>1. /\ cache' = cache /\ emitted' = emitted /\ wire'[d] = <<>>
        /\ \A i \in Away \ {d} : wire'[i] = wire[i]
    BY <1>3 DEF Forget, taskVars, TypeOK
  <2>2. Len(<<>>) = 0 /\ Rising(<<>>)
    BY EmptySeq DEF Rising
  <2> QED
    BY <1>0, <2>1, <2>2 DEF AwayCached
<1>4. CASE UNCHANGED <<emitted, cache, wire>>
  BY <1>4 DEF AwayCached
<1> QED
  BY <1>1, <1>2, <1>3, <1>4, WhoCaches

----------------------------------------------------------------------------
(* The stages of a stream *)

LEMMA PipeTyped ==
    ASSUME TypeOK
    PROVE  /\ pipe \in Seq(Messages) /\ Len(pipe) \in Nat
           /\ \A k \in 1..Len(pipe) : pipe[k] \in Messages
           /\ got \in Seq(Ids) /\ got \in Seq(Nat) /\ Len(got) \in Nat
           /\ \A k \in 1..Len(got) : got[k] \in Ids
           /\ last \in Nat /\ asked \in Nat /\ emitted \in Nat
           /\ Ids \subseteq Nat \ {0} /\ Done = 0 /\ Done \notin Ids
<1>1. Ids \subseteq Nat \ {0} /\ Done = 0 /\ Done \notin Ids
  BY DEF Ids, Done
<1>2. pipe \in Seq(Messages) /\ got \in Seq(Ids) /\ Seq(Ids) \subseteq Seq(Nat)
  BY IdsAreMessages, SeqMonotonic DEF TypeOK, Messages
<1>3. /\ Len(pipe) \in Nat /\ Len(got) \in Nat
      /\ \A k \in 1..Len(pipe) : pipe[k] \in Messages
      /\ \A k \in 1..Len(got) : got[k] \in Ids
  BY <1>2, LenProperties, ElementOfSeq
<1>4. last \in Nat /\ asked \in Nat /\ emitted \in Nat
  BY DEF TypeOK
<1> QED
  BY <1>1, <1>2, <1>3, <1>4

\* A stream that is not over holds numbers only, with what is added to them.
LEMMA PipeGrows ==
    ASSUME TypeOK, Staged, stage # "over", NEW s \in Seq(Ids)
    PROVE  \A k \in 1..Len(pipe \o s) : (pipe \o s)[k] # Done
<1>1. /\ pipe \in Seq(Messages) /\ Len(pipe) \in Nat /\ Done \notin Ids
      /\ s \in Seq(Messages) /\ Len(s) \in Nat /\ \A k \in 1..Len(s) : s[k] \in Ids
  BY PipeTyped, IdsAreMessages, LenProperties, ElementOfSeq
<1>2. /\ Len(pipe \o s) = Len(pipe) + Len(s)
      /\ \A k \in 1..(Len(pipe) + Len(s)) :
            (pipe \o s)[k] = IF k <= Len(pipe) THEN pipe[k] ELSE s[k - Len(pipe)]
  BY <1>1, ConcatProperties
<1>3. \A k \in 1..Len(pipe) : pipe[k] # Done
  BY DEF Staged
<1>4. ASSUME NEW k \in 1..(Len(pipe) + Len(s)) PROVE (pipe \o s)[k] # Done
  <2>1. CASE k <= Len(pipe)
    BY <1>1, <1>2, <1>3, <2>1
  <2>2. CASE ~(k <= Len(pipe))
    <3>1. k - Len(pipe) \in 1..Len(s)
      BY <1>1, <2>2
    <3> QED
      BY <1>1, <1>2, <2>2, <3>1
  <2> QED
    BY <2>1, <2>2
<1> QED
  BY <1>2, <1>4

\* An event appended to a stream is a stream of one event put behind it.
LEMMA AppendOne ==
    ASSUME NEW S, NEW s \in Seq(S), NEW e \in S
    PROVE  Append(s, e) = s \o <<e>> /\ <<e>> \in Seq(S) /\ Len(<<e>>) = 1 /\ <<e>>[1] = e
OBVIOUS

\* A live event is written to the stream of this instance's client.
LEMMA EmitLocalKeepsStaged ==
    ASSUME TypeOK, Staged, NEW i \in Instances, NEW e \in Ids, EmitLocal(i, e),
           UNCHANGED <<streamVars, clientVars, visited>>
    PROVE  Staged'
<1>1. CASE at = i /\ stage \in Joined
  <2>1. pipe' = Append(pipe, e) /\ overtaken' = (overtaken \/ (stage # "live" /\ asked > 0))
    BY <1>1 DEF EmitLocal
  <2>2. pipe' = pipe \o <<e>> /\ <<e>> \in Seq(Ids)
    BY <2>1, PipeTyped, AppendOne DEF Messages
  <2>3. stage # "over" /\ stage \notin {"none", "asked", "read"}
    BY <1>1 DEF Joined
  <2>4. \A k \in 1..Len(pipe') : pipe'[k] # Done
    BY <2>2, <2>3, PipeGrows
  <2>5. stage \in {"joined", "fetching"} /\ asked > 0 => overtaken'
    BY <2>1
  <2> QED
    BY <2>3, <2>4, <2>5 DEF Staged, streamVars, clientVars
<1>2. CASE ~(at = i /\ stage \in Joined)
  BY <1>2 DEF EmitLocal, Staged, streamVars, clientVars
<1> QED
  BY <1>1, <1>2

LEMMA NextKeepsStaged ==
    ASSUME TypeOK, Staged, Next
    PROVE  Staged'
<1>1. CASE EmitTaskStreamEvent
  BY <1>1, Emission, EmitLocalKeepsStaged DEF Instances
<1>2. ASSUME NEW i \in Away, Deliver(i) PROVE Staged'
  <2>1. wire[i] # <<>> /\ wire[i] \in Seq(Ids)
    BY <1>2, CacheTyped DEF Deliver
  <2>2. Head(wire[i]) \in Ids
    BY <2>1, HeadTailProperties
  <2> QED
    BY <1>2, <2>2, EmitLocalKeepsStaged DEF Deliver, Instances
<1>3. CASE WriteRecord
  BY <1>3 DEF WriteRecord, Staged, streamVars, clientVars
<1>4. ASSUME NEW i \in Away, Forget(i) PROVE Staged'
  BY <1>4 DEF Forget, Staged, streamVars, clientVars
<1>5. CASE ReadRecord
  BY <1>5 DEF ReadRecord, Staged, clientVars
<1>6. CASE Join
  BY <1>6 DEF Join, Staged, clientVars
<1>7. CASE Greet
  <2>0. /\ stage = "joined" /\ stage' \in {"over", "live", "fetching"}
        /\ UNCHANGED <<at, asked, last, visited, overtaken>>
    BY <1>7 DEF Greet, clientVars
  <2>1. CASE stage' = "over" /\ pipe' = Append(pipe, Done)
    <3>1. /\ Len(pipe') = Len(pipe) + 1 /\ \A k \in 1..Len(pipe) : pipe'[k] = pipe[k]
          /\ Len(pipe) \in Nat
      BY <2>1, PipeTyped DEF Messages
    <3>2. \A k \in 1..Len(pipe') : pipe'[k] = Done => k = Len(pipe')
      BY <2>0, <3>1 DEF Staged
    <3> QED
      BY <2>0, <2>1, <3>2 DEF Staged
  <2>2. CASE stage' # "over" /\ pipe' = pipe
    BY <2>0, <2>2 DEF Staged
  <2>3. CASE stage' = "live" /\ pipe' = pipe \o Replayed
    <3>1. Replayed \in Seq(Ids)
      BY <2>0, ReplayTyped DEF Replayed
    <3>2. \A k \in 1..Len(pipe') : pipe'[k] # Done
      BY <2>0, <2>3, <3>1, PipeGrows
    <3> QED
      BY <2>0, <2>3, <3>2 DEF Staged
  <2> QED
    BY <1>7, <2>1, <2>2, <2>3 DEF Greet
<1>8. CASE Fetched
  <2>1. /\ stage = "fetching" /\ stage' = "live" /\ pipe' \in {pipe \o After(backup, asked), pipe \o Replayed}
        /\ UNCHANGED <<at, asked, last, visited, overtaken>>
    BY <1>8 DEF Fetched, clientVars
  <2>2. After(backup, asked) \in Seq(Ids) /\ Replayed \in Seq(Ids)
    BY <2>1, ReplayTyped DEF Replayed
  <2>3. \A k \in 1..Len(pipe') : pipe'[k] # Done
    BY <2>1, <2>2, PipeGrows
  <2> QED
    BY <2>1, <2>3 DEF Staged
<1>9. CASE LifetimeEnds \/ SlowEnds
  BY <1>9 DEF LifetimeEnds, SlowEnds, Staged, Joined, clientVars
<1>10. ASSUME NEW i \in Instances, Connect(i) PROVE Staged'
  <2>1. IsFiniteSet(visited')
    BY <1>10, FS_AddElement DEF Connect, Staged
  <2> QED
    BY <1>10, <2>1 DEF Connect, Staged, clientVars
<1>11. CASE Receive
  <2>1. /\ pipe # <<>> /\ pipe' = Tail(pipe) /\ pipe \in Seq(Messages)
        /\ UNCHANGED <<at, stage, asked, visited, overtaken>>
    BY <1>11, PipeTyped DEF Receive, streamVars
  <2>2. /\ Len(pipe') = Len(pipe) - 1 /\ Len(pipe) \in Nat
        /\ \A k \in 1..Len(pipe') : pipe'[k] = pipe[k + 1]
    BY <2>1, PipeTyped, HeadTailProperties
  <2>3. \A k \in 1..Len(pipe') : pipe'[k] = Done => k = Len(pipe') /\ stage = "over"
    BY <2>2 DEF Staged
  <2>4. visited # {}
    BY <2>1 DEF Staged, TypeOK
  <2> QED
    BY <2>1, <2>3, <2>4 DEF Staged
<1>12. CASE ReadEnd \/ Drop
  BY <1>12, EmptySeq DEF ReadEnd, Drop, Closed, Staged, clientVars
<1> QED
  BY <1>1, <1>2, <1>3, <1>4, <1>5, <1>6, <1>7, <1>8, <1>9, <1>10, <1>11, <1>12
     DEF Next, Working, Proceeds

----------------------------------------------------------------------------
(* The client of one instance *)

LEMMA RisingBelowLast ==
    ASSUME NEW s \in Seq(Nat), Rising(s), s # <<>>
    PROVE  /\ Len(s) \in Nat \ {0} /\ Final(s) \in Nat
           /\ \A k \in 1..Len(s) : s[k] \in Nat /\ s[k] <= Final(s)
<1>1. Len(s) \in Nat \ {0} /\ \A k \in 1..Len(s) : s[k] \in Nat
  BY EmptySeq, ElementOfSeq
<1>2. \A k \in 1..Len(s) : k = Len(s) \/ k < Len(s)
  BY <1>1
<1>3. Len(s) \in 1..Len(s)
  BY <1>1
<1> QED
  BY <1>1, <1>2, <1>3 DEF Rising, Final

\* The cache of any instance rises.
LEMMA CachesRise ==
    ASSUME TypeOK, HomeCached, AwayCached, NEW i \in Instances
    PROVE  Rising(cache[i])
<1>1. CASE i \in Away
  BY <1>1 DEF AwayCached
<1>2. CASE i = Home
  <2>1. Len(cache[Home]) \in Nat /\ emitted \in Nat
    BY <1>2, CacheTyped, PipeTyped
  <2> QED
    BY <1>2, <2>1 DEF HomeCached, Rising
<1> QED
  BY <1>1, <1>2 DEF Instances

\* The numbers under way are the pipe without a snapshot of the end.
NumbersFollow ==
    /\ Numbers \in Seq(Ids) /\ Numbers \in Seq(Nat) /\ Len(Numbers) \in Nat
    /\ \A k \in 1..Len(Numbers) : Numbers[k] \in Ids /\ k \in 1..Len(pipe) /\ Numbers[k] = pipe[k]
    /\ stage # "over" => Numbers = pipe
    /\ Len(Numbers) = IF pipe # <<>> /\ pipe[Len(pipe)] = Done THEN Len(pipe) - 1 ELSE Len(pipe)

LEMMA NumbersTyped == TypeOK /\ Staged => NumbersFollow
<1> SUFFICES ASSUME TypeOK, Staged PROVE NumbersFollow
  OBVIOUS
<1>1. /\ pipe \in Seq(Messages) /\ Len(pipe) \in Nat /\ \A k \in 1..Len(pipe) : pipe[k] \in Messages
      /\ pipe # <<>> => Len(pipe) \in Nat \ {0}
  BY PipeTyped, EmptySeq
<1>2. \A k \in 1..Len(pipe) : pipe[k] = Done => k = Len(pipe) /\ stage = "over"
  BY DEF Staged
<1>3. CASE pipe # <<>> /\ pipe[Len(pipe)] = Done
  <2>1. Len(pipe) \in 1..Len(pipe) /\ Numbers = SubSeq(pipe, 1, Len(pipe) - 1)
    BY <1>1, <1>3 DEF Numbers
  <2>2. stage = "over"
    BY <1>2, <1>3, <2>1
  <2>3. \A k \in 1..(Len(pipe) - 1) : k \in 1..Len(pipe) /\ k # Len(pipe) /\ pipe[k] \in Ids
    BY <1>1, <1>2 DEF Messages
  <2>4. /\ Numbers \in Seq(Ids) /\ Len(Numbers) = Len(pipe) - 1
        /\ \A k \in 1..Len(Numbers) : Numbers[k] = pipe[k]
    <3>1. 1 \in Int /\ Len(pipe) - 1 \in Int
      BY <1>1
    <3>2. /\ Numbers \in Seq(Ids)
          /\ Len(Numbers) = IF 1 <= Len(pipe) - 1 THEN (Len(pipe) - 1) - 1 + 1 ELSE 0
          /\ \A k \in 1..((Len(pipe) - 1) - 1 + 1) : Numbers[k] = pipe[1 + k - 1]
      BY <2>1, <2>3, <3>1, SubSeqProperties
    <3>3. Len(Numbers) = Len(pipe) - 1
      <4>1. Len(pipe) \in Nat \ {0}
        BY <1>1, <1>3
      <4>2. Len(Numbers) = IF 1 <= Len(pipe) - 1 THEN (Len(pipe) - 1) - 1 + 1 ELSE 0
        BY <3>2
      <4>3. \A l \in Nat \ {0} : (IF 1 <= l - 1 THEN (l - 1) - 1 + 1 ELSE 0) = l - 1
        OBVIOUS
      <4> QED
        BY <4>1, <4>2, <4>3, Zenon
    <3>4. (Len(pipe) - 1) - 1 + 1 = Len(pipe) - 1 /\ \A k \in 1..(Len(pipe) - 1) : 1 + k - 1 = k
      BY <1>1
    <3> QED
      BY <3>2, <3>3, <3>4
  <2>5. Numbers \in Seq(Nat)
    BY <2>4, IdsAreMessages, SeqMonotonic
  <2>6. Len(Numbers) \in Nat
    BY <1>1, <2>1, <2>4
  <2> QED
    BY <1>3, <2>2, <2>3, <2>4, <2>5, <2>6 DEF NumbersFollow
<1>4. CASE ~(pipe # <<>> /\ pipe[Len(pipe)] = Done)
  <2>1. Numbers = pipe
    BY <1>4 DEF Numbers
  <2>2. \A k \in 1..Len(pipe) : pipe[k] \in Ids
    <3>1. \A k \in 1..Len(pipe) : pipe # <<>>
      BY EmptySeq
    <3> QED
      BY <1>1, <1>2, <1>4, <3>1 DEF Messages
  <2>3. pipe \in Seq(Ids)
    BY <1>1, <2>2, LenProperties
  <2>4. pipe \in Seq(Nat)
    BY <2>3, IdsAreMessages, SeqMonotonic
  <2> QED
    BY <1>1, <1>4, <2>1, <2>2, <2>3, <2>4 DEF NumbersFollow
<1> QED
  BY <1>3, <1>4

LEMMA NumbersTypedNext == TypeOK' /\ Staged' => NumbersFollow'
BY NumbersTyped, PTL

\* The ghosts remember.
LEMMA GhostsGrow ==
    ASSUME TypeOK, Next
    PROVE  /\ visited \subseteq visited' /\ (fetched => fetched') /\ (overtaken => overtaken')
           /\ OneInstance' => OneInstance
<1>1. visited \subseteq visited' /\ (fetched => fetched') /\ (overtaken => overtaken')
  <2>1. CASE EmitTaskStreamEvent
    BY <2>1 DEF EmitTaskStreamEvent, EmitLocal
  <2>2. ASSUME NEW i \in Away, Deliver(i) \/ Forget(i)
        PROVE  visited \subseteq visited' /\ (fetched => fetched') /\ (overtaken => overtaken')
    <3>1. visited' = visited /\ fetched' = fetched
      BY <2>2 DEF Deliver, Forget
    <3>2. overtaken => overtaken'
      BY <2>2, Zenon DEF Deliver, EmitLocal, Forget
    <3> QED
      BY <3>1, <3>2
  <2>3. CASE WriteRecord \/ Proceeds \/ LifetimeEnds \/ SlowEnds \/ Drop
    BY <2>3 DEF WriteRecord, Proceeds, LifetimeEnds, SlowEnds, Drop, ReadRecord, Join, Greet,
                Fetched, Receive, ReadEnd
  <2>4. ASSUME NEW i \in Instances, Connect(i)
        PROVE  visited \subseteq visited' /\ (fetched => fetched') /\ (overtaken => overtaken')
    BY <2>4 DEF Connect
  <2> QED
    BY <2>1, <2>2, <2>3, <2>4 DEF Next, Working
<1> QED
  BY <1>1 DEF OneInstance

LEMMA OnwardSame ==
    ASSUME Onward, Numbers' = Numbers, UNCHANGED <<got, last, visited, cache>>
    PROVE  Onward'
BY DEF Onward

\* A live event, cached and written to the stream in one step.
LEMMA OnwardLive ==
    ASSUME TypeOK, TypeOK', Staged, Staged', Onward, ~overtaken', \A a, b \in visited : a = b,
           NEW i \in Instances, NEW e \in Ids, EmitLocal(i, e),
           cache' = [cache EXCEPT ![i] = Pushed(cache[i], e)],
           \A k \in 1..Len(cache[i]) : cache[i][k] < e,
           UNCHANGED <<streamVars, clientVars, visited>>
    PROVE  Onward'
<1>1. /\ cache[i] \in Seq(Ids) /\ Len(cache[i]) <= Cap /\ e \in Nat \ {0}
      /\ \A a \in visited : a \in Instances
  BY CacheTyped, PipeTyped DEF TypeOK
<1>2. /\ cache'[i] = Pushed(cache[i], e) /\ \A a \in visited : a # i => cache'[a] = cache[a]
  BY <1>1 DEF TypeOK
<1>3. cache'[i] # <<>> /\ Final(cache'[i]) = e
  BY <1>1, <1>2, PushKeepsNewest
<1>4. cache[i] # <<>> => Final(cache[i]) \in Nat /\ Final(cache[i]) < e
  <2>1. cache[i] # <<>> => Len(cache[i]) \in 1..Len(cache[i])
    BY <1>1, EmptySeq
  <2> QED
    BY <1>1, <2>1, CacheTyped, IdsAreMessages DEF Final
<1>5. /\ Numbers \in Seq(Nat) /\ Numbers' \in Seq(Ids)
      /\ \A k \in 1..Len(Numbers) : Numbers[k] \in Nat
      /\ stage # "over" => Numbers = pipe
  BY NumbersTyped, NumbersTypedNext, PipeTyped DEF NumbersFollow
<1>6. last \in Nat /\ got' = got /\ last' = last /\ visited' = visited
  BY PipeTyped DEF clientVars
<1>7. i \in visited => (last > 0 => last < e) /\ \A k \in 1..Len(Numbers) : Numbers[k] < e
  <2> SUFFICES ASSUME i \in visited
               PROVE  (last > 0 => last < e) /\ \A k \in 1..Len(Numbers) : Numbers[k] < e
    OBVIOUS
  <2>1. last > 0 => last < e
    BY <1>1, <1>4, <1>6 DEF Onward
  <2>2. ASSUME NEW k \in 1..Len(Numbers) PROVE Numbers[k] < e
    <3>1. Numbers # <<>>
      BY EmptySeq
    <3>2. /\ Numbers[k] <= Final(Numbers) /\ Final(Numbers) \in Nat
          /\ cache[i] # <<>> /\ Final(Numbers) <= Final(cache[i])
      BY <1>5, <3>1, RisingBelowLast DEF Onward
    <3> QED
      BY <1>1, <1>4, <1>5, <3>2
  <2> QED
    BY <2>1, <2>2
<1>8. CASE at = i /\ stage \in Joined
  <2>1. pipe' = Append(pipe, e) /\ stage # "over" /\ stage' = stage /\ stage # "none"
    BY <1>8 DEF EmitLocal, Joined, streamVars
  <2>2. i \in visited
    BY <1>1, <1>8 DEF Staged, Instances
  <2>3. Numbers = pipe /\ Numbers' = pipe'
    <3>1. stage' # "over" => Numbers' = pipe'
      BY NumbersTypedNext DEF NumbersFollow
    <3> QED
      BY <1>5, <2>1, <3>1
  <2>4. Numbers' = Append(Numbers, e)
    BY <2>1, <2>3
  <2> HIDE DEF Numbers
  <2>5. /\ Rising(Numbers') /\ Len(Numbers') = Len(Numbers) + 1 /\ Len(Numbers) \in Nat
        /\ Numbers'[Len(Numbers) + 1] = e
        /\ \A k \in 1..Len(Numbers) : Numbers'[k] = Numbers[k]
    BY <1>1, <1>5, <1>7, <2>2, <2>4, RisingAppend DEF Onward
  <2>6. Final(Numbers') = e
    BY <2>5 DEF Final
  <2>7. \A k \in 1..Len(Numbers') : last < Numbers'[k]
    <3>1. last < e
      BY <1>1, <1>6, <1>7, <2>2
    <3>2. \A k \in 1..Len(Numbers') : k \in 1..Len(Numbers) \/ k = Len(Numbers) + 1
      BY <2>5
    <3> QED
      BY <2>5, <3>1, <3>2 DEF Onward
  <2>8. \A a \in visited : a = i
    BY <2>2
  <2>9. last > 0 => last <= e
    BY <1>1, <1>6, <1>7, <2>2
  <2> QED
    BY <1>1, <1>3, <1>6, <2>5, <2>6, <2>7, <2>8, <2>9 DEF Onward
<1>9. CASE ~(at = i /\ stage \in Joined)
  <2>1. Numbers' = Numbers
    BY <1>9 DEF EmitLocal, Numbers
  <2>2. ASSUME i \in visited
        PROVE  /\ last > 0 => last <= e
               /\ Numbers # <<>> => Final(Numbers) <= e
    <3>1. last > 0 => last <= e
      BY <1>1, <1>6, <1>7, <2>2
    <3>2. Numbers # <<>> => Final(Numbers) \in Nat /\ Final(Numbers) <= Final(cache[i]) /\ cache[i] # <<>>
      BY <1>5, <2>2, RisingBelowLast DEF Onward
    <3> QED
      BY <1>1, <1>4, <3>1, <3>2
  <2> HIDE DEF Numbers
  <2>3. ASSUME NEW a \in visited
        PROVE  /\ last > 0 => cache'[a] # <<>> /\ last <= Final(cache'[a])
               /\ Numbers # <<>> => cache'[a] # <<>> /\ Final(Numbers) <= Final(cache'[a])
    <3>1. CASE a = i
      BY <1>3, <2>2, <3>1
    <3>2. CASE a # i
      BY <1>2, <3>2 DEF Onward
    <3> QED
      BY <3>1, <3>2
  <2> QED
    BY <1>6, <2>1, <2>3 DEF Onward
<1> QED
  BY <1>8, <1>9

\* A replay from the cache of the instance.
LEMMA OnwardReplay ==
    ASSUME TypeOK, TypeOK', HomeCached, AwayCached, Staged, Staged', Onward, ~overtaken,
           \A a, b \in visited : a = b,
           stage = "joined", asked > 0, stage' = "live", pipe' = pipe \o Replayed,
           UNCHANGED <<at, got, last, visited, cache>>
    PROVE  Onward'
<1>1. pipe = <<>> /\ asked = last /\ at \in visited /\ at \in Instances
  BY DEF Staged, TypeOK
<1> DEFINE s == cache[at]
<1>2. s \in Seq(Ids) /\ s \in Seq(Nat) /\ Len(s) \in Nat /\ Rising(s) /\ last \in Nat
  BY <1>1, CacheTyped, CachesRise, PipeTyped
<1>3. Numbers' = pipe' /\ pipe' = After(s, last)
  <2>1. stage' # "over" => Numbers' = pipe'
    BY NumbersTypedNext DEF NumbersFollow
  <2>2. Replayed = After(s, last)
    BY <1>1 DEF Replayed
  <2>3. <<>> \o After(s, last) = After(s, last)
    BY <1>2, AfterSelects, IdsAreMessages, ConcatEmptySeq
  <2> QED
    BY <1>1, <2>1, <2>2, <2>3
<1>4. PICK m \in 0..Len(s) :
        /\ \A k \in 1..Len(s) : s[k] > last <=> k > m
        /\ Len(After(s, last)) = Len(s) - m
        /\ \A j \in 1..(Len(s) - m) : After(s, last)[j] = s[m + j]
  BY <1>2, AfterIsTheRest
<1> DEFINE r == After(s, last)
<1>5. /\ Len(r) = Len(s) - m /\ m \in Nat /\ Len(r) \in Nat
      /\ \A j \in 1..Len(r) : m + j \in 1..Len(s) /\ r[j] = s[m + j] /\ s[m + j] > last
  BY <1>2, <1>4
<1> HIDE DEF r, s
<1>6. Rising(r)
  BY <1>2, <1>5 DEF Rising
<1>7. \A j \in 1..Len(r) : last < r[j]
  <2>1. \A k \in 1..Len(s) : s[k] \in Nat
    BY <1>2, ElementOfSeq
  <2> QED
    BY <1>2, <1>5, <2>1
<1>8. r # <<>> => s # <<>> /\ Final(r) = Final(s)
  <2> SUFFICES ASSUME r # <<>> PROVE s # <<>> /\ Final(r) = Final(s)
    OBVIOUS
  <2>1. r \in Seq(Nat)
    BY <1>2, AfterSelects, IdsAreMessages, SeqMonotonic DEF r
  <2>2. Len(r) \in 1..Len(r)
    BY <2>1, EmptySeq
  <2>3. r[Len(r)] = s[m + Len(r)] /\ m + Len(r) = Len(s) /\ Len(s) \in Nat \ {0}
    BY <1>2, <1>5, <2>2
  <2>4. s # <<>>
    BY <2>3, EmptySeq
  <2> QED
    BY <2>3, <2>4 DEF Final
<1>9. \A a \in visited : cache[a] = s
  BY <1>1 DEF s
<1>10. s # <<>> => Final(s) <= Final(s)
  <2>1. s # <<>> => Final(s) \in Nat
    BY <1>2, RisingBelowLast
  <2> QED
    BY <2>1
<1>11. Numbers' = r /\ \A a \in visited' : cache'[a] = s
  BY <1>3, <1>9 DEF r
<1> HIDE DEF Numbers
<1> QED
  BY <1>6, <1>7, <1>8, <1>10, <1>11 DEF Onward

\* A message is read: the snapshot of the end, or the first of the numbers.
LEMMA Reading ==
    ASSUME TypeOK, TypeOK', Staged, Staged', Receive
    PROVE  \/ Numbers = <<>> /\ Numbers' = <<>> /\ got' = got /\ last' = last
           \/ \E m \in Ids :
                 /\ Len(Numbers) \in Nat \ {0} /\ Numbers[1] = m
                 /\ got' = Append(got, m) /\ last' = IF m > last THEN m ELSE last
                 /\ Len(Numbers') = Len(Numbers) - 1
                 /\ \A k \in 1..Len(Numbers') : Numbers'[k] = Numbers[k + 1]
<1> DEFINE m == Head(pipe)
<1>1. /\ pipe \in Seq(Messages) /\ pipe # <<>> /\ pipe' = Tail(pipe) /\ last \in Nat
      /\ got' = (IF m = Done THEN got ELSE Append(got, m))
      /\ last' = IF m > last THEN m ELSE last
  BY PipeTyped DEF Receive
<1>2. /\ Len(pipe) \in Nat \ {0} /\ Len(pipe') = Len(pipe) - 1 /\ m = pipe[1] /\ m \in Messages
      /\ \A k \in 1..Len(pipe') : pipe'[k] = pipe[k + 1]
      /\ pipe' \in Seq(Messages)
  BY <1>1, HeadTailProperties, EmptySeq
<1>3. NumbersFollow /\ NumbersFollow'
  BY NumbersTyped, NumbersTypedNext
<1> HIDE DEF m, Numbers
<1>4. CASE m = Done
  <2>1. Len(pipe) = 1
    <3>1. 1 \in 1..Len(pipe)
      BY <1>2
    <3> QED
      BY <1>2, <1>4, <3>1 DEF Staged
  <2>2. Len(pipe') = 0 /\ pipe' = <<>>
    BY <1>2, <2>1, EmptySeq
  <2>3. Len(Numbers) = 0 /\ Len(Numbers') = 0
    BY <1>1, <1>2, <1>3, <1>4, <2>1, <2>2 DEF NumbersFollow
  <2>4. Numbers = <<>> /\ Numbers' = <<>>
    BY <1>3, <2>3, EmptySeq DEF NumbersFollow
  <2>5. ~(m > last)
    BY <1>1, <1>4 DEF Done
  <2> QED
    BY <1>1, <1>4, <2>4, <2>5
<1>5. CASE m # Done
  <2>1. m \in Ids
    BY <1>2, <1>5 DEF Messages
  <2>2. pipe' # <<>> <=> Len(pipe) > 1
    BY <1>2, EmptySeq
  <2>3. pipe' # <<>> => pipe'[Len(pipe')] = pipe[Len(pipe)]
    <3>1. Len(pipe) > 1 => Len(pipe) - 1 \in 1..Len(pipe') /\ Len(pipe) - 1 + 1 = Len(pipe)
      BY <1>2
    <3> QED
      BY <1>2, <2>2, <3>1
  <2>4. Len(Numbers) = IF pipe[Len(pipe)] = Done THEN Len(pipe) - 1 ELSE Len(pipe)
    BY <1>1, <1>3 DEF NumbersFollow
  <2>5. Len(pipe) = 1 => pipe[Len(pipe)] # Done
    BY <1>2, <1>5
  <2>6. Len(Numbers') = IF Len(pipe) > 1 /\ pipe[Len(pipe)] = Done THEN Len(pipe) - 2 ELSE Len(pipe) - 1
    <3>1. Len(Numbers') = IF pipe' # <<>> /\ pipe'[Len(pipe')] = Done THEN Len(pipe') - 1 ELSE Len(pipe')
      BY <1>3 DEF NumbersFollow
    <3>2. Len(pipe') - 1 = Len(pipe) - 2
      BY <1>2
    <3> QED
      BY <1>2, <2>2, <2>3, <3>1, <3>2
  <2>7. Len(Numbers) \in Nat \ {0} /\ Len(Numbers') = Len(Numbers) - 1
    <3>1. CASE Len(pipe) = 1
      BY <2>4, <2>5, <2>6, <3>1
    <3>2. CASE Len(pipe) > 1
      BY <1>2, <2>4, <2>6, <3>2
    <3> QED
      BY <1>2, <3>1, <3>2
  <2>8. Numbers[1] = m
    BY <1>2, <1>3, <2>7 DEF NumbersFollow
  <2>9. ASSUME NEW k \in 1..Len(Numbers') PROVE Numbers'[k] = Numbers[k + 1]
    <3>1. k + 1 \in 1..Len(Numbers) /\ k \in 1..Len(pipe')
      BY <1>3, <2>7 DEF NumbersFollow
    <3> QED
      BY <1>2, <1>3, <3>1 DEF NumbersFollow
  <2> QED
    BY <1>1, <1>5, <2>1, <2>7, <2>8, <2>9
<1> QED
  BY <1>4, <1>5

LEMMA OnwardReading ==
    ASSUME TypeOK, TypeOK', Staged, Staged', Onward, Receive
    PROVE  Onward'
<1>1. /\ NumbersFollow /\ NumbersFollow' /\ last \in Nat /\ got \in Seq(Nat) /\ Len(got) \in Nat
      /\ visited' = visited /\ cache' = cache
  BY NumbersTyped, NumbersTypedNext, PipeTyped DEF Receive, busVars
<1> HIDE DEF Numbers
<1>2. CASE Numbers = <<>> /\ Numbers' = <<>> /\ got' = got /\ last' = last
  BY <1>1, <1>2 DEF Onward
<1>3. ASSUME NEW m \in Ids,
             Len(Numbers) \in Nat \ {0} /\ Numbers[1] = m,
             got' = Append(got, m) /\ last' = IF m > last THEN m ELSE last,
             Len(Numbers') = Len(Numbers) - 1,
             \A k \in 1..Len(Numbers') : Numbers'[k] = Numbers[k + 1]
      PROVE  Onward'
  <2>1. 1 \in 1..Len(Numbers) /\ Numbers # <<>> /\ last < m /\ m \in Nat \ {0} /\ last' = m
    <3>1. 1 \in 1..Len(Numbers) /\ Numbers # <<>> /\ m \in Nat \ {0}
      BY <1>3, EmptySeq, PipeTyped
    <3>2. last < m
      BY <1>3, <3>1 DEF Onward
    <3> QED
      BY <1>1, <1>3, <3>1, <3>2
  <2>2. \A k \in 1..Len(got) : got[k] < m
    <3> SUFFICES ASSUME NEW k \in 1..Len(got) PROVE got[k] < m
      OBVIOUS
    <3>1. got # <<>>
      BY EmptySeq
    <3>2. got[k] \in Nat /\ got[k] <= last
      BY <1>1, <3>1, RisingBelowLast DEF Onward
    <3> QED
      BY <1>1, <2>1, <3>2
  <2>3. /\ Rising(got') /\ Len(got') = Len(got) + 1 /\ got'[Len(got) + 1] = m
    BY <1>1, <1>3, <2>1, <2>2, RisingAppend DEF Onward
  <2>4. last' = IF got' = <<>> THEN 0 ELSE Final(got')
    BY <1>1, <2>1, <2>3, EmptySeq DEF Final
  <2>5. \A k \in 1..Len(Numbers') : k + 1 \in 1..Len(Numbers) /\ 1 < k + 1
    BY <1>3
  <2>6. Rising(Numbers')
    BY <1>3, <2>5 DEF Onward, Rising
  <2>7. \A k \in 1..Len(Numbers') : last' < Numbers'[k]
    BY <1>3, <2>1, <2>5 DEF Onward, Rising
  <2>8. Numbers' # <<>> => Final(Numbers') = Final(Numbers)
    <3> SUFFICES ASSUME Numbers' # <<>> PROVE Final(Numbers') = Final(Numbers)
      OBVIOUS
    <3>1. Len(Numbers') \in 1..Len(Numbers') /\ Len(Numbers') + 1 = Len(Numbers)
      BY <1>1, <1>3, EmptySeq DEF NumbersFollow
    <3> QED
      BY <1>3, <3>1 DEF Final
  <2>9. m <= Final(Numbers)
    BY <1>1, <1>3, <2>1, RisingBelowLast DEF Onward, NumbersFollow
  <2>10. ASSUME NEW a \in visited
         PROVE  cache[a] # <<>> /\ last' <= Final(cache[a]) /\ Final(Numbers) <= Final(cache[a])
    <3>1. cache[a] # <<>> /\ Final(Numbers) <= Final(cache[a])
      BY <2>1 DEF Onward
    <3>2. Final(Numbers) \in Nat /\ Final(cache[a]) \in Nat
      <4>1. cache[a] \in Seq(Nat) /\ Len(cache[a]) \in 1..Len(cache[a])
        BY <3>1, CacheTyped, EmptySeq DEF TypeOK
      <4> QED
        BY <1>1, <2>1, <4>1, RisingBelowLast, ElementOfSeq DEF Onward, NumbersFollow, Final
    <3> QED
      BY <2>1, <2>9, <3>1, <3>2
  <2> QED
    BY <1>1, <2>3, <2>4, <2>6, <2>7, <2>8, <2>10 DEF Onward
<1> QED
  BY <1>2, <1>3, Reading

\* The snapshot of the end is no number.
LEMMA EndIsNoNumber ==
    ASSUME TypeOK, Staged, stage # "over", pipe' = Append(pipe, Done)
    PROVE  Numbers' = Numbers
<1>1. pipe \in Seq(Messages) /\ Numbers = pipe /\ Len(pipe) \in Nat /\ Done \in Messages
  BY NumbersTyped, PipeTyped DEF NumbersFollow, Messages
<1>2. /\ pipe' \in Seq(Messages) /\ Len(pipe') = Len(pipe) + 1 /\ pipe'[Len(pipe')] = Done /\ pipe' # <<>>
      /\ SubSeq(pipe', 1, Len(pipe)) = pipe
  <2>1. /\ pipe' \in Seq(Messages) /\ Len(pipe') = Len(pipe) + 1 /\ pipe'[Len(pipe')] = Done
        /\ \A k \in 1..Len(pipe) : pipe'[k] = pipe[k]
    BY <1>1
  <2>2. pipe' # <<>>
    BY <1>1, <2>1, EmptySeq
  <2>3. SubSeq(pipe', 1, Len(pipe)) = pipe
    <3>1. /\ SubSeq(pipe', 1, Len(pipe)) \in Seq(Messages) /\ Len(SubSeq(pipe', 1, Len(pipe))) = Len(pipe)
          /\ \A k \in 1..Len(pipe) : SubSeq(pipe', 1, Len(pipe))[k] = pipe'[k]
      BY <1>1, <2>1
    <3> QED
      BY <1>1, <2>1, <3>1, SeqEqual
  <2> QED
    BY <2>1, <2>2, <2>3
<1>3. Len(pipe') - 1 = Len(pipe)
  BY <1>1, <1>2
<1>4. Numbers' = SubSeq(pipe', 1, Len(pipe') - 1)
  BY <1>2 DEF Numbers
<1> QED
  BY <1>1, <1>2, <1>3, <1>4

LEMMA NextKeepsSameOnward ==
    ASSUME TypeOK, HomeCached, AwayCached, Staged, SameOnward, TypeOK', Staged', Next
    PROVE  SameOnward'
<1> SUFFICES ASSUME OneInstance' PROVE Onward'
  BY DEF SameOnward
<1>1. /\ OneInstance /\ Onward /\ ~overtaken /\ ~overtaken' /\ ~fetched'
      /\ \A a, b \in visited : a = b
      /\ \A a, b \in visited' : a = b
  BY GhostsGrow DEF SameOnward, OneInstance
<1>2. CASE EmitTaskStreamEvent
  <2>1. /\ cache' = [cache EXCEPT ![Home] = Pushed(cache[Home], emitted')]
        /\ emitted' \in Ids /\ emitted' = emitted + 1 /\ emitted \in Nat
        /\ EmitLocal(Home, emitted') /\ UNCHANGED <<streamVars, clientVars, visited>>
    BY <1>2, Emission
  <2>2. \A k \in 1..Len(cache[Home]) : cache[Home][k] < emitted'
    <3>1. Len(cache[Home]) \in Nat
      BY CacheTyped DEF Instances
    <3> QED
      BY <2>1, <3>1 DEF HomeCached
  <2> QED
    BY <1>1, <2>1, <2>2, OnwardLive DEF Instances
<1>3. ASSUME NEW i \in Away, Deliver(i) PROVE Onward'
  <2>1. wire[i] # <<>> /\ wire[i] \in Seq(Ids)
    BY <1>3, CacheTyped DEF Deliver
  <2>2. Head(wire[i]) \in Ids /\ Head(wire[i]) = wire[i][1] /\ 1 \in 1..Len(wire[i])
    BY <2>1, HeadTailProperties, EmptySeq
  <2>3. \A k \in 1..Len(cache[i]) : cache[i][k] < Head(wire[i])
    BY <2>2 DEF AwayCached
  <2>4. /\ cache' = [cache EXCEPT ![i] = Pushed(cache[i], Head(wire[i]))]
        /\ EmitLocal(i, Head(wire[i])) /\ UNCHANGED <<streamVars, clientVars, visited>>
    BY <1>3 DEF Deliver, RecordReplay
  <2> QED
    BY <1>1, <2>2, <2>3, <2>4, OnwardLive DEF Instances
<1>4. CASE WriteRecord \/ ReadRecord \/ Join \/ LifetimeEnds \/ SlowEnds
  <2>1. UNCHANGED <<pipe, got, last, visited, cache>>
    BY <1>4 DEF WriteRecord, ReadRecord, Join, LifetimeEnds, SlowEnds, busVars, clientVars
  <2>2. Numbers' = Numbers
    BY <2>1 DEF Numbers
  <2> QED
    BY <1>1, <2>1, <2>2, OnwardSame
<1>5. ASSUME NEW i \in Away, Forget(i) PROVE Onward'
  <2>1. UNCHANGED <<pipe, got, last, visited, cache>>
    BY <1>5 DEF Forget, clientVars
  <2>2. Numbers' = Numbers
    BY <2>1 DEF Numbers
  <2> QED
    BY <1>1, <2>1, <2>2, OnwardSame
<1>6. CASE Greet
  <2>1. stage = "joined" /\ UNCHANGED <<at, got, last, visited, cache>>
    BY <1>6 DEF Greet, clientVars
  <2>2. CASE pipe' = Append(pipe, Done)
    BY <1>1, <2>1, <2>2, EndIsNoNumber, OnwardSame
  <2>3. CASE pipe' = pipe
    <3>1. Numbers' = Numbers
      BY <2>3 DEF Numbers
    <3> QED
      BY <1>1, <2>1, <3>1, OnwardSame
  <2>4. CASE asked > 0 /\ stage' = "live" /\ pipe' = pipe \o Replayed
    BY <1>1, <2>1, <2>4, OnwardReplay
  <2> QED
    BY <1>6, <2>2, <2>3, <2>4 DEF Greet
<1>7. ~Fetched
  BY <1>1 DEF Fetched
<1>8. CASE Receive
  BY <1>1, <1>8, OnwardReading
<1>9. CASE ReadEnd \/ Drop
  <2>1. pipe' = <<>> /\ UNCHANGED <<got, last, visited, cache>>
    BY <1>9 DEF ReadEnd, Drop, Closed, busVars, clientVars
  <2>2. Numbers' = <<>> /\ Len(<<>>) = 0
    BY <2>1, EmptySeq DEF Numbers
  <2> HIDE DEF Numbers
  <2> QED
    BY <1>1, <2>1, <2>2 DEF Onward, Rising
<1>10. ASSUME NEW i \in Instances, Connect(i) PROVE Onward'
  <2>1. /\ UNCHANGED <<pipe, got, last, cache>> /\ visited' = visited \cup {i} /\ pipe = <<>>
    BY <1>10 DEF Connect, busVars, clientVars, Staged
  <2>2. Numbers' = <<>> /\ Numbers = <<>>
    BY <2>1 DEF Numbers
  <2>3. last > 0 => visited' = visited
    BY <1>1, <2>1 DEF Staged
  <2> HIDE DEF Numbers
  <2> QED
    BY <1>1, <2>1, <2>2, <2>3 DEF Onward
<1> QED
  BY <1>2, <1>3, <1>4, <1>5, <1>6, <1>7, <1>8, <1>9, <1>10 DEF Next, Working, Proceeds

----------------------------------------------------------------------------
(* The client of the executing instance *)

\* While the cache has dropped nothing it is the whole history.
LEMMA WholeHistory ==
    ASSUME TypeOK, HomeCached, Complete
    PROVE  /\ Len(cache[Home]) = emitted /\ emitted \in Nat
           /\ \A k \in 1..emitted : cache[Home][k] = k
<1>1. Len(cache[Home]) = emitted /\ emitted \in Nat
  BY PipeTyped DEF Complete
<1> QED
  BY <1>1 DEF HomeCached

\* What has been dropped stays dropped.
LEMMA CompleteBefore ==
    ASSUME TypeOK, TypeOK', HomeCached, HomeCached', Next, Complete'
    PROVE  Complete
<1>1. emitted \in Nat /\ emitted' \in Nat /\ emitted <= emitted'
  <2>1. emitted \in Nat /\ emitted' \in Nat
    BY DEF TypeOK
  <2>2. CASE EmitTaskStreamEvent
    BY <2>1, <2>2, Emission
  <2>3. CASE ~EmitTaskStreamEvent
    <3>1. emitted' = emitted
      BY <2>3, WhoCaches DEF Deliver, Forget, taskVars
    <3> QED
      BY <2>1, <3>1
  <2> QED
    BY <2>2, <2>3
<1>2. visited \subseteq visited' /\ (overtaken => overtaken')
  BY GhostsGrow
<1>3. Len(cache'[Home]) = emitted'
  BY DEF Complete
<1>4. emitted' <= Cap
  BY <1>1, <1>3 DEF HomeCached
<1>5. Len(cache[Home]) = emitted
  BY <1>1, <1>4 DEF HomeCached
<1> QED
  BY <1>2, <1>5 DEF Complete

\* What such a client relies on.
LEMMA CompleteClient ==
    ASSUME TypeOK, HomeCached, Staged, SameOnward, Unbroken, Complete
    PROVE  /\ Seamless /\ Onward /\ NumbersFollow /\ OneInstance
           /\ at # Nowhere => at = Home
           /\ last \in Nat /\ last <= emitted /\ (got = <<>> <=> last = 0)
           /\ visited \subseteq {Home}
<1>1. Seamless /\ visited \subseteq {Home} /\ ~overtaken
  BY DEF Unbroken, Complete
<1>2. OneInstance /\ Onward
  BY <1>1 DEF OneInstance, Seamless, SameOnward
<1>3. NumbersFollow /\ (at # Nowhere => at = Home)
  BY <1>1, NumbersTyped DEF Staged
<1>4. /\ last \in Nat /\ emitted \in Nat /\ Len(cache[Home]) = emitted
      /\ \A k \in 1..emitted : cache[Home][k] = k
  BY PipeTyped, WholeHistory
<1>5. last <= emitted
  <2>1. CASE last = 0
    BY <1>4, <2>1
  <2>2. CASE last > 0
    <3>1. Home \in visited
      BY <1>1, <2>2 DEF Staged
    <3>2. cache[Home] # <<>> /\ last <= Final(cache[Home])
      BY <1>2, <2>2, <3>1 DEF Onward
    <3>3. emitted \in 1..emitted
      BY <1>4, <3>2, CacheTyped, EmptySeq DEF Instances
    <3> QED
      BY <1>4, <3>2, <3>3 DEF Final
  <2> QED
    BY <1>4, <2>1, <2>2
<1>6. got = <<>> <=> last = 0
  <2>1. got # <<>> => Len(got) \in 1..Len(got)
    BY PipeTyped, EmptySeq
  <2>2. got # <<>> => Final(got) # 0
    BY <2>1, PipeTyped DEF Final
  <2> QED
    BY <1>2, <2>2 DEF Onward
<1> QED
  BY <1>1, <1>2, <1>3, <1>4, <1>5, <1>6

\* An event that is written as it is emitted.
LEMMA SeamlessLive ==
    ASSUME TypeOK, TypeOK', HomeCached, Staged, Staged', SameOnward, Unbroken, Complete, Complete',
           EmitTaskStreamEvent
    PROVE  Seamless'
<1> DEFINE e == emitted'
<1>1. /\ emitted \in Nat /\ e = emitted + 1 /\ e \in Ids /\ EmitLocal(Home, e)
      /\ UNCHANGED <<streamVars, clientVars, fetched>>
  BY Emission
<1>2. /\ Seamless /\ Onward /\ NumbersFollow /\ NumbersFollow' /\ (at # Nowhere => at = Home)
      /\ last \in Nat /\ (got = <<>> <=> last = 0) /\ ~overtaken'
  BY CompleteClient, NumbersTypedNext DEF Complete
<1>3. got' = got /\ last' = last /\ stage' = stage /\ asked' = asked /\ fetched' = fetched
  BY <1>1 DEF streamVars, clientVars
<1> HIDE DEF e, Numbers
<1>4. CASE at = Home /\ stage \in Joined
  <2>1. pipe' = Append(pipe, e) /\ (stage = "live" \/ (stage = "joined" /\ ~(asked > 0))) /\ stage # "over"
    BY <1>1, <1>2, <1>4 DEF EmitLocal, Joined, Seamless
  <2>2. stage = "live" \/ (stage = "joined" /\ asked = 0)
    BY <2>1, PipeTyped
  <2>3. Numbers = pipe /\ Numbers' = pipe'
    BY <1>2, <1>3, <2>1 DEF NumbersFollow
  <2>4. /\ Len(Numbers') = Len(Numbers) + 1 /\ Len(Numbers) \in Nat
        /\ Numbers'[Len(Numbers) + 1] = e
        /\ \A k \in 1..Len(Numbers) : Numbers'[k] = Numbers[k]
    BY <2>1, <2>3, PipeTyped, IdsAreMessages, <1>1 DEF Messages
  <2>5. Final(Numbers') = e /\ Numbers' # <<>>
    BY <2>4, EmptySeq DEF Final
  <2>6. CASE Numbers = <<>>
    <3>1. Len(Numbers) = 0 /\ Len(Numbers') = 1 /\ Numbers'[1] = e
      BY <2>4, <2>6, EmptySeq
    <3>2. Steady(Numbers')
      BY <3>1 DEF Steady
    <3>3. got # <<>> => Numbers'[1] = last + 1
      BY <1>1, <1>2, <2>2, <2>6, <3>1 DEF Seamless
    <3> QED
      BY <1>2, <1>3, <2>1, <2>5, <3>2, <3>3 DEF Seamless, e
  <2>7. CASE Numbers # <<>>
    <3>1. Len(Numbers) \in Nat \ {0} /\ Numbers[Len(Numbers)] = emitted
      BY <1>2, <2>2, <2>7, EmptySeq DEF Seamless, Final, NumbersFollow
    <3>2. \A k \in 1..(Len(Numbers) - 1) : k \in 1..Len(Numbers) /\ k + 1 \in 1..Len(Numbers) /\ Numbers[k + 1] = Numbers[k] + 1
      BY <1>2, <3>1 DEF Seamless, Steady
    <3>3. Steady(Numbers')
      <4> SUFFICES ASSUME NEW k \in 1..(Len(Numbers') - 1) PROVE Numbers'[k + 1] = Numbers'[k] + 1
        BY DEF Steady
      <4>1. CASE k = Len(Numbers)
        BY <1>1, <2>4, <3>1, <4>1
      <4>2. CASE k # Len(Numbers)
        <5>1. k \in 1..(Len(Numbers) - 1)
          BY <2>4, <3>1, <4>2
        <5> QED
          BY <2>4, <3>2, <5>1
      <4> QED
        BY <4>1, <4>2
    <3>4. Numbers'[1] = Numbers[1]
      BY <2>4, <3>1
    <3> QED
      BY <1>2, <1>3, <2>1, <2>5, <2>7, <3>3, <3>4 DEF Seamless, e
  <2> QED
    BY <2>6, <2>7
<1>5. CASE ~(at = Home /\ stage \in Joined)
  <2>1. Numbers' = Numbers
    BY <1>1, <1>5 DEF EmitLocal, Numbers
  <2>2. stage \notin Joined
    BY <1>2, <1>5 DEF TypeOK, Joined
  <2> QED
    BY <1>2, <1>3, <2>1, <2>2 DEF Seamless, Joined
<1> QED
  BY <1>4, <1>5

\* A replay begins where the client stopped and ends at the last event.
LEMMA SeamlessReplay ==
    ASSUME TypeOK, TypeOK', HomeCached, Staged, Staged', SameOnward, Unbroken, Complete, Complete',
           stage = "joined", asked > 0, stage' = "live", pipe' = pipe \o Replayed,
           UNCHANGED <<emitted, at, got, last, fetched>>
    PROVE  Seamless'
<1> DEFINE s == cache[Home]
           r == After(s, last)
<1>1. /\ Seamless /\ NumbersFollow /\ NumbersFollow' /\ (at # Nowhere => at = Home)
      /\ last \in Nat /\ last <= emitted
  BY CompleteClient, NumbersTypedNext
<1>2. pipe = <<>> /\ asked = last /\ at = Home
  BY <1>1 DEF Staged, TypeOK, Complete
<1>3. /\ s \in Seq(Nat) /\ s \in Seq(Ids) /\ Len(s) = emitted /\ emitted \in Nat
      /\ \A k \in 1..emitted : s[k] = k
  BY CacheTyped, WholeHistory DEF Instances
<1>4. Numbers' = r
  <2>1. <<>> \o r = r
    BY <1>1, <1>3, AfterSelects, ConcatEmptySeq
  <2> QED
    BY <1>1, <1>2, <2>1 DEF NumbersFollow, Replayed
<1>5. Rising(s)
  BY <1>3 DEF Rising
<1>6. PICK m \in 0..Len(s) :
        /\ \A k \in 1..Len(s) : s[k] > last <=> k > m
        /\ Len(r) = Len(s) - m
        /\ \A j \in 1..(Len(s) - m) : r[j] = s[m + j]
  BY <1>1, <1>3, <1>5, AfterIsTheRest
<1> HIDE DEF s, r, Numbers
<1>7. m = last
  <2>1. m \in Nat /\ m <= emitted /\ \A k \in 1..emitted : k > last <=> k > m
    BY <1>3, <1>6
  <2>2. CASE m < last
    BY <1>1, <2>1, <2>2
  <2>3. CASE last < m
    <3>1. m \in 1..emitted /\ m > last
      BY <1>1, <1>3, <2>1, <2>3
    <3> QED
      BY <2>1, <3>1
  <2> QED
    BY <1>1, <2>1, <2>2, <2>3
<1>8. Len(r) = emitted - last /\ \A j \in 1..(emitted - last) : r[j] = last + j
  BY <1>1, <1>3, <1>6, <1>7
<1>9. Steady(r)
  BY <1>1, <1>3, <1>8 DEF Steady
<1>10. CASE r = <<>>
  <2>1. last = emitted
    BY <1>1, <1>3, <1>8, <1>10, EmptySeq
  <2> QED
    BY <1>1, <1>4, <1>9, <1>10, <2>1 DEF Seamless
<1>11. CASE r # <<>>
  <2>1. Len(r) \in Nat \ {0}
    BY <1>1, <1>4, <1>11, EmptySeq DEF NumbersFollow
  <2>2. r[1] = last + 1 /\ r[Len(r)] = emitted
    BY <1>1, <1>3, <1>8, <2>1
  <2> QED
    BY <1>1, <1>4, <1>9, <1>11, <2>2 DEF Seamless, Final
<1> QED
  BY <1>10, <1>11

LEMMA SeamlessReading ==
    ASSUME TypeOK, TypeOK', HomeCached, Staged, Staged', SameOnward, Unbroken, Complete, Receive
    PROVE  Seamless'
<1>1. /\ Seamless /\ Onward /\ NumbersFollow /\ NumbersFollow' /\ last \in Nat /\ Len(got) \in Nat
      /\ (got = <<>> <=> last = 0) /\ got \in Seq(Nat)
      /\ UNCHANGED <<emitted, stage, asked, fetched>>
  BY CompleteClient, NumbersTypedNext, PipeTyped DEF Receive, taskVars, streamVars
<1> HIDE DEF Numbers
<1>2. CASE Numbers = <<>> /\ Numbers' = <<>> /\ got' = got /\ last' = last
  BY <1>1, <1>2 DEF Seamless
<1>3. ASSUME NEW m \in Ids,
             Len(Numbers) \in Nat \ {0} /\ Numbers[1] = m,
             got' = Append(got, m) /\ last' = IF m > last THEN m ELSE last,
             Len(Numbers') = Len(Numbers) - 1,
             \A k \in 1..Len(Numbers') : Numbers'[k] = Numbers[k + 1]
      PROVE  Seamless'
  <2>1. 1 \in 1..Len(Numbers) /\ Numbers # <<>> /\ m \in Nat \ {0}
    BY <1>3, EmptySeq, PipeTyped
  <2>2. last < m
    BY <1>1, <1>3, <2>1 DEF Onward
  <2>3. last' = m
    BY <1>1, <1>3, <2>1, <2>2
  <2>4. got # <<>> => m = last + 1
    BY <1>1, <1>3, <2>1 DEF Seamless
  <2>5. /\ Len(got') = Len(got) + 1 /\ got'[Len(got) + 1] = m
        /\ \A k \in 1..Len(got) : got'[k] = got[k]
    BY <1>1, <1>3, <2>1
  <2>6. Steady(got')
    <3> SUFFICES ASSUME NEW k \in 1..(Len(got') - 1) PROVE got'[k + 1] = got'[k] + 1
      BY DEF Steady
    <3>1. k \in 1..Len(got) /\ got # <<>>
      BY <1>1, <2>5, EmptySeq
    <3>2. CASE k = Len(got)
      <4>1. got[k] = last
        BY <1>1, <3>1, <3>2 DEF Onward, Final
      <4> QED
        BY <2>4, <2>5, <3>1, <3>2, <4>1
    <3>3. CASE k # Len(got)
      <4>1. k \in 1..(Len(got) - 1) /\ k + 1 \in 1..Len(got)
        BY <1>1, <3>1, <3>3
      <4> QED
        BY <1>1, <2>5, <3>1, <4>1 DEF Seamless, Steady
    <3> QED
      BY <3>2, <3>3
  <2>7. Len(Numbers') \in Nat
    BY <1>1 DEF NumbersFollow
  <2>8. \A k \in 1..(Len(Numbers) - 1) : Numbers[k + 1] = Numbers[k] + 1
    BY <1>1 DEF Seamless, Steady
  <2>9. Steady(Numbers')
    <3> SUFFICES ASSUME NEW k \in 1..(Len(Numbers') - 1) PROVE Numbers'[k + 1] = Numbers'[k] + 1
      BY DEF Steady
    <3>1. k \in 1..Len(Numbers') /\ k + 1 \in 1..Len(Numbers') /\ k + 1 \in 1..(Len(Numbers) - 1)
      BY <1>3, <2>7
    <3> QED
      BY <1>3, <2>8, <3>1
  <2>10. CASE Numbers' = <<>>
    <3>1. Len(Numbers) = 1
      BY <1>3, <2>10, EmptySeq
    <3>2. Final(Numbers) = last'
      BY <1>3, <2>3, <3>1 DEF Final
    <3> QED
      BY <1>1, <2>1, <2>6, <2>9, <2>10, <3>2 DEF Seamless
  <2>11. CASE Numbers' # <<>>
    <3>1. Len(Numbers') \in Nat \ {0} /\ Len(Numbers') + 1 = Len(Numbers)
      BY <1>1, <1>3, <2>11, EmptySeq DEF NumbersFollow
    <3>2. Final(Numbers') = Final(Numbers)
      BY <1>3, <3>1 DEF Final
    <3>3. Numbers'[1] = last' + 1
      BY <1>3, <2>3, <2>8, <3>1
    <3> QED
      BY <1>1, <2>1, <2>6, <2>9, <2>11, <3>2, <3>3 DEF Seamless
  <2> QED
    BY <2>10, <2>11
<1> QED
  BY <1>2, <1>3, Reading

LEMMA NextKeepsUnbroken ==
    ASSUME TypeOK, HomeCached, AwayCached, Staged, SameOnward, Unbroken,
           TypeOK', HomeCached', Staged', Next
    PROVE  Unbroken'
<1> SUFFICES ASSUME Complete' PROVE Seamless'
  BY DEF Unbroken
<1>1. Complete
  BY CompleteBefore
<1>2. /\ Seamless /\ Onward /\ NumbersFollow /\ (at # Nowhere => at = Home)
      /\ last \in Nat /\ last <= emitted /\ (got = <<>> <=> last = 0)
  BY <1>1, CompleteClient
<1>3. CASE EmitTaskStreamEvent
  BY <1>1, <1>3, SeamlessLive
<1>4. ASSUME NEW i \in Away, Deliver(i) \/ Forget(i) PROVE Seamless'
  <2>1. at # i
    BY <1>2
  <2>2. UNCHANGED <<emitted, stage, asked, fetched, got, last, pipe>>
    BY <1>4, <2>1 DEF Deliver, EmitLocal, Forget, taskVars, streamVars, clientVars
  <2>3. Numbers' = Numbers
    BY <2>2 DEF Numbers
  <2> HIDE DEF Numbers
  <2> QED
    BY <1>2, <2>2, <2>3 DEF Seamless
<1>5. CASE WriteRecord \/ ReadRecord \/ LifetimeEnds \/ SlowEnds
  <2>1. UNCHANGED <<emitted, asked, fetched, got, last, pipe>> /\ stage' \in {stage, "read", "over"}
    BY <1>5 DEF WriteRecord, ReadRecord, LifetimeEnds, SlowEnds, taskVars, streamVars, clientVars
  <2>2. Numbers' = Numbers
    BY <2>1 DEF Numbers
  <2> HIDE DEF Numbers
  <2> QED
    BY <1>2, <2>1, <2>2 DEF Seamless
<1>6. CASE Join
  <2>1. /\ UNCHANGED <<emitted, asked, fetched, got, last, pipe>> /\ stage = "read" /\ stage' = "joined"
        /\ pipe = <<>> /\ asked = last
    BY <1>6 DEF Join, taskVars, clientVars, Staged
  <2>2. Numbers' = <<>> /\ Numbers = <<>>
    BY <2>1 DEF Numbers
  <2> HIDE DEF Numbers
  <2> QED
    BY <1>2, <2>1, <2>2 DEF Seamless
<1>7. CASE Greet
  <2>1. stage = "joined" /\ UNCHANGED <<emitted, at, asked, got, last, fetched, cache>>
    BY <1>7 DEF Greet, taskVars, clientVars
  <2>2. CASE pipe' = Append(pipe, Done) /\ stage' = "over"
    <3>1. Numbers' = Numbers
      BY <2>1, <2>2, EndIsNoNumber
    <3> HIDE DEF Numbers
    <3> QED
      BY <1>2, <2>1, <2>2, <3>1 DEF Seamless
  <2>3. CASE asked = 0 /\ stage' = "live" /\ pipe' = pipe
    <3>1. Numbers' = Numbers
      BY <2>3 DEF Numbers
    <3> HIDE DEF Numbers
    <3> QED
      BY <1>2, <2>1, <2>3, <3>1 DEF Seamless
  <2>4. CASE asked > 0 /\ stage' = "live" /\ pipe' = pipe \o Replayed
    BY <1>1, <2>1, <2>4, SeamlessReplay
  <2>5. CASE asked > 0 /\ ~Covers(at)
    <3>1. asked \in Nat /\ asked <= last /\ emitted \in Nat
      BY PipeTyped DEF TypeOK
    <3>2. 1 \in 1..emitted /\ at = Home
      BY <1>2, <2>1, <2>5, <3>1 DEF TypeOK
    <3>3. Len(cache[Home]) = emitted /\ cache[Home][1] = 1
      BY <1>1, <3>2, WholeHistory
    <3>4. cache[Home] # <<>>
      BY <3>1, <3>2, <3>3, EmptySeq
    <3> QED
      BY <2>5, <3>1, <3>2, <3>3, <3>4 DEF Covers
  <2> QED
    BY <1>7, <2>2, <2>3, <2>4, <2>5 DEF Greet
<1>8. ~Fetched
  BY <1>2 DEF Fetched, Seamless
<1>9. CASE Receive
  BY <1>1, <1>9, SeamlessReading
<1>10. CASE ReadEnd \/ Drop
  <2>1. pipe' = <<>> /\ stage' = "none" /\ UNCHANGED <<got, last, fetched>>
    BY <1>10 DEF ReadEnd, Drop, Closed, clientVars
  <2>2. Numbers' = <<>> /\ Len(<<>>) = 0
    BY <2>1, EmptySeq DEF Numbers
  <2> HIDE DEF Numbers
  <2> QED
    BY <1>2, <2>1, <2>2 DEF Seamless, Steady
<1>11. ASSUME NEW i \in Instances, Connect(i) PROVE Seamless'
  <2>1. pipe' = pipe /\ stage' = "asked" /\ UNCHANGED <<got, last, fetched>>
    BY <1>11 DEF Connect, clientVars
  <2>2. Numbers' = Numbers
    BY <2>1 DEF Numbers
  <2> HIDE DEF Numbers
  <2> QED
    BY <1>2, <2>1, <2>2 DEF Seamless
<1> QED
  BY <1>3, <1>4, <1>5, <1>6, <1>7, <1>8, <1>9, <1>10, <1>11 DEF Next, Working, Proceeds

LEMMA InitDInv == Init => DInv
<1> SUFFICES ASSUME Init PROVE DInv
  OBVIOUS
<1>1. TypeOK
  BY InitTypeOK
<1>2. /\ emitted = 0 /\ cache[Home] = <<>>
      /\ \A i \in Away : cache[i] = <<>> /\ wire[i] = <<>>
  BY DEF Init, Instances
<1>3. /\ stage = "none" /\ at = Nowhere /\ pipe = <<>> /\ last = 0 /\ got = <<>> /\ visited = {}
      /\ fetched = FALSE /\ Len(<<>>) = 0
  BY DEF Init
<1>4. HomeCached /\ AwayCached
  <2>1. HomeCached
    BY <1>2, <1>3 DEF HomeCached
  <2>2. AwayCached
    BY <1>2, <1>3 DEF AwayCached, Rising
  <2> QED
    BY <2>1, <2>2
<1>5. Staged
  BY <1>3, FS_EmptySet DEF Staged
<1>6. Numbers = <<>>
  BY <1>3 DEF Numbers
<1> HIDE DEF Numbers
<1>7. SameOnward
  BY <1>3, <1>6 DEF SameOnward, Onward, Rising
<1>8. Unbroken
  BY <1>3, <1>6 DEF Unbroken, Seamless, Steady
<1> QED
  BY <1>1, <1>4, <1>5, <1>7, <1>8 DEF DInv

LEMMA NextKeepsDInv == DInv /\ [Next]_vars => DInv'
<1>1. ASSUME DInv, Next PROVE DInv'
  <2>1. TypeOK /\ HomeCached /\ AwayCached /\ Staged /\ SameOnward /\ Unbroken
    BY <1>1 DEF DInv
  <2>2. TypeOK'
    BY <1>1, <2>1, NextKeepsTypeOK
  <2>3. HomeCached' /\ AwayCached' /\ Staged'
    BY <1>1, <2>1, NextKeepsHomeCached, NextKeepsAwayCached, NextKeepsStaged
  <2>4. SameOnward'
    BY <1>1, <2>1, <2>2, <2>3, NextKeepsSameOnward
  <2>5. Unbroken'
    BY <1>1, <2>1, <2>2, <2>3, NextKeepsUnbroken
  <2> QED
    BY <2>2, <2>3, <2>4, <2>5 DEF DInv
<1>2. ASSUME DInv, UNCHANGED vars PROVE DInv'
  <2>1. TypeOK'
    BY <1>2, NextKeepsTypeOK DEF DInv
  <2>2. HomeCached' /\ AwayCached' /\ Staged'
    BY <1>2 DEF DInv, HomeCached, AwayCached, Staged, vars, taskVars, busVars, streamVars, clientVars
  <2>3. Numbers' = Numbers
    BY <1>2 DEF Numbers, vars
  <2> HIDE DEF Numbers
  <2>4. SameOnward'
    BY <1>2, <2>3 DEF DInv, SameOnward, OneInstance, Onward, vars, busVars, clientVars
  <2>5. Unbroken'
    BY <1>2, <2>3
       DEF DInv, Unbroken, Complete, Seamless, vars, taskVars, busVars, streamVars, clientVars
  <2> QED
    BY <2>1, <2>2, <2>4, <2>5 DEF DInv
<1> QED
  BY <1>1, <1>2

LEMMA AlwaysDInv == Spec => []DInv
BY InitDInv, NextKeepsDInv, PTL DEF Spec

----------------------------------------------------------------------------
(* What the client is told *)

\* What it has received, and then what its stream still holds.
LEMMA ToldJoins ==
    ASSUME TypeOK, NumbersFollow
    PROVE  /\ Len(Told) = Len(got) + Len(Numbers)
           /\ Len(got) \in Nat /\ Len(Numbers) \in Nat
           /\ \A k \in 1..Len(got) : Told[k] = got[k] /\ got[k] \in Nat
           /\ \A k \in 1..Len(Numbers) : Told[Len(got) + k] = Numbers[k] /\ Numbers[k] \in Nat
<1>1. /\ got \in Seq(Nat) /\ Len(got) \in Nat /\ \A k \in 1..Len(got) : got[k] \in Nat
      /\ Numbers \in Seq(Nat) /\ Len(Numbers) \in Nat
      /\ \A k \in 1..Len(Numbers) : Numbers[k] \in Nat
  BY PipeTyped DEF NumbersFollow
<1> HIDE DEF Numbers
<1>2. /\ Len(Told) = Len(got) + Len(Numbers)
      /\ \A k \in 1..(Len(got) + Len(Numbers)) :
            Told[k] = IF k <= Len(got) THEN got[k] ELSE Numbers[k - Len(got)]
  BY <1>1, ConcatProperties DEF Told
<1> QED
  BY <1>1, <1>2

\* A place in what it is told is one of what it has, or the step to the stream, or one of the
\* stream.
LEMMA ToldSteps ==
    ASSUME TypeOK, NumbersFollow, NEW k \in 1..(Len(Told) - 1)
    PROVE  \/ /\ k \in 1..(Len(got) - 1)
              /\ Told[k] = got[k] /\ Told[k + 1] = got[k + 1]
              /\ got[k] \in Nat /\ got[k + 1] \in Nat
           \/ /\ got # <<>> /\ Numbers # <<>>
              /\ Told[k] = Final(got) /\ Told[k + 1] = Numbers[1]
           \/ \E j \in 1..(Len(Numbers) - 1) :
                 /\ Told[k] = Numbers[j] /\ Told[k + 1] = Numbers[j + 1]
                 /\ Numbers[j] \in Nat /\ Numbers[j + 1] \in Nat
<1> HIDE DEF Numbers, Told
<1>1. /\ Len(Told) = Len(got) + Len(Numbers)
      /\ Len(got) \in Nat /\ Len(Numbers) \in Nat
      /\ \A i \in 1..Len(got) : Told[i] = got[i] /\ got[i] \in Nat
      /\ \A i \in 1..Len(Numbers) : Told[Len(got) + i] = Numbers[i] /\ Numbers[i] \in Nat
  BY ToldJoins
<1>2. CASE k < Len(got)
  <2>1. k \in 1..(Len(got) - 1) /\ k \in 1..Len(got) /\ k + 1 \in 1..Len(got)
    BY <1>1, <1>2
  <2> QED
    BY <1>1, <2>1
<1>3. CASE k = Len(got)
  <2>1. k \in 1..Len(got) /\ 1 \in 1..Len(Numbers)
    BY <1>1, <1>3
  <2>2. got # <<>> /\ Numbers # <<>>
    BY <2>1, EmptySeq
  <2> QED
    BY <1>1, <1>3, <2>1, <2>2 DEF Final
<1>4. CASE k > Len(got)
  <2> DEFINE j == k - Len(got)
  <2>1. /\ j \in 1..(Len(Numbers) - 1) /\ j \in 1..Len(Numbers) /\ j + 1 \in 1..Len(Numbers)
        /\ Len(got) + j = k /\ Len(got) + (j + 1) = k + 1
    BY <1>1, <1>4
  <2> HIDE DEF j
  <2> QED
    BY <1>1, <2>1
<1> QED
  BY <1>1, <1>2, <1>3, <1>4

LEMMA AtMostOne ==
    ASSUME NEW S, IsFiniteSet(S), Cardinality(S) <= 1
    PROVE  \A i, j \in S : i = j
<1> SUFFICES ASSUME NEW i \in S, NEW j \in S, i # j PROVE FALSE
  OBVIOUS
<1>1. IsFiniteSet({i}) /\ Cardinality({i}) = 1
  BY FS_Singleton
<1>2. Cardinality({i} \cup {j}) = 2
  <2>1. j \notin {i}
    OBVIOUS
  <2>2. Cardinality({i} \cup {j}) = Cardinality({i}) + 1
    BY <1>1, <2>1, FS_AddElement
  <2> QED
    BY <1>1, <2>2
<1>3. {i} \cup {j} \in SUBSET S
  OBVIOUS
<1>4. Cardinality({i} \cup {j}) <= Cardinality(S) /\ Cardinality(S) \in Nat
  BY <1>3, FS_Subset, FS_CardinalityType
<1> QED
  BY <1>2, <1>4

----------------------------------------------------------------------------
(* The theorems *)

\* The caches never exceed their cap, and a client never asks for what it has not been told.
THEOREM StreamTypeCorrect == Spec => []TypeOK
<1>1. DInv => TypeOK
  BY DEF DInv
<1> QED
  BY <1>1, AlwaysDInv, PTL

\* A client that always comes to the same instance receives rising numbers, whatever breaks
\* and is lost, unless a live event passed a replay or a replay came from Redis.
THEOREM OneInstanceKeepsOrder == Spec => []SameInstanceInOrder
<1> HIDE DEF Numbers, Told
<1>1. DInv => SameInstanceInOrder
  <2> SUFFICES ASSUME DInv, Cardinality(visited) <= 1, ~fetched, ~overtaken,
                      NEW k \in 1..(Len(Told) - 1)
               PROVE  Told[k + 1] > Told[k]
    BY DEF SameInstanceInOrder
  <2>1. TypeOK /\ Staged /\ SameOnward
    BY DEF DInv
  <2>2. NumbersFollow /\ IsFiniteSet(visited)
    BY <2>1, NumbersTyped DEF Staged
  <2>3. Onward
    BY <2>1, <2>2, AtMostOne DEF OneInstance, SameOnward
  <2>4. CASE k \in 1..(Len(got) - 1) /\ Told[k] = got[k] /\ Told[k + 1] = got[k + 1]
    <3>1. Len(got) \in Nat /\ \A i \in 1..Len(got) : got[i] \in Nat
      BY <2>1, PipeTyped
    <3>2. k \in 1..Len(got) /\ k + 1 \in 1..Len(got) /\ k < k + 1
      BY <2>4, <3>1
    <3>3. got[k] < got[k + 1]
      BY <2>3, <3>2 DEF Onward, Rising
    <3> QED
      BY <2>4, <3>1, <3>2, <3>3
  <2>5. CASE got # <<>> /\ Numbers # <<>> /\ Told[k] = Final(got) /\ Told[k + 1] = Numbers[1]
    <3>1. last \in Nat /\ last = Final(got)
      BY <2>1, <2>3, <2>5, PipeTyped DEF Onward
    <3>2. 1 \in 1..Len(Numbers) /\ Numbers[1] \in Nat
      BY <2>2, <2>5, EmptySeq DEF NumbersFollow
    <3>3. last < Numbers[1]
      BY <2>3, <3>2 DEF Onward
    <3> QED
      BY <2>5, <3>1, <3>2, <3>3
  <2>6. ASSUME NEW j \in 1..(Len(Numbers) - 1),
               Told[k] = Numbers[j], Told[k + 1] = Numbers[j + 1],
               Numbers[j] \in Nat, Numbers[j + 1] \in Nat
        PROVE  Told[k + 1] > Told[k]
    <3>1. Len(Numbers) \in Nat
      BY <2>2 DEF NumbersFollow
    <3>2. Numbers[j] < Numbers[j + 1]
      BY <2>3, <3>1 DEF Onward, Rising
    <3> QED
      BY <2>6, <3>2
  <2> QED
    BY <2>1, <2>2, <2>4, <2>5, <2>6, ToldSteps
<1> QED
  BY <1>1, AlwaysDInv, PTL

\* While the executing instance has dropped nothing, a client that was only ever connected to
\* it receives every event after its first one, once and in order, over any number of broken
\* connections.
THEOREM NothingIsSkippedOrRepeated == Spec => []OnceAndInOrder
<1> HIDE DEF Numbers, Told
<1>1. DInv => OnceAndInOrder
  <2> SUFFICES ASSUME DInv, Complete, NEW k \in 1..(Len(Told) - 1)
               PROVE  Told[k + 1] = Told[k] + 1
    BY DEF OnceAndInOrder
  <2>1. TypeOK
    BY DEF DInv
  <2>2. Seamless /\ Onward /\ NumbersFollow
    BY CompleteClient DEF DInv
  <2>3. CASE k \in 1..(Len(got) - 1) /\ Told[k] = got[k] /\ Told[k + 1] = got[k + 1]
    BY <2>2, <2>3 DEF Seamless, Steady
  <2>4. CASE got # <<>> /\ Numbers # <<>> /\ Told[k] = Final(got) /\ Told[k + 1] = Numbers[1]
    BY <2>2, <2>4 DEF Seamless, Onward
  <2>5. ASSUME NEW j \in 1..(Len(Numbers) - 1), Told[k] = Numbers[j], Told[k + 1] = Numbers[j + 1]
        PROVE  Told[k + 1] = Told[k] + 1
    BY <2>2, <2>5 DEF Seamless, Steady
  <2> QED
    BY <2>1, <2>2, <2>3, <2>4, <2>5, ToldSteps
<1> QED
  BY <1>1, AlwaysDInv, PTL

\* The last number such a client holds or has on its stream is the last one emitted: nothing
\* lies behind its lastEventId that a replay would not bring.
THEOREM LiveStreamIsUpToDate == Spec => []NothingIsBehind
<1> HIDE DEF Numbers, Told
<1>1. DInv => NothingIsBehind
  <2> SUFFICES ASSUME DInv, Complete, stage = "live", Len(Told) > 0
               PROVE  Told[Len(Told)] = emitted
    BY DEF NothingIsBehind
  <2>1. TypeOK
    BY DEF DInv
  <2>2. Seamless /\ Onward /\ NumbersFollow
    BY CompleteClient DEF DInv
  <2>3. /\ Len(Told) = Len(got) + Len(Numbers) /\ Len(got) \in Nat /\ Len(Numbers) \in Nat
        /\ \A k \in 1..Len(got) : Told[k] = got[k]
        /\ \A k \in 1..Len(Numbers) : Told[Len(got) + k] = Numbers[k]
    BY <2>1, <2>2, ToldJoins
  <2>4. CASE Numbers = <<>>
    <3>1. Len(Numbers) = 0
      BY <2>4, EmptySeq
    <3>2. Len(got) \in 1..Len(got) /\ got # <<>> /\ Len(Told) = Len(got)
      BY <2>3, <3>1, EmptySeq
    <3> QED
      BY <2>2, <2>3, <2>4, <3>2 DEF Seamless, Onward, Final
  <2>5. CASE Numbers # <<>>
    <3>1. Len(Numbers) \in 1..Len(Numbers)
      BY <2>2, <2>3, <2>5, EmptySeq DEF NumbersFollow
    <3> QED
      BY <2>2, <2>3, <2>5, <3>1 DEF Seamless, Final
  <2> QED
    BY <2>4, <2>5
<1> QED
  BY <1>1, AlwaysDInv, PTL
=============================================================================
