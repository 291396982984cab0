------------------------ MODULE TaskSubmissionProofs ------------------------
(***************************************************************************)
(* Proofs about TaskSubmission for every number of submissions, keys and   *)
(* counters, every limit and every combination of faults.                  *)
(***************************************************************************)
EXTENDS TaskSubmission, FiniteSetTheorems, TLAPS

USE SubmissionAssumption
USE DEF vars, clientVars, dbVars, Submitting, Releasing, Rest, Places

\* Every variable but the two functions an action updates keeps its type.
LEMMA SubmitType == ASSUME TypeOK, NEW s \in Submissions, Submit(s) PROVE TypeOK'
<1> USE DEF TypeOK, Goes, Fault, ThrowingCalls, Scopes
<1>0. Pending(s) \in EntryValues /\ Completed(s) \in EntryValues /\ Absent \in EntryValues
  BY Zenon DEF EntryValues
<1>1. CASE Claim(s)
  <2>1. entry' \in [Keys -> EntryValues]
    BY <1>0, <1>1 DEF Claim
  <2>2. pc' \in [Submissions -> Places]
    BY <1>1 DEF Claim
  <2>. QED
    BY <1>1, <2>1, <2>2 DEF Claim
<1>2. CASE ClaimFails(s)
  <2>1. entry' \in [Keys -> EntryValues]
    BY <1>0, <1>2 DEF ClaimFails
  <2>2. pc' \in [Submissions -> Places]
    BY <1>2 DEF ClaimFails
  <2>3. faults' \in 0..MaxFaults
    BY <1>2 DEF ClaimFails
  <2>. QED
    BY <1>2, <2>1, <2>2, <2>3 DEF ClaimFails
<1>3. CASE Inspect(s)
  BY <1>3 DEF Inspect
<1>4. ASSUME NEW i \in Scopes, AcquireSlot(s, i) PROVE TypeOK'
  <2>0. uncounted' \in BOOLEAN
    BY <1>4 DEF AcquireSlot
  <2>1. count' \in [SlotKeys -> Nat]
    BY <1>4 DEF AcquireSlot, SetCount, Counted
  <2>2. pc' \in [Submissions -> Places] /\ holding' \in [Submissions -> SUBSET Scopes]
    BY <1>4 DEF AcquireSlot
  <2>. QED
    BY <1>4, <2>0, <2>1, <2>2 DEF AcquireSlot
<1>5. ASSUME NEW i \in Scopes, LimitReached(s, i) PROVE TypeOK'
  BY <1>5 DEF LimitReached
<1>6. ASSUME NEW i \in Scopes, AcquireFails(s, i) PROVE TypeOK'
  <2>1. count' \in [SlotKeys -> Nat]
    BY <1>6 DEF AcquireFails, SetCount, Counted
  <2>2. pc' \in [Submissions -> Places] /\ faults' \in 0..MaxFaults
    BY <1>6 DEF AcquireFails
  <2>. QED
    BY <1>6, <2>1, <2>2 DEF AcquireFails
<1>7. CASE Consume(s)
  BY <1>7 DEF Consume
<1>8. CASE Unaffordable(s)
  BY <1>8 DEF Unaffordable
<1>9. CASE CreateRecord(s)
  BY <1>9 DEF CreateRecord
<1>10. CASE AttachRecordId(s)
  BY <1>10 DEF AttachRecordId
<1>11. CASE CompleteKey(s)
  <2>1. entry' \in [Keys -> EntryValues]
    BY <1>0, <1>11 DEF CompleteKey
  <2>. QED
    BY <1>11, <2>1 DEF CompleteKey
<1>12. CASE StartTask(s)
  BY <1>12 DEF StartTask
<1>13. CASE StartFails(s)
  <2>1. entry' \in [Keys -> EntryValues]
    BY <1>0, <1>13 DEF StartFails
  <2>2. pc' \in [Submissions -> Places] /\ faults' \in 0..MaxFaults
    BY <1>13 DEF StartFails
  <2>3. charge' \in [Submissions -> {"none", "taken", "refunded"}]
    BY <1>13 DEF StartFails
  <2>4. record' \in [Submissions -> {"none", "open", "completed", "closed"}]
    BY <1>13 DEF StartFails
  <2>. QED
    BY <1>13, <2>1, <2>2, <2>3, <2>4 DEF StartFails
<1>14. CASE TaskEnds(s)
  BY <1>14 DEF TaskEnds
<1>15. ASSUME NEW i \in Scopes, ReleaseSlot(s, i) PROVE TypeOK'
  BY <1>15 DEF ReleaseSlot, Less
<1>16. ASSUME NEW i \in Scopes, ReleaseFails(s, i) PROVE TypeOK'
  BY <1>16 DEF ReleaseFails, Less
<1>17. CASE SlotsReleased(s)
  BY <1>17 DEF SlotsReleased
<1>18. CASE ClearPendingKey(s)
  <2>1. entry' \in [Keys -> EntryValues]
    BY <1>0, <1>18 DEF ClearPendingKey
  <2>. QED
    BY <1>18, <2>1 DEF ClearPendingKey
<1>19. CASE ClearFails(s)
  BY <1>19 DEF ClearFails
<1>. QED
  BY <1>1, <1>2, <1>3, <1>4, <1>5, <1>6, <1>7, <1>8, <1>9, <1>10, <1>11, <1>12, <1>13,
     <1>14, <1>15, <1>16, <1>17, <1>18, <1>19, Zenon DEF Submit

LEMMA EnvironmentType == TypeOK /\ Environment => TypeOK'
<1> USE DEF TypeOK, Fault
<1> SUFFICES ASSUME TypeOK, Environment PROVE TypeOK'
  OBVIOUS
<1>1. ASSUME NEW s \in Submissions, Crash(s) PROVE TypeOK'
  BY <1>1 DEF Crash
<1>2. CASE RedisGoesDown
  <2>1. redisUp' \in BOOLEAN
    BY <1>2 DEF RedisGoesDown
  <2>2. faults' \in 0..MaxFaults
    BY <1>2 DEF RedisGoesDown
  <2>. QED
    BY <1>2, <2>1, <2>2 DEF RedisGoesDown
<1>3. CASE RedisComesBack
  BY <1>3 DEF RedisComesBack
<1>4. ASSUME NEW k \in Keys, EntryExpires(k) PROVE TypeOK'
  <2>1. entry' \in [Keys -> EntryValues]
    BY <1>4 DEF EntryExpires, EntryValues
  <2>. QED
    BY <1>4, <2>1 DEF EntryExpires
<1>5. ASSUME NEW k \in SlotKeys, CounterExpires(k) PROVE TypeOK'
  BY <1>5 DEF CounterExpires
<1>. QED
  BY <1>1, <1>2, <1>3, <1>4, <1>5, Zenon DEF Environment

\* Every variable keeps its type, in particular no counter goes negative.
THEOREM SubmissionTypeCorrect == Spec => []TypeOK
<1>1. Init => TypeOK
  <2>. SUFFICES ASSUME Init PROVE TypeOK
    OBVIOUS
  <2>1. entry \in [Keys -> EntryValues]
    BY DEF Init, EntryValues
  <2>2. redisUp \in BOOLEAN /\ uncounted \in BOOLEAN
    BY DEF Init
  <2>3. pc \in [Submissions -> Places] /\ holding \in [Submissions -> SUBSET Scopes]
    BY DEF Init, Places
  <2>. QED
    BY <2>1, <2>2, <2>3 DEF Init, TypeOK
<1>2. TypeOK /\ [Next]_vars => TypeOK'
  <2>1. TypeOK /\ UNCHANGED vars => TypeOK'
    BY DEF TypeOK
  <2>. QED
    BY <2>1, SubmitType, EnvironmentType, Zenon DEF Next
<1>. QED
  BY <1>1, <1>2, PTL DEF Spec

----------------------------------------------------------------------------
(* The counters cover the holders *)

CountInv ==
    ~uncounted =>
        \A k \in SlotKeys : Cardinality(Holders(k)) <= count[k] /\ count[k] <= Limit[k]

LEMMA HoldersFinite ==
  ASSUME NEW k PROVE IsFiniteSet(Holders(k)) /\ Cardinality(Holders(k)) \in Nat
<1>1. Holders(k) \subseteq Submissions
  BY DEF Holders
<1>. QED
  BY <1>1, FS_Subset, FS_CardinalityType

\* Fewer holders and no smaller counters: nothing to show.
LEMMA CountUnchanged ==
  ASSUME TypeOK, TypeOK', CountInv, uncounted' = uncounted, count' = count,
         \A t \in Submissions : holding'[t] \subseteq holding[t]
  PROVE  CountInv'
<1> SUFFICES ASSUME ~uncounted, NEW k \in SlotKeys
             PROVE  Cardinality(Holders(k)') <= count[k] /\ count[k] <= Limit[k]
  BY DEF CountInv
<1>1. Holders(k)' \subseteq Holders(k)
  BY DEF Holders, TypeOK
<1>2. Cardinality(Holders(k)') <= Cardinality(Holders(k)) /\ Cardinality(Holders(k)') \in Nat
  BY <1>1, HoldersFinite, FS_Subset, FS_CardinalityType
<1>3. Cardinality(Holders(k)) <= count[k] /\ count[k] <= Limit[k]
  BY DEF CountInv
<1>. QED
  BY <1>2, <1>3, HoldersFinite DEF TypeOK

\* The counter of scope i is the only one of s that its acquisition touches.
LEMMA CountAcquire ==
  ASSUME TypeOK, TypeOK', CountInv, NEW s \in Submissions, NEW i \in Scopes, AcquireSlot(s, i)
  PROVE  CountInv'
<1> DEFINE own == SlotKeyOf[s][i]
<1> SUFFICES ASSUME ~uncounted', NEW k \in SlotKeys
             PROVE  Cardinality(Holders(k)') <= count'[k] /\ count'[k] <= Limit[k]
  BY DEF CountInv
<1>1. /\ ~uncounted /\ i \notin holding[s] /\ own \in SlotKeys
      /\ holding' = [holding EXCEPT ![s] = @ \cup {i}]
      /\ count[own] < Limit[own] /\ count' = [count EXCEPT ![own] = count[own] + 1]
  BY DEF AcquireSlot, NextScope, SetCount, Counted
<1>2. /\ Cardinality(Holders(k)) <= count[k] /\ count[k] <= Limit[k]
      /\ count[k] \in Nat /\ Limit[k] \in Nat
  BY <1>1 DEF CountInv, TypeOK
<1>3. CASE k = own
  <2>1. Holders(k)' = Holders(k) \cup {s}
    BY <1>1, <1>3 DEF Holders, TypeOK
  <2>2. s \notin Holders(k)
    BY <1>1, <1>3 DEF Holders, TypeOK
  <2>3. Cardinality(Holders(k)') = Cardinality(Holders(k)) + 1
    BY <2>1, <2>2, HoldersFinite, FS_AddElement
  <2>4. count'[k] = count[k] + 1 /\ count[k] < Limit[k]
    BY <1>1, <1>3 DEF TypeOK
  <2>. QED
    BY <1>2, <2>3, <2>4, HoldersFinite
<1>4. CASE k # own
  <2>1. Holders(k)' = Holders(k)
    BY <1>1, <1>4 DEF Holders, TypeOK
  <2>2. count'[k] = count[k]
    BY <1>1, <1>4 DEF TypeOK
  <2>. QED
    BY <1>2, <2>1, <2>2
<1>. QED
  BY <1>3, <1>4

\* A release drops one holder and at most one from the counter.
LEMMA CountRelease ==
  ASSUME TypeOK, TypeOK', CountInv, NEW s \in Submissions, NEW i \in Scopes, i \in holding[s],
         uncounted' = uncounted, holding' = [holding EXCEPT ![s] = @ \ {i}],
         count' \in {count, [count EXCEPT ![SlotKeyOf[s][i]] = Less(@)]}
  PROVE  CountInv'
<1> DEFINE own == SlotKeyOf[s][i]
<1> SUFFICES ASSUME ~uncounted, NEW k \in SlotKeys
             PROVE  Cardinality(Holders(k)') <= count'[k] /\ count'[k] <= Limit[k]
  BY DEF CountInv
<1>1. own \in SlotKeys
  OBVIOUS
<1>2. /\ Cardinality(Holders(k)) <= count[k] /\ count[k] <= Limit[k]
      /\ count[k] \in Nat /\ Limit[k] \in Nat
  BY DEF CountInv, TypeOK
<1>3. CASE k = own
  <2>1. Holders(k)' = Holders(k) \ {s}
    BY <1>3 DEF Holders, TypeOK
  <2>2. s \in Holders(k)
    BY <1>3 DEF Holders, TypeOK
  <2>3. Cardinality(Holders(k)') = Cardinality(Holders(k)) - 1
    BY <2>1, <2>2, HoldersFinite, FS_RemoveElement
  <2>4. count'[k] = count[k] \/ count'[k] = Less(count[k])
    BY <1>3 DEF TypeOK
  <2>5. Cardinality(Holders(k)') \in Nat
    BY <2>1, HoldersFinite, FS_RemoveElement, FS_CardinalityType
  <2>. QED
    BY <1>2, <2>3, <2>4, <2>5, HoldersFinite DEF Less
<1>4. CASE k # own
  <2>1. Holders(k)' = Holders(k)
    BY <1>4 DEF Holders, TypeOK
  <2>2. count'[k] = count[k]
    BY <1>4 DEF TypeOK
  <2>. QED
    BY <1>2, <2>1, <2>2
<1>. QED
  BY <1>3, <1>4

LEMMA CountStep == TypeOK /\ TypeOK' /\ CountInv /\ [Next]_vars => CountInv'
<1> SUFFICES ASSUME TypeOK, TypeOK', CountInv, [Next]_vars PROVE CountInv'
  OBVIOUS
<1>1. ASSUME NEW s \in Submissions, Submit(s) PROVE CountInv'
  <2>1. ASSUME NEW i \in Scopes, AcquireSlot(s, i) PROVE CountInv'
    BY <2>1, CountAcquire
  <2>2. ASSUME NEW i \in Scopes, AcquireFails(s, i) PROVE CountInv'
    <3>1. UNCHANGED <<holding, uncounted>>
      BY <2>2 DEF AcquireFails
    <3>2. \A k \in SlotKeys : Holders(k)' = Holders(k)
      BY <3>1 DEF Holders
    <3>3. ASSUME ~uncounted, NEW k \in SlotKeys
          PROVE  Cardinality(Holders(k)) <= count'[k] /\ count'[k] <= Limit[k]
      <4>1. Cardinality(Holders(k)) <= count[k] /\ count[k] <= Limit[k]
        BY <3>3 DEF CountInv
      <4>2. count'[k] = count[k] \/ (count'[k] = count[k] + 1 /\ count[k] < Limit[k])
        BY <2>2 DEF AcquireFails, SetCount, Counted, TypeOK
      <4>. QED
        BY <4>1, <4>2, HoldersFinite DEF TypeOK
    <3>. QED
      BY <3>1, <3>2, <3>3 DEF CountInv
  <2>3. ASSUME NEW i \in Scopes, ReleaseSlot(s, i) PROVE CountInv'
    BY <2>3, CountRelease DEF ReleaseSlot
  <2>4. ASSUME NEW i \in Scopes, ReleaseFails(s, i) PROVE CountInv'
    BY <2>4, CountRelease DEF ReleaseFails
  <2>5. CASE UNCHANGED <<count, holding, uncounted>>
    BY <2>5, CountUnchanged
  <2>6. \/ UNCHANGED <<count, holding, uncounted>>
        \/ \E i \in Scopes : AcquireSlot(s, i) \/ AcquireFails(s, i)
                             \/ ReleaseSlot(s, i) \/ ReleaseFails(s, i)
    BY <1>1 DEF Submit, Claim, ClaimFails, Inspect, LimitReached, Consume, Unaffordable,
          CreateRecord, AttachRecordId, CompleteKey, StartTask, StartFails, TaskEnds,
          SlotsReleased, ClearPendingKey, ClearFails
  <2>. QED
    BY <2>1, <2>2, <2>3, <2>4, <2>5, <2>6
<1>2. ASSUME NEW s \in Submissions, Crash(s) PROVE CountInv'
  <2>1. \A t \in Submissions : holding'[t] \subseteq holding[t]
    BY <1>2 DEF Crash, TypeOK
  <2>2. UNCHANGED <<count, uncounted>>
    BY <1>2 DEF Crash
  <2>. QED
    BY <2>1, <2>2, CountUnchanged
<1>3. ASSUME NEW k \in SlotKeys, CounterExpires(k) PROVE CountInv'
  BY <1>3 DEF CounterExpires, CountInv
<1>4. CASE UNCHANGED <<count, holding, uncounted>>
  BY <1>4, CountUnchanged
<1>5. \/ UNCHANGED <<count, holding, uncounted>>
      \/ \E s \in Submissions : Submit(s) \/ Crash(s)
      \/ \E k \in SlotKeys : CounterExpires(k)
  BY DEF Next, Environment, RedisGoesDown, RedisComesBack, EntryExpires
<1>. QED
  BY <1>1, <1>2, <1>3, <1>4, <1>5

LEMMA CountInit == Init => CountInv
<1> SUFFICES ASSUME Init, NEW k \in SlotKeys
             PROVE  Cardinality(Holders(k)) <= count[k] /\ count[k] <= Limit[k]
  BY DEF CountInv
<1>1. Holders(k) = {}
  BY DEF Init, Holders
<1>2. Cardinality(Holders(k)) = 0
  BY <1>1, FS_EmptySet
<1>. QED
  BY <1>2 DEF Init

LEMMA CountHolds == Spec => []CountInv
  BY CountInit, CountStep, SubmissionTypeCorrect, PTL DEF Spec

\* As long as every grant went through Redis, no user, skill or provider ever
\* exceeds its limit of admitted tasks: for every number of requests and every
\* sequence of thrown calls, crashes, expired claims and outages.
THEOREM AdmissionBoundHolds == Spec => []AdmissionBound
<1>1. TypeOK /\ CountInv => AdmissionBound
  <2> SUFFICES ASSUME TypeOK, CountInv, ~uncounted, NEW k \in SlotKeys
               PROVE  Cardinality(Holders(k)) <= Limit[k]
    BY DEF AdmissionBound
  <2>1. Cardinality(Holders(k)) <= count[k] /\ count[k] <= Limit[k]
    BY DEF CountInv
  <2>. QED
    BY <2>1, HoldersFinite DEF TypeOK
<1>. QED
  BY <1>1, CountHolds, SubmissionTypeCorrect, PTL

----------------------------------------------------------------------------
(* Claims *)

\* Completing and clearing compare the token, so a claim that expired and was
\* taken over by a later submission is safe from the earlier one.
THEOREM ForeignClaimSurvivesHolds == Spec => ForeignClaimSurvives
<1> DEFINE Mine(s) == {Absent, Pending(s), Completed(s)}
           Kept == \A s \in Submissions :
                     pc'[s] # pc[s] => (entry[KeyOf[s]] \in Mine(s)
                                        \/ entry'[KeyOf[s]] = entry[KeyOf[s]])
<1>1. TypeOK /\ [Next]_vars => Kept
  <2> SUFFICES ASSUME TypeOK, [Next]_vars, NEW s \in Submissions, pc'[s] # pc[s]
               PROVE  entry[KeyOf[s]] \in Mine(s) \/ entry'[KeyOf[s]] = entry[KeyOf[s]]
    OBVIOUS
  <2>1. CASE UNCHANGED entry
    BY <2>1
  <2>2. ASSUME NEW t \in Submissions, Submit(t), entry' # entry
        PROVE  t = s /\ entry[KeyOf[t]] \in {Absent, Pending(t)}
    <3>1. Claim(t) \/ ClaimFails(t) \/ CompleteKey(t) \/ StartFails(t) \/ ClearPendingKey(t)
      BY <2>2 DEF Submit, Inspect, AcquireSlot, LimitReached, AcquireFails, Consume,
            Unaffordable, CreateRecord, AttachRecordId, StartTask, TaskEnds, ReleaseSlot,
            ReleaseFails, SlotsReleased, ClearFails
    <3>2. \E place : pc' = [pc EXCEPT ![t] = place]
      BY <3>1 DEF Claim, ClaimFails, CompleteKey, StartFails, ClearPendingKey, Goes
    <3>3. entry[KeyOf[t]] \in {Absent, Pending(t)}
      BY <2>2, <3>1 DEF Claim, ClaimFails, CompleteKey, StartFails, ClearPendingKey
    <3>. QED
      BY <3>2, <3>3 DEF TypeOK
  <2>3. ASSUME NEW k \in Keys, EntryExpires(k) PROVE FALSE
    BY <2>3 DEF EntryExpires
  <2>4. \/ UNCHANGED entry
        \/ \E t \in Submissions : Submit(t)
        \/ \E k \in Keys : EntryExpires(k)
    BY DEF Next, Environment, Crash, RedisGoesDown, RedisComesBack, CounterExpires
  <2>. QED
    BY <2>1, <2>2, <2>3, <2>4
<1>. QED
  BY <1>1, SubmissionTypeCorrect, PTL DEF Spec, ForeignClaimSurvives

\* Where a submission owns its key as pending, and where as completed.
Owning  == {"acquire", "consume", "create", "attach", "complete", "giveUp", "unwind", "clear"}
Decided == {"sync", "running", "finally", "done"}

ClaimInv ==
    faults = 0 =>
        /\ redisUp = TRUE
        /\ \A s \in Submissions :
            /\ pc[s] \in Owning => entry[KeyOf[s]] = Pending(s)
            /\ pc[s] \in Decided => entry[KeyOf[s]] = Completed(s)
            /\ record[s] # "none" => pc[s] \in {"attach", "complete"} \cup Decided

LEMMA Tokens ==
  ASSUME NEW s, NEW t
  PROVE  /\ Pending(s) = Pending(t) => s = t
         /\ Completed(s) = Completed(t) => s = t
         /\ Pending(s) # Completed(t) /\ Pending(s) # Absent /\ Completed(s) # Absent
  BY DEF Pending, Completed, Absent

\* Without faults a key changes hands only from Absent, and back by its owner.
LEMMA ClaimSubmit ==
  ASSUME TypeOK, TypeOK', ClaimInv, NEW s \in Submissions, Submit(s) PROVE ClaimInv'
<1> SUFFICES ASSUME faults' = 0
             PROVE  /\ redisUp' = TRUE
                    /\ \A t \in Submissions :
                        /\ pc'[t] \in Owning => entry'[KeyOf[t]] = Pending(t)
                        /\ pc'[t] \in Decided => entry'[KeyOf[t]] = Completed(t)
                        /\ record'[t] # "none" => pc'[t] \in {"attach", "complete"} \cup Decided
  BY DEF ClaimInv
<1>1. /\ faults = 0 /\ faults' = faults
      /\ UNCHANGED redisUp
      /\ ~ClaimFails(s) /\ ~StartFails(s) /\ ~ClearFails(s)
      /\ \A i \in Scopes : ~AcquireFails(s, i) /\ ~ReleaseFails(s, i)
  <2>1. faults \in Nat /\ faults' \in {faults, faults + 1}
    BY DEF TypeOK, Submit, Claim, ClaimFails, Inspect, AcquireSlot, LimitReached, AcquireFails,
          Consume, Unaffordable, CreateRecord, AttachRecordId, CompleteKey, StartTask, StartFails,
          TaskEnds, ReleaseSlot, ReleaseFails, SlotsReleased, ClearPendingKey, ClearFails, Fault
  <2>2. faults = 0 /\ redisUp = TRUE
    BY <2>1 DEF ClaimInv
  <2>3. ~ClaimFails(s) /\ ~StartFails(s) /\ ~ClearFails(s)
    BY <2>2 DEF ClaimFails, StartFails, ClearFails, Fault
  <2>4. \A i \in Scopes : ~AcquireFails(s, i) /\ ~ReleaseFails(s, i)
    BY <2>2 DEF AcquireFails, ReleaseFails, Fault
  <2>5. UNCHANGED redisUp
    BY <2>3, <2>4 DEF Submit, Claim, Inspect, AcquireSlot, LimitReached, Consume, Unaffordable,
          CreateRecord, AttachRecordId, CompleteKey, StartTask, TaskEnds, ReleaseSlot,
          SlotsReleased, ClearPendingKey
  <2>. QED
    BY <2>2, <2>3, <2>4, <2>5
<1>2. /\ redisUp = TRUE
      /\ \A t \in Submissions :
          /\ pc[t] \in Owning => entry[KeyOf[t]] = Pending(t)
          /\ pc[t] \in Decided => entry[KeyOf[t]] = Completed(t)
          /\ record[t] # "none" => pc[t] \in {"attach", "complete"} \cup Decided
  BY <1>1 DEF ClaimInv
<1> SUFFICES ASSUME NEW t \in Submissions
             PROVE  /\ pc'[t] \in Owning => entry'[KeyOf[t]] = Pending(t)
                    /\ pc'[t] \in Decided => entry'[KeyOf[t]] = Completed(t)
                    /\ record'[t] # "none" => pc'[t] \in {"attach", "complete"} \cup Decided
  BY <1>1, <1>2
<1> USE DEF Goes, TypeOK, Owning, Decided
<1>3. CASE Claim(s)
  <2>1. \/ /\ entry[KeyOf[s]] = Absent /\ entry' = [entry EXCEPT ![KeyOf[s]] = Pending(s)]
           /\ pc' = [pc EXCEPT ![s] = "acquire"]
        \/ UNCHANGED entry /\ pc' = [pc EXCEPT ![s] = "inspect"]
    BY <1>2, <1>3 DEF Claim
  <2>2. pc[s] = "idle" /\ record' = record
    BY <1>3 DEF Claim
  <2>3. CASE t = s
    <3>1. record'[t] = "none"
      BY <1>2, <2>2, <2>3
    <3>2. pc'[t] = "inspect" \/ (pc'[t] = "acquire" /\ entry'[KeyOf[t]] = Pending(t))
      BY <2>1, <2>3
    <3>. QED
      BY <3>1, <3>2
  <2>4. CASE t # s
    <3>1. pc'[t] = pc[t] /\ record'[t] = record[t]
      BY <2>1, <2>2, <2>4
    <3>2. pc[t] \in Owning \cup Decided => entry'[KeyOf[t]] = entry[KeyOf[t]]
      <4>1. pc[t] \in Owning \cup Decided => entry[KeyOf[t]] # Absent
        BY <1>2, Tokens
      <4>. QED
        BY <2>1, <4>1
    <3>. QED
      BY <1>2, <3>1, <3>2
  <2>. QED
    BY <2>3, <2>4
<1>4. CASE Inspect(s)
  BY <1>2, <1>4 DEF Inspect
<1>5. ASSUME NEW i \in Scopes, AcquireSlot(s, i) \/ LimitReached(s, i)
      PROVE  /\ pc'[t] \in Owning => entry'[KeyOf[t]] = Pending(t)
             /\ pc'[t] \in Decided => entry'[KeyOf[t]] = Completed(t)
             /\ record'[t] # "none" => pc'[t] \in {"attach", "complete"} \cup Decided
  <2>1. /\ pc[s] = "acquire" /\ pc'[s] \in {"acquire", "consume", "giveUp"}
        /\ t # s => pc'[t] = pc[t]
    BY <1>5 DEF AcquireSlot, LimitReached
  <2>2. UNCHANGED <<entry, record>>
    BY <1>5 DEF AcquireSlot, LimitReached
  <2>. QED
    BY <1>2, <2>1, <2>2
<1>6. CASE Consume(s)
  BY <1>2, <1>6 DEF Consume
<1>6a. CASE Unaffordable(s)
  BY <1>2, <1>6a DEF Unaffordable
<1>7. CASE CreateRecord(s)
  <2>1. CASE t = s
    BY <1>2, <1>7, <2>1 DEF CreateRecord
  <2>2. CASE t # s
    BY <1>2, <1>7, <2>2 DEF CreateRecord
  <2>. QED
    BY <2>1, <2>2
<1>7a. CASE AttachRecordId(s)
  BY <1>2, <1>7a DEF AttachRecordId
<1>8. CASE CompleteKey(s)
  BY <1>2, <1>8, Tokens DEF CompleteKey
<1>9. CASE StartTask(s)
  BY <1>2, <1>9 DEF StartTask
<1>9a. CASE TaskEnds(s)
  <2>1. CASE t = s
    BY <1>2, <1>9a, <2>1 DEF TaskEnds
  <2>2. CASE t # s
    BY <1>2, <1>9a, <2>2 DEF TaskEnds
  <2>. QED
    BY <2>1, <2>2
<1>10. ASSUME NEW i \in Scopes, ReleaseSlot(s, i)
       PROVE  /\ pc'[t] \in Owning => entry'[KeyOf[t]] = Pending(t)
              /\ pc'[t] \in Decided => entry'[KeyOf[t]] = Completed(t)
              /\ record'[t] # "none" => pc'[t] \in {"attach", "complete"} \cup Decided
  BY <1>2, <1>10 DEF ReleaseSlot
<1>11. CASE SlotsReleased(s)
  BY <1>2, <1>11 DEF SlotsReleased
<1>12. CASE ClearPendingKey(s)
  BY <1>2, <1>12, Tokens DEF ClearPendingKey
<1>. QED
  BY <1>1, <1>3, <1>4, <1>5, <1>6, <1>6a, <1>7, <1>7a, <1>8, <1>9, <1>9a, <1>10, <1>11, <1>12,
     Zenon DEF Submit

LEMMA ClaimStep == TypeOK /\ TypeOK' /\ ClaimInv /\ [Next]_vars => ClaimInv'
<1> SUFFICES ASSUME TypeOK, TypeOK', ClaimInv, [Next]_vars PROVE ClaimInv'
  OBVIOUS
<1>1. ASSUME NEW s \in Submissions, Submit(s) PROVE ClaimInv'
  BY <1>1, ClaimSubmit
<1>2. CASE UNCHANGED vars
  BY <1>2 DEF ClaimInv
<1>3. CASE Environment
  <2>1. CASE RedisComesBack
    BY <2>1 DEF RedisComesBack, ClaimInv
  <2>2. CASE ~RedisComesBack
    <3>1. faults' = faults + 1
      BY <1>3, <2>2 DEF Environment, Crash, RedisGoesDown, EntryExpires, CounterExpires, Fault
    <3>. QED
      BY <3>1 DEF ClaimInv, TypeOK
  <2>. QED
    BY <2>1, <2>2
<1>. QED
  BY <1>1, <1>2, <1>3 DEF Next

\* Without faults, clicks on the same task create one record and one charge,
\* however many there are and however they interleave.
THEOREM OneTaskPerKeyHolds == Spec => []OneTaskPerKey
<1>1. Init => ClaimInv
  BY DEF Init, ClaimInv, Owning, Decided
<1>2. ClaimInv => OneTaskPerKey
  <2> SUFFICES ASSUME ClaimInv, faults = 0, NEW s \in Submissions, NEW t \in Submissions,
                      KeyOf[s] = KeyOf[t], record[s] # "none", record[t] # "none"
               PROVE  s = t
    BY DEF OneTaskPerKey
  <2>1. entry[KeyOf[s]] = Pending(s) \/ entry[KeyOf[s]] = Completed(s)
    BY DEF ClaimInv, Owning, Decided
  <2>2. entry[KeyOf[t]] = Pending(t) \/ entry[KeyOf[t]] = Completed(t)
    BY DEF ClaimInv, Owning, Decided
  <2>. QED
    BY <2>1, <2>2, Tokens
<1>. QED
  BY <1>1, <1>2, ClaimStep, SubmissionTypeCorrect, PTL DEF Spec

----------------------------------------------------------------------------
(* Exact counters *)

\* A fault is counted, and without one Redis is there.
LEMMA FaultFree ==
  ASSUME TypeOK, ClaimInv, [Next]_vars, faults' = 0
  PROVE  /\ faults = 0 /\ redisUp = TRUE
         /\ \A s \in Submissions, i \in Scopes : ~AcquireFails(s, i) /\ ~ReleaseFails(s, i)
         /\ \A s \in Submissions : ~Crash(s)
         /\ \A k \in SlotKeys : ~CounterExpires(k)
<1>1. faults \in Nat
  BY DEF TypeOK
<1>2. faults' = faults \/ faults' = faults + 1
  BY DEF Next, Environment, Submit, Claim, ClaimFails, Inspect, AcquireSlot, LimitReached,
     AcquireFails, Consume, Unaffordable, CreateRecord, AttachRecordId, CompleteKey, StartTask,
     StartFails, TaskEnds, ReleaseSlot, ReleaseFails, SlotsReleased, ClearPendingKey, ClearFails,
     Crash, RedisGoesDown, RedisComesBack, EntryExpires, CounterExpires, Fault
<1>3. faults = 0
  BY <1>1, <1>2
<1>4. redisUp = TRUE
  BY <1>3 DEF ClaimInv
<1>. QED
  BY <1>3, <1>4 DEF AcquireFails, ReleaseFails, Crash, CounterExpires, Fault

LEMMA ExactAcquire ==
  ASSUME TypeOK, redisUp = TRUE, NEW s \in Submissions, NEW i \in Scopes, AcquireSlot(s, i),
         NEW k \in SlotKeys, count[k] = Cardinality(Holders(k))
  PROVE  count'[k] = Cardinality(Holders(k)')
<1>1. /\ i \notin holding[s] /\ holding' = [holding EXCEPT ![s] = @ \cup {i}]
      /\ count' = [count EXCEPT ![SlotKeyOf[s][i]] = count[SlotKeyOf[s][i]] + 1]
  BY DEF AcquireSlot, NextScope, SetCount, Counted
<1>2. CASE k = SlotKeyOf[s][i]
  <2>1. Holders(k)' = Holders(k) \cup {s} /\ s \notin Holders(k)
    BY <1>1, <1>2 DEF Holders, TypeOK
  <2>2. Cardinality(Holders(k)') = Cardinality(Holders(k)) + 1
    BY <2>1, HoldersFinite, FS_AddElement
  <2>3. count'[k] = count[k] + 1
    BY <1>1, <1>2 DEF TypeOK
  <2>. QED
    BY <2>2, <2>3
<1>3. CASE k # SlotKeyOf[s][i]
  <2>1. Holders(k)' = Holders(k)
    BY <1>1, <1>3 DEF Holders, TypeOK
  <2>2. count'[k] = count[k]
    BY <1>1, <1>3 DEF TypeOK
  <2>. QED
    BY <2>1, <2>2
<1>. QED
  BY <1>2, <1>3

LEMMA ExactRelease ==
  ASSUME TypeOK, redisUp = TRUE, NEW s \in Submissions, NEW i \in Scopes, ReleaseSlot(s, i),
         NEW k \in SlotKeys, count[k] = Cardinality(Holders(k))
  PROVE  count'[k] = Cardinality(Holders(k)')
<1>1. /\ i \in holding[s] /\ holding' = [holding EXCEPT ![s] = @ \ {i}]
      /\ count' = [count EXCEPT ![SlotKeyOf[s][i]] = Less(@)]
  BY DEF ReleaseSlot
<1>2. CASE k = SlotKeyOf[s][i]
  <2>1. Holders(k)' = Holders(k) \ {s} /\ s \in Holders(k)
    BY <1>1, <1>2 DEF Holders, TypeOK
  <2>2. Cardinality(Holders(k)') = Cardinality(Holders(k)) - 1
    BY <2>1, HoldersFinite, FS_RemoveElement
  <2>3. Cardinality(Holders(k)') \in Nat
    BY <2>1, HoldersFinite, FS_RemoveElement, FS_CardinalityType
  <2>4. count'[k] = Less(count[k])
    BY <1>1, <1>2 DEF TypeOK
  <2>5. Cardinality(Holders(k)) \in Nat
    BY HoldersFinite
  <2>. QED
    BY <2>2, <2>3, <2>4, <2>5 DEF Less
<1>3. CASE k # SlotKeyOf[s][i]
  <2>1. Holders(k)' = Holders(k)
    BY <1>1, <1>3 DEF Holders, TypeOK
  <2>2. count'[k] = count[k]
    BY <1>1, <1>3 DEF TypeOK
  <2>. QED
    BY <2>1, <2>2
<1>. QED
  BY <1>2, <1>3

\* Without faults every slot is counted once from its acquisition to its release, on every
\* way out of a submission and of its task, for any number of submissions.
THEOREM SlotsMatchHoldersHolds == Spec => []SlotsMatchHolders
<1>1. Init => SlotsMatchHolders
  <2> SUFFICES ASSUME Init, NEW k \in SlotKeys PROVE count[k] = Cardinality(Holders(k))
    BY DEF SlotsMatchHolders
  <2>1. Holders(k) = {}
    BY DEF Init, Holders
  <2>. QED
    BY <2>1, FS_EmptySet DEF Init
<1>2. TypeOK /\ ClaimInv /\ SlotsMatchHolders /\ [Next]_vars => SlotsMatchHolders'
  <2> SUFFICES ASSUME TypeOK, ClaimInv, SlotsMatchHolders, [Next]_vars, faults' = 0,
                      NEW k \in SlotKeys
               PROVE  count'[k] = Cardinality(Holders(k)')
    BY DEF SlotsMatchHolders
  <2>1. redisUp = TRUE /\ count[k] = Cardinality(Holders(k))
    BY FaultFree DEF SlotsMatchHolders
  <2>2. CASE UNCHANGED <<count, holding>>
    <3>1. Holders(k)' = Holders(k)
      BY <2>2 DEF Holders
    <3>. QED
      BY <2>1, <2>2, <3>1
  <2>3. ASSUME NEW s \in Submissions, NEW i \in Scopes, AcquireSlot(s, i) \/ ReleaseSlot(s, i)
        PROVE  count'[k] = Cardinality(Holders(k)')
    BY <2>1, <2>3, ExactAcquire, ExactRelease
  <2>4. \/ UNCHANGED <<count, holding>>
        \/ \E s \in Submissions, i \in Scopes : \/ AcquireSlot(s, i) \/ ReleaseSlot(s, i)
                                                \/ AcquireFails(s, i) \/ ReleaseFails(s, i)
        \/ \E s \in Submissions : Crash(s)
        \/ \E j \in SlotKeys : CounterExpires(j)
    BY DEF Next, Environment, Submit, Claim, ClaimFails, Inspect, LimitReached, Consume,
       Unaffordable, CreateRecord, AttachRecordId, CompleteKey, StartTask, StartFails, TaskEnds,
       SlotsReleased, ClearPendingKey, ClearFails, RedisGoesDown, RedisComesBack, EntryExpires
  <2>. QED
    BY <2>2, <2>3, <2>4, FaultFree
<1>3. Init => ClaimInv
  BY DEF Init, ClaimInv, Owning, Decided
<1>. QED
  BY <1>1, <1>2, <1>3, ClaimStep, SubmissionTypeCorrect, PTL DEF Spec
=============================================================================
