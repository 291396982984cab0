------------------------- MODULE PointLedgerProofs -------------------------
(***************************************************************************)
(* The ledger for any number of consumptions, refunds, compensations and   *)
(* credits, any amounts and any number of attempts.                        *)
(***************************************************************************)
EXTENDS PointLedger, TLAPS

USE LedgerAssumption DEF Locking, Returns, Writers

----------------------------------------------------------------------------
(* The inductive invariant *)

\* A locking transaction is alone, and so is what it has read.
Alone ==
    \A v, w \in Writers : v # w /\ Excludes(w) => ~Excludes(v) /\ ~Shares(v)

Current ==
    \A w \in Locking : pc[w] \in {"read", "inserted"} =>
        /\ seen[w] = latest.balance
        /\ w \in Consumes => latest.balance >= Amount[w]

Clocked ==
    /\ latest.stamp <= clock
    /\ \A w \in Writers : stamp[w] <= clock
    /\ \A w \in Locking : pc[w] = "inserted" => stamp[w] > latest.stamp

\* No credit starts from less than nothing.
Funded ==
    /\ latest.balance >= 0
    /\ \A w \in Credits : pc[w] \in {"snapshot", "claimed", "inserted"} => seen[w] >= 0

\* Whoever has not failed has an attempt left.
Retrying == \A w \in Locking : pc[w] # "failed" => attempts[w] < MaxAttempts

LInv == TypeOK /\ Retrying /\ Alone /\ Current /\ Clocked /\ Funded

LEMMA InitLInv == Init => LInv
<1> SUFFICES ASSUME Init PROVE LInv
  OBVIOUS
<1>1. TypeOK
  BY DEF Init, TypeOK, Places
<1>2. \A w \in Writers : pc[w] \in {"idle", "ready"}
  BY DEF Init
<1>3. Retrying
  BY DEF Init, Retrying
<1>4. Alone
  BY <1>2 DEF Alone, Excludes
<1>5. Current
  BY <1>2 DEF Current
<1>6. Clocked
  <2>1. latest.stamp <= clock /\ \A w \in Writers : stamp[w] <= clock
    BY DEF Init
  <2> QED
    BY <1>2, <2>1 DEF Clocked
<1>7. Funded
  <2>1. latest.balance >= 0
    BY DEF Init
  <2> QED
    BY <1>2, <2>1 DEF Funded
<1> QED
  BY <1>1, <1>3, <1>4, <1>5, <1>6, <1>7 DEF LInv

LEMMA ChangeIsInteger == \A w \in Writers : Change(w) \in Int
  BY DEF Change

\* One step of one writer keeps the types.
LEMMA TypeStep == TypeOK /\ Retrying /\ [Next]_vars => TypeOK'
<1> SUFFICES ASSUME TypeOK, Retrying, [Next]_vars PROVE TypeOK'
  OBVIOUS
<1> USE DEF TypeOK, Places
<1>1. ASSUME NEW w \in Writers, LockUser(w) PROVE TypeOK'
  BY <1>1 DEF LockUser, Goes
<1>2. ASSUME NEW w \in Writers, ReadBalance(w) PROVE TypeOK'
  BY <1>2 DEF ReadBalance, Goes
<1>3. ASSUME NEW w \in Writers, Refuse(w) PROVE TypeOK'
  BY <1>3 DEF Refuse, Goes
<1>4. ASSUME NEW w \in Writers, TakeSnapshot(w) PROVE TypeOK'
  BY <1>4 DEF TakeSnapshot, Goes
<1>5. ASSUME NEW w \in Writers, Claim(w) PROVE TypeOK'
  BY <1>5 DEF Claim, Goes
<1>6. ASSUME NEW w \in Writers, AppendPointLog(w) PROVE TypeOK'
  BY <1>6 DEF AppendPointLog, Goes
<1>7. ASSUME NEW w \in Writers, Commit(w) PROVE TypeOK'
  BY <1>7, ChangeIsInteger DEF Commit, Goes
<1>8. ASSUME NEW w \in Writers, Abort(w) PROVE TypeOK'
  <2>1. attempts' \in [Locking -> 0..MaxAttempts]
    BY <1>8 DEF Abort, Retrying
  <2> QED
    BY <1>8, <2>1 DEF Abort
<1>9. ASSUME NEW w \in Writers, Fail(w) PROVE TypeOK'
  BY <1>9 DEF Fail
<1>10. ASSUME NEW w \in Writers, StartRefund(w) PROVE TypeOK'
  BY <1>10 DEF StartRefund, Goes
<1>11. ASSUME NEW w \in Writers, ReadRefunds(w) PROVE TypeOK'
  BY <1>11 DEF ReadRefunds, Goes
<1>12. ASSUME NEW w \in Writers, ReadStatus(w) PROVE TypeOK'
  BY <1>12 DEF ReadStatus, Goes
<1>13. ASSUME NEW c \in Consumes, Task(c) PROVE TypeOK'
  BY <1>13 DEF Task, RecordCreated, RecordWritten
<1>14. ASSUME UNCHANGED vars PROVE TypeOK'
  BY <1>14 DEF vars
<1> QED
  BY <1>1, <1>2, <1>3, <1>4, <1>5, <1>6, <1>7, <1>8, <1>9, <1>10, <1>11, <1>12, <1>13, <1>14
  DEF Next, Transaction

LEMMA RetryingStep == TypeOK /\ Retrying /\ [Next]_vars => Retrying'
<1> SUFFICES ASSUME TypeOK, Retrying, [Next]_vars PROVE Retrying'
  OBVIOUS
<1> USE DEF TypeOK, Retrying
<1>1. ASSUME NEW w \in Writers, Abort(w) PROVE Retrying'
  BY <1>1 DEF Abort
<1>2. ASSUME UNCHANGED attempts,
             \A w \in Locking : pc[w] = "failed" => pc'[w] = "failed"
      PROVE Retrying'
  BY <1>2
<1>3. ASSUME NEW w \in Writers, Transaction(w), ~Abort(w) PROVE Retrying'
  <2>1. UNCHANGED attempts
    BY <1>3 DEF Transaction, LockUser, ReadBalance, Refuse, TakeSnapshot, Claim,
                AppendPointLog, Commit, Fail, StartRefund, ReadRefunds, ReadStatus
  <2>2. pc[w] # "failed"
    BY <1>3 DEF Transaction, LockUser, ReadBalance, Refuse, TakeSnapshot, Claim,
                AppendPointLog, Commit, Fail, StartRefund, ReadRefunds, ReadStatus, Goes
  <2>3. \A v \in Writers \ {w} : pc'[v] = pc[v]
    BY <1>3 DEF Transaction, LockUser, ReadBalance, Refuse, TakeSnapshot, Claim,
                AppendPointLog, Commit, Fail, StartRefund, ReadRefunds, ReadStatus, Goes
  <2> QED
    BY <1>2, <2>1, <2>2, <2>3
<1>4. ASSUME NEW c \in Consumes, Task(c) PROVE Retrying'
  BY <1>4 DEF Task, RecordCreated, RecordWritten
<1>5. ASSUME UNCHANGED vars PROVE Retrying'
  BY <1>5 DEF vars
<1> QED
  BY <1>1, <1>3, <1>4, <1>5 DEF Next

----------------------------------------------------------------------------
(* Steps that move no money *)

Busy == {"snapshot", "claimed", "locked", "read", "inserted", "committed"}

\* A writer gives up, is asked to start, or a record is written.
Quiet ==
    /\ UNCHANGED <<seen, stamp, clock, latest>>
    /\ \A v \in Writers : pc'[v] = pc[v] \/ (pc'[v] \notin Busy /\ pc[v] # "committed")

LEMMA StepKinds ==
    ASSUME TypeOK, [Next]_vars
    PROVE  \/ Quiet
           \/ \E w \in Writers : \/ LockUser(w) \/ ReadBalance(w) \/ TakeSnapshot(w)
                                \/ Claim(w) \/ AppendPointLog(w) \/ Commit(w)
<1>1. ASSUME NEW w \in Writers,
             Refuse(w) \/ Abort(w) \/ Fail(w) \/ StartRefund(w) \/ ReadRefunds(w) \/ ReadStatus(w)
      PROVE Quiet
  <2>1. UNCHANGED <<seen, stamp, clock, latest>>
    BY <1>1 DEF Refuse, Abort, Fail, StartRefund, ReadRefunds, ReadStatus
  <2>2. \A v \in Writers \ {w} : pc'[v] = pc[v]
    BY <1>1 DEF TypeOK, Refuse, Abort, Fail, StartRefund, ReadRefunds, ReadStatus, Goes
  <2>3. pc'[w] \notin Busy /\ pc[w] # "committed"
    BY <1>1 DEF TypeOK, Refuse, Abort, Fail, StartRefund, ReadRefunds, ReadStatus, Goes, Busy
  <2> QED
    BY <2>1, <2>2, <2>3 DEF Quiet
<1>2. ASSUME NEW c \in Consumes, Task(c) PROVE Quiet
  BY <1>2 DEF Task, RecordCreated, RecordWritten, Quiet
<1>3. ASSUME UNCHANGED vars PROVE Quiet
  BY <1>3 DEF vars, Quiet
<1> QED
  BY <1>1, <1>2, <1>3 DEF Next, Transaction

LEMMA QuietStep ==
    ASSUME LInv, Quiet
    PROVE  Alone' /\ Current' /\ Clocked' /\ Funded'
<1> USE DEF LInv, TypeOK, Quiet, Busy
<1>1. Alone'
  BY DEF Alone, Excludes, Shares
<1>2. Current'
  BY DEF Current
<1>3. Clocked'
  BY DEF Clocked
<1>4. Funded'
  BY DEF Funded
<1> QED
  BY <1>1, <1>2, <1>3, <1>4

----------------------------------------------------------------------------
(* Steps of a transaction *)

LEMMA AloneStep ==
    ASSUME LInv, NEW w \in Writers,
           \/ LockUser(w) \/ ReadBalance(w) \/ TakeSnapshot(w)
           \/ Claim(w) \/ AppendPointLog(w) \/ Commit(w)
    PROVE  Alone'
<1> USE DEF LInv, TypeOK, Alone, Excludes, Shares
<1>1. CASE LockUser(w)
  BY <1>1 DEF LockUser, Goes
<1>2. CASE ReadBalance(w)
  BY <1>2 DEF ReadBalance, Goes
<1>3. CASE TakeSnapshot(w)
  BY <1>3 DEF TakeSnapshot, Goes
<1>4. CASE Claim(w)
  BY <1>4 DEF Claim, Goes
<1>5. CASE AppendPointLog(w)
  BY <1>5 DEF AppendPointLog, Goes
<1>6. CASE Commit(w)
  BY <1>6 DEF Commit, Goes
<1> QED
  BY <1>1, <1>2, <1>3, <1>4, <1>5, <1>6

LEMMA CommitIsLatest ==
    ASSUME LInv, NEW w \in Locking, Commit(w)
    PROVE  /\ latest'.balance = latest.balance + Change(w)
           /\ latest'.stamp = stamp[w]
  BY DEF LInv, Current, Clocked, Commit, Goes

LEMMA CurrentStep ==
    ASSUME LInv, NEW w \in Writers,
           \/ LockUser(w) \/ ReadBalance(w) \/ TakeSnapshot(w)
           \/ Claim(w) \/ AppendPointLog(w) \/ Commit(w)
    PROVE  Current'
<1> USE DEF LInv, TypeOK, Current
<1>1. CASE LockUser(w)
  BY <1>1 DEF LockUser, Goes
<1>2. CASE ReadBalance(w)
  BY <1>2 DEF ReadBalance, Goes
<1>3. CASE TakeSnapshot(w)
  BY <1>3 DEF TakeSnapshot, Goes
<1>4. CASE Claim(w)
  BY <1>4 DEF Claim, Goes
<1>5. CASE AppendPointLog(w)
  BY <1>5 DEF AppendPointLog, Goes
\* Nobody else reads while the row is committed.
<1>6. CASE Commit(w)
  <2>1. \A v \in Locking : v # w => pc[v] \notin {"read", "inserted"}
    BY <1>6 DEF Commit, Goes, Alone, Excludes, Shares
  <2>2. \A v \in Locking : pc'[v] \notin {"read", "inserted"}
    BY <1>6, <2>1 DEF Commit, Goes
  <2> QED
    BY <2>2
<1> QED
  BY <1>1, <1>2, <1>3, <1>4, <1>5, <1>6

LEMMA ClockedStep ==
    ASSUME LInv, NEW w \in Writers,
           \/ LockUser(w) \/ ReadBalance(w) \/ TakeSnapshot(w)
           \/ Claim(w) \/ AppendPointLog(w) \/ Commit(w)
    PROVE  Clocked'
<1> USE DEF LInv, TypeOK, Clocked
<1>1. CASE LockUser(w)
  BY <1>1 DEF LockUser, Goes
<1>2. CASE ReadBalance(w)
  BY <1>2 DEF ReadBalance, Goes
<1>3. CASE TakeSnapshot(w)
  BY <1>3 DEF TakeSnapshot, Goes
<1>4. CASE Claim(w)
  BY <1>4 DEF Claim, Goes
<1>5. CASE AppendPointLog(w)
  BY <1>5 DEF AppendPointLog, Goes
<1>6. CASE Commit(w)
  <2>1. \A v \in Locking : v # w => pc[v] # "inserted"
    BY <1>6 DEF Commit, Goes, Alone, Excludes, Shares
  <2>2. \A v \in Locking : pc'[v] # "inserted"
    BY <1>6, <2>1 DEF Commit, Goes
  <2>3. latest'.stamp <= clock' /\ \A v \in Writers : stamp'[v] <= clock'
    BY <1>6 DEF Commit
  <2> QED
    BY <2>2, <2>3
<1> QED
  BY <1>1, <1>2, <1>3, <1>4, <1>5, <1>6

LEMMA FundedStep ==
    ASSUME LInv, NEW w \in Writers,
           \/ LockUser(w) \/ ReadBalance(w) \/ TakeSnapshot(w)
           \/ Claim(w) \/ AppendPointLog(w) \/ Commit(w)
    PROVE  Funded'
<1> USE DEF LInv, TypeOK, Funded
<1>1. CASE LockUser(w)
  BY <1>1 DEF LockUser, Goes
<1>2. CASE ReadBalance(w)
  BY <1>2 DEF ReadBalance, Goes
<1>3. CASE TakeSnapshot(w)
  BY <1>3 DEF TakeSnapshot, Goes
<1>4. CASE Claim(w)
  BY <1>4 DEF Claim, Goes
<1>5. CASE AppendPointLog(w)
  BY <1>5 DEF AppendPointLog, Goes
<1>6. CASE Commit(w)
  <2>1. pc[w] = "inserted" /\ pc' = [pc EXCEPT ![w] = "committed"] /\ seen' = seen
    BY <1>6 DEF Commit, Goes
  <2>2. seen[w] + Change(w) >= 0
    <3>1. CASE w \in Consumes
      BY <2>1, <3>1 DEF Current, Change
    <3>2. CASE w \in Returns
      BY <2>1, <3>2 DEF Current, Change
    <3>3. CASE w \in Credits
      BY <2>1, <3>3 DEF Change
    <3> QED
      BY <3>1, <3>2, <3>3
  <2>3. latest'.balance >= 0
    BY <1>6, <2>2 DEF Commit
  <2> QED
    BY <2>1, <2>3
<1> QED
  BY <1>1, <1>2, <1>3, <1>4, <1>5, <1>6

LEMMA LInvStep == LInv /\ [Next]_vars => LInv'
<1> SUFFICES ASSUME LInv, [Next]_vars PROVE LInv'
  OBVIOUS
<1>1. TypeOK' /\ Retrying'
  BY TypeStep, RetryingStep DEF LInv
<1>2. CASE Quiet
  BY <1>1, <1>2, QuietStep DEF LInv
<1>3. ASSUME NEW w \in Writers,
             \/ LockUser(w) \/ ReadBalance(w) \/ TakeSnapshot(w)
             \/ Claim(w) \/ AppendPointLog(w) \/ Commit(w)
      PROVE LInv'
  BY <1>1, <1>3, AloneStep, CurrentStep, ClockedStep, FundedStep DEF LInv
<1>4. TypeOK
  BY DEF LInv
<1> QED
  BY <1>2, <1>3, <1>4, StepKinds

----------------------------------------------------------------------------
(* Theorems *)

\* The invariant is inductive.
THEOREM LedgerInvariant == Spec => []LInv
  BY InitLInv, LInvStep, PTL DEF Spec

\* The types are kept: no writer exceeds its attempts.
THEOREM LedgerTypeCorrect == Spec => []TypeOK
<1>1. LInv => TypeOK
  BY DEF LInv
<1> QED
  BY <1>1, LedgerInvariant, PTL

\* The account is never overdrawn, whatever the unlocked writers do.
THEOREM NeverOverdrawnHolds == Spec => []NeverOverdrawn
<1>1. LInv => NeverOverdrawn
  BY DEF LInv, Funded, NeverOverdrawn
<1> QED
  BY <1>1, LedgerInvariant, PTL

\* Every committed consumption or refund changes the visible balance by its
\* own amount, whatever the unlocked writers do.
THEOREM LockedRowsAreExactHolds == Spec => LockedRowsAreExact
<1> DEFINE Exact == \A w \in Locking : pc[w] # "committed" /\ pc'[w] = "committed" =>
                        latest'.balance = latest.balance + Change(w)
<1>1. ASSUME LInv, [Next]_vars PROVE [Exact]_vars
  <2> SUFFICES ASSUME NEW w \in Locking, pc[w] # "committed", pc'[w] = "committed"
               PROVE  latest'.balance = latest.balance + Change(w)
    OBVIOUS
  <2>1. TypeOK
    BY <1>1 DEF LInv
  <2>2. ~Quiet
    BY DEF Quiet, Busy
  <2>3. PICK v \in Writers : \/ LockUser(v) \/ ReadBalance(v) \/ TakeSnapshot(v)
                            \/ Claim(v) \/ AppendPointLog(v) \/ Commit(v)
    BY <1>1, <2>1, <2>2, StepKinds
  <2>4. Commit(v) /\ v = w
    BY <2>1, <2>3 DEF TypeOK, LockUser, ReadBalance, TakeSnapshot, Claim, AppendPointLog,
                      Commit, Goes
  <2> QED
    BY <1>1, <2>4, CommitIsLatest
<1> QED
  BY <1>1, LedgerInvariant, PTL DEF Spec, LockedRowsAreExact

\* At most one credit of a source is past its claim.
OneClaim ==
    \A v, w \in Credits :
        /\ v # w /\ SourceOf[v] = SourceOf[w]
        /\ pc[v] \in {"claimed", "inserted", "committed"}
        => pc[w] \notin {"claimed", "inserted", "committed"}

\* A day, a card or an order is credited once: the unique index of the claim
\* decides, not the SELECT before it.
THEOREM CreditedOnceHolds == Spec => []CreditedOnce
<1>1. Init => OneClaim
  BY DEF Init, OneClaim
<1>2. TypeOK /\ OneClaim /\ [Next]_vars => OneClaim'
  <2> SUFFICES ASSUME TypeOK, OneClaim, [Next]_vars PROVE OneClaim'
    OBVIOUS
  <2> USE DEF TypeOK, OneClaim
  <2>1. CASE Quiet
    BY <2>1 DEF Quiet, Busy
  <2>2. ASSUME NEW w \in Writers,
               LockUser(w) \/ ReadBalance(w) \/ TakeSnapshot(w)
        PROVE OneClaim'
    BY <2>2 DEF LockUser, ReadBalance, TakeSnapshot, Goes
  <2>3. ASSUME NEW w \in Writers, Claim(w) PROVE OneClaim'
    BY <2>3 DEF Claim, SameSource, Goes
  <2>4. ASSUME NEW w \in Writers, AppendPointLog(w) PROVE OneClaim'
    BY <2>4 DEF AppendPointLog, Goes
  <2>5. ASSUME NEW w \in Writers, Commit(w) PROVE OneClaim'
    BY <2>5 DEF Commit, Goes
  <2> QED
    BY <2>1, <2>2, <2>3, <2>4, <2>5, StepKinds
<1>3. OneClaim => CreditedOnce
  BY DEF OneClaim, CreditedOnce
<1> QED
  BY <1>1, <1>2, <1>3, LedgerTypeCorrect, PTL DEF Spec

----------------------------------------------------------------------------
(* Without unlocked writers the ledger implements PointAccount *)

\* The latest row is the sum of all changes, and a return follows its
\* consumption.
Sound ==
    /\ LedgerIsRunningSum
    /\ \A c \in Consumes : status[c] # "none" => pc[c] = "committed"
    /\ \A r \in Returns : pc[r] # "idle" => pc[Of[r]] = "committed"

LEMMA InitSound == Init => Sound
<1> SUFFICES ASSUME Init PROVE Sound
  OBVIOUS
<1>1. LedgerIsRunningSum
  BY DEF Init, LedgerIsRunningSum
<1>2. \A c \in Consumes : status[c] = "none"
  BY DEF Init
<1>3. \A r \in Returns : pc[r] = "idle"
  BY DEF Init
<1> QED
  BY <1>1, <1>2, <1>3 DEF Sound

LEMMA CommittedStays ==
    ASSUME TypeOK, [Next]_vars
    PROVE  \A w \in Writers : pc[w] = "committed" => pc'[w] = "committed"
<1>1. CASE Quiet
  BY <1>1 DEF Quiet
<1>2. ASSUME NEW w \in Writers,
             \/ LockUser(w) \/ ReadBalance(w) \/ TakeSnapshot(w)
             \/ Claim(w) \/ AppendPointLog(w) \/ Commit(w)
      PROVE \A v \in Writers : pc[v] = "committed" => pc'[v] = "committed"
  BY <1>2 DEF TypeOK, LockUser, ReadBalance, TakeSnapshot, Claim, AppendPointLog, Commit, Goes
<1> QED
  BY <1>1, <1>2, StepKinds

\* Only a commit moves money.
LEMMA MoneyMoves ==
    ASSUME TypeOK, [Next]_vars
    PROVE  \/ \E w \in Writers : Commit(w)
           \/ /\ UNCHANGED <<latest, total>>
              /\ \A w \in Writers : pc'[w] = "committed" <=> pc[w] = "committed"
<1> DEFINE Still == /\ UNCHANGED <<latest, total>>
                    /\ \A w \in Writers : pc'[w] = "committed" <=> pc[w] = "committed"
<1>1. ASSUME NEW w \in Writers, Transaction(w), ~Commit(w) PROVE Still
  <2>1. UNCHANGED <<latest, total>>
    BY <1>1 DEF Transaction, LockUser, ReadBalance, Refuse, TakeSnapshot, Claim,
                AppendPointLog, Abort, Fail, StartRefund, ReadRefunds, ReadStatus
  <2>2. pc'[w] # "committed" /\ pc[w] # "committed"
    BY <1>1 DEF TypeOK, Transaction, LockUser, ReadBalance, Refuse, TakeSnapshot, Claim,
                AppendPointLog, Abort, Fail, StartRefund, ReadRefunds, ReadStatus, Goes
  <2>3. \A v \in Writers \ {w} : pc'[v] = pc[v]
    BY <1>1 DEF TypeOK, Transaction, LockUser, ReadBalance, Refuse, TakeSnapshot, Claim,
                AppendPointLog, Abort, Fail, StartRefund, ReadRefunds, ReadStatus, Goes
  <2> QED
    BY <2>1, <2>2, <2>3
<1>2. ASSUME NEW c \in Consumes, Task(c) PROVE Still
  BY <1>2 DEF Task, RecordCreated, RecordWritten
<1>3. ASSUME UNCHANGED vars PROVE Still
  BY <1>3 DEF vars
<1> QED
  BY <1>1, <1>2, <1>3 DEF Next

LEMMA SoundStep ==
    ASSUME Credits = {}, LInv, Sound, [Next]_vars
    PROVE  Sound'
<1>0. TypeOK
  BY DEF LInv
<1>1. LedgerIsRunningSum'
  <2>1. ASSUME NEW w \in Writers, Commit(w) PROVE LedgerIsRunningSum'
    BY <2>1, CommitIsLatest DEF Sound, LedgerIsRunningSum, Commit
  <2> QED
    BY <1>0, <2>1, MoneyMoves DEF Sound, LedgerIsRunningSum
<1>2. \A c \in Consumes : status'[c] # "none" => pc[c] = "committed"
  <2>1. ASSUME NEW w \in Writers, Transaction(w) PROVE UNCHANGED status
    BY <2>1 DEF Transaction, LockUser, ReadBalance, Refuse, TakeSnapshot, Claim,
                AppendPointLog, Commit, Abort, Fail, StartRefund, ReadRefunds, ReadStatus
  <2>2. ASSUME NEW c \in Consumes, Task(c)
        PROVE  \A d \in Consumes : status'[d] # "none" => pc[d] = "committed"
    BY <1>0, <2>2 DEF TypeOK, Sound, Task, RecordCreated, RecordWritten
  <2> QED
    BY <2>1, <2>2 DEF Next, vars, Sound
<1>3. \A r \in Returns : pc'[r] # "idle" => pc[Of[r]] = "committed"
  <2>1. ASSUME NEW w \in Writers, Transaction(w)
        PROVE  \A r \in Returns : pc'[r] # "idle" => pc[Of[r]] = "committed"
    <3>1. \A v \in Writers \ {w} : pc'[v] = pc[v]
      BY <1>0, <2>1 DEF TypeOK, Transaction, LockUser, ReadBalance, Refuse, TakeSnapshot, Claim,
                  AppendPointLog, Commit, Abort, Fail, StartRefund, ReadRefunds, ReadStatus, Goes
    <3>2. w \in Returns /\ pc[w] = "idle" => pc[Of[w]] = "committed"
      BY <1>0, <2>1 DEF TypeOK, Sound, Transaction, LockUser, ReadBalance, Refuse, TakeSnapshot,
                  Claim, AppendPointLog, Commit, Abort, Fail, StartRefund, ReadRefunds,
                  ReadStatus, Goes
    <3> QED
      BY <3>1, <3>2 DEF Sound
  <2>2. ASSUME UNCHANGED pc
        PROVE  \A r \in Returns : pc'[r] # "idle" => pc[Of[r]] = "committed"
    BY <2>2 DEF Sound
  <2> QED
    BY <2>1, <2>2 DEF Next, Task, RecordCreated, RecordWritten, vars
<1> QED
  BY <1>0, <1>1, <1>2, <1>3, CommittedStays DEF Sound

\* Without unlocked writers the latest row is the sum of all changes.
THEOREM LedgerIsRunningSumHolds ==
    ASSUME Credits = {}
    PROVE  Spec => []LedgerIsRunningSum
<1>1. LInv /\ Sound /\ [Next]_vars => Sound'
  BY SoundStep
<1>2. Sound => LedgerIsRunningSum
  BY DEF Sound
<1> QED
  BY <1>1, <1>2, InitSound, LedgerInvariant, PTL DEF Spec

LEMMA CommitRefines ==
    ASSUME Credits = {}, LInv, Sound, NEW w \in Writers, Commit(w)
    PROVE  Account!Next
<1>1. pc[w] = "inserted" /\ pc' = [pc EXCEPT ![w] = "committed"]
  BY DEF Commit, Goes
<1>2. w \notin Committed /\ Committed' = Committed \cup {w}
  BY <1>1 DEF Committed, LInv, TypeOK
<1>3. latest'.balance = latest.balance + Change(w)
  BY CommitIsLatest
<1>4. CASE w \in Consumes
  <2>1. latest.balance >= Amount[w]
    BY <1>1, <1>4 DEF LInv, Current
  <2>2. latest'.balance = latest.balance - Amount[w]
    BY <1>3, <1>4 DEF Change, LInv, TypeOK
  <2>3. Account!Take(w)
    BY <1>2, <2>1, <2>2 DEF Account!Take
  <2> QED
    BY <1>4, <2>3 DEF Account!Next
<1>5. CASE w \in Returns
  <2>1. Of[w] \in Committed
    BY <1>1, <1>5 DEF Sound, Committed
  <2>2. latest'.balance = latest.balance + Amount[Of[w]]
    BY <1>3, <1>5 DEF Change
  <2>3. Account!GiveBack(w)
    BY <1>2, <2>1, <2>2 DEF Account!GiveBack
  <2> QED
    BY <1>5, <2>3 DEF Account!Next
<1> QED
  BY <1>4, <1>5

\* Consumptions, refunds and compensations, however they interleave and are
\* retried, implement the account.
THEOREM LedgerIsAnAccount ==
    ASSUME Credits = {}
    PROVE  Spec => IsAnAccount
<1>1. Init => Account!Init
  <2>1. Init => \A w \in Writers : pc[w] # "committed"
    BY DEF Init
  <2>2. Init => latest.balance = Opening
    BY DEF Init
  <2>3. Init => Committed = {}
    BY <2>1 DEF Committed
  <2> QED
    BY <2>2, <2>3 DEF Account!Init
<1>2. LInv /\ Sound /\ [Next]_vars => Sound'
  BY SoundStep
<1>3. LInv /\ Sound /\ [Next]_vars => [Account!Next]_<<latest.balance, Committed>>
  <2> SUFFICES ASSUME LInv, Sound, [Next]_vars
               PROVE  [Account!Next]_<<latest.balance, Committed>>
    OBVIOUS
  <2>1. ASSUME NEW w \in Writers, Commit(w) PROVE Account!Next
    BY <2>1, CommitRefines
  <2>2. ASSUME UNCHANGED latest, \A w \in Writers : pc'[w] = "committed" <=> pc[w] = "committed"
        PROVE  UNCHANGED <<latest.balance, Committed>>
    BY <2>2 DEF Committed
  <2>3. TypeOK
    BY DEF LInv
  <2> QED
    BY <2>1, <2>2, <2>3, MoneyMoves
<1> QED
  BY <1>1, <1>2, <1>3, InitSound, LedgerInvariant, PTL DEF Spec, IsAnAccount, Account!Spec
=============================================================================
