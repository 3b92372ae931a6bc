-------------------------- MODULE DataLock_proofs ---------------------------
(* Proofs about DataLock, for every set of callers and every number of     *)
(* calls: accesses never overlap a write, a torn value on a std lock stays *)
(* sealed, and each call keeps the contract of the lock traits.            *)
EXTENDS DataLock, TLAPS

(* A caller is in a call its backend offers, and only a call that may      *)
(* write starts to.                                                        *)
CallsFit ==
    \A t \in Threads :
       /\ pc[t] # "idle" => call[t] \in Calls(kind)
       /\ pc[t] \in {"loaded", "half"} => call[t] \notin ReadCalls

(* No access runs beside a write: whoever is between the two halves of an  *)
(* access still sees, in both halves, what it loaded, unless it writes     *)
(* them itself or an earlier panic tore them.                              *)
StableViews ==
    \A t \in Threads :
       /\ pc[t] \in {"reading", "loaded"} => left = seen[t]
       /\ pc[t] \in {"reading", "loaded", "half"} /\ intact => right = seen[t]

(* The halves agree unless a write is between them or was interrupted      *)
(* there.                                                                  *)
HalvesAgree ==
    /\ intact /\ (\A t \in Threads : pc[t] # "half") => left = right
    /\ \A t \in Threads : pc[t] = "half" => left = seen[t] + 1

(* Only std locks are ever poisoned, and then everyone who is granted the  *)
(* lock is being refused.                                                  *)
PoisonRefuses ==
    poisoned => /\ kind \in StdKinds
                /\ \A t \in Holders : pc[t] = "refuse"

(* A caller is refused only by a poisoned lock.                            *)
RefusedByPoison == \A t \in Threads : pc[t] = "refuse" => poisoned

(* A view is taken by the end of an access, and dropped with the call.     *)
ViewsTaken == \A t \in Threads : (view[t] # NoView) <=> (pc[t] = "done")

IInv ==
    /\ TypeOK /\ CallsFit /\ GuardsFollowCalls /\ HalvesAgree /\ StableViews
    /\ PoisonRefuses /\ RefusedByPoison /\ TornValueIsSealed /\ ViewsTaken

-----------------------------------------------------------------------------

(* The initial states satisfy the inductive invariant: a new lock is free, *)
(* whole and not poisoned.                                                 *)
LEMMA InitIInv == Init => IInv
  <1> SUFFICES ASSUME Init PROVE IInv
      OBVIOUS
  <1> USE NoThreadAssumption, MaxCallsAssumption DEF Init
  <1>1. TypeOK
    <2>1. kind \in MutexKinds \cup RwLockKinds /\ readers \subseteq Threads
          /\ writer \in Threads \cup {NoThread}
        OBVIOUS
    <2>2. poisoned \in BOOLEAN /\ intact \in BOOLEAN
        BY Zenon
    <2>3. left \in Nat /\ right \in Nat /\ budget \in 0..MaxCalls
          /\ seen \in [Threads -> Nat]
        OBVIOUS
    <2>4. pc \in [Threads -> {"idle", "try", "waiting", "granted", "refuse",
                             "inside", "reading", "loaded", "half", "done"}]
        OBVIOUS
    <2>5. call \in [Threads -> {"none"} \cup Calls("std_mutex")
                                       \cup Calls("std_rwlock")]
        OBVIOUS
    <2>6. view \in [Threads -> Nat \cup {NoView, Torn}]
        OBVIOUS
    <2>7. outcome \in [Threads -> {"none", "ok", "dropped", "panicked",
                                "would_block", "poisoned", "cancelled"}]
        OBVIOUS
    <2> QED
        BY <2>1, <2>2, <2>3, <2>4, <2>5, <2>6, <2>7 DEF TypeOK
  <1>2. Holders = {}
      BY DEF Holders
  <1>3. CallsFit /\ HalvesAgree /\ StableViews /\ RefusedByPoison
      BY DEF CallsFit, HalvesAgree, StableViews, RefusedByPoison
  <1>4. GuardsFollowCalls
      BY <1>2 DEF GuardsFollowCalls
  <1>5. PoisonRefuses /\ TornValueIsSealed
      BY Zenon DEF PoisonRefuses, TornValueIsSealed
  <1>6. ViewsTaken
      BY DEF ViewsTaken
  <1> QED
      BY <1>1, <1>3, <1>4, <1>5, <1>6 DEF IInv

(* The steps that do not touch the backend.                                *)
LEMMA ClientStepKeeps ==
    ASSUME IInv, NEW t \in Threads,
           \/ \E c \in Calls(kind) : Call(t, c)
           \/ WouldBlock(t) \/ Resume(t) \/ ReadLeft(t) \/ ReadRight(t)
           \/ Load(t) \/ WriteLeft(t) \/ WriteRight(t) \/ UseGuardAgain(t)
    PROVE  IInv'
  <1> USE NoThreadAssumption, MaxCallsAssumption
      DEF backend, data, Step, End, Shared, Holders, NoView, Torn, IInv, TypeOK,
          CallsFit, GuardsFollowCalls, HalvesAgree, StableViews, PoisonRefuses,
          RefusedByPoison, TornValueIsSealed, ViewsTaken
  <1>1. ASSUME NEW c \in Calls(kind), Call(t, c) PROVE IInv'
      BY <1>1 DEF Call, Calls, MutexKinds, RwLockKinds, TryCalls
  <1>2. CASE WouldBlock(t)
      BY <1>2 DEF WouldBlock
  <1>3. CASE Resume(t)
      BY <1>3 DEF Resume
  <1>4. CASE ReadLeft(t)
      BY <1>4 DEF ReadLeft
  <1>5. CASE ReadRight(t)
      BY <1>5 DEF ReadRight
  <1>6. CASE Load(t)
      BY <1>6 DEF Load
  <1>7. CASE WriteLeft(t)
      BY <1>7 DEF WriteLeft
  <1>8. CASE WriteRight(t)
      BY <1>8 DEF WriteRight
  <1>9. CASE UseGuardAgain(t)
      BY <1>9 DEF UseGuardAgain
  <1> QED
      BY <1>1, <1>2, <1>3, <1>4, <1>5, <1>6, <1>7, <1>8, <1>9

(* The steps that take or give up the backend.                             *)
LEMMA BackendStepKeeps ==
    ASSUME IInv, NEW t \in Threads,
           \/ Acquire(t) \/ HandOver(t) \/ Refuse(t) \/ Cancel(t)
           \/ Return(t) \/ Drop(t) \/ Panic(t)
    PROVE  IInv'
  <1> USE NoThreadAssumption
      DEF data, End, DropGuard, Shared, Holders, NoView, Torn, IInv, TypeOK,
          CallsFit, GuardsFollowCalls, HalvesAgree, StableViews, PoisonRefuses,
          RefusedByPoison, TornValueIsSealed, ViewsTaken
  <1>1. CASE Acquire(t)
      BY <1>1 DEF Acquire, Admits, Grant
  <1>2. CASE Refuse(t)
      BY <1>2 DEF Refuse
  <1>3. CASE Return(t)
      BY <1>3 DEF Return
  <1>4. CASE Drop(t)
      BY <1>4 DEF Drop
  <1>5. CASE Panic(t)
      BY <1>5 DEF Panic
  <1>6. CASE HandOver(t)
      BY <1>6 DEF HandOver, Admits, Grant, TokioKinds, StdKinds
  <1>7. CASE Cancel(t)
      BY <1>7 DEF Cancel, TokioKinds, StdKinds
  <1> QED
      BY <1>1, <1>2, <1>3, <1>4, <1>5, <1>6, <1>7

(* The invariant is inductive.                                             *)
LEMMA NextIInv == IInv /\ [Next]_vars => IInv'
  <1> SUFFICES ASSUME IInv, [Next]_vars PROVE IInv'
      OBVIOUS
  <1>1. CASE Next
      BY <1>1, ClientStepKeeps, BackendStepKeeps DEF Next, Advance
  <1>2. CASE UNCHANGED vars
      BY <1>2 DEF vars, backend, data, client, Shared, Holders, IInv, TypeOK,
          CallsFit, GuardsFollowCalls, HalvesAgree, StableViews, PoisonRefuses,
          RefusedByPoison, TornValueIsSealed, ViewsTaken
  <1> QED
      BY <1>1, <1>2

(* The inductive invariant holds in every state a lock and its callers can *)
(* reach.                                                                  *)
THEOREM Invariance == Spec => []IInv
  <1> QED
      BY InitIInv, NextIInv, PTL DEF Spec

(* Every reachable state is typed: each caller is in a call the traits     *)
(* offer and ends it with an outcome they name.                            *)
THEOREM LockTypeCorrect == Spec => []TypeOK
  <1>1. IInv => TypeOK
      BY DEF IInv
  <1> QED
      BY <1>1, Invariance, PTL

(* After a panic left the value of a std lock half-written, no closure and *)
(* no guard reaches it again.                                              *)
THEOREM TornValueIsSealedHolds == Spec => []TornValueIsSealed
  <1>1. IInv => TornValueIsSealed
      BY DEF IInv
  <1> QED
      BY <1>1, Invariance, PTL

(* Each call past acquisition holds its guard in the mode of the call, and *)
(* refused, cancelled and unwound calls hold none.                         *)
THEOREM GuardsFollowCallsHold == Spec => []GuardsFollowCalls
  <1>1. IInv => GuardsFollowCalls
      BY DEF IInv
  <1> QED
      BY <1>1, Invariance, PTL

-----------------------------------------------------------------------------
(* The refinement. Each step of a caller is a step of the contract or      *)
(* leaves what the contract sees unchanged.                                *)

(* A new lock is a new lock of the contract.                               *)
LEMMA InitRefines == Init => Contract!Init
  <1> SUFFICES ASSUME Init PROVE Contract!Init
      OBVIOUS
  <1>1. (kind \in StdKinds) \in BOOLEAN
      OBVIOUS
  <1>2. poisoned = FALSE /\ intact = TRUE
      BY Zenon DEF Init
  <1>3. right = 0 /\ view = [t \in Threads |-> Contract!None]
      BY DEF Init, NoView, Contract!None
  <1>4. [t \in Threads |-> IF pc[t] = "idle" THEN outcome[t] ELSE "active"]
          = [t \in Threads |-> "none"]
      BY DEF Init
  <1> QED
      BY Zenon, <1>1, <1>2, <1>3, <1>4 DEF Contract!Init

(* Every action of a caller maps to the contract's action of its kind, or  *)
(* to a stutter while it acquires the lock and makes its first stores.     *)
LEMMA StepRefines ==
    ASSUME IInv, NEW t \in Threads,
           Advance(t) \/ (\E c \in Calls(kind) : Call(t, c))
             \/ UseGuardAgain(t) \/ Cancel(t) \/ Panic(t)
    PROVE  [Contract!Next]_(Contract!contractVars)
  <1> USE DEF backend, data, Step, End, DropGuard, Grant, Admits, Shared,
          Holders, NoView, Torn, IInv, TypeOK, CallsFit, GuardsFollowCalls,
          HalvesAgree, StableViews, PoisonRefuses, RefusedByPoison, ViewsTaken,
          Contract!None, Contract!contractVars, Contract!End
  <1>1. ASSUME NEW c \in Calls(kind), Call(t, c) PROVE Contract!Call(t)
      BY <1>1 DEF Call, Contract!Call
  <1>2. CASE Acquire(t)
    <2>1. UNCHANGED Contract!contractVars
      BY <1>2 DEF Acquire
    <2> QED
      BY <2>1
  <1>3. CASE ReadLeft(t)
    <2>1. UNCHANGED Contract!contractVars
      BY <1>3 DEF ReadLeft
    <2> QED
      BY <2>1
  <1>4. CASE Load(t)
    <2>1. UNCHANGED Contract!contractVars
      BY <1>4 DEF Load
    <2> QED
      BY <2>1
  <1>5. CASE WriteLeft(t)
    <2>1. UNCHANGED Contract!contractVars
      BY <1>5 DEF WriteLeft
    <2> QED
      BY <2>1
  <1>6. CASE ReadRight(t)
    <2>1. Contract!Read(t)
      BY <1>6 DEF ReadRight, Contract!Read
    <2> QED
      BY <2>1 DEF Contract!Next
  <1>7. CASE WriteRight(t)
    <2>1. Contract!Write(t)
      BY <1>7 DEF WriteRight, Contract!Write
    <2> QED
      BY <2>1 DEF Contract!Next
  <1>8. CASE UseGuardAgain(t)
    <2>1. Contract!Reuse(t)
      BY <1>8 DEF UseGuardAgain, Contract!Reuse
    <2> QED
      BY <2>1 DEF Contract!Next
  <1>9. CASE Return(t)
    <2>1. Contract!Return(t)
      BY <1>9 DEF Return, Contract!Return
    <2> QED
      BY <2>1 DEF Contract!Next
  <1>10. CASE Drop(t)
    <2>1. Contract!Return(t)
      BY <1>10 DEF Drop, Contract!Return
    <2> QED
      BY <2>1 DEF Contract!Next
  <1>11. CASE Panic(t)
    <2>1. Contract!Panic(t)
      BY <1>11 DEF Panic, Contract!Panic
    <2> QED
      BY <2>1 DEF Contract!Next
  <1>12. CASE Refuse(t)
    <2>1. Contract!Refuse(t)
      BY <1>12 DEF Refuse, Contract!Refuse
    <2> QED
      BY <2>1 DEF Contract!Next
  <1>13. CASE WouldBlock(t)
    <2>1. PICK u \in Threads \ {t} : pc[u] # "idle"
      <3>1. CASE Admits(call[t])
          BY <1>13, <3>1 DEF WouldBlock, Busy
      <3>2. CASE ~Admits(call[t])
        <4>1. Holders # {} /\ Holders \subseteq Threads
            BY <3>2
        <4>2. t \notin Holders /\ \A u \in Holders : pc[u] # "idle"
            BY <1>13 DEF WouldBlock
        <4> QED
            BY Zenon, <4>1, <4>2
      <3> QED
          BY <3>1, <3>2
    <2>2. Contract!WouldBlock(t)
      BY <1>13, <2>1 DEF WouldBlock, Contract!WouldBlock
    <2> QED
      BY <2>2 DEF Contract!Next
  <1>14. CASE Cancel(t)
    <2>1. Contract!Cancelled(t)
      BY <1>14 DEF Cancel, Contract!Cancelled, TokioKinds, StdKinds
    <2> QED
      BY <2>1 DEF Contract!Next
  <1>15. CASE HandOver(t)
    <2>1. UNCHANGED Contract!contractVars
      BY <1>15 DEF HandOver
    <2> QED
      BY <2>1
  <1>16. CASE Resume(t)
    <2>1. UNCHANGED Contract!contractVars
      BY <1>16 DEF Resume
    <2> QED
      BY <2>1
  <1> QED
      BY <1>1, <1>2, <1>3, <1>4, <1>5, <1>6, <1>7, <1>8, <1>9, <1>10, <1>11,
         <1>12, <1>13, <1>14, <1>15, <1>16 DEF Advance, Contract!Next

(* Every lock adapter keeps the contract of the lock traits: accesses are  *)
(* atomic, no update is lost, errors tell the truth and refused or         *)
(* cancelled calls have no effect.                                         *)
THEOREM KeepsLockContractHolds == Spec => KeepsLockContract
  <1>1. IInv /\ [Next]_vars => [Contract!Next]_(Contract!contractVars)
    <2> SUFFICES ASSUME IInv, [Next]_vars
                 PROVE  [Contract!Next]_(Contract!contractVars)
        OBVIOUS
    <2>1. CASE Next
        BY <2>1, StepRefines DEF Next
    <2>2. CASE UNCHANGED vars
        BY <2>2 DEF vars, backend, data, client, Contract!contractVars
    <2> QED
        BY <2>1, <2>2
  <1> QED
      BY <1>1, InitRefines, Invariance, PTL
      DEF Spec, KeepsLockContract, Contract!Spec

=============================================================================
