------------------------- MODULE TokioMonitor_proofs -------------------------
(***************************************************************************)
(* Proofs about TokioMonitor for every finite set of tasks, every          *)
(* assignment of calls to them and every bound: typing, the mutex and its  *)
(* queue, who is eligible for notification, no lost wakeup, and that calls *)
(* keep MonitorContract, with cancellation, panics and timer faults.       *)
(***************************************************************************)
EXTENDS TokioMonitor, WaiterRegistry_proofs

USE TasksAssumption, ItemsAssumption

-----------------------------------------------------------------------------
(* Typing.                                                                 *)

(* The initial state is typed.                                             *)
LEMMA InitTypeOK == Init => TypeOK
<1> USE MaxWaiterIdAssumption, TimeoutsAssumption
<1> SUFFICES ASSUME Init PROVE TypeOK
  OBVIOUS
<1>1. RegistryTypeOK
  BY DEF Init, RegistryInit, RegistryTypeOK
<1>2. /\ owner \in Tasks \cup {NoTask}
      /\ contenders \in Seq(Tasks)
      /\ items \in 0 .. MaxItems
      /\ signalled \in SUBSET WaiterIds
      /\ now \in 0 .. MaxInstant
      /\ chosen \in SUBSET Tasks
      /\ forfeited \in 0 .. MaxItems
  BY DEF Init
<1>3. /\ wakes \in [Tasks -> SUBSET WaiterIds]
      /\ pc \in [Tasks -> Steps]
      /\ op \in [Tasks -> CallKinds \cup {"none"}]
      /\ reg \in [Tasks -> {0} \cup WaiterIds]
      /\ status \in [Tasks -> Statuses]
      /\ result \in [Tasks -> Results]
      /\ timeout \in [Tasks -> Nat]
      /\ deadline \in [Tasks -> Nat]
      /\ timer \in [Tasks -> Futures]
  BY DEF Init, Steps, Statuses, Results, Futures
<1> QED
  BY <1>1, <1>2, <1>3 DEF TypeOK

(* The operations of the mutex keep its queue a queue of tasks.            *)
LEMMA LockTypes ==
  ASSUME owner \in Tasks \cup {NoTask}, contenders \in Seq(Tasks),
         NEW t \in Tasks,
         Ask(t) \/ Unlock \/ Withdraw(t) \/ UNCHANGED lockVars
  PROVE  owner' \in Tasks \cup {NoTask} /\ contenders' \in Seq(Tasks)
<1>1. CASE Ask(t)
  BY <1>1, AppendProperties DEF Ask
<1>2. CASE Unlock
  <2>1. CASE contenders = <<>>
    BY <1>2, <2>1 DEF Unlock
  <2>2. CASE contenders # <<>>
    <3>1. Head(contenders) \in Tasks /\ Tail(contenders) \in Seq(Tasks)
      BY <2>2, HeadTailProperties
    <3> QED
      BY <1>2, <2>2, <3>1 DEF Unlock
  <2> QED
    BY <2>1, <2>2
<1>3. CASE Withdraw(t) /\ owner # t
  <2>1. PICK i \in 1 .. Len(contenders) : contenders' = RemoveAt(contenders, i)
    BY <1>3 DEF Withdraw
  <2>2. owner' = owner
    BY <1>3 DEF Withdraw
  <2> QED
    BY <2>1, <2>2, RemoveAtFacts
<1>4. CASE UNCHANGED lockVars
  BY <1>4 DEF lockVars
<1> QED
  BY <1>1, <1>2, <1>3, <1>4 DEF Withdraw

(* Every step uses the mutex through its operations alone.                 *)
LEMMA LockMoves ==
  ASSUME NEW t \in Tasks, StartCall(t) \/ PollStep(t) \/ Cancel(t) \/ TimerStep(t)
  PROVE  Ask(t) \/ Unlock \/ Withdraw(t) \/ UNCHANGED lockVars
<1> USE DEF Return
<1>1. CASE StartCall(t)
  BY <1>1 DEF StartCall, CallLocking, CallWaitFor, CallWaitDeadline, CallNotify
<1>2. CASE Cancel(t) \/ TimerStep(t)
  BY <1>2 DEF Cancel, CancelLock, CancelWait, TimerStep, TimerFires, TimerFails,
              Complete
<1>3. CASE PollStep(t)
  BY <1>3 DEF PollStep, Acquire, WithWrite, WithWriteNotify, TakeReady,
     EnterWait, EnterTimedWait, ZeroTimeout, ArmFails, DeadlinePending,
     DeadlineExpired, RegisterWaiter, RegisterPanics, ReleaseGuard, PollTimer,
     PollSignal, UnregisterWaiter, Relock, Reacquire, Recheck, WaitFails,
     WaitTimesOut, WaitAgain, ClosurePanics, Unwind, Select, Signal,
     NotifyReturns
<1> QED
  BY <1>1, <1>2, <1>3

(* Every step preserves the types.  Recheck needs that its timer was made. *)
LEMMA TypeOKStep ==
  ASSUME TypeOK, CallState, [Next]_vars
  PROVE  TypeOK'
<1> USE MaxWaiterIdAssumption, CallsAssumption, TimeoutsAssumption
<1> USE DEF TypeOK, RegistryTypeOK, registryVars, taskVars, timerVars,
        historyVars, Steps, Statuses, Results, Futures, Go
<1>0. owner' \in Tasks \cup {NoTask} /\ contenders' \in Seq(Tasks)
  <2>1. CASE Tick \/ UNCHANGED vars
    BY <2>1 DEF Tick, vars, lockVars
  <2>2. CASE \E t \in Tasks :
                StartCall(t) \/ PollStep(t) \/ Cancel(t) \/ TimerStep(t)
    BY <2>2, LockMoves, LockTypes
  <2> QED
    BY <2>1, <2>2 DEF Next
<1>1. CASE Tick
  BY <1>1, <1>0 DEF Tick
<1>2. ASSUME NEW t \in Tasks, CallLocking(t) PROVE TypeOK'
  BY <1>2, <1>0 DEF CallLocking, Begin, CallKinds, WriteCalls, WaitCalls,
     NotifyCalls, NotifyingWrites, TimedCalls
<1>3. ASSUME NEW t \in Tasks, CallWaitFor(t) PROVE TypeOK'
  BY <1>3, <1>0 DEF CallWaitFor, Begin, CallKinds, WriteCalls, WaitCalls,
     NotifyCalls, NotifyingWrites, TimedCalls
<1>4. ASSUME NEW t \in Tasks, CallWaitDeadline(t) PROVE TypeOK'
  BY <1>4, <1>0 DEF CallWaitDeadline, Begin, CallKinds, WriteCalls,
     WaitCalls, NotifyCalls, NotifyingWrites, TimedCalls
<1>5. ASSUME NEW t \in Tasks, CallNotify(t) PROVE TypeOK'
  BY <1>5, <1>0 DEF CallNotify, Begin, CallKinds, NotifyCalls
<1>6. ASSUME NEW t \in Tasks, Acquire(t) PROVE TypeOK'
  BY <1>6, <1>0 DEF Acquire
<1>7. ASSUME NEW t \in Tasks, WithWrite(t) PROVE TypeOK'
  BY <1>7, <1>0 DEF WithWrite, Settle, Return, Finish
<1>8. ASSUME NEW t \in Tasks, WithWriteNotify(t) PROVE TypeOK'
  BY <1>8, <1>0 DEF WithWriteNotify, Settle
<1>9. ASSUME NEW t \in Tasks, TakeReady(t) PROVE TypeOK'
  BY <1>9, <1>0 DEF TakeReady, Settle, Return, Finish
<1>10. ASSUME NEW t \in Tasks, EnterWait(t) PROVE TypeOK'
  BY <1>10, <1>0 DEF EnterWait
<1>11. ASSUME NEW t \in Tasks, EnterTimedWait(t) PROVE TypeOK'
  BY <1>11, <1>0 DEF EnterTimedWait
<1>12. ASSUME NEW t \in Tasks, ZeroTimeout(t) PROVE TypeOK'
  BY <1>12, <1>0 DEF ZeroTimeout, Return, Finish
<1>13. ASSUME NEW t \in Tasks, ArmFails(t) PROVE TypeOK'
  BY <1>13, <1>0 DEF ArmFails, Return, Finish
<1>14. ASSUME NEW t \in Tasks, DeadlinePending(t) PROVE TypeOK'
  BY <1>14, <1>0 DEF DeadlinePending
<1>15. ASSUME NEW t \in Tasks, DeadlineExpired(t) PROVE TypeOK'
  BY <1>15, <1>0 DEF DeadlineExpired, Return, Finish
<1>16. ASSUME NEW t \in Tasks, RegisterWaiter(t) PROVE TypeOK'
  BY <1>16, <1>0 DEF RegisterWaiter, Register, Exhausted, WaiterIds
<1>17. ASSUME NEW t \in Tasks, RegisterPanics(t) PROVE TypeOK'
  BY <1>17, <1>0 DEF RegisterPanics, Unwind, Settle, Return, Finish
<1>18. ASSUME NEW t \in Tasks, ReleaseGuard(t) PROVE TypeOK'
  BY <1>18, <1>0 DEF ReleaseGuard
<1>19. ASSUME NEW t \in Tasks, PollTimer(t) PROVE TypeOK'
  BY <1>19, <1>0 DEF PollTimer
<1>20. ASSUME NEW t \in Tasks, PollSignal(t) PROVE TypeOK'
  BY <1>20, <1>0 DEF PollSignal
<1>21. ASSUME NEW t \in Tasks, UnregisterWaiter(t) PROVE TypeOK'
  BY <1>21, <1>0 DEF UnregisterWaiter, Unregister
<1>22. ASSUME NEW t \in Tasks, Relock(t) PROVE TypeOK'
  BY <1>22, <1>0 DEF Relock
<1>23. ASSUME NEW t \in Tasks, Reacquire(t) PROVE TypeOK'
  BY <1>23, <1>0 DEF Reacquire
<1>24. ASSUME NEW t \in Tasks, Recheck(t) PROVE TypeOK'
  BY <1>24, <1>0 DEF Recheck, CallState, CallStateOf
<1>25. ASSUME NEW t \in Tasks, WaitFails(t) PROVE TypeOK'
  BY <1>25, <1>0 DEF WaitFails, Forfeit, Settle, Return, Finish
<1>26. ASSUME NEW t \in Tasks, WaitTimesOut(t) PROVE TypeOK'
  BY <1>26, <1>0 DEF WaitTimesOut, Settle, Return, Finish
<1>27. ASSUME NEW t \in Tasks, WaitAgain(t) PROVE TypeOK'
  BY <1>27, <1>0 DEF WaitAgain, Settle
<1>28. ASSUME NEW t \in Tasks, ClosurePanics(t) PROVE TypeOK'
  <2>1. PICK n \in 0 .. MaxItems : Unwind(t, n)
    BY <1>28 DEF ClosurePanics, LeftByPanic
  <2>2. forfeited' \in 0 .. MaxItems
    BY <2>1 DEF Unwind, Settle
  <2> QED
    BY <2>1, <2>2, <1>0 DEF Unwind, Settle, Return, Finish
<1>29. ASSUME NEW t \in Tasks, Select(t) PROVE TypeOK'
  BY <1>29, <1>0 DEF Select, TakeAll, TakeOne
<1>30. ASSUME NEW t \in Tasks, Signal(t) PROVE TypeOK'
  BY <1>30, <1>0 DEF Signal, Oldest
<1>31. ASSUME NEW t \in Tasks, NotifyReturns(t) PROVE TypeOK'
  BY <1>31, <1>0 DEF NotifyReturns, Finish
<1>32. ASSUME NEW t \in Tasks, CancelLock(t) PROVE TypeOK'
  BY <1>32, <1>0 DEF CancelLock, Forfeit, Settle, Finish
<1>33. ASSUME NEW t \in Tasks, CancelWait(t) PROVE TypeOK'
  BY <1>33, <1>0 DEF CancelWait, Unregister, Forfeit, Settle, Finish
<1>34. ASSUME NEW t \in Tasks, TimerFires(t) PROVE TypeOK'
  BY <1>34, <1>0 DEF TimerFires, Complete
<1>35. ASSUME NEW t \in Tasks, TimerFails(t) PROVE TypeOK'
  BY <1>35, <1>0 DEF TimerFails, Complete
<1>36. CASE UNCHANGED vars
  BY <1>36, <1>0 DEF vars
<1> QED
  BY <1>1, <1>2, <1>3, <1>4, <1>5, <1>6, <1>7, <1>8, <1>9, <1>10, <1>11,
     <1>12, <1>13, <1>14, <1>15, <1>16, <1>17, <1>18, <1>19, <1>20, <1>21,
     <1>22, <1>23, <1>24, <1>25, <1>26, <1>27, <1>28, <1>29, <1>30, <1>31,
     <1>32, <1>33, <1>34, <1>35, <1>36 DEF Next, StartCall, PollStep,
     Cancel, TimerStep

-----------------------------------------------------------------------------
(* The mutex and its queue.                                                *)

AskingSteps == {"lock", "relock"}

(* Asking for the mutex grants it or queues the task behind the others.    *)
LEMMA AskSlot ==
  ASSUME TypeOK, LockSlot, NEW t \in Tasks, NEW s \in AskingSteps,
         pc[t] \notin HoldingSteps \cup AskingSteps,
         Ask(t), pc' = [pc EXCEPT ![t] = s]
  PROVE  LockSlot'
<1> USE DEF TypeOK, LockSlot, HoldingSteps, AskingSteps
<1>1. CASE owner = NoTask
  BY <1>1 DEF Ask
<1>2. CASE owner # NoTask
  <2>1. owner' = owner /\ contenders' = Append(contenders, t)
    BY <1>2 DEF Ask
  <2>2. /\ contenders' \in Seq(Tasks)
        /\ Len(contenders') = Len(contenders) + 1
        /\ \A i \in 1 .. Len(contenders) : contenders'[i] = contenders[i]
        /\ contenders'[Len(contenders) + 1] = t
    BY <2>1, AppendProperties
  <2>3. \A i \in 1 .. Len(contenders) : contenders[i] # t
    OBVIOUS
  <2>4. owner # t
    OBVIOUS
  <2>5. /\ DOMAIN contenders' = 1 .. Len(contenders) + 1
        /\ DOMAIN contenders = 1 .. Len(contenders)
    BY <2>2
  <2> HIDE DEF TypeOK
  <2>6. pc \in [Tasks -> Steps] /\ owner \in Tasks
    BY <1>2 DEF TypeOK
  <2>7. \A i \in DOMAIN contenders' :
          contenders'[i] # owner /\ pc'[contenders'[i]] \in AskingSteps
    BY <2>2, <2>3, <2>4, <2>5, <2>6
  <2>8. \A i, j \in DOMAIN contenders' : contenders'[i] = contenders'[j] => i = j
    BY <2>2, <2>3, <2>5
  <2>9. ASSUME NEW u \in Tasks, pc'[u] \in AskingSteps
        PROVE  owner = u \/ \E i \in DOMAIN contenders' : contenders'[i] = u
    <3>1. CASE u = t
      BY <3>1, <2>2, <2>5
    <3>2. CASE u # t
      BY <3>2, <2>2, <2>5, <2>6, <2>9
    <3> QED
      BY <3>1, <3>2
  <2> QED
    BY <1>2, <2>1, <2>4, <2>6, <2>7, <2>8, <2>9
<1> QED
  BY <1>1, <1>2

(* Giving the mutex up hands it to the task that asked first.              *)
LEMMA UnlockSlot ==
  ASSUME TypeOK, LockSlot, NEW t \in Tasks,
         NEW s \in Steps \ (HoldingSteps \cup AskingSteps),
         owner = t, Unlock, pc' = [pc EXCEPT ![t] = s]
  PROVE  LockSlot'
<1> USE DEF LockSlot, HoldingSteps, AskingSteps
<1>1. pc \in [Tasks -> Steps] /\ NoTask \notin Tasks
  BY DEF TypeOK
<1>2. CASE contenders = <<>>
  BY <1>1, <1>2 DEF Unlock
<1>3. CASE contenders # <<>>
  <2>1. /\ owner' = Head(contenders) /\ contenders' = Tail(contenders)
        /\ contenders \in Seq(Tasks)
    BY <1>3 DEF Unlock, TypeOK
  <2>2. /\ Head(contenders) = contenders[1] /\ 1 \in 1 .. Len(contenders)
        /\ contenders' \in Seq(Tasks)
        /\ Len(contenders') = Len(contenders) - 1
        /\ \A i \in 1 .. Len(contenders') : contenders'[i] = contenders[i + 1]
    BY <1>3, <2>1, HeadTailProperties
  <2>3. /\ DOMAIN contenders' = 1 .. Len(contenders) - 1
        /\ DOMAIN contenders = 1 .. Len(contenders)
        /\ Len(contenders) \in Nat
    BY <2>1, <2>2
  <2>4. \A i \in DOMAIN contenders : contenders[i] \in Tasks
    BY <2>1, <2>3
  <2>5. \A i \in DOMAIN contenders' :
          /\ contenders'[i] # owner'
          /\ pc'[contenders'[i]] \in AskingSteps
    BY <1>1, <2>1, <2>2, <2>3, <2>4
  <2>6. ASSUME NEW i \in DOMAIN contenders', NEW j \in DOMAIN contenders',
               contenders'[i] = contenders'[j]
        PROVE  i = j
    <3>1. i + 1 \in DOMAIN contenders /\ j + 1 \in DOMAIN contenders
      BY <2>3
    <3>2. contenders[i + 1] = contenders[j + 1]
      BY <2>2, <2>3, <2>6
    <3> QED
      BY <2>3, <3>1, <3>2
  <2>7. ASSUME NEW u \in Tasks, pc'[u] \in AskingSteps
        PROVE  owner' = u \/ \E i \in DOMAIN contenders' : contenders'[i] = u
    <3>1. u # t
      BY <1>1, <2>7
    <3>2. PICK i \in DOMAIN contenders : contenders[i] = u
      BY <1>1, <2>7, <3>1
    <3>3. CASE i = 1
      BY <2>1, <2>2, <3>2, <3>3
    <3>4. CASE i # 1
      <4>1. i - 1 \in DOMAIN contenders' /\ contenders'[i - 1] = u
        BY <2>2, <2>3, <3>2, <3>4
      <4> QED
        BY <4>1
    <3> QED
      BY <3>3, <3>4
  <2>8. owner' \in Tasks /\ pc'[owner'] \in AskingSteps
    BY <1>1, <2>1, <2>2, <2>3, <2>4
  <2>9. \A u \in Tasks : pc'[u] \notin HoldingSteps
    BY <1>1
  <2> QED
    BY <1>1, <2>5, <2>6, <2>7, <2>8, <2>9
<1> QED
  BY <1>2, <1>3

(* A dropped contender leaves the queue, the others keep their turn.       *)
LEMMA WithdrawSlot ==
  ASSUME TypeOK, LockSlot, NEW t \in Tasks, pc[t] \in AskingSteps,
         Withdraw(t), pc' = [pc EXCEPT ![t] = "idle"]
  PROVE  LockSlot'
<1> USE DEF LockSlot, HoldingSteps, AskingSteps
<1>1. pc \in [Tasks -> Steps] /\ NoTask \notin Tasks /\ contenders \in Seq(Tasks)
  BY DEF TypeOK
<1>2. CASE owner = t
  BY <1>2, UnlockSlot DEF Withdraw, Steps
<1>3. CASE owner # t
  <2>1. PICK k \in 1 .. Len(contenders) :
          contenders[k] = t /\ contenders' = RemoveAt(contenders, k)
    BY <1>1, <1>3 DEF Withdraw
  <2>2. owner' = owner
    BY <1>3 DEF Withdraw
  <2>3. /\ contenders' \in Seq(Tasks)
        /\ Len(contenders') = Len(contenders) - 1
        /\ \A i \in 1 .. Len(contenders) - 1 :
              contenders'[i] = contenders[IF i < k THEN i ELSE i + 1]
    <3> HIDE DEF LockSlot, HoldingSteps, AskingSteps
    <3>1. k \in 1 .. Len(contenders) /\ contenders \in Seq(Tasks)
      BY <1>1, <2>1
    <3>2. RemoveAt(contenders, k) \in Seq(Tasks)
      BY <3>1, RemoveAtFacts
    <3>3. Len(RemoveAt(contenders, k)) = Len(contenders) - 1
      BY <3>1, RemoveAtFacts
    <3>4. \A i \in 1 .. Len(contenders) - 1 :
            RemoveAt(contenders, k)[i] = contenders[IF i < k THEN i ELSE i + 1]
      BY <3>1, RemoveAtFacts, Zenon
    <3> QED
      BY <2>1, <3>2, <3>3, <3>4, Zenon
  <2>4. /\ DOMAIN contenders' = 1 .. Len(contenders) - 1
        /\ DOMAIN contenders = 1 .. Len(contenders)
        /\ Len(contenders) \in Nat
    BY <1>1, <2>3
  <2>5. \A i \in DOMAIN contenders :
          contenders[i] \in Tasks /\ (i # k => contenders[i] # t)
    BY <1>1, <2>1, <2>4
  <2>6. ASSUME NEW i \in DOMAIN contenders'
        PROVE  /\ contenders'[i] # owner'
               /\ pc'[contenders'[i]] \in AskingSteps
    <3> DEFINE m == IF i < k THEN i ELSE i + 1
    <3>1. m \in DOMAIN contenders /\ m # k /\ contenders'[i] = contenders[m]
      BY <2>1, <2>3, <2>4
    <3> HIDE DEF m
    <3> QED
      BY <1>1, <2>2, <2>5, <3>1
  <2>7. ASSUME NEW i \in DOMAIN contenders', NEW j \in DOMAIN contenders',
               contenders'[i] = contenders'[j]
        PROVE  i = j
    <3> DEFINE m == IF i < k THEN i ELSE i + 1
               n == IF j < k THEN j ELSE j + 1
    <3>1. m \in DOMAIN contenders /\ n \in DOMAIN contenders
      BY <2>1, <2>4
    <3>2. contenders[m] = contenders[n]
      BY <2>3, <2>4, <2>7
    <3>3. m = n
      <4> HIDE DEF m, n
      <4> QED
        BY <3>1, <3>2
    <3> QED
      BY <2>1, <2>4, <3>3
  <2>8. ASSUME NEW u \in Tasks, pc'[u] \in AskingSteps
        PROVE  owner' = u \/ \E i \in DOMAIN contenders' : contenders'[i] = u
    <3>1. u # t
      BY <1>1, <2>8
    <3>2. CASE owner = u
      BY <2>2, <3>2
    <3>3. CASE owner # u
      <4>1. PICK i \in DOMAIN contenders : contenders[i] = u
        BY <1>1, <2>8, <3>1, <3>3
      <4>2. i # k
        BY <2>1, <3>1, <4>1
      <4>3. CASE i < k
        <5>1. i \in DOMAIN contenders' /\ contenders'[i] = u
          BY <2>1, <2>3, <2>4, <4>1, <4>3
        <5> QED
          BY <5>1
      <4>4. CASE i > k
        <5>1. i - 1 \in DOMAIN contenders' /\ contenders'[i - 1] = u
          BY <2>1, <2>3, <2>4, <4>1, <4>4
        <5> QED
          BY <5>1
      <4> QED
        BY <2>1, <2>4, <4>1, <4>2, <4>3, <4>4
    <3> QED
      BY <3>2, <3>3
  <2>9. owner # NoTask
    BY <1>1, <2>1
  <2>10. \A u \in Tasks : /\ pc'[u] \in HoldingSteps => owner' = u
                          /\ owner' = u => pc'[u] \in HoldingSteps \cup AskingSteps
    BY <1>1, <1>3, <2>2
  <2> QED
    BY <2>2, <2>6, <2>7, <2>8, <2>9, <2>10
<1> QED
  BY <1>2, <1>3

(* Any other step of t leaves the mutex alone and stays on its side of it. *)
LEMMA StaySlot ==
  ASSUME TypeOK, LockSlot, NEW t \in Tasks, NEW s \in Steps,
         UNCHANGED lockVars, pc' = [pc EXCEPT ![t] = s],
         \/ owner = t /\ s \in HoldingSteps
         \/ /\ pc[t] \notin HoldingSteps \cup AskingSteps
            /\ s \notin HoldingSteps \cup AskingSteps
  PROVE  LockSlot'
  BY DEF TypeOK, LockSlot, HoldingSteps, AskingSteps, lockVars

(* Every step uses the mutex as one of the lemmas above says.              *)
LEMMA LockSlotStep ==
  ASSUME TypeOK, LockSlot, [Next]_vars
  PROVE  LockSlot'
<1> USE DEF lockVars, taskVars, Go, HoldingSteps, AskingSteps, Steps
<1>1. CASE Tick
  BY <1>1 DEF Tick, LockSlot
<1>2. ASSUME NEW t \in Tasks, CallLocking(t) PROVE LockSlot'
  BY <1>2, AskSlot DEF CallLocking, Begin
<1>3. ASSUME NEW t \in Tasks, CallWaitFor(t) PROVE LockSlot'
  BY <1>3, AskSlot DEF CallWaitFor, Begin
<1>4. ASSUME NEW t \in Tasks, CallWaitDeadline(t) PROVE LockSlot'
  BY <1>4, AskSlot DEF CallWaitDeadline, Begin
<1>5. ASSUME NEW t \in Tasks, CallNotify(t) PROVE LockSlot'
  BY <1>5, StaySlot DEF LockSlot, CallNotify, Begin
<1>6. ASSUME NEW t \in Tasks, Acquire(t) PROVE LockSlot'
  BY <1>6, StaySlot DEF LockSlot, Acquire
<1>7. ASSUME NEW t \in Tasks, WithWrite(t) PROVE LockSlot'
  BY <1>7, UnlockSlot DEF LockSlot, WithWrite, Return, Finish
<1>8. ASSUME NEW t \in Tasks, WithWriteNotify(t) PROVE LockSlot'
  BY <1>8, UnlockSlot DEF LockSlot, WithWriteNotify
<1>9. ASSUME NEW t \in Tasks, TakeReady(t) PROVE LockSlot'
  BY <1>9, UnlockSlot DEF LockSlot, TakeReady, Return, Finish
<1>10. ASSUME NEW t \in Tasks, EnterWait(t) PROVE LockSlot'
  BY <1>10, StaySlot DEF LockSlot, EnterWait
<1>11. ASSUME NEW t \in Tasks, EnterTimedWait(t) PROVE LockSlot'
  BY <1>11, StaySlot DEF LockSlot, EnterTimedWait
<1>12. ASSUME NEW t \in Tasks, ZeroTimeout(t) PROVE LockSlot'
  BY <1>12, UnlockSlot DEF LockSlot, ZeroTimeout, Return, Finish
<1>13. ASSUME NEW t \in Tasks, ArmFails(t) PROVE LockSlot'
  BY <1>13, UnlockSlot DEF LockSlot, ArmFails, Return, Finish
<1>14. ASSUME NEW t \in Tasks, DeadlinePending(t) PROVE LockSlot'
  BY <1>14, StaySlot DEF LockSlot, DeadlinePending
<1>15. ASSUME NEW t \in Tasks, DeadlineExpired(t) PROVE LockSlot'
  BY <1>15, UnlockSlot DEF LockSlot, DeadlineExpired, Return, Finish
<1>16. ASSUME NEW t \in Tasks, RegisterWaiter(t) PROVE LockSlot'
  BY <1>16, StaySlot DEF LockSlot, RegisterWaiter
<1>17. ASSUME NEW t \in Tasks, RegisterPanics(t) PROVE LockSlot'
  BY <1>17, UnlockSlot DEF LockSlot, RegisterPanics, Unwind, Return, Finish
<1>18. ASSUME NEW t \in Tasks, ReleaseGuard(t) PROVE LockSlot'
  BY <1>18, UnlockSlot DEF LockSlot, ReleaseGuard
<1>19. ASSUME NEW t \in Tasks, PollTimer(t) PROVE LockSlot'
  BY <1>19, StaySlot DEF LockSlot, PollTimer
<1>20. ASSUME NEW t \in Tasks, PollSignal(t) PROVE LockSlot'
  BY <1>20, StaySlot DEF LockSlot, PollSignal
<1>21. ASSUME NEW t \in Tasks, UnregisterWaiter(t) PROVE LockSlot'
  BY <1>21, StaySlot DEF LockSlot, UnregisterWaiter
<1>22. ASSUME NEW t \in Tasks, Relock(t) PROVE LockSlot'
  BY <1>22, AskSlot DEF Relock
<1>23. ASSUME NEW t \in Tasks, Reacquire(t) PROVE LockSlot'
  BY <1>23, StaySlot DEF LockSlot, Reacquire
<1>24. ASSUME NEW t \in Tasks, Recheck(t) PROVE LockSlot'
  BY <1>24, StaySlot DEF LockSlot, Recheck
<1>25. ASSUME NEW t \in Tasks, WaitFails(t) PROVE LockSlot'
  BY <1>25, UnlockSlot DEF LockSlot, WaitFails, Return, Finish
<1>26. ASSUME NEW t \in Tasks, WaitTimesOut(t) PROVE LockSlot'
  BY <1>26, UnlockSlot DEF LockSlot, WaitTimesOut, Return, Finish
<1>27. ASSUME NEW t \in Tasks, WaitAgain(t) PROVE LockSlot'
  BY <1>27, StaySlot DEF LockSlot, WaitAgain
<1>28. ASSUME NEW t \in Tasks, ClosurePanics(t) PROVE LockSlot'
  <2>1. PICK n : Unwind(t, n)
    BY <1>28 DEF ClosurePanics
  <2>2. owner = t
    BY <1>28 DEF ClosurePanics, LockSlot
  <2> QED
    BY <2>1, <2>2, UnlockSlot DEF Unwind, Return, Finish
<1>29. ASSUME NEW t \in Tasks, Select(t) PROVE LockSlot'
  BY <1>29, StaySlot DEF LockSlot, Select
<1>30. ASSUME NEW t \in Tasks, Signal(t) PROVE LockSlot'
  BY <1>30 DEF LockSlot, Signal
<1>31. ASSUME NEW t \in Tasks, NotifyReturns(t) PROVE LockSlot'
  BY <1>31, StaySlot DEF LockSlot, NotifyReturns, Finish
<1>32. ASSUME NEW t \in Tasks, CancelLock(t) PROVE LockSlot'
  BY <1>32, WithdrawSlot DEF CancelLock, Finish
<1>33. ASSUME NEW t \in Tasks, CancelWait(t) PROVE LockSlot'
  BY <1>33, StaySlot DEF LockSlot, CancelWait, Finish
<1>34. ASSUME NEW t \in Tasks, TimerFires(t) PROVE LockSlot'
  BY <1>34 DEF LockSlot, TimerFires, Complete
<1>35. ASSUME NEW t \in Tasks, TimerFails(t) PROVE LockSlot'
  BY <1>35 DEF LockSlot, TimerFails, Complete
<1>36. CASE UNCHANGED vars
  BY <1>36 DEF vars, LockSlot
<1> QED
  BY <1>1, <1>2, <1>3, <1>4, <1>5, <1>6, <1>7, <1>8, <1>9, <1>10, <1>11,
     <1>12, <1>13, <1>14, <1>15, <1>16, <1>17, <1>18, <1>19, <1>20, <1>21,
     <1>22, <1>23, <1>24, <1>25, <1>26, <1>27, <1>28, <1>29, <1>30, <1>31,
     <1>32, <1>33, <1>34, <1>35, <1>36 DEF Next, StartCall, PollStep,
     Cancel, TimerStep

-----------------------------------------------------------------------------
(* The other parts of the invariant.                                       *)

(* What a step of t leaves to the other tasks.                             *)
Frame(t) ==
    \A u \in Tasks \ {t} :
        /\ pc'[u] = pc[u] /\ op'[u] = op[u] /\ reg'[u] = reg[u]
        /\ wakes'[u] = wakes[u]
        /\ status'[u] = status[u] /\ result'[u] = result[u]
        /\ timeout'[u] = timeout[u] /\ deadline'[u] = deadline[u]
        /\ timer'[u] = timer[u]

(* The local variables of a call are its own.                              *)
LEMMA FrameStep ==
  ASSUME TypeOK, NEW t \in Tasks,
         StartCall(t) \/ PollStep(t) \/ Cancel(t) \/ TimerStep(t)
  PROVE  Frame(t)
<1> USE DEF TypeOK, Frame, taskVars, timerVars, Go
<1>1. CASE CallLocking(t)
  BY <1>1 DEF CallLocking, Begin
<1>2. CASE CallWaitFor(t)
  BY <1>2 DEF CallWaitFor, Begin
<1>3. CASE CallWaitDeadline(t)
  BY <1>3 DEF CallWaitDeadline, Begin
<1>4. CASE CallNotify(t)
  BY <1>4 DEF CallNotify, Begin
<1>5. CASE Acquire(t)
  BY <1>5 DEF Acquire
<1>6. CASE WithWrite(t)
  BY <1>6 DEF WithWrite, Return, Finish
<1>7. CASE WithWriteNotify(t)
  BY <1>7 DEF WithWriteNotify
<1>8. CASE TakeReady(t)
  BY <1>8 DEF TakeReady, Return, Finish
<1>9. CASE EnterWait(t)
  BY <1>9 DEF EnterWait
<1>10. CASE EnterTimedWait(t)
  BY <1>10 DEF EnterTimedWait
<1>11. CASE ZeroTimeout(t)
  BY <1>11 DEF ZeroTimeout, Return, Finish
<1>12. CASE ArmFails(t)
  BY <1>12 DEF ArmFails, Return, Finish
<1>13. CASE DeadlinePending(t)
  BY <1>13 DEF DeadlinePending
<1>14. CASE DeadlineExpired(t)
  BY <1>14 DEF DeadlineExpired, Return, Finish
<1>15. CASE RegisterWaiter(t)
  BY <1>15 DEF RegisterWaiter
<1>16. CASE RegisterPanics(t)
  BY <1>16 DEF RegisterPanics, Unwind, Return, Finish
<1>17. CASE ReleaseGuard(t)
  BY <1>17 DEF ReleaseGuard
<1>18. CASE PollTimer(t)
  BY <1>18 DEF PollTimer
<1>19. CASE PollSignal(t)
  BY <1>19 DEF PollSignal
<1>20. CASE UnregisterWaiter(t)
  BY <1>20 DEF UnregisterWaiter
<1>21. CASE Relock(t)
  BY <1>21 DEF Relock
<1>22. CASE Reacquire(t)
  BY <1>22 DEF Reacquire
<1>23. CASE Recheck(t)
  BY <1>23 DEF Recheck
<1>24. CASE WaitFails(t)
  BY <1>24 DEF WaitFails, Return, Finish
<1>25. CASE WaitTimesOut(t)
  BY <1>25 DEF WaitTimesOut, Return, Finish
<1>26. CASE WaitAgain(t)
  BY <1>26 DEF WaitAgain
<1>27. CASE ClosurePanics(t)
  BY <1>27 DEF ClosurePanics, Unwind, Return, Finish
<1>28. CASE Select(t)
  BY <1>28 DEF Select
<1>29. CASE Signal(t)
  BY <1>29 DEF Signal
<1>30. CASE NotifyReturns(t)
  BY <1>30 DEF NotifyReturns, Finish
<1>31. CASE CancelLock(t)
  BY <1>31 DEF CancelLock, Finish
<1>32. CASE CancelWait(t)
  BY <1>32 DEF CancelWait, Finish
<1>33. CASE TimerFires(t)
  BY <1>33 DEF TimerFires, Complete
<1>34. CASE TimerFails(t)
  BY <1>34 DEF TimerFails, Complete
<1> QED
  BY <1>1, <1>2, <1>3, <1>4, <1>5, <1>6, <1>7, <1>8, <1>9, <1>10, <1>11,
     <1>12, <1>13, <1>14, <1>15, <1>16, <1>17, <1>18, <1>19, <1>20, <1>21,
     <1>22, <1>23, <1>24, <1>25, <1>26, <1>27, <1>28, <1>29, <1>30, <1>31,
     <1>32, <1>33, <1>34 DEF StartCall, PollStep, Cancel, TimerStep

(* What a step of t that leaves the registry alone does to Bookkeeping.    *)
Books(t) ==
    /\ UNCHANGED <<next_waiter_id, waiters, reg>>
    /\ pc'[t] \in RegisteredSteps <=> pc[t] \in RegisteredSteps
    /\ pc'[t] # "signal" => wakes'[t] = {}
    /\ chosen' \subseteq chosen
    /\ t \in chosen' => pc'[t] \in {"ask", "relock", "recheck", "check"}
    /\ forfeited' <= items'

(* Four steps touch the registry; all others satisfy Books.                *)
LEMMA EveryStepBooks ==
  ASSUME TypeOK, Bookkeeping, NEW t \in Tasks,
         StartCall(t) \/ PollStep(t) \/ Cancel(t) \/ TimerStep(t),
         ~RegisterWaiter(t), ~UnregisterWaiter(t), ~CancelWait(t), ~Select(t)
  PROVE  Books(t)
<1>0. /\ pc \in [Tasks -> Steps] /\ wakes \in [Tasks -> SUBSET WaiterIds]
      /\ items \in Nat /\ forfeited \in Nat /\ forfeited <= items
      /\ pc[t] # "signal" => wakes[t] = {}
      /\ t \in chosen => pc[t] \in {"ask", "relock", "recheck", "check"}
  BY DEF TypeOK, Bookkeeping
<1> USE DEF RegisteredSteps, Books, registryVars, taskVars, timerVars,
        historyVars, Go
<1>1. CASE CallLocking(t)
  BY <1>1, <1>0 DEF CallLocking, Begin
<1>2. CASE CallWaitFor(t)
  BY <1>2, <1>0 DEF CallWaitFor, Begin
<1>3. CASE CallWaitDeadline(t)
  BY <1>3, <1>0 DEF CallWaitDeadline, Begin
<1>4. CASE CallNotify(t)
  BY <1>4, <1>0 DEF CallNotify, Begin
<1>5. CASE Acquire(t)
  BY <1>5, <1>0 DEF Acquire
<1>6. CASE WithWrite(t)
  BY <1>6, <1>0 DEF WithWrite, Settle, Return, Finish
<1>7. CASE WithWriteNotify(t)
  BY <1>7, <1>0 DEF WithWriteNotify, Settle
<1>8. CASE TakeReady(t)
  BY <1>8, <1>0 DEF TakeReady, Settle, Return, Finish
<1>9. CASE EnterWait(t)
  BY <1>9, <1>0 DEF EnterWait
<1>10. CASE EnterTimedWait(t)
  BY <1>10, <1>0 DEF EnterTimedWait
<1>11. CASE ZeroTimeout(t)
  BY <1>11, <1>0 DEF ZeroTimeout, Return, Finish
<1>12. CASE ArmFails(t)
  BY <1>12, <1>0 DEF ArmFails, Return, Finish
<1>13. CASE DeadlinePending(t)
  BY <1>13, <1>0 DEF DeadlinePending
<1>14. CASE DeadlineExpired(t)
  BY <1>14, <1>0 DEF DeadlineExpired, Return, Finish
<1>15. CASE RegisterPanics(t)
  BY <1>15, <1>0 DEF RegisterPanics, Unwind, Settle, Return, Finish
<1>16. CASE ReleaseGuard(t)
  BY <1>16, <1>0 DEF ReleaseGuard
<1>17. CASE PollTimer(t)
  BY <1>17, <1>0 DEF PollTimer
<1>18. CASE PollSignal(t)
  BY <1>18, <1>0 DEF PollSignal
<1>19. CASE Relock(t)
  BY <1>19, <1>0 DEF Relock
<1>20. CASE Reacquire(t)
  BY <1>20, <1>0 DEF Reacquire
<1>21. CASE Recheck(t)
  BY <1>21, <1>0 DEF Recheck
<1>22. CASE WaitFails(t)
  BY <1>22, <1>0 DEF WaitFails, Forfeit, Settle, Return, Finish
<1>23. CASE WaitTimesOut(t)
  BY <1>23, <1>0 DEF WaitTimesOut, Settle, Return, Finish
<1>24. CASE WaitAgain(t)
  BY <1>24, <1>0 DEF WaitAgain, Settle
<1>25. CASE ClosurePanics(t)
  <2>1. PICK n \in 0 .. MaxItems : Unwind(t, n)
    BY <1>25 DEF ClosurePanics, LeftByPanic
  <2>2. pc[t] \in {"held", "check"}
    BY <1>25 DEF ClosurePanics
  <2>3. forfeited' <= items'
    BY <1>0, <2>1 DEF Unwind, Settle
  <2> QED
    BY <1>0, <2>1, <2>2, <2>3 DEF Unwind, Settle, Return, Finish
<1>26. CASE Signal(t)
  BY <1>26, <1>0 DEF Signal, Oldest
<1>27. CASE NotifyReturns(t)
  BY <1>27, <1>0 DEF NotifyReturns, Finish
<1>28. CASE CancelLock(t)
  BY <1>28, <1>0 DEF CancelLock, Forfeit, Settle, Finish
<1>29. CASE TimerFires(t)
  BY <1>29, <1>0 DEF TimerFires, Complete
<1>30. CASE TimerFails(t)
  BY <1>30, <1>0 DEF TimerFails, Complete
<1> QED
  BY <1>1, <1>2, <1>3, <1>4, <1>5, <1>6, <1>7, <1>8, <1>9, <1>10, <1>11,
     <1>12, <1>13, <1>14, <1>15, <1>16, <1>17, <1>18, <1>19, <1>20, <1>21,
     <1>22, <1>23, <1>24, <1>25, <1>26, <1>27, <1>28, <1>29, <1>30 DEF
     StartCall, PollStep, Cancel, TimerStep

(* Registrations, selections and the count of forfeited items fit the step *)
(* each task has reached.                                                  *)
LEMMA BookkeepingStep ==
  ASSUME TypeOK, Bookkeeping, [Next]_vars
  PROVE  Bookkeeping'
<1>0. /\ next_waiter_id \in Nat /\ reg \in [Tasks -> Nat] /\ 0 \notin waiters
      /\ waiters \subseteq Nat /\ pc \in [Tasks -> Steps]
      /\ wakes \in [Tasks -> SUBSET WaiterIds]
  <2>1. {0} \cup WaiterIds \subseteq Nat /\ 0 \notin WaiterIds
    BY MaxWaiterIdAssumption DEF WaiterIds
  <2> QED
    BY <2>1 DEF TypeOK, RegistryTypeOK
<1>1. CASE Tick \/ UNCHANGED vars
  BY <1>1 DEF Tick, vars, Bookkeeping, registryVars, taskVars, historyVars
<1>2. ASSUME NEW t \in Tasks, Frame(t), Books(t) PROVE Bookkeeping'
  <2> USE DEF Bookkeeping, Books, Frame
  <2>1. /\ \A u \in Tasks : reg'[u] # 0 <=> pc'[u] \in RegisteredSteps
        /\ \A u \in Tasks : pc'[u] # "signal" => wakes'[u] = {}
        /\ \A u \in chosen' : pc'[u] \in {"ask", "relock", "recheck", "check"}
    BY <1>2 DEF TypeOK
  <2>2. /\ \A u \in Tasks : reg'[u] < next_waiter_id'
        /\ \A u, v \in Tasks : reg'[u] # 0 /\ reg'[u] = reg'[v] => u = v
        /\ \A id \in waiters' :
              id < next_waiter_id' /\ \E u \in Tasks : reg'[u] = id
    BY <1>2
  <2> QED
    BY <1>2, <2>1, <2>2
<1>3. ASSUME NEW t \in Tasks, RegisterWaiter(t) PROVE Bookkeeping'
  <2>1. /\ pc' = [pc EXCEPT ![t] = "release"]
        /\ reg' = [reg EXCEPT ![t] = next_waiter_id]
        /\ next_waiter_id' = next_waiter_id + 1
        /\ waiters' = waiters \cup {next_waiter_id}
        /\ UNCHANGED <<wakes, chosen, forfeited, items>>
    BY <1>3 DEF RegisterWaiter, Register, Go, historyVars
  <2>2. pc[t] = "register" /\ reg[t] = 0
    BY <1>0, <1>3 DEF RegisterWaiter, Bookkeeping, RegisteredSteps
  <2>3. \A u \in Tasks : reg'[u] # 0 <=> pc'[u] \in RegisteredSteps
    <3>1. next_waiter_id # 0
      BY DEF TypeOK, RegistryTypeOK
    <3> QED
      BY <1>0, <2>1, <2>2, <3>1 DEF Bookkeeping, RegisteredSteps
  <2>4. \A u, v \in Tasks : reg'[u] # 0 /\ reg'[u] = reg'[v] => u = v
    BY <1>0, <2>1 DEF Bookkeeping
  <2>5. ASSUME NEW id \in waiters'
        PROVE  id < next_waiter_id' /\ \E u \in Tasks : reg'[u] = id
    <3>1. CASE id = next_waiter_id
      BY <1>0, <2>1, <3>1
    <3>2. CASE id \in waiters
      <4>1. PICK u \in Tasks : reg[u] = id /\ id < next_waiter_id
        BY <3>2 DEF Bookkeeping
      <4>2. u # t
        BY <1>0, <2>2, <3>2, <4>1
      <4> QED
        BY <1>0, <2>1, <4>1, <4>2
    <3> QED
      BY <2>1, <3>1, <3>2
  <2>6. \A u \in Tasks : reg'[u] < next_waiter_id'
    BY <1>0, <2>1 DEF Bookkeeping
  <2>7. /\ \A u \in Tasks : pc'[u] # "signal" => wakes'[u] = {}
        /\ \A u \in chosen' : pc'[u] \in {"ask", "relock", "recheck", "check"}
        /\ forfeited' <= items'
    BY <1>0, <2>1, <2>2 DEF Bookkeeping
  <2> QED
    BY <2>3, <2>4, <2>5, <2>6, <2>7 DEF Bookkeeping
<1>4. ASSUME NEW t \in Tasks, UnregisterWaiter(t) \/ CancelWait(t)
      PROVE  Bookkeeping'
  <2>1. /\ reg' = [reg EXCEPT ![t] = 0]
        /\ next_waiter_id' = next_waiter_id
        /\ waiters' = waiters \ {reg[t]}
        /\ UNCHANGED wakes
    BY <1>4 DEF UnregisterWaiter, CancelWait, Unregister, Finish
  <2>2. PICK s \in {"ask", "idle"} : pc' = [pc EXCEPT ![t] = s]
    BY <1>4 DEF UnregisterWaiter, CancelWait, Finish, Go
  <2>3. pc[t] \in RegisteredSteps
    BY <1>4 DEF UnregisterWaiter, CancelWait, RegisteredSteps
  <2>4. \A u \in Tasks : reg'[u] # 0 <=> pc'[u] \in RegisteredSteps
    BY <1>0, <2>1, <2>2 DEF Bookkeeping, RegisteredSteps
  <2>5. \A u, v \in Tasks : reg'[u] # 0 /\ reg'[u] = reg'[v] => u = v
    BY <1>0, <2>1 DEF Bookkeeping
  <2>6. ASSUME NEW id \in waiters'
        PROVE  id < next_waiter_id' /\ \E u \in Tasks : reg'[u] = id
    <3>1. PICK u \in Tasks : reg[u] = id /\ id < next_waiter_id
      BY <2>1 DEF Bookkeeping
    <3>2. u # t
      BY <2>1, <3>1
    <3> QED
      BY <1>0, <2>1, <3>1, <3>2
  <2>7. \A u \in Tasks : reg'[u] < next_waiter_id'
    BY <1>0, <2>1 DEF Bookkeeping, TypeOK, RegistryTypeOK
  <2>8. \A u \in Tasks : pc'[u] # "signal" => wakes'[u] = {}
    BY <1>0, <2>1, <2>2, <2>3 DEF Bookkeeping, RegisteredSteps
  <2>9. \A u \in chosen' : pc'[u] \in {"ask", "relock", "recheck", "check"}
    <3>1. CASE UnregisterWaiter(t)
      BY <1>0, <3>1 DEF UnregisterWaiter, Go, Bookkeeping, TypeOK
    <3>2. CASE CancelWait(t)
      BY <1>0, <3>2 DEF CancelWait, Forfeit, Settle, Finish, Go, Bookkeeping, TypeOK
    <3> QED
      BY <1>4, <3>1, <3>2
  <2>10. forfeited' <= items'
    <3>1. CASE UnregisterWaiter(t)
      BY <3>1 DEF UnregisterWaiter, Bookkeeping
    <3>2. CASE CancelWait(t)
      BY <3>2 DEF CancelWait, Forfeit, Settle, Bookkeeping, TypeOK
    <3> QED
      BY <1>4, <3>1, <3>2
  <2> QED
    BY <2>4, <2>5, <2>6, <2>7, <2>8, <2>9, <2>10 DEF Bookkeeping
<1>5. ASSUME NEW t \in Tasks, Select(t) PROVE Bookkeeping'
  <2>1. /\ pc[t] = "notify" /\ pc' = [pc EXCEPT ![t] = "signal"]
        /\ \E taken \in SUBSET waiters : wakes' = [wakes EXCEPT ![t] = taken]
        /\ waiters' \subseteq waiters
        /\ UNCHANGED <<next_waiter_id, reg, chosen, forfeited, items>>
    BY <1>5 DEF Select, TakeAll, TakeOne, Go, historyVars
  <2> QED
    BY <1>0, <2>1 DEF Bookkeeping, RegisteredSteps
<1>6. ASSUME NEW t \in Tasks,
             StartCall(t) \/ PollStep(t) \/ Cancel(t) \/ TimerStep(t)
      PROVE  Bookkeeping'
  BY <1>2, <1>3, <1>4, <1>5, <1>6, FrameStep, EveryStepBooks
<1> QED
  BY <1>1, <1>6 DEF Next

(* The items change only in steps of the owner of the mutex, and a task    *)
(* that has decided to wait takes none of them.                            *)
LEMMA StillBlockedStep ==
  ASSUME TypeOK, LockSlot, StillBlocked, [Next]_vars
  PROVE  StillBlocked'
<1> USE DEF TypeOK, LockSlot, HoldingSteps, StillBlocked, CommittedSteps,
        registryVars, taskVars, timerVars, historyVars, Go
<1>1. CASE Tick
  BY <1>1 DEF Tick
<1>2. ASSUME NEW t \in Tasks, CallLocking(t) PROVE StillBlocked'
  BY <1>2 DEF CallLocking, Begin
<1>3. ASSUME NEW t \in Tasks, CallWaitFor(t) PROVE StillBlocked'
  BY <1>3 DEF CallWaitFor, Begin
<1>4. ASSUME NEW t \in Tasks, CallWaitDeadline(t) PROVE StillBlocked'
  BY <1>4 DEF CallWaitDeadline, Begin
<1>5. ASSUME NEW t \in Tasks, CallNotify(t) PROVE StillBlocked'
  BY <1>5 DEF CallNotify, Begin
<1>6. ASSUME NEW t \in Tasks, Acquire(t) PROVE StillBlocked'
  BY <1>6 DEF Acquire
<1>7. ASSUME NEW t \in Tasks, WithWrite(t) PROVE StillBlocked'
  BY <1>7 DEF WithWrite, Settle, Return, Finish
<1>8. ASSUME NEW t \in Tasks, WithWriteNotify(t) PROVE StillBlocked'
  BY <1>8 DEF WithWriteNotify, Settle
<1>9. ASSUME NEW t \in Tasks, TakeReady(t) PROVE StillBlocked'
  BY <1>9 DEF TakeReady, Settle, Return, Finish
<1>10. ASSUME NEW t \in Tasks, EnterWait(t) PROVE StillBlocked'
  BY <1>10 DEF EnterWait
<1>11. ASSUME NEW t \in Tasks, EnterTimedWait(t) PROVE StillBlocked'
  BY <1>11 DEF EnterTimedWait
<1>12. ASSUME NEW t \in Tasks, ZeroTimeout(t) PROVE StillBlocked'
  BY <1>12 DEF ZeroTimeout, Return, Finish
<1>13. ASSUME NEW t \in Tasks, ArmFails(t) PROVE StillBlocked'
  BY <1>13 DEF ArmFails, Return, Finish
<1>14. ASSUME NEW t \in Tasks, DeadlinePending(t) PROVE StillBlocked'
  BY <1>14 DEF DeadlinePending
<1>15. ASSUME NEW t \in Tasks, DeadlineExpired(t) PROVE StillBlocked'
  BY <1>15 DEF DeadlineExpired, Return, Finish
<1>16. ASSUME NEW t \in Tasks, RegisterWaiter(t) PROVE StillBlocked'
  BY <1>16 DEF RegisterWaiter, Register, Exhausted
<1>17. ASSUME NEW t \in Tasks, RegisterPanics(t) PROVE StillBlocked'
  BY <1>17 DEF RegisterPanics, Unwind, Settle, Return, Finish
<1>18. ASSUME NEW t \in Tasks, ReleaseGuard(t) PROVE StillBlocked'
  BY <1>18 DEF ReleaseGuard
<1>19. ASSUME NEW t \in Tasks, PollTimer(t) PROVE StillBlocked'
  BY <1>19 DEF PollTimer
<1>20. ASSUME NEW t \in Tasks, PollSignal(t) PROVE StillBlocked'
  BY <1>20 DEF PollSignal
<1>21. ASSUME NEW t \in Tasks, UnregisterWaiter(t) PROVE StillBlocked'
  BY <1>21 DEF UnregisterWaiter, Unregister
<1>22. ASSUME NEW t \in Tasks, Relock(t) PROVE StillBlocked'
  BY <1>22 DEF Relock
<1>23. ASSUME NEW t \in Tasks, Reacquire(t) PROVE StillBlocked'
  BY <1>23 DEF Reacquire
<1>24. ASSUME NEW t \in Tasks, Recheck(t) PROVE StillBlocked'
  BY <1>24 DEF Recheck
<1>25. ASSUME NEW t \in Tasks, WaitFails(t) PROVE StillBlocked'
  BY <1>25 DEF WaitFails, Forfeit, Settle, Return, Finish
<1>26. ASSUME NEW t \in Tasks, WaitTimesOut(t) PROVE StillBlocked'
  BY <1>26 DEF WaitTimesOut, Settle, Return, Finish
<1>27. ASSUME NEW t \in Tasks, WaitAgain(t) PROVE StillBlocked'
  BY <1>27 DEF WaitAgain, Settle
<1>28. ASSUME NEW t \in Tasks, ClosurePanics(t) PROVE StillBlocked'
  BY <1>28 DEF ClosurePanics, Unwind, Settle, Return, Finish
<1>29. ASSUME NEW t \in Tasks, Select(t) PROVE StillBlocked'
  BY <1>29 DEF Select, TakeAll, TakeOne
<1>30. ASSUME NEW t \in Tasks, Signal(t) PROVE StillBlocked'
  BY <1>30 DEF Signal, Oldest
<1>31. ASSUME NEW t \in Tasks, NotifyReturns(t) PROVE StillBlocked'
  BY <1>31 DEF NotifyReturns, Finish
<1>32. ASSUME NEW t \in Tasks, CancelLock(t) PROVE StillBlocked'
  BY <1>32 DEF CancelLock, Forfeit, Settle, Finish
<1>33. ASSUME NEW t \in Tasks, CancelWait(t) PROVE StillBlocked'
  BY <1>33 DEF CancelWait, Unregister, Forfeit, Settle, Finish
<1>34. ASSUME NEW t \in Tasks, TimerFires(t) PROVE StillBlocked'
  BY <1>34 DEF TimerFires, Complete
<1>35. ASSUME NEW t \in Tasks, TimerFails(t) PROVE StillBlocked'
  BY <1>35 DEF TimerFails, Complete
<1>36. CASE UNCHANGED vars
  BY <1>36 DEF vars
<1> QED
  BY <1>1, <1>2, <1>3, <1>4, <1>5, <1>6, <1>7, <1>8, <1>9, <1>10, <1>11,
     <1>12, <1>13, <1>14, <1>15, <1>16, <1>17, <1>18, <1>19, <1>20, <1>21,
     <1>22, <1>23, <1>24, <1>25, <1>26, <1>27, <1>28, <1>29, <1>30, <1>31,
     <1>32, <1>33, <1>34, <1>35, <1>36 DEF Next, StartCall, PollStep,
     Cancel, TimerStep

(* Each step of a call leaves its local variables as the next one expects. *)
LEMMA OwnCallState ==
  ASSUME TypeOK, NEW t \in Tasks, CallStateOf(t),
         StartCall(t) \/ PollStep(t) \/ Cancel(t) \/ TimerStep(t)
  PROVE  CallStateOf(t)'
<1> USE CallsAssumption, TimeoutsAssumption
<1> USE DEF TypeOK, CallStateOf, StartSteps, NotifySteps, Steps, Futures,
        Statuses, NotifyCalls, NotifyingWrites, WaitCalls, TimedCalls,
        WriteCalls, taskVars, timerVars, Go
<1>1. CASE CallLocking(t)
  BY <1>1 DEF CallLocking, Begin
<1>2. CASE CallWaitFor(t)
  BY <1>2 DEF CallWaitFor, Begin
<1>3. CASE CallWaitDeadline(t)
  BY <1>3 DEF CallWaitDeadline, Begin
<1>4. CASE CallNotify(t)
  BY <1>4 DEF CallNotify, Begin
<1>5. CASE Acquire(t)
  BY <1>5 DEF Acquire
<1>6. CASE WithWrite(t)
  BY <1>6 DEF WithWrite, Return, Finish
<1>7. CASE WithWriteNotify(t)
  BY <1>7 DEF WithWriteNotify
<1>8. CASE TakeReady(t)
  BY <1>8 DEF TakeReady, Return, Finish
<1>9. CASE EnterWait(t)
  BY <1>9 DEF EnterWait
<1>10. CASE EnterTimedWait(t)
  BY <1>10 DEF EnterTimedWait
<1>11. CASE ZeroTimeout(t)
  BY <1>11 DEF ZeroTimeout, Return, Finish
<1>12. CASE ArmFails(t)
  BY <1>12 DEF ArmFails, Return, Finish
<1>13. CASE DeadlinePending(t)
  BY <1>13 DEF DeadlinePending
<1>14. CASE DeadlineExpired(t)
  BY <1>14 DEF DeadlineExpired, Return, Finish
<1>15. CASE RegisterWaiter(t)
  BY <1>15 DEF RegisterWaiter
<1>16. CASE RegisterPanics(t)
  BY <1>16 DEF RegisterPanics, Unwind, Return, Finish
<1>17. CASE ReleaseGuard(t)
  BY <1>17 DEF ReleaseGuard
<1>18. CASE PollTimer(t)
  BY <1>18 DEF PollTimer
<1>19. CASE PollSignal(t)
  BY <1>19 DEF PollSignal
<1>20. CASE UnregisterWaiter(t)
  BY <1>20 DEF UnregisterWaiter
<1>21. CASE Relock(t)
  BY <1>21 DEF Relock
<1>22. CASE Reacquire(t)
  BY <1>22 DEF Reacquire
<1>23. CASE Recheck(t)
  BY <1>23 DEF Recheck
<1>24. CASE WaitFails(t)
  BY <1>24 DEF WaitFails, Return, Finish
<1>25. CASE WaitTimesOut(t)
  BY <1>25 DEF WaitTimesOut, Return, Finish
<1>26. CASE WaitAgain(t)
  BY <1>26 DEF WaitAgain
<1>27. CASE ClosurePanics(t)
  <2>1. PICK n : Unwind(t, n)
    BY <1>27 DEF ClosurePanics
  <2> QED
    BY <2>1 DEF Unwind, Return, Finish
<1>28. CASE Select(t)
  BY <1>28 DEF Select
<1>29. CASE Signal(t)
  BY <1>29 DEF Signal
<1>30. CASE NotifyReturns(t)
  BY <1>30 DEF NotifyReturns, Finish
<1>31. CASE CancelLock(t)
  BY <1>31 DEF CancelLock, Finish
<1>32. CASE CancelWait(t)
  BY <1>32 DEF CancelWait, Finish
<1>33. CASE TimerFires(t)
  BY <1>33 DEF TimerFires, Complete
<1>34. CASE TimerFails(t)
  BY <1>34 DEF TimerFails, Complete
<1> QED
  BY <1>1, <1>2, <1>3, <1>4, <1>5, <1>6, <1>7, <1>8, <1>9, <1>10, <1>11,
     <1>12, <1>13, <1>14, <1>15, <1>16, <1>17, <1>18, <1>19, <1>20, <1>21,
     <1>22, <1>23, <1>24, <1>25, <1>26, <1>27, <1>28, <1>29, <1>30, <1>31,
     <1>32, <1>33, <1>34 DEF StartCall, PollStep, Cancel, TimerStep

(* The local variables of a call fit its step, and the clock only moves    *)
(* forward.                                                                *)
LEMMA CallStateStep ==
  ASSUME TypeOK, CallState, [Next]_vars
  PROVE  CallState'
<1>1. CASE UNCHANGED vars
  BY <1>1 DEF vars, CallState, CallStateOf, taskVars, timerVars
<1>2. CASE Tick
  BY <1>2, TimeoutsAssumption
     DEF Tick, CallState, CallStateOf, taskVars, TypeOK
<1>3. ASSUME NEW t \in Tasks, NEW u \in Tasks,
             StartCall(t) \/ PollStep(t) \/ Cancel(t) \/ TimerStep(t)
      PROVE  CallStateOf(u)'
  <2>1. CASE u = t
    BY <1>3, <2>1, OwnCallState DEF CallState
  <2>2. CASE u # t
    <3>1. Frame(t)
      BY <1>3, FrameStep
    <3>2. now' = now
      BY <1>3 DEF StartCall, CallLocking, CallWaitFor, CallWaitDeadline,
         CallNotify, Begin, Cancel, CancelLock, CancelWait, TimerStep,
         TimerFires, TimerFails, Complete, PollStep, Acquire, WithWrite,
         WithWriteNotify, TakeReady, EnterWait, EnterTimedWait, ZeroTimeout,
         ArmFails, DeadlinePending, DeadlineExpired, RegisterWaiter,
         RegisterPanics, ReleaseGuard, PollTimer, PollSignal, UnregisterWaiter,
         Relock, Reacquire, Recheck, WaitFails, WaitTimesOut, WaitAgain,
         ClosurePanics, Unwind, Select, Signal, NotifyReturns, Return, Finish,
         timerVars
    <3> QED
      BY <2>2, <3>1, <3>2 DEF Frame, CallState, CallStateOf
  <2> QED
    BY <2>1, <2>2
<1> QED
  BY <1>1, <1>2, <1>3 DEF Next, CallState

-----------------------------------------------------------------------------

(* All of the inductive invariant but the counting part, NoLostWakeup.     *)
WaitInv == /\ TypeOK
           /\ LockSlot
           /\ Bookkeeping
           /\ CallState
           /\ StillBlocked

(* The initial state satisfies the invariant.                              *)
LEMMA InitWaitInv == Init => WaitInv
<1> SUFFICES ASSUME Init PROVE WaitInv
  OBVIOUS
<1>1. TypeOK
  BY InitTypeOK
<1>2. LockSlot /\ StillBlocked
  BY DEF Init, LockSlot, HoldingSteps, StillBlocked, CommittedSteps
<1>3. Bookkeeping
  BY MaxWaiterIdAssumption DEF Init, RegistryInit, Bookkeeping, RegisteredSteps
<1>4. CallState
  BY DEF Init, CallState, CallStateOf, StartSteps, NotifySteps
<1> QED
  BY <1>1, <1>2, <1>3, <1>4 DEF WaitInv

(* Every step preserves the invariant: the steps above, put together.      *)
LEMMA WaitInvStep ==
  ASSUME WaitInv, [Next]_vars
  PROVE  WaitInv'
  BY TypeOKStep, LockSlotStep, BookkeepingStep, CallStateStep, StillBlockedStep
     DEF WaitInv

(* The invariant holds in every reachable state.                           *)
LEMMA WaitInvariant == Spec => []WaitInv
<1>1. Init => WaitInv
  BY InitWaitInv
<1>2. WaitInv /\ [Next]_vars => WaitInv'
  BY WaitInvStep
<1> QED
  BY <1>1, <1>2, PTL DEF Spec

(* Every reachable state is well typed: no waiter identifier is handed out *)
(* beyond the last one that checked_add allows, and a deadline that was    *)
(* polled again has one of the three outcomes the code tells apart         *)
(* (waiter_registry.rs, register; tokio_monitor.rs, the wait loops).       *)
THEOREM TypeCorrect == Spec => []TypeOK
<1>1. WaitInv => TypeOK
  BY DEF WaitInv
<1> QED
  BY <1>1, WaitInvariant, PTL

(* The mutex is held by the task that runs with a guard and by no other,   *)
(* and its queue holds exactly the tasks that asked for it and have not    *)
(* been served: a cancelled or suspended task is in neither, whatever the  *)
(* order of grants, cancellations and panics (tokio_monitor.rs, the lock   *)
(* await points).                                                          *)
THEOREM LockSlotHolds == Spec => []LockSlot
<1>1. WaitInv => LockSlot
  BY DEF WaitInv
<1> QED
  BY <1>1, WaitInvariant, PTL

(* Only tasks that are suspended or about to suspend are eligible for      *)
(* notification: cancelling a wait, at any await point, leaves no entry    *)
(* behind (tokio_monitor.rs, drop of the registration).                    *)
THEOREM EligibleWaitersHold == Spec => []EligibleWaiters
<1>1. WaitInv => EligibleWaiters
  <2> SUFFICES ASSUME WaitInv, NEW id \in waiters
               PROVE  \E t \in Tasks :
                         /\ reg[t] = id
                         /\ pc[t] \in RegisteredSteps
                         /\ \A u \in Tasks : reg[u] = id => u = t
    BY DEF EligibleWaiters, RegisteredSteps
  <2>1. id # 0
    BY DEF WaitInv, TypeOK, RegistryTypeOK, WaiterIds
  <2>2. PICK t \in Tasks : reg[t] = id
    BY DEF WaitInv, Bookkeeping
  <2> QED
    BY <2>1, <2>2 DEF WaitInv, Bookkeeping
<1> QED
  BY <1>1, WaitInvariant, PTL

-----------------------------------------------------------------------------
(* No lost wakeup.                                                         *)

(* What a step of t may do to the invariant without breaking it: nothing   *)
(* is left to cover, or notify_all is about to cover everything, or the    *)
(* items gained and given up balance the tasks that come and go.           *)
Covers(t) ==
    \/ items' = 0
    \/ waiters' = {}
    \/ NotifiersAt("all")' # {}
    \/ /\ waiters # {}
       /\ NotifiersAt("all") = {}
       /\ OnTheWay \ {t} \subseteq OnTheWay'
       /\ \/ items' <= forfeited'
          \/ /\ t \in OnTheWay' \ OnTheWay
             /\ items' - forfeited' <= items - forfeited + 1
          \/ /\ OnTheWay \subseteq OnTheWay'
             /\ items' - forfeited' <= items - forfeited
          \/ items' - forfeited' + 1 <= items - forfeited

(* Covers is enough.                                                       *)
LEMMA CoverStep ==
  ASSUME TypeOK, TypeOK', NoLostWakeup, NEW t, Covers(t)
  PROVE  NoLostWakeup'
<1> SUFFICES ASSUME waiters' # {}, NotifiersAt("all")' = {}
             PROVE  items' <= Cardinality(OnTheWay') + forfeited'
  BY DEF NoLostWakeup
<1>1. OnTheWay \in SUBSET Tasks /\ OnTheWay' \in SUBSET Tasks
  BY DEF TypeOK, OnTheWay, InFlight, NotifiersAt
<1>2. /\ items \in Nat /\ forfeited \in Nat
      /\ items' \in Nat /\ forfeited' \in Nat
  BY DEF TypeOK
<1>3. CASE items' = 0
  <2>1. Cardinality(OnTheWay') \in Nat
    BY <1>1, FS_Subset, FS_CardinalityType
  <2> QED
    BY <1>2, <1>3, <2>1
<1>4. CASE items' # 0
  <2>1. items <= Cardinality(OnTheWay) + forfeited
    BY <1>4 DEF NoLostWakeup, Covers
  <2>2. /\ OnTheWay \ {t} \subseteq OnTheWay'
        /\ \/ items' <= forfeited'
           \/ /\ t \in OnTheWay' \ OnTheWay
              /\ items' - forfeited' <= items - forfeited + 1
           \/ /\ OnTheWay \subseteq OnTheWay'
              /\ items' - forfeited' <= items - forfeited
           \/ items' - forfeited' + 1 <= items - forfeited
    BY <1>4 DEF Covers
  <2> QED
    <3> DEFINE O == OnTheWay
               P == OnTheWay'
               i == items
               j == items'
               f == forfeited
               g == forfeited'
    <3> HIDE DEF O, P, i, j, f, g
    <3>1. O \in SUBSET Tasks /\ P \in SUBSET Tasks
      BY <1>1 DEF O, P
    <3>2. i \in Nat /\ j \in Nat /\ f \in Nat /\ g \in Nat
      BY <1>2 DEF i, j, f, g
    <3>3. i <= Cardinality(O) + f
      BY <2>1 DEF O, i, f
    <3>4. /\ O \ {t} \subseteq P
          /\ \/ j <= g
             \/ t \in P \ O /\ j - g <= i - f + 1
             \/ O \subseteq P /\ j - g <= i - f
             \/ j - g + 1 <= i - f
      BY <2>2 DEF O, P, i, j, f, g
    <3>5. j <= Cardinality(P) + g
      BY <3>1, <3>2, <3>3, <3>4, CoverSets
    <3> QED
      BY <3>5 DEF P, j, g
<1> QED
  BY <1>3, <1>4

(* Select with notify_one: the oldest waiter's task is on the way in the   *)
(* notifier's place.                                                       *)
LEMMA SelectOne ==
  ASSUME IInv, TypeOK', NEW t \in Tasks, Select(t), Notified(t) = "one"
  PROVE  NoLostWakeup'
<1> USE DEF IInv
<1> SUFFICES ASSUME waiters' # {}, NotifiersAt("all")' = {}
             PROVE  items' <= Cardinality(OnTheWay') + forfeited'
  BY DEF NoLostWakeup
<1>1. waiters' = waiters \ Oldest(waiters) /\ waiters # {}
  BY DEF Select, TakeOne
<1>2. PICK id \in waiters : id \notin waiters'
  <2>1. waiters \in SUBSET Nat
    BY DEF TypeOK, RegistryTypeOK, WaiterIds
  <2> QED
    BY <1>1, <2>1, OldestExists DEF Oldest
<1>3. PICK u \in Tasks : reg[u] = id
  BY DEF Bookkeeping
<1>4. u # t /\ id # 0
  <2>1. id # 0
    BY DEF TypeOK, RegistryTypeOK, WaiterIds
  <2>2. pc[t] = "notify" /\ pc[u] \in RegisteredSteps
    BY <1>3, <2>1 DEF Select, Bookkeeping
  <2> QED
    BY <2>1, <2>2 DEF RegisteredSteps
<1>5. u \notin OnTheWay
  BY <1>3, <1>4 DEF OnTheWay, InFlight, NotifiersAt, Bookkeeping,
                    RegisteredSteps
<1>6. u \in OnTheWay'
  BY <1>2, <1>3, <1>4 DEF Select, OnTheWay, InFlight
<1>7. OnTheWay \ {t} \subseteq OnTheWay'
  BY <1>1 DEF Select, OnTheWay, InFlight, NotifiersAt, Notified, Go,
              historyVars, TypeOK
<1>8. OnTheWay \in SUBSET Tasks /\ OnTheWay' \in SUBSET Tasks
  BY DEF TypeOK, OnTheWay, InFlight, NotifiersAt
<1>9. Cardinality(OnTheWay) <= Cardinality(OnTheWay')
  BY <1>5, <1>6, <1>7, <1>8, CardSwap
<1>10. Cardinality(OnTheWay) \in Nat /\ Cardinality(OnTheWay') \in Nat
  BY <1>8, FS_Subset, FS_CardinalityType
<1>11. NotifiersAt("all") = {}
  BY DEF Select, NotifiersAt, Notified, Go, TypeOK
<1>12. items <= Cardinality(OnTheWay) + forfeited
  BY <1>1, <1>11 DEF NoLostWakeup
<1>13. items' = items /\ forfeited' = forfeited
  BY DEF Select, historyVars
<1> QED
  <2>1. items \in Nat /\ forfeited \in Nat
    BY DEF TypeOK
  <2>2. items <= Cardinality(OnTheWay') + forfeited
    BY <1>9, <1>10, <1>12, <2>1
  <2> QED
    BY <1>13, <2>2

(* What most steps of t do: its own way to the items goes on, or is paid   *)
(* for by an item taken or forfeited.                                      *)
Balances(t) ==
    /\ pc[t] # "notify"
    /\ waiters' \subseteq waiters
    /\ chosen \ {t} \subseteq chosen'
    /\ \/ items' <= forfeited'
       \/ /\ \/ t \in chosen'
             \/ reg'[t] # 0 /\ reg'[t] \notin waiters'
             \/ t \notin chosen /\ (reg[t] = 0 \/ reg[t] \in waiters)
          /\ items' - forfeited' <= items - forfeited
       \/ items' - forfeited' + 1 <= items - forfeited

(* Balances is enough for Covers.                                          *)
LEMMA BalanceCovers ==
  ASSUME TypeOK, NEW t \in Tasks, Frame(t), Balances(t)
  PROVE  Covers(t)
<1>1. NotifiersAt("all") \subseteq NotifiersAt("all")'
  BY DEF Frame, Balances, NotifiersAt, Notified
<1>2. OnTheWay \ {t} \subseteq OnTheWay'
  BY DEF Frame, Balances, OnTheWay, InFlight, NotifiersAt, Notified, TypeOK
<1>3. \/ t \in chosen'
      \/ reg'[t] # 0 /\ reg'[t] \notin waiters'
      \/ t \notin chosen /\ (reg[t] = 0 \/ reg[t] \in waiters)
      => (t \in OnTheWay => t \in OnTheWay')
  BY DEF Balances, OnTheWay, InFlight, NotifiersAt
<1>4. waiters' \subseteq waiters
  BY DEF Balances
<1> QED
  BY <1>1, <1>2, <1>3, <1>4 DEF Balances, Covers

(* Registering, a notifying write and Select apart, every step balances.   *)
LEMMA EveryStepBalances ==
  ASSUME IInv, TypeOK', NEW t \in Tasks,
         StartCall(t) \/ PollStep(t) \/ Cancel(t) \/ TimerStep(t),
         ~RegisterWaiter(t), ~WithWriteNotify(t), ~Select(t)
  PROVE  Balances(t)
<1>0. /\ items \in Nat /\ forfeited \in Nat /\ forfeited <= items
      /\ items' \in Nat /\ forfeited' \in Nat
      /\ pc[t] \in CommittedSteps => items = 0
      /\ reg[t] # 0 => pc[t] \in RegisteredSteps
      /\ t \in chosen => pc[t] \in {"ask", "relock", "recheck", "check"}
      /\ reg \in [Tasks -> {0} \cup WaiterIds]
  <2>1. /\ items \in Nat /\ forfeited \in Nat
        /\ items' \in Nat /\ forfeited' \in Nat
        /\ reg \in [Tasks -> {0} \cup WaiterIds]
    BY DEF IInv, TypeOK
  <2>2. /\ reg[t] # 0 => pc[t] \in RegisteredSteps
        /\ t \in chosen => pc[t] \in {"ask", "relock", "recheck", "check"}
    BY DEF IInv, Bookkeeping
  <2>3. forfeited <= items
    BY DEF IInv, Bookkeeping, TypeOK
  <2>4. pc[t] \in CommittedSteps => items = 0
    BY DEF IInv, StillBlocked
  <2> QED
    BY <2>1, <2>2, <2>3, <2>4
<1> USE DEF CommittedSteps, RegisteredSteps, Balances, registryVars, taskVars,
        timerVars, historyVars
<1>1. CASE CallLocking(t)
  BY <1>1, <1>0 DEF CallLocking, Begin
<1>2. CASE CallWaitFor(t)
  BY <1>2, <1>0 DEF CallWaitFor, Begin
<1>3. CASE CallWaitDeadline(t)
  BY <1>3, <1>0 DEF CallWaitDeadline, Begin
<1>4. CASE CallNotify(t)
  BY <1>4, <1>0 DEF CallNotify, Begin
<1>5. CASE Acquire(t)
  BY <1>5, <1>0 DEF Acquire
<1>6. CASE WithWrite(t)
  BY <1>6, <1>0 DEF WithWrite, Settle, Return, Finish
<1>7. CASE TakeReady(t)
  BY <1>7, <1>0 DEF TakeReady, Settle, Return, Finish
<1>8. CASE EnterWait(t)
  BY <1>8, <1>0 DEF EnterWait
<1>9. CASE EnterTimedWait(t)
  BY <1>9, <1>0 DEF EnterTimedWait
<1>10. CASE ZeroTimeout(t)
  BY <1>10, <1>0 DEF ZeroTimeout, Return, Finish
<1>11. CASE ArmFails(t)
  BY <1>11, <1>0 DEF ArmFails, Return, Finish
<1>12. CASE DeadlinePending(t)
  BY <1>12, <1>0 DEF DeadlinePending
<1>13. CASE DeadlineExpired(t)
  BY <1>13, <1>0 DEF DeadlineExpired, Return, Finish
<1>14. CASE RegisterPanics(t)
  BY <1>14, <1>0 DEF RegisterPanics, Unwind, Settle, Return, Finish
<1>15. CASE ReleaseGuard(t)
  BY <1>15, <1>0 DEF ReleaseGuard
<1>16. CASE PollTimer(t)
  BY <1>16, <1>0 DEF PollTimer
<1>17. CASE PollSignal(t)
  BY <1>17, <1>0 DEF PollSignal
<1>18. CASE UnregisterWaiter(t)
  BY <1>18, <1>0 DEF UnregisterWaiter, Unregister
<1>19. CASE Relock(t)
  BY <1>19, <1>0 DEF Relock
<1>20. CASE Reacquire(t)
  BY <1>20, <1>0 DEF Reacquire
<1>21. CASE Recheck(t)
  BY <1>21, <1>0 DEF Recheck
<1>22. CASE WaitFails(t)
  <2>1. /\ pc[t] = "check" /\ waiters' = waiters /\ reg' = reg
        /\ chosen' = chosen \ {t} /\ items' = items
    BY <1>22 DEF WaitFails, Forfeit, Settle, Return
  <2>2. \/ items' <= forfeited'
        \/ t \notin chosen /\ items' - forfeited' <= items - forfeited
        \/ items' - forfeited' + 1 <= items - forfeited
    BY <1>0, <1>22 DEF WaitFails, Forfeit, Settle
  <2> QED
    BY <1>0, <2>1, <2>2
<1>23. CASE WaitTimesOut(t)
  BY <1>23, <1>0 DEF WaitTimesOut, Settle, Return, Finish
<1>24. CASE WaitAgain(t)
  BY <1>24, <1>0 DEF WaitAgain, Settle
<1>25. CASE ClosurePanics(t)
  <2>1. PICK n \in 0 .. MaxItems : Unwind(t, n)
    BY <1>25 DEF ClosurePanics, LeftByPanic
  <2>2. /\ waiters' = waiters /\ chosen' = chosen \ {t} /\ reg' = reg
        /\ pc[t] \in {"held", "check"}
    BY <1>25, <2>1 DEF ClosurePanics, Unwind, Settle, Return
  <2>3. \/ items' <= forfeited'
        \/ t \notin chosen /\ items' - forfeited' <= items - forfeited
        \/ items' - forfeited' + 1 <= items - forfeited
    BY <1>0, <2>1 DEF Unwind, Settle
  <2> QED
    BY <1>0, <2>2, <2>3
<1>26. CASE Signal(t)
  BY <1>26, <1>0 DEF Signal, Oldest
<1>27. CASE NotifyReturns(t)
  BY <1>27, <1>0 DEF NotifyReturns, Finish
<1>28. CASE CancelLock(t)
  <2>1. /\ pc[t] \in {"lock", "relock"} /\ waiters' = waiters /\ reg' = reg
        /\ chosen' = chosen \ {t} /\ items' = items
    BY <1>28 DEF CancelLock, Forfeit, Settle
  <2>2. \/ items' <= forfeited'
        \/ t \notin chosen /\ items' - forfeited' <= items - forfeited
        \/ items' - forfeited' + 1 <= items - forfeited
    BY <1>0, <1>28 DEF CancelLock, Forfeit, Settle
  <2> QED
    BY <1>0, <2>1, <2>2
<1>29. CASE CancelWait(t)
  <2>1. /\ pc[t] = "wait" /\ waiters' = waiters \ {reg[t]}
        /\ chosen' = chosen \ {t} /\ items' = items
    BY <1>29 DEF CancelWait, Unregister, Forfeit, Settle
  <2>2. \/ items' <= forfeited'
        \/ reg[t] \in waiters /\ items' - forfeited' <= items - forfeited
        \/ items' - forfeited' + 1 <= items - forfeited
    BY <1>0, <1>29 DEF CancelWait, Forfeit, Settle
  <2> QED
    BY <1>0, <2>1, <2>2
<1>30. CASE TimerFires(t)
  <2>1. timer[t] = "pending" /\ pc' = pc
    BY <1>30 DEF TimerFires, Complete
  <2>2. pc[t] # "notify"
    BY <2>1 DEF IInv, CallState, CallStateOf, NotifySteps, NotifyCalls,
                NotifyingWrites, TimedCalls
  <2> QED
    BY <1>0, <1>30, <2>2 DEF TimerFires, Complete
<1>31. CASE TimerFails(t)
  <2>1. timer[t] = "pending" /\ pc' = pc
    BY <1>31 DEF TimerFails, Complete
  <2>2. pc[t] # "notify"
    BY <2>1 DEF IInv, CallState, CallStateOf, NotifySteps, NotifyCalls,
                NotifyingWrites, TimedCalls
  <2> QED
    BY <1>0, <1>31, <2>2 DEF TimerFails, Complete
<1> QED
  BY <1>1, <1>2, <1>3, <1>4, <1>5, <1>6, <1>7, <1>8, <1>9, <1>10, <1>11,
     <1>12, <1>13, <1>14, <1>15, <1>16, <1>17, <1>18, <1>19, <1>20, <1>21,
     <1>22, <1>23, <1>24, <1>25, <1>26, <1>27, <1>28, <1>29, <1>30, <1>31
     DEF StartCall, PollStep, Cancel, TimerStep

(* A notifying write leaves a notifier behind for what it added.           *)
LEMMA WriteCovers ==
  ASSUME IInv, TypeOK', NEW t \in Tasks, WithWriteNotify(t)
  PROVE  Covers(t)
<1>1. /\ pc \in [Tasks -> Steps] /\ pc' = [pc EXCEPT ![t] = "notify"]
      /\ waiters' = waiters /\ reg' = reg /\ op' = op /\ chosen' = chosen \ {t}
      /\ pc[t] = "held"
  BY DEF IInv, TypeOK, WithWriteNotify, Settle, Go, registryVars
<1>2. t \notin chosen /\ reg[t] = 0
  BY <1>1 DEF IInv, Bookkeeping, RegisteredSteps
<1>3. CASE op[t] = "with_write_notify_all_async"
  <2>1. t \in NotifiersAt("all")'
    BY <1>1, <1>3 DEF NotifiersAt, Notified
  <2> QED
    BY <2>1 DEF Covers
<1>4. CASE op[t] = "with_write_notify_one_async"
  <2>1. NotifiersAt("all") \subseteq NotifiersAt("all")'
    BY <1>1 DEF NotifiersAt, Notified
  <2>2. OnTheWay \ {t} \subseteq OnTheWay'
    BY <1>1 DEF OnTheWay, InFlight, NotifiersAt, Notified
  <2>3. t \in OnTheWay' \ OnTheWay
    BY <1>1, <1>2, <1>4 DEF OnTheWay, InFlight, NotifiersAt, Notified
  <2>4. items' = items \/ items' = items + 1
    BY <1>4 DEF WithWriteNotify, Settle
  <2>5. forfeited' = IF forfeited < items' THEN forfeited ELSE items'
    BY DEF WithWriteNotify, Settle, IInv, TypeOK
  <2>6. /\ items \in Nat /\ forfeited \in Nat
        /\ items' \in Nat /\ forfeited' \in Nat
    BY DEF IInv, TypeOK
  <2>7. items' <= forfeited' \/ items' - forfeited' <= items - forfeited + 1
    BY <2>4, <2>5, <2>6, OneItemMore
  <2> QED
    BY <1>1, <2>1, <2>2, <2>3, <2>7 DEF Covers
<1> QED
  BY <1>3, <1>4 DEF WithWriteNotify

(* notify_one apart, every step satisfies Covers.                          *)
LEMMA EveryStepCovers ==
  ASSUME IInv, TypeOK', NEW t \in Tasks,
         StartCall(t) \/ PollStep(t) \/ Cancel(t) \/ TimerStep(t),
         ~(Select(t) /\ Notified(t) = "one")
  PROVE  Covers(t)
<1>1. CASE RegisterWaiter(t)
  <2>1. items' = 0
    BY <1>1 DEF RegisterWaiter, IInv, StillBlocked, CommittedSteps
  <2> QED
    BY <2>1 DEF Covers
<1>2. CASE WithWriteNotify(t)
  BY <1>2, WriteCovers
<1>3. CASE Select(t)
  <2>1. Notified(t) = "all"
    BY <1>3 DEF Notified
  <2>2. waiters' = {}
    BY <1>3, <2>1 DEF Select, TakeAll
  <2> QED
    BY <2>2 DEF Covers
<1>4. CASE ~RegisterWaiter(t) /\ ~WithWriteNotify(t) /\ ~Select(t)
  <2>1. TypeOK
    BY DEF IInv
  <2>2. Frame(t) /\ Balances(t)
    BY <1>4, <2>1, FrameStep, EveryStepBalances
  <2> QED
    BY <2>1, <2>2, BalanceCovers
<1> QED
  BY <1>1, <1>2, <1>3, <1>4

(* Every step leaves each available item covered by a task on its way.     *)
LEMMA NoLostWakeupStep ==
  ASSUME IInv, TypeOK', [Next]_vars
  PROVE  NoLostWakeup'
<1>1. TypeOK /\ NoLostWakeup
  BY DEF IInv
<1>2. CASE UNCHANGED vars
  BY <1>1, <1>2 DEF vars, NoLostWakeup, OnTheWay, InFlight, NotifiersAt,
     Notified, registryVars, taskVars, historyVars
<1>3. CASE Tick
  BY <1>1, <1>3 DEF Tick, NoLostWakeup, OnTheWay, InFlight, NotifiersAt,
     Notified, registryVars, taskVars, historyVars
<1>4. ASSUME NEW t \in Tasks,
             StartCall(t) \/ PollStep(t) \/ Cancel(t) \/ TimerStep(t)
      PROVE  NoLostWakeup'
  <2>1. CASE Select(t) /\ Notified(t) = "one"
    BY <2>1, SelectOne
  <2>2. CASE ~(Select(t) /\ Notified(t) = "one")
    <3>1. Covers(t)
      BY <1>4, <2>2, EveryStepCovers
    <3> QED
      BY <1>1, <3>1, CoverStep
  <2> QED
    BY <2>1, <2>2
<1> QED
  BY <1>2, <1>3, <1>4 DEF Next

-----------------------------------------------------------------------------

(* IInv is an invariant: the one TokioMonitor states and TLC checked.      *)
LEMMA Inductive == Spec => []IInv
<1>1. Init => IInv
  <2> SUFFICES ASSUME Init PROVE IInv
    OBVIOUS
  <2>1. WaitInv
    BY InitWaitInv
  <2>2. NoLostWakeup
    BY DEF Init, RegistryInit, NoLostWakeup
  <2> QED
    BY <2>1, <2>2 DEF IInv, WaitInv
<1>2. IInv /\ [Next]_vars => IInv'
  <2> SUFFICES ASSUME IInv, [Next]_vars PROVE IInv'
    OBVIOUS
  <2>1. WaitInv'
    BY WaitInvStep DEF IInv, WaitInv
  <2>2. NoLostWakeup'
    BY <2>1, NoLostWakeupStep DEF WaitInv
  <2> QED
    BY <2>1, <2>2 DEF IInv, WaitInv
<1> QED
  BY <1>1, <1>2, PTL DEF Spec

(* No interleaving of waiters, notifiers, timers, panics and cancellations *)
(* loses a wakeup: a registered waiter never coexists with an item that    *)
(* nobody is on the way to look at, unless that item's wakeup was given up *)
(* (tokio_monitor.rs, registration before the guard is dropped).           *)
THEOREM NoLostWakeupHolds == Spec => []NoLostWakeup
<1>1. IInv => NoLostWakeup
  BY DEF IInv
<1> QED
  BY <1>1, Inductive, PTL

-----------------------------------------------------------------------------
(* The promises of MonitorContract.  Each step of a call is one of its     *)
(* steps or leaves everything a caller sees alone.                         *)

(* The phase of a call, case by case.                                      *)
LEMMA PhaseOf ==
  ASSUME NEW t \in Tasks
  PROVE  /\ op[t] = "none" => Phase[t] = "none"
         /\ op[t] # "none" /\ pc[t] = "lock" => Phase[t] = "called"
         /\ op[t] # "none" /\ pc[t] # "lock" => Phase[t] = "running"
  BY DEF Phase

(* A step of t changes the phase of no other call.                         *)
LEMMA PhaseFrame ==
  ASSUME NEW t \in Tasks, Frame(t)
  PROVE  Phase' = [Phase EXCEPT ![t] = Phase'[t]]
<1>1. \A u \in Tasks \ {t} : Phase'[u] = Phase[u]
  BY DEF Frame, Phase
<1>2. /\ Phase = [u \in Tasks |-> Phase[u]]
      /\ Phase' = [u \in Tasks |-> Phase'[u]]
  BY DEF Phase
<1> QED
  BY <1>1, <1>2

(* A call that completes, unwinds or is dropped is over for its caller.    *)
LEMMA FinishEnds ==
  ASSUME TypeOK, NEW t \in Tasks, NEW r, Frame(t), Finish(t, r)
  PROVE  Contract!End(t, r)
<1>1. op'[t] = "none"
  BY DEF Finish, TypeOK
<1>2. Phase'[t] = "none"
  BY <1>1 DEF Phase
<1>3. Phase' = [Phase EXCEPT ![t] = "none"]
  BY <1>2, PhaseFrame
<1> QED
  BY <1>3 DEF Finish, Contract!End

(* Nothing a caller sees changes.                                          *)
Silent(t) ==
    /\ UNCHANGED <<items, op, result, now, timeout, deadline>>
    /\ (pc[t] # "lock" /\ pc'[t] # "lock") \/ pc'[t] = pc[t]

(* A silent step is a stuttering step of the contract.                     *)
LEMMA SilentStutters ==
  ASSUME NEW t \in Tasks, Frame(t), Silent(t)
  PROVE  UNCHANGED Contract!vars
<1>1. Phase' = Phase
  BY DEF Phase, Frame, Silent
<1> QED
  BY <1>1 DEF Silent, Contract!vars

(* The steps between the calls' effects are silent.                        *)
LEMMA SilentSteps ==
  ASSUME NEW t \in Tasks,
         \/ EnterWait(t) \/ EnterTimedWait(t) \/ DeadlinePending(t)
         \/ RegisterWaiter(t) \/ ReleaseGuard(t) \/ PollTimer(t)
         \/ PollSignal(t) \/ UnregisterWaiter(t) \/ Relock(t) \/ Reacquire(t)
         \/ Recheck(t) \/ WaitAgain(t) \/ Select(t) \/ Signal(t)
         \/ TimerStep(t),
         TypeOK
  PROVE  Silent(t)
<1> USE DEF Silent, TypeOK, Go, taskVars, timerVars
<1>1. CASE EnterWait(t)
  BY <1>1 DEF EnterWait
<1>2. CASE EnterTimedWait(t)
  BY <1>2 DEF EnterTimedWait
<1>3. CASE DeadlinePending(t)
  BY <1>3 DEF DeadlinePending
<1>4. CASE RegisterWaiter(t)
  BY <1>4 DEF RegisterWaiter
<1>5. CASE ReleaseGuard(t)
  BY <1>5 DEF ReleaseGuard
<1>6. CASE PollTimer(t)
  BY <1>6 DEF PollTimer
<1>7. CASE PollSignal(t)
  BY <1>7 DEF PollSignal
<1>8. CASE UnregisterWaiter(t)
  BY <1>8 DEF UnregisterWaiter
<1>9. CASE Relock(t)
  BY <1>9 DEF Relock
<1>10. CASE Reacquire(t)
  BY <1>10 DEF Reacquire
<1>11. CASE Recheck(t)
  BY <1>11 DEF Recheck
<1>12. CASE WaitAgain(t)
  BY <1>12 DEF WaitAgain, Settle
<1>13. CASE Select(t)
  BY <1>13 DEF Select
<1>14. CASE Signal(t)
  BY <1>14 DEF Signal
<1>15. CASE TimerStep(t)
  BY <1>15 DEF TimerStep, TimerFires, TimerFails, Complete
<1> QED
  BY <1>1, <1>2, <1>3, <1>4, <1>5, <1>6, <1>7, <1>8, <1>9, <1>10, <1>11,
     <1>12, <1>13, <1>14, <1>15

(* Calls are made and enter as the contract says.                          *)
LEMMA CallsKeepContract ==
  ASSUME TypeOK, CallState, NEW t \in Tasks, Frame(t), StartCall(t) \/ Acquire(t)
  PROVE  Contract!Next
<1>1. Phase' = [Phase EXCEPT ![t] = Phase'[t]]
  BY PhaseFrame
<1>2. CASE StartCall(t)
  <2>1. /\ pc[t] = "idle" /\ op'[t] \in CallKinds
        /\ op' = [op EXCEPT ![t] = op'[t]]
        /\ result' = [result EXCEPT ![t] = "none"]
        /\ UNCHANGED <<items, now>>
    <3>1. PICK c \in CallKinds : Begin(t, c)
      BY <1>2, CallsAssumption
         DEF StartCall, CallLocking, CallWaitFor, CallWaitDeadline, CallNotify,
             CallKinds, WaitCalls, TimedCalls, WriteCalls, NotifyCalls
    <3> QED
      BY <3>1 DEF Begin, TypeOK
  <2>2. /\ timeout' = [timeout EXCEPT ![t] = timeout'[t]]
        /\ deadline' = [deadline EXCEPT ![t] = deadline'[t]]
    BY <1>2 DEF StartCall, CallLocking, CallWaitFor, CallWaitDeadline,
       CallNotify, TypeOK
  <2>3. op[t] = "none" /\ op'[t] # "none"
    BY <2>1 DEF CallState, CallStateOf, CallKinds, WaitCalls, TimedCalls,
       WriteCalls, NotifyingWrites, NotifyCalls
  <2>4. Phase'[t] \in {"called", "running"}
    BY <2>3 DEF Phase
  <2>5. Contract!Invoke(t)
    BY <1>1, <2>1, <2>2, <2>3, <2>4 DEF Contract!Invoke
  <2> QED
    BY <2>5 DEF Contract!Next
<1>3. CASE Acquire(t)
  <2>1. /\ pc[t] = "lock" /\ pc'[t] = "held" /\ op' = op
        /\ UNCHANGED <<items, now, op, timeout, result>>
        /\ deadline' = IF op[t] \in {"wait_while_for_async"}
                         THEN [deadline EXCEPT ![t] = now + timeout[t]]
                         ELSE deadline
    BY <1>3 DEF Acquire, Go, TypeOK
  <2>2. op[t] # "none"
    BY <2>1 DEF CallState, CallStateOf
  <2>3. Phase[t] = "called" /\ Phase'[t] = "running"
    BY <2>1, <2>2 DEF Phase
  <2>4. Contract!Enter(t)
    BY <1>1, <2>1, <2>3 DEF Contract!Enter
  <2> QED
    BY <2>4 DEF Contract!Next
<1> QED
  BY <1>2, <1>3

(* Where a call that is past its first lock is running.                    *)
LEMMA Running ==
  ASSUME CallState, NEW t \in Tasks, pc[t] \notin {"idle", "lock"}
  PROVE  Phase[t] = "running"
  BY PhaseOf DEF CallState, CallStateOf

(* The closures' effects and the results that report them.                 *)
LEMMA EffectsKeepContract ==
  ASSUME TypeOK, CallState, NEW t \in Tasks, Frame(t),
         WithWrite(t) \/ WithWriteNotify(t) \/ TakeReady(t) \/ NotifyReturns(t)
  PROVE  Contract!Next
<1>0. Phase[t] = "running"
  BY Running DEF WithWrite, WithWriteNotify, TakeReady, NotifyReturns
<1>1. CASE WithWrite(t)
  <2>1. Contract!End(t, "done")
    BY <1>1, FinishEnds DEF WithWrite, Return
  <2>2. \/ op[t] \in {"with_read_async"} /\ items' = items
        \/ op[t] \in {"with_write_async"} /\ items' \in 0 .. items
    BY <1>1 DEF WithWrite, Settle
  <2>3. Contract!Write(t)
    BY <1>0, <2>1, <2>2 DEF Contract!Write
  <2> QED
    BY <2>3 DEF Contract!Next
<1>2. CASE WithWriteNotify(t)
  <2>1. /\ op[t] \in NotifyingWrites /\ items' \in 0 .. MaxItems
        /\ pc[t] = "held" /\ pc'[t] = "notify"
        /\ UNCHANGED <<op, now, timeout, deadline, result>>
    BY <1>2 DEF WithWriteNotify, Settle, NotifyingWrites, Go, timerVars, TypeOK
  <2>2. Phase' = Phase
    BY <2>1 DEF Phase, Frame
  <2>3. op' = [op EXCEPT ![t] = op'[t]] /\ op'[t] = op[t]
    BY <2>1 DEF TypeOK
  <2>4. result' = [result EXCEPT ![t] = "none"]
    BY <2>1 DEF TypeOK, CallState, CallStateOf
  <2>5. Contract!Write(t)
    BY <1>0, <2>1, <2>2, <2>3, <2>4 DEF Contract!Write
  <2> QED
    BY <2>5 DEF Contract!Next
<1>3. CASE TakeReady(t)
  <2>1. Contract!End(t, "ready")
    BY <1>3, FinishEnds DEF TakeReady, Return
  <2>2. Contract!Ready(t)
    BY <1>0, <1>3, <2>1 DEF TakeReady, Settle, Contract!Ready
  <2> QED
    BY <2>2 DEF Contract!Next
<1>4. CASE NotifyReturns(t)
  <2>1. Contract!End(t, "done")
    BY <1>4, FinishEnds DEF NotifyReturns
  <2>2. op[t] \notin WaitCalls \cup {"with_read_async"} /\ items' = items
    BY <1>4 DEF NotifyReturns, CallState, CallStateOf, NotifySteps,
       NotifyCalls, NotifyingWrites, WaitCalls, TimedCalls
  <2>3. Contract!Notified(t)
    BY <1>0, <2>1, <2>2 DEF Contract!Notified
  <2> QED
    BY <2>3 DEF Contract!Next
<1> QED
  BY <1>1, <1>2, <1>3, <1>4

(* Timeouts are reported at or after the deadline with nothing to take;    *)
(* errors by timed calls alone.                                            *)
LEMMA TimeoutsKeepContract ==
  ASSUME TypeOK, CallState, StillBlocked, NEW t \in Tasks, Frame(t),
         \/ ZeroTimeout(t) \/ WaitTimesOut(t) \/ DeadlineExpired(t)
         \/ ArmFails(t) \/ WaitFails(t)
  PROVE  Contract!Next
<1>0. Phase[t] = "running"
  BY Running
     DEF ZeroTimeout, WaitTimesOut, DeadlineExpired, ArmFails, WaitFails
<1>1. now \in Nat /\ deadline[t] \in Nat /\ timeout[t] \in Nat
  BY TimeoutsAssumption DEF TypeOK
<1>2. CallStateOf(t)
  BY DEF CallState
<1>3. ASSUME op[t] \in TimedCalls, items = 0, deadline[t] <= now,
             Finish(t, "timed_out"), items' = items
      PROVE  Contract!Next
  <2>1. Contract!End(t, "timed_out")
    BY <1>3, FinishEnds
  <2>2. Contract!TimedOut(t)
    BY <1>0, <1>1, <1>3, <2>1 DEF Contract!TimedOut
  <2> QED
    BY <2>2 DEF Contract!Next
<1>4. ASSUME op[t] \in TimedCalls, Finish(t, "error"), items' = items
      PROVE  Contract!Next
  <2>1. Contract!End(t, "error")
    BY <1>4, FinishEnds
  <2>2. Contract!Fails(t)
    BY <1>0, <1>4, <2>1 DEF Contract!Fails
  <2> QED
    BY <2>2 DEF Contract!Next
<1>5. CASE ZeroTimeout(t)
  BY <1>1, <1>2, <1>3, <1>5 DEF ZeroTimeout, Return, CallStateOf, TimedCalls
<1>6. CASE WaitTimesOut(t)
  BY <1>2, <1>3, <1>6 DEF WaitTimesOut, Settle, Return, CallStateOf
<1>7. CASE DeadlineExpired(t)
  <2>1. op[t] \in TimedCalls /\ items = 0 /\ items' = items
    BY <1>2, <1>7 DEF DeadlineExpired, CallStateOf, StillBlocked,
       CommittedSteps
  <2>2. CASE timer[t] = "fired"
    BY <1>2, <1>3, <1>7, <2>1, <2>2 DEF DeadlineExpired, Return, CallStateOf
  <2>3. CASE timer[t] # "fired"
    BY <1>4, <1>7, <2>1, <2>3 DEF DeadlineExpired, Return
  <2> QED
    BY <2>2, <2>3
<1>8. CASE ArmFails(t)
  BY <1>4, <1>8 DEF ArmFails, Return
<1>9. CASE WaitFails(t)
  BY <1>2, <1>4, <1>9 DEF WaitFails, Forfeit, Settle, Return, CallStateOf
<1> QED
  BY <1>5, <1>6, <1>7, <1>8, <1>9

(* A panic leaves no more than the call may change; a cancelled call has   *)
(* had no effect.                                                          *)
LEMMA AbortsKeepContract ==
  ASSUME TypeOK, CallState, NEW t \in Tasks, Frame(t),
         ClosurePanics(t) \/ RegisterPanics(t) \/ Cancel(t)
  PROVE  Contract!Next
<1>1. CASE ClosurePanics(t) \/ RegisterPanics(t)
  <2>1. Phase[t] = "running"
    BY <1>1, Running DEF ClosurePanics, RegisterPanics
  <2>2. PICK n \in LeftByPanic(t) : Unwind(t, n)
    BY <1>1 DEF ClosurePanics, RegisterPanics, LeftByPanic, TypeOK
  <2>3. Contract!End(t, "panicked")
    BY <2>2, FinishEnds DEF Unwind, Return
  <2>4. \/ items' = items
        \/ op[t] \in WaitCalls /\ items > 0 /\ items' = items - 1
        \/ op[t] \in {"with_write_async"} /\ items' \in 0 .. items
        \/ op[t] \in NotifyingWrites /\ items' \in 0 .. MaxItems
    <3>1. items' = n /\ n \in 0 .. MaxItems
      BY <2>2 DEF Unwind, Settle, LeftByPanic
    <3> QED
      BY <2>2, <3>1 DEF LeftByPanic, TypeOK, WriteCalls, WaitCalls,
         TimedCalls, NotifyingWrites
  <2>5. Contract!Panic(t)
    BY <2>1, <2>3, <2>4 DEF Contract!Panic
  <2> QED
    BY <2>5 DEF Contract!Next
<1>2. CASE Cancel(t)
  <2>1. pc[t] \in {"lock", "relock", "wait"} /\ items' = items
    BY <1>2 DEF Cancel, CancelLock, CancelWait, Forfeit, Settle
  <2>2. Contract!End(t, "cancelled")
    BY <1>2, FinishEnds DEF Cancel, CancelLock, CancelWait
  <2>3. /\ op[t] \in WaitCalls \cup WriteCalls
        /\ Phase[t] = "called" \/ (Phase[t] = "running" /\ op[t] \in WaitCalls)
    BY <2>1, PhaseOf DEF CallState, CallStateOf, StartSteps, NotifySteps,
       TypeOK, CallKinds
  <2>4. Contract!Cancelled(t)
    BY <2>1, <2>2, <2>3 DEF Contract!Cancelled
  <2> QED
    BY <2>4 DEF Contract!Next
<1> QED
  BY <1>1, <1>2

(* Every step of the monitor is a step of the contract or a stutter.       *)
LEMMA ContractStep ==
  ASSUME WaitInv, [Next]_vars
  PROVE  [Contract!Next]_Contract!vars
<1>0. TypeOK /\ CallState /\ StillBlocked
  BY DEF WaitInv
<1>1. CASE UNCHANGED vars
  BY <1>1 DEF vars, taskVars, timerVars, Phase, Contract!vars
<1>2. CASE Tick
  <2>1. Contract!Tick
    BY <1>2 DEF Tick, taskVars, Phase, Contract!Tick
  <2> QED
    BY <2>1 DEF Contract!Next
<1>3. ASSUME NEW t \in Tasks,
             StartCall(t) \/ PollStep(t) \/ Cancel(t) \/ TimerStep(t)
      PROVE  [Contract!Next]_Contract!vars
  <2>1. Frame(t)
    BY <1>0, <1>3, FrameStep
  <2> QED
    BY <1>0, <1>3, <2>1, CallsKeepContract, EffectsKeepContract,
       TimeoutsKeepContract, AbortsKeepContract, SilentSteps, SilentStutters
       DEF PollStep
<1> QED
  BY <1>1, <1>2, <1>3 DEF Next

(* Every call on a TokioMonitor keeps the promises of MonitorContract, for *)
(* every number of tasks and every mix of calls: Ready only with an item   *)
(* to take, TimedOut only with none and not before the one deadline of the *)
(* call, no effect of a cancelled call (tokio_monitor.rs, the *_async      *)
(* calls).                                                                 *)
THEOREM KeepsContractHolds == Spec => KeepsContract
<1>1. Init => Contract!Init
  BY DEF Init, Phase, Contract!Init
<1>2. WaitInv /\ [Next]_vars => [Contract!Next]_Contract!vars
  BY ContractStep
<1> QED
  BY <1>1, <1>2, WaitInvariant, PTL DEF Spec, KeepsContract, Contract!Spec

=============================================================================
