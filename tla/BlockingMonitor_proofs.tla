----------------------- MODULE BlockingMonitor_proofs -----------------------
(***************************************************************************)
(* Proofs about BlockingMonitor for every finite set of threads, every     *)
(* assignment of calls to them and every bound: typing, the guard slot,    *)
(* who is eligible for notification, and that selections and timers reach  *)
(* the thread that waits.                                                  *)
(***************************************************************************)
EXTENDS BlockingMonitor, TLAPS

USE MaxWaiterIdAssumption, ThreadsAssumption, CallsAssumption,
    TimeoutsAssumption, ItemsAssumption, SwitchesAssumption

-----------------------------------------------------------------------------
(* Typing.                                                                 *)

(* The initial state is typed.                                             *)
LEMMA InitTypeOK == Init => TypeOK
<1> SUFFICES ASSUME Init PROVE TypeOK
  OBVIOUS
<1>1. RegistryTypeOK
  BY DEF Init, RegistryInit, RegistryTypeOK
<1>2. /\ owner \in Threads \cup {NoThread}
      /\ items \in 0 .. MaxItems
      /\ signalled \in SUBSET WaiterIds
      /\ now \in 0 .. MaxInstant
      /\ chosen \in SUBSET Threads
      /\ forfeited \in 0 .. MaxItems
  BY DEF Init
<1>3. /\ wakes \in [Threads -> SUBSET WaiterIds]
      /\ pc \in [Threads -> Steps]
      /\ op \in [Threads -> CallKinds \cup {"none"}]
      /\ reg \in [Threads -> {0} \cup WaiterIds]
      /\ status \in [Threads -> Statuses]
      /\ result \in [Threads -> Results]
      /\ timeout \in [Threads -> Nat]
      /\ deadline \in [Threads -> Nat]
      /\ timer \in [Threads -> Futures]
      /\ waker \in [Threads -> {0} \cup WaiterIds]
  BY DEF Init, Steps, Statuses, Results, Futures
<1>4. poisoned \in BOOLEAN
  BY DEF Init
<1> QED
  BY <1>1, <1>2, <1>3, <1>4 DEF TypeOK

(* Starting a call preserves the types.                                    *)
LEMMA CallsTypeOK ==
  ASSUME TypeOK, NEW t \in Threads, StartCall(t)
  PROVE  TypeOK'
<1> USE DEF TypeOK, RegistryTypeOK, registryVars, threadVars, timerVars,
        historyVars,
        Steps, Statuses, Results, Futures, Go
<1>1. CASE CallLocking(t)
  BY <1>1
     DEF CallLocking, Begin, CallKinds, WriteCalls, WaitCalls, NotifyCalls,
         NotifyingWrites
<1>2. CASE CallNotify(t)
  BY <1>2 DEF CallNotify, Begin, CallKinds, NotifyCalls
<1>3. CASE CallWaitFor(t)
  BY <1>3 DEF CallWaitFor, Begin, CallKinds, WaitCalls, TimedCalls
<1>4. CASE CallWaitDeadline(t)
  BY <1>4 DEF CallWaitDeadline, Begin, CallKinds, WaitCalls, TimedCalls
<1>5. CASE CallWaitTotal(t)
  BY <1>5 DEF CallWaitTotal, Begin, CallKinds, WaitCalls, TimedCalls
<1>6. CASE CallWaitTotalOverflow(t)
  BY <1>6 DEF CallWaitTotalOverflow, Finish
<1>7. CASE ClearPoison(t)
  BY <1>7 DEF ClearPoison
<1> QED BY <1>1, <1>2, <1>3, <1>4, <1>5, <1>6, <1>7 DEF StartCall

(* The steps taken with the mutex held preserve the types.                 *)
LEMMA HeldTypeOK ==
  ASSUME TypeOK, NEW t \in Threads, HeldStep(t)
  PROVE  TypeOK'
<1> USE DEF TypeOK, RegistryTypeOK, registryVars, threadVars, timerVars,
        historyVars, Steps, Statuses, Results, Futures, Go, Unlock, Settle,
        Return, Finish
<1>1. CASE WithWrite(t)
  BY <1>1 DEF WithWrite
<1>2. CASE WithWriteNotify(t)
  BY <1>2 DEF WithWriteNotify
<1>3. CASE TakeReady(t)
  BY <1>3 DEF TakeReady
<1>4. CASE EnterWait(t)
  BY <1>4 DEF EnterWait
<1>5. CASE EnterTimedWait(t)
  BY <1>5 DEF EnterTimedWait, Arm
<1>6. CASE ZeroTimeout(t)
  BY <1>6 DEF ZeroTimeout
<1>7. CASE ArmFails(t)
  BY <1>7 DEF ArmFails
<1>8. CASE PollDeadline(t)
  BY <1>8 DEF PollDeadline
<1>9. CASE DeadlineExpired(t)
  BY <1>9 DEF DeadlineExpired
<1>10. CASE WaitFails(t)
  BY <1>10 DEF WaitFails, Forfeit
<1>11. CASE WaitTimesOut(t)
  BY <1>11 DEF WaitTimesOut
<1>12. CASE WaitAgain(t)
  BY <1>12 DEF WaitAgain
<1>13. CASE ClosurePanics(t)
  <2>1. PICK n \in 0 .. MaxItems : Unwind(t, n)
    BY <1>13 DEF ClosurePanics, LeftByPanic
  <2>2. forfeited' \in 0 .. MaxItems
    BY <2>1 DEF Unwind
  <2> QED
    BY <2>1, <2>2 DEF Unwind
<1>14. CASE RegisterPanics(t)
  BY <1>14 DEF RegisterPanics, Unwind
<1> QED
  BY <1>1, <1>2, <1>3, <1>4, <1>5, <1>6, <1>7, <1>8, <1>9, <1>10, <1>11,
     <1>12, <1>13, <1>14 DEF HeldStep

(* Locking, waiting and the steps of a guard client preserve the types.    *)
LEMMA OtherTypeOK ==
  ASSUME TypeOK, NEW t \in Threads,
         LockStep(t) \/ WaitStep(t) \/ GuardStep(t)
  PROVE  TypeOK'
<1> USE DEF TypeOK, RegistryTypeOK, registryVars, threadVars, timerVars,
        historyVars, Steps, Statuses, Results, Futures, Go, Unlock
<1>1. CASE Acquire(t)
  BY <1>1 DEF Acquire
<1>2. CASE Reacquire(t)
  BY <1>2 DEF Reacquire
<1>3. CASE PollNoop(t)
  BY <1>3 DEF PollNoop, Poll
<1>4. CASE RegisterWaiter(t)
  BY <1>4 DEF RegisterWaiter, Register, Exhausted, WaiterIds
<1>5. CASE PollWaker(t)
  BY <1>5 DEF PollWaker, Poll
<1>6. CASE ReleaseGuard(t)
  BY <1>6 DEF ReleaseGuard
<1>7. CASE LatchWait(t)
  BY <1>7 DEF LatchWait
<1>8. CASE UnregisterWaiter(t)
  BY <1>8 DEF UnregisterWaiter, Unregister
<1>9. CASE PollFinal(t)
  BY <1>9 DEF PollFinal, Poll
<1>10. CASE GuardWaitReturns(t)
  BY <1>10 DEF GuardWaitReturns
<1>11. CASE GuardWait(t)
  BY <1>11 DEF GuardWait, Settle
<1>12. CASE GuardTimedWait(t)
  BY <1>12 DEF GuardTimedWait, Settle, Arm
<1>13. CASE GuardArmFails(t)
  BY <1>13 DEF GuardArmFails, Settle
<1>14. CASE GuardDrop(t)
  BY <1>14 DEF GuardDrop, Settle, Forfeit, Return, Finish
<1>15. CASE GuardNotify(t)
  BY <1>15 DEF GuardNotify, Settle, Forfeit, NotifyCalls, CallKinds
<1> QED
  BY <1>1, <1>2, <1>3, <1>4, <1>5, <1>6, <1>7, <1>8, <1>9, <1>10, <1>11,
     <1>12, <1>13, <1>14, <1>15 DEF LockStep, WaitStep, GuardStep

(* Notifiers, the timer and the clock preserve the types.                  *)
LEMMA EnvTypeOK ==
  ASSUME TypeOK,
         Tick \/ \E t \in Threads : NotifyStep(t) \/ TimerStep(t)
  PROVE  TypeOK'
<1> USE DEF TypeOK, RegistryTypeOK, registryVars, threadVars, timerVars,
        historyVars, Steps, Statuses, Results, Futures, Go
<1>1. CASE Tick
  BY <1>1 DEF Tick
<1>2. ASSUME NEW t \in Threads, Select(t) PROVE TypeOK'
  BY <1>2 DEF Select, TakeAll, TakeOne
<1>3. ASSUME NEW t \in Threads, Signal(t) PROVE TypeOK'
  BY <1>3 DEF Signal, Oldest
<1>4. ASSUME NEW t \in Threads, NotifyReturns(t) PROVE TypeOK'
  BY <1>4 DEF NotifyReturns, Finish
<1>5. ASSUME NEW t \in Threads, TimerStep(t) PROVE TypeOK'
  BY <1>5 DEF TimerStep, TimerFires, TimerFails, Complete
<1> QED
  BY <1>1, <1>2, <1>3, <1>4, <1>5 DEF NotifyStep

(* Every step preserves the types.                                         *)
LEMMA TypeOKStep ==
  ASSUME TypeOK, [Next]_vars
  PROVE  TypeOK'
<1>1. CASE UNCHANGED vars
  BY <1>1 DEF vars, TypeOK, RegistryTypeOK, registryVars, threadVars,
              timerVars, historyVars
<1>2. CASE Next
  BY <1>2, CallsTypeOK, HeldTypeOK, OtherTypeOK, EnvTypeOK DEF Next
<1> QED
  BY <1>1, <1>2

(* Every reachable state is well typed: in particular no waiter identifier *)
(* is handed out beyond the last one that checked_add allows, and neither  *)
(* clock nor items leave their range (waiter_registry.rs, register).       *)
THEOREM TypeCorrect == Spec => []TypeOK
<1>1. Init => TypeOK
  BY InitTypeOK
<1>2. TypeOK /\ [Next]_vars => TypeOK'
  BY TypeOKStep
<1> QED
  BY <1>1, <1>2, PTL DEF Spec

-----------------------------------------------------------------------------
(* The invariants, one lemma for each.                                     *)

(* Only the owner of the mutex gives it up, and it does so exactly when it *)
(* parks, returns or unwinds.                                              *)
LEMMA GuardSlotStep ==
  ASSUME TypeOK, GuardSlot, [Next]_vars
  PROVE  GuardSlot'
<1> USE DEF TypeOK, GuardSlot, HoldingSteps, Steps, Statuses, registryVars,
        threadVars, timerVars, historyVars, Go
<1>1. CASE Tick
  BY <1>1 DEF Tick
<1>2. ASSUME NEW t \in Threads, CallLocking(t) PROVE GuardSlot'
  BY <1>2 DEF CallLocking, Begin
<1>3. ASSUME NEW t \in Threads, CallNotify(t) PROVE GuardSlot'
  BY <1>3 DEF CallNotify, Begin
<1>4. ASSUME NEW t \in Threads, CallWaitFor(t) PROVE GuardSlot'
  BY <1>4 DEF CallWaitFor, Begin
<1>5. ASSUME NEW t \in Threads, CallWaitDeadline(t) PROVE GuardSlot'
  BY <1>5 DEF CallWaitDeadline, Begin
<1>6. ASSUME NEW t \in Threads, CallWaitTotal(t) PROVE GuardSlot'
  BY <1>6 DEF CallWaitTotal, Begin
<1>7. ASSUME NEW t \in Threads, CallWaitTotalOverflow(t) PROVE GuardSlot'
  BY <1>7 DEF CallWaitTotalOverflow, Finish
<1>8. ASSUME NEW t \in Threads, ClearPoison(t) PROVE GuardSlot'
  BY <1>8 DEF ClearPoison
<1>9. ASSUME NEW t \in Threads, Acquire(t) PROVE GuardSlot'
  BY <1>9 DEF Acquire
<1>10. ASSUME NEW t \in Threads, Reacquire(t) PROVE GuardSlot'
  BY <1>10 DEF Reacquire
<1>11. ASSUME NEW t \in Threads, PollNoop(t) PROVE GuardSlot'
  BY <1>11 DEF PollNoop, Poll
<1>12. ASSUME NEW t \in Threads, RegisterWaiter(t) PROVE GuardSlot'
  BY <1>12 DEF RegisterWaiter, Register, Exhausted
<1>13. ASSUME NEW t \in Threads, PollWaker(t) PROVE GuardSlot'
  BY <1>13 DEF PollWaker, Poll
<1>14. ASSUME NEW t \in Threads, ReleaseGuard(t) PROVE GuardSlot'
  BY <1>14 DEF ReleaseGuard, Unlock
<1>15. ASSUME NEW t \in Threads, LatchWait(t) PROVE GuardSlot'
  BY <1>15 DEF LatchWait
<1>16. ASSUME NEW t \in Threads, UnregisterWaiter(t) PROVE GuardSlot'
  BY <1>16 DEF UnregisterWaiter, Unregister
<1>17. ASSUME NEW t \in Threads, PollFinal(t) PROVE GuardSlot'
  BY <1>17 DEF PollFinal, Poll
<1>18. ASSUME NEW t \in Threads, WithWrite(t) PROVE GuardSlot'
  BY <1>18 DEF WithWrite, Settle, Return, Unlock, Finish
<1>19. ASSUME NEW t \in Threads, WithWriteNotify(t) PROVE GuardSlot'
  BY <1>19 DEF WithWriteNotify, Settle, Unlock
<1>20. ASSUME NEW t \in Threads, TakeReady(t) PROVE GuardSlot'
  BY <1>20 DEF TakeReady, Settle, Return, Unlock, Finish
<1>21. ASSUME NEW t \in Threads, EnterWait(t) PROVE GuardSlot'
  BY <1>21 DEF EnterWait
<1>22. ASSUME NEW t \in Threads, EnterTimedWait(t) PROVE GuardSlot'
  BY <1>22 DEF EnterTimedWait, Arm
<1>23. ASSUME NEW t \in Threads, ZeroTimeout(t) PROVE GuardSlot'
  BY <1>23 DEF ZeroTimeout, Return, Unlock, Finish
<1>24. ASSUME NEW t \in Threads, ArmFails(t) PROVE GuardSlot'
  BY <1>24 DEF ArmFails, Return, Unlock, Finish
<1>25. ASSUME NEW t \in Threads, PollDeadline(t) PROVE GuardSlot'
  BY <1>25 DEF PollDeadline
<1>26. ASSUME NEW t \in Threads, DeadlineExpired(t) PROVE GuardSlot'
  BY <1>26 DEF DeadlineExpired, Return, Unlock, Finish
<1>27. ASSUME NEW t \in Threads, WaitFails(t) PROVE GuardSlot'
  BY <1>27 DEF WaitFails, Forfeit, Settle, Return, Unlock, Finish
<1>28. ASSUME NEW t \in Threads, WaitTimesOut(t) PROVE GuardSlot'
  BY <1>28 DEF WaitTimesOut, Settle, Return, Unlock, Finish
<1>29. ASSUME NEW t \in Threads, WaitAgain(t) PROVE GuardSlot'
  BY <1>29 DEF WaitAgain, Settle
<1>30. ASSUME NEW t \in Threads, ClosurePanics(t) PROVE GuardSlot'
  BY <1>30 DEF ClosurePanics, Unwind, Settle, Unlock, Finish
<1>31. ASSUME NEW t \in Threads, RegisterPanics(t) PROVE GuardSlot'
  BY <1>31 DEF RegisterPanics, Unwind, Settle, Unlock, Finish
<1>32. ASSUME NEW t \in Threads, GuardWaitReturns(t) PROVE GuardSlot'
  BY <1>32 DEF GuardWaitReturns
<1>33. ASSUME NEW t \in Threads, GuardWait(t) PROVE GuardSlot'
  BY <1>33 DEF GuardWait, Settle
<1>34. ASSUME NEW t \in Threads, GuardTimedWait(t) PROVE GuardSlot'
  BY <1>34 DEF GuardTimedWait, Arm, Settle
<1>35. ASSUME NEW t \in Threads, GuardArmFails(t) PROVE GuardSlot'
  BY <1>35 DEF GuardArmFails, Settle
<1>36. ASSUME NEW t \in Threads, GuardDrop(t) PROVE GuardSlot'
  BY <1>36 DEF GuardDrop, Forfeit, Settle, Return, Unlock, Finish
<1>37. ASSUME NEW t \in Threads, GuardNotify(t) PROVE GuardSlot'
  BY <1>37 DEF GuardNotify, Forfeit, Settle, Unlock
<1>38. ASSUME NEW t \in Threads, Select(t) PROVE GuardSlot'
  BY <1>38 DEF Select, TakeAll, TakeOne
<1>39. ASSUME NEW t \in Threads, Signal(t) PROVE GuardSlot'
  BY <1>39 DEF Signal, Oldest
<1>40. ASSUME NEW t \in Threads, NotifyReturns(t) PROVE GuardSlot'
  BY <1>40 DEF NotifyReturns, Finish
<1>41. ASSUME NEW t \in Threads, TimerFires(t) PROVE GuardSlot'
  BY <1>41 DEF TimerFires, Complete
<1>42. ASSUME NEW t \in Threads, TimerFails(t) PROVE GuardSlot'
  BY <1>42 DEF TimerFails, Complete
<1>43. CASE UNCHANGED vars
  BY <1>43 DEF vars
<1> QED
  BY <1>1, <1>2, <1>3, <1>4, <1>5, <1>6, <1>7, <1>8, <1>9, <1>10, <1>11,
     <1>12, <1>13, <1>14, <1>15, <1>16, <1>17, <1>18, <1>19, <1>20, <1>21,
     <1>22, <1>23, <1>24, <1>25, <1>26, <1>27, <1>28, <1>29, <1>30, <1>31,
     <1>32, <1>33, <1>34, <1>35, <1>36, <1>37, <1>38, <1>39, <1>40, <1>41,
     <1>42, <1>43
     DEF Next, StartCall, LockStep, WaitStep, HeldStep, GuardStep, NotifyStep,
         TimerStep

(* A fresh identifier is larger than every one in use, so registrations    *)
(* stay apart; a registration leaves with the thread that holds it.        *)
LEMMA BookkeepingStep ==
  ASSUME TypeOK, GuardSlot, Bookkeeping, [Next]_vars
  PROVE  Bookkeeping'
<1> USE DEF TypeOK, RegistryTypeOK, WaiterIds, GuardSlot, HoldingSteps,
        Steps, Bookkeeping, RegisteredSteps, registryVars, threadVars,
        timerVars, historyVars, Go
<1>1. CASE Tick
  BY <1>1 DEF Tick
<1>2. ASSUME NEW t \in Threads, CallLocking(t) PROVE Bookkeeping'
  BY <1>2 DEF CallLocking, Begin
<1>3. ASSUME NEW t \in Threads, CallNotify(t) PROVE Bookkeeping'
  BY <1>3 DEF CallNotify, Begin
<1>4. ASSUME NEW t \in Threads, CallWaitFor(t) PROVE Bookkeeping'
  BY <1>4 DEF CallWaitFor, Begin
<1>5. ASSUME NEW t \in Threads, CallWaitDeadline(t) PROVE Bookkeeping'
  BY <1>5 DEF CallWaitDeadline, Begin
<1>6. ASSUME NEW t \in Threads, CallWaitTotal(t) PROVE Bookkeeping'
  BY <1>6 DEF CallWaitTotal, Begin
<1>7. ASSUME NEW t \in Threads, CallWaitTotalOverflow(t) PROVE Bookkeeping'
  BY <1>7 DEF CallWaitTotalOverflow, Finish
<1>8. ASSUME NEW t \in Threads, ClearPoison(t) PROVE Bookkeeping'
  BY <1>8 DEF ClearPoison
<1>9. ASSUME NEW t \in Threads, Acquire(t) PROVE Bookkeeping'
  BY <1>9 DEF Acquire
<1>10. ASSUME NEW t \in Threads, Reacquire(t) PROVE Bookkeeping'
  BY <1>10 DEF Reacquire
<1>11. ASSUME NEW t \in Threads, PollNoop(t) PROVE Bookkeeping'
  BY <1>11 DEF PollNoop, Poll
<1>12. ASSUME NEW t \in Threads, RegisterWaiter(t) PROVE Bookkeeping'
  BY <1>12 DEF RegisterWaiter, Register, Exhausted
<1>13. ASSUME NEW t \in Threads, PollWaker(t) PROVE Bookkeeping'
  BY <1>13, SMTT(30) DEF PollWaker, Poll
<1>14. ASSUME NEW t \in Threads, ReleaseGuard(t) PROVE Bookkeeping'
  BY <1>14 DEF ReleaseGuard, Unlock
<1>15. ASSUME NEW t \in Threads, LatchWait(t) PROVE Bookkeeping'
  BY <1>15 DEF LatchWait
<1>16. ASSUME NEW t \in Threads, UnregisterWaiter(t) PROVE Bookkeeping'
  BY <1>16 DEF UnregisterWaiter, Unregister
<1>17. ASSUME NEW t \in Threads, PollFinal(t) PROVE Bookkeeping'
  BY <1>17, SMTT(30) DEF PollFinal, Poll
<1>18. ASSUME NEW t \in Threads, WithWrite(t) PROVE Bookkeeping'
  BY <1>18 DEF WithWrite, Settle, Return, Unlock, Finish
<1>19. ASSUME NEW t \in Threads, WithWriteNotify(t) PROVE Bookkeeping'
  BY <1>19 DEF WithWriteNotify, Settle, Unlock
<1>20. ASSUME NEW t \in Threads, TakeReady(t) PROVE Bookkeeping'
  BY <1>20 DEF TakeReady, Settle, Return, Unlock, Finish
<1>21. ASSUME NEW t \in Threads, EnterWait(t) PROVE Bookkeeping'
  BY <1>21 DEF EnterWait
<1>22. ASSUME NEW t \in Threads, EnterTimedWait(t) PROVE Bookkeeping'
  BY <1>22 DEF EnterTimedWait, Arm
<1>23. ASSUME NEW t \in Threads, ZeroTimeout(t) PROVE Bookkeeping'
  BY <1>23 DEF ZeroTimeout, Return, Unlock, Finish
<1>24. ASSUME NEW t \in Threads, ArmFails(t) PROVE Bookkeeping'
  BY <1>24 DEF ArmFails, Return, Unlock, Finish
<1>25. ASSUME NEW t \in Threads, PollDeadline(t) PROVE Bookkeeping'
  BY <1>25 DEF PollDeadline
<1>26. ASSUME NEW t \in Threads, DeadlineExpired(t) PROVE Bookkeeping'
  BY <1>26 DEF DeadlineExpired, Return, Unlock, Finish
<1>27. ASSUME NEW t \in Threads, WaitFails(t) PROVE Bookkeeping'
  BY <1>27 DEF WaitFails, Forfeit, Settle, Return, Unlock, Finish
<1>28. ASSUME NEW t \in Threads, WaitTimesOut(t) PROVE Bookkeeping'
  BY <1>28 DEF WaitTimesOut, Settle, Return, Unlock, Finish
<1>29. ASSUME NEW t \in Threads, WaitAgain(t) PROVE Bookkeeping'
  BY <1>29 DEF WaitAgain, Settle
<1>30. ASSUME NEW t \in Threads, ClosurePanics(t) PROVE Bookkeeping'
  <2>1. PICK n \in 0 .. MaxItems : Unwind(t, n)
    BY <1>30 DEF ClosurePanics, LeftByPanic
  <2>2. pc[t] \in {"held", "guard", "check"}
    BY <1>30 DEF ClosurePanics
  <2>3. forfeited' <= items'
    BY <2>1 DEF Unwind, Settle
  <2>4. /\ UNCHANGED <<reg, next_waiter_id, waiters, wakes>>
        /\ pc' = [pc EXCEPT ![t] = "idle"]
        /\ chosen' = chosen \ {t}
    BY <2>1 DEF Unwind, Settle, Finish
  <2> QED
    BY <2>2, <2>3, <2>4
<1>31. ASSUME NEW t \in Threads, RegisterPanics(t) PROVE Bookkeeping'
  BY <1>31 DEF RegisterPanics, Unwind, Settle, Unlock, Finish
<1>32. ASSUME NEW t \in Threads, GuardWaitReturns(t) PROVE Bookkeeping'
  BY <1>32 DEF GuardWaitReturns
<1>33. ASSUME NEW t \in Threads, GuardWait(t) PROVE Bookkeeping'
  BY <1>33 DEF GuardWait, Settle
<1>34. ASSUME NEW t \in Threads, GuardTimedWait(t) PROVE Bookkeeping'
  BY <1>34 DEF GuardTimedWait, Arm, Settle
<1>35. ASSUME NEW t \in Threads, GuardArmFails(t) PROVE Bookkeeping'
  BY <1>35 DEF GuardArmFails, Settle
<1>36. ASSUME NEW t \in Threads, GuardDrop(t) PROVE Bookkeeping'
  BY <1>36 DEF GuardDrop, Forfeit, Settle, Return, Unlock, Finish
<1>37. ASSUME NEW t \in Threads, GuardNotify(t) PROVE Bookkeeping'
  BY <1>37 DEF GuardNotify, Forfeit, Settle, Unlock
<1>38. ASSUME NEW t \in Threads, Select(t) PROVE Bookkeeping'
  <2>1. PICK taken \in SUBSET waiters :
           /\ TakeAll(taken) \/ TakeOne(taken)
           /\ wakes' = [wakes EXCEPT ![t] = taken]
    BY <1>38 DEF Select
  <2>2. waiters' \subseteq waiters /\ next_waiter_id' = next_waiter_id
    BY <2>1 DEF TakeAll, TakeOne
  <2>3. UNCHANGED <<reg, chosen, items, forfeited>>
    BY <1>38 DEF Select
  <2>4. pc[t] = "notify" /\ pc' = [pc EXCEPT ![t] = "signal"]
    BY <1>38 DEF Select
  <2> QED
    BY <2>1, <2>2, <2>3, <2>4
<1>39. ASSUME NEW t \in Threads, Signal(t) PROVE Bookkeeping'
  BY <1>39 DEF Signal, Oldest
<1>40. ASSUME NEW t \in Threads, NotifyReturns(t) PROVE Bookkeeping'
  BY <1>40 DEF NotifyReturns, Finish
<1>41. ASSUME NEW t \in Threads, TimerFires(t) PROVE Bookkeeping'
  BY <1>41 DEF TimerFires, Complete
<1>42. ASSUME NEW t \in Threads, TimerFails(t) PROVE Bookkeeping'
  BY <1>42 DEF TimerFails, Complete
<1>43. CASE UNCHANGED vars
  BY <1>43 DEF vars
<1> QED
  BY <1>1, <1>2, <1>3, <1>4, <1>5, <1>6, <1>7, <1>8, <1>9, <1>10, <1>11,
     <1>12, <1>13, <1>14, <1>15, <1>16, <1>17, <1>18, <1>19, <1>20, <1>21,
     <1>22, <1>23, <1>24, <1>25, <1>26, <1>27, <1>28, <1>29, <1>30, <1>31,
     <1>32, <1>33, <1>34, <1>35, <1>36, <1>37, <1>38, <1>39, <1>40, <1>41,
     <1>42, <1>43
     DEF Next, StartCall, LockStep, WaitStep, HeldStep, GuardStep, NotifyStep,
         TimerStep

(* What Select takes from the registry goes to the notifier's list, and    *)
(* what leaves the list sets a latch.                                      *)
LEMMA SelectionStep ==
  ASSUME TypeOK, Bookkeeping, SelectionReachesWaiter, [Next]_vars
  PROVE  SelectionReachesWaiter'
<1> USE DEF TypeOK, RegistryTypeOK, WaiterIds, Bookkeeping, RegisteredSteps,
        SelectionReachesWaiter, registryVars, threadVars, timerVars,
        historyVars, Go
<1>1. CASE Tick
  BY <1>1 DEF Tick
<1>2. ASSUME NEW t \in Threads, CallLocking(t) PROVE SelectionReachesWaiter'
  BY <1>2 DEF CallLocking, Begin
<1>3. ASSUME NEW t \in Threads, CallNotify(t) PROVE SelectionReachesWaiter'
  BY <1>3 DEF CallNotify, Begin
<1>4. ASSUME NEW t \in Threads, CallWaitFor(t) PROVE SelectionReachesWaiter'
  BY <1>4 DEF CallWaitFor, Begin
<1>5. ASSUME NEW t \in Threads, CallWaitDeadline(t)
      PROVE  SelectionReachesWaiter'
  BY <1>5 DEF CallWaitDeadline, Begin
<1>6. ASSUME NEW t \in Threads, CallWaitTotal(t) PROVE SelectionReachesWaiter'
  BY <1>6 DEF CallWaitTotal, Begin
<1>7. ASSUME NEW t \in Threads, CallWaitTotalOverflow(t)
      PROVE  SelectionReachesWaiter'
  BY <1>7 DEF CallWaitTotalOverflow, Finish
<1>8. ASSUME NEW t \in Threads, ClearPoison(t) PROVE SelectionReachesWaiter'
  BY <1>8 DEF ClearPoison
<1>9. ASSUME NEW t \in Threads, Acquire(t) PROVE SelectionReachesWaiter'
  BY <1>9 DEF Acquire
<1>10. ASSUME NEW t \in Threads, Reacquire(t) PROVE SelectionReachesWaiter'
  BY <1>10 DEF Reacquire
<1>11. ASSUME NEW t \in Threads, PollNoop(t) PROVE SelectionReachesWaiter'
  BY <1>11 DEF PollNoop, Poll
<1>12. ASSUME NEW t \in Threads, RegisterWaiter(t)
      PROVE  SelectionReachesWaiter'
  BY <1>12 DEF RegisterWaiter, Register, Exhausted
<1>13. ASSUME NEW t \in Threads, PollWaker(t) PROVE SelectionReachesWaiter'
  BY <1>13 DEF PollWaker, Poll
<1>14. ASSUME NEW t \in Threads, ReleaseGuard(t) PROVE SelectionReachesWaiter'
  BY <1>14 DEF ReleaseGuard, Unlock
<1>15. ASSUME NEW t \in Threads, LatchWait(t) PROVE SelectionReachesWaiter'
  BY <1>15 DEF LatchWait
<1>16. ASSUME NEW t \in Threads, UnregisterWaiter(t)
      PROVE  SelectionReachesWaiter'
  BY <1>16 DEF UnregisterWaiter, Unregister
<1>17. ASSUME NEW t \in Threads, PollFinal(t) PROVE SelectionReachesWaiter'
  BY <1>17 DEF PollFinal, Poll
<1>18. ASSUME NEW t \in Threads, WithWrite(t) PROVE SelectionReachesWaiter'
  BY <1>18 DEF WithWrite, Settle, Return, Unlock, Finish
<1>19. ASSUME NEW t \in Threads, WithWriteNotify(t)
      PROVE  SelectionReachesWaiter'
  BY <1>19 DEF WithWriteNotify, Settle, Unlock
<1>20. ASSUME NEW t \in Threads, TakeReady(t) PROVE SelectionReachesWaiter'
  BY <1>20 DEF TakeReady, Settle, Return, Unlock, Finish
<1>21. ASSUME NEW t \in Threads, EnterWait(t) PROVE SelectionReachesWaiter'
  BY <1>21 DEF EnterWait
<1>22. ASSUME NEW t \in Threads, EnterTimedWait(t)
      PROVE  SelectionReachesWaiter'
  BY <1>22 DEF EnterTimedWait, Arm
<1>23. ASSUME NEW t \in Threads, ZeroTimeout(t) PROVE SelectionReachesWaiter'
  BY <1>23 DEF ZeroTimeout, Return, Unlock, Finish
<1>24. ASSUME NEW t \in Threads, ArmFails(t) PROVE SelectionReachesWaiter'
  BY <1>24 DEF ArmFails, Return, Unlock, Finish
<1>25. ASSUME NEW t \in Threads, PollDeadline(t) PROVE SelectionReachesWaiter'
  BY <1>25 DEF PollDeadline
<1>26. ASSUME NEW t \in Threads, DeadlineExpired(t)
      PROVE  SelectionReachesWaiter'
  BY <1>26 DEF DeadlineExpired, Return, Unlock, Finish
<1>27. ASSUME NEW t \in Threads, WaitFails(t) PROVE SelectionReachesWaiter'
  BY <1>27 DEF WaitFails, Forfeit, Settle, Return, Unlock, Finish
<1>28. ASSUME NEW t \in Threads, WaitTimesOut(t) PROVE SelectionReachesWaiter'
  BY <1>28 DEF WaitTimesOut, Settle, Return, Unlock, Finish
<1>29. ASSUME NEW t \in Threads, WaitAgain(t) PROVE SelectionReachesWaiter'
  BY <1>29 DEF WaitAgain, Settle
<1>30. ASSUME NEW t \in Threads, ClosurePanics(t)
      PROVE  SelectionReachesWaiter'
  BY <1>30 DEF ClosurePanics, Unwind, Settle, Unlock, Finish
<1>31. ASSUME NEW t \in Threads, RegisterPanics(t)
      PROVE  SelectionReachesWaiter'
  BY <1>31 DEF RegisterPanics, Unwind, Settle, Unlock, Finish
<1>32. ASSUME NEW t \in Threads, GuardWaitReturns(t)
      PROVE  SelectionReachesWaiter'
  BY <1>32 DEF GuardWaitReturns
<1>33. ASSUME NEW t \in Threads, GuardWait(t) PROVE SelectionReachesWaiter'
  BY <1>33 DEF GuardWait, Settle
<1>34. ASSUME NEW t \in Threads, GuardTimedWait(t)
      PROVE  SelectionReachesWaiter'
  BY <1>34 DEF GuardTimedWait, Arm, Settle
<1>35. ASSUME NEW t \in Threads, GuardArmFails(t)
      PROVE  SelectionReachesWaiter'
  BY <1>35 DEF GuardArmFails, Settle
<1>36. ASSUME NEW t \in Threads, GuardDrop(t) PROVE SelectionReachesWaiter'
  BY <1>36 DEF GuardDrop, Forfeit, Settle, Return, Unlock, Finish
<1>37. ASSUME NEW t \in Threads, GuardNotify(t) PROVE SelectionReachesWaiter'
  BY <1>37 DEF GuardNotify, Forfeit, Settle, Unlock
<1>38. ASSUME NEW t \in Threads, Select(t) PROVE SelectionReachesWaiter'
  BY <1>38 DEF Select, TakeAll, TakeOne
<1>39. ASSUME NEW t \in Threads, Signal(t) PROVE SelectionReachesWaiter'
  BY <1>39 DEF Signal, Oldest
<1>40. ASSUME NEW t \in Threads, NotifyReturns(t)
      PROVE  SelectionReachesWaiter'
  BY <1>40 DEF NotifyReturns, Finish
<1>41. ASSUME NEW t \in Threads, TimerFires(t) PROVE SelectionReachesWaiter'
  BY <1>41 DEF TimerFires, Complete
<1>42. ASSUME NEW t \in Threads, TimerFails(t) PROVE SelectionReachesWaiter'
  BY <1>42 DEF TimerFails, Complete
<1>43. CASE UNCHANGED vars
  BY <1>43 DEF vars
<1> QED
  BY <1>1, <1>2, <1>3, <1>4, <1>5, <1>6, <1>7, <1>8, <1>9, <1>10, <1>11,
     <1>12, <1>13, <1>14, <1>15, <1>16, <1>17, <1>18, <1>19, <1>20, <1>21,
     <1>22, <1>23, <1>24, <1>25, <1>26, <1>27, <1>28, <1>29, <1>30, <1>31,
     <1>32, <1>33, <1>34, <1>35, <1>36, <1>37, <1>38, <1>39, <1>40, <1>41,
     <1>42, <1>43
     DEF Next, StartCall, LockStep, WaitStep, HeldStep, GuardStep, NotifyStep,
         TimerStep

(* The poll with the registered waiter is the last one before the guard is *)
(* released.                                                               *)
LEMMA TimerReachesStep ==
  ASSUME TypeOK, Bookkeeping, TimerReachesWaiter, [Next]_vars
  PROVE  TimerReachesWaiter'
<1> USE DEF TypeOK, RegistryTypeOK, WaiterIds, Bookkeeping, RegisteredSteps,
        TimerReachesWaiter, Timed, Futures, registryVars, threadVars,
        timerVars, historyVars, Go
<1>1. CASE Tick
  BY <1>1 DEF Tick
<1>2. ASSUME NEW t \in Threads, CallLocking(t) PROVE TimerReachesWaiter'
  BY <1>2 DEF CallLocking, Begin
<1>3. ASSUME NEW t \in Threads, CallNotify(t) PROVE TimerReachesWaiter'
  BY <1>3 DEF CallNotify, Begin
<1>4. ASSUME NEW t \in Threads, CallWaitFor(t) PROVE TimerReachesWaiter'
  BY <1>4 DEF CallWaitFor, Begin
<1>5. ASSUME NEW t \in Threads, CallWaitDeadline(t) PROVE TimerReachesWaiter'
  BY <1>5 DEF CallWaitDeadline, Begin
<1>6. ASSUME NEW t \in Threads, CallWaitTotal(t) PROVE TimerReachesWaiter'
  BY <1>6 DEF CallWaitTotal, Begin
<1>7. ASSUME NEW t \in Threads, CallWaitTotalOverflow(t)
      PROVE  TimerReachesWaiter'
  BY <1>7 DEF CallWaitTotalOverflow, Finish
<1>8. ASSUME NEW t \in Threads, ClearPoison(t) PROVE TimerReachesWaiter'
  BY <1>8 DEF ClearPoison
<1>9. ASSUME NEW t \in Threads, Acquire(t) PROVE TimerReachesWaiter'
  BY <1>9 DEF Acquire
<1>10. ASSUME NEW t \in Threads, Reacquire(t) PROVE TimerReachesWaiter'
  BY <1>10 DEF Reacquire
<1>11. ASSUME NEW t \in Threads, PollNoop(t) PROVE TimerReachesWaiter'
  BY <1>11 DEF PollNoop, Poll
<1>12. ASSUME NEW t \in Threads, RegisterWaiter(t) PROVE TimerReachesWaiter'
  BY <1>12 DEF RegisterWaiter, Register, Exhausted
<1>13. ASSUME NEW t \in Threads, PollWaker(t) PROVE TimerReachesWaiter'
  BY <1>13 DEF PollWaker, Poll
<1>14. ASSUME NEW t \in Threads, ReleaseGuard(t) PROVE TimerReachesWaiter'
  BY <1>14 DEF ReleaseGuard, Unlock
<1>15. ASSUME NEW t \in Threads, LatchWait(t) PROVE TimerReachesWaiter'
  BY <1>15 DEF LatchWait
<1>16. ASSUME NEW t \in Threads, UnregisterWaiter(t) PROVE TimerReachesWaiter'
  BY <1>16 DEF UnregisterWaiter, Unregister
<1>17. ASSUME NEW t \in Threads, PollFinal(t) PROVE TimerReachesWaiter'
  BY <1>17 DEF PollFinal, Poll
<1>18. ASSUME NEW t \in Threads, WithWrite(t) PROVE TimerReachesWaiter'
  BY <1>18 DEF WithWrite, Settle, Return, Unlock, Finish
<1>19. ASSUME NEW t \in Threads, WithWriteNotify(t) PROVE TimerReachesWaiter'
  BY <1>19 DEF WithWriteNotify, Settle, Unlock
<1>20. ASSUME NEW t \in Threads, TakeReady(t) PROVE TimerReachesWaiter'
  BY <1>20 DEF TakeReady, Settle, Return, Unlock, Finish
<1>21. ASSUME NEW t \in Threads, EnterWait(t) PROVE TimerReachesWaiter'
  BY <1>21 DEF EnterWait
<1>22. ASSUME NEW t \in Threads, EnterTimedWait(t) PROVE TimerReachesWaiter'
  BY <1>22 DEF EnterTimedWait, Arm
<1>23. ASSUME NEW t \in Threads, ZeroTimeout(t) PROVE TimerReachesWaiter'
  BY <1>23 DEF ZeroTimeout, Return, Unlock, Finish
<1>24. ASSUME NEW t \in Threads, ArmFails(t) PROVE TimerReachesWaiter'
  BY <1>24 DEF ArmFails, Return, Unlock, Finish
<1>25. ASSUME NEW t \in Threads, PollDeadline(t) PROVE TimerReachesWaiter'
  BY <1>25 DEF PollDeadline
<1>26. ASSUME NEW t \in Threads, DeadlineExpired(t) PROVE TimerReachesWaiter'
  BY <1>26 DEF DeadlineExpired, Return, Unlock, Finish
<1>27. ASSUME NEW t \in Threads, WaitFails(t) PROVE TimerReachesWaiter'
  BY <1>27 DEF WaitFails, Forfeit, Settle, Return, Unlock, Finish
<1>28. ASSUME NEW t \in Threads, WaitTimesOut(t) PROVE TimerReachesWaiter'
  BY <1>28 DEF WaitTimesOut, Settle, Return, Unlock, Finish
<1>29. ASSUME NEW t \in Threads, WaitAgain(t) PROVE TimerReachesWaiter'
  BY <1>29 DEF WaitAgain, Settle
<1>30. ASSUME NEW t \in Threads, ClosurePanics(t) PROVE TimerReachesWaiter'
  BY <1>30 DEF ClosurePanics, Unwind, Settle, Unlock, Finish
<1>31. ASSUME NEW t \in Threads, RegisterPanics(t) PROVE TimerReachesWaiter'
  BY <1>31 DEF RegisterPanics, Unwind, Settle, Unlock, Finish
<1>32. ASSUME NEW t \in Threads, GuardWaitReturns(t) PROVE TimerReachesWaiter'
  BY <1>32 DEF GuardWaitReturns
<1>33. ASSUME NEW t \in Threads, GuardWait(t) PROVE TimerReachesWaiter'
  BY <1>33 DEF GuardWait, Settle
<1>34. ASSUME NEW t \in Threads, GuardTimedWait(t) PROVE TimerReachesWaiter'
  BY <1>34 DEF GuardTimedWait, Arm, Settle
<1>35. ASSUME NEW t \in Threads, GuardArmFails(t) PROVE TimerReachesWaiter'
  BY <1>35 DEF GuardArmFails, Settle
<1>36. ASSUME NEW t \in Threads, GuardDrop(t) PROVE TimerReachesWaiter'
  BY <1>36 DEF GuardDrop, Forfeit, Settle, Return, Unlock, Finish
<1>37. ASSUME NEW t \in Threads, GuardNotify(t) PROVE TimerReachesWaiter'
  BY <1>37 DEF GuardNotify, Forfeit, Settle, Unlock
<1>38. ASSUME NEW t \in Threads, Select(t) PROVE TimerReachesWaiter'
  BY <1>38 DEF Select, TakeAll, TakeOne
<1>39. ASSUME NEW t \in Threads, Signal(t) PROVE TimerReachesWaiter'
  BY <1>39 DEF Signal, Oldest
<1>40. ASSUME NEW t \in Threads, NotifyReturns(t) PROVE TimerReachesWaiter'
  BY <1>40 DEF NotifyReturns, Finish
<1>41. ASSUME NEW t \in Threads, TimerFires(t) PROVE TimerReachesWaiter'
  BY <1>41 DEF TimerFires, Complete
<1>42. ASSUME NEW t \in Threads, TimerFails(t) PROVE TimerReachesWaiter'
  BY <1>42 DEF TimerFails, Complete
<1>43. CASE UNCHANGED vars
  BY <1>43 DEF vars
<1> QED
  BY <1>1, <1>2, <1>3, <1>4, <1>5, <1>6, <1>7, <1>8, <1>9, <1>10, <1>11,
     <1>12, <1>13, <1>14, <1>15, <1>16, <1>17, <1>18, <1>19, <1>20, <1>21,
     <1>22, <1>23, <1>24, <1>25, <1>26, <1>27, <1>28, <1>29, <1>30, <1>31,
     <1>32, <1>33, <1>34, <1>35, <1>36, <1>37, <1>38, <1>39, <1>40, <1>41,
     <1>42, <1>43
     DEF Next, StartCall, LockStep, WaitStep, HeldStep, GuardStep, NotifyStep,
         TimerStep

(* The items change only in steps of the owner of the mutex, and a thread  *)
(* that has decided to wait takes none of them.                            *)
LEMMA StillBlockedStep ==
  ASSUME TypeOK, GuardSlot, StillBlocked, [Next]_vars
  PROVE  StillBlocked'
<1> USE DEF TypeOK, GuardSlot, HoldingSteps, StillBlocked, CommittedSteps,
        registryVars, threadVars, timerVars, historyVars, Go
<1>1. CASE Tick
  BY <1>1 DEF Tick
<1>2. ASSUME NEW t \in Threads, CallLocking(t) PROVE StillBlocked'
  BY <1>2 DEF CallLocking, Begin
<1>3. ASSUME NEW t \in Threads, CallNotify(t) PROVE StillBlocked'
  BY <1>3 DEF CallNotify, Begin
<1>4. ASSUME NEW t \in Threads, CallWaitFor(t) PROVE StillBlocked'
  BY <1>4 DEF CallWaitFor, Begin
<1>5. ASSUME NEW t \in Threads, CallWaitDeadline(t) PROVE StillBlocked'
  BY <1>5 DEF CallWaitDeadline, Begin
<1>6. ASSUME NEW t \in Threads, CallWaitTotal(t) PROVE StillBlocked'
  BY <1>6 DEF CallWaitTotal, Begin
<1>7. ASSUME NEW t \in Threads, CallWaitTotalOverflow(t) PROVE StillBlocked'
  BY <1>7 DEF CallWaitTotalOverflow, Finish
<1>8. ASSUME NEW t \in Threads, ClearPoison(t) PROVE StillBlocked'
  BY <1>8 DEF ClearPoison
<1>9. ASSUME NEW t \in Threads, Acquire(t) PROVE StillBlocked'
  BY <1>9 DEF Acquire
<1>10. ASSUME NEW t \in Threads, Reacquire(t) PROVE StillBlocked'
  BY <1>10 DEF Reacquire
<1>11. ASSUME NEW t \in Threads, PollNoop(t) PROVE StillBlocked'
  BY <1>11 DEF PollNoop, Poll
<1>12. ASSUME NEW t \in Threads, RegisterWaiter(t) PROVE StillBlocked'
  BY <1>12 DEF RegisterWaiter, Register, Exhausted
<1>13. ASSUME NEW t \in Threads, PollWaker(t) PROVE StillBlocked'
  BY <1>13 DEF PollWaker, Poll
<1>14. ASSUME NEW t \in Threads, ReleaseGuard(t) PROVE StillBlocked'
  BY <1>14 DEF ReleaseGuard, Unlock
<1>15. ASSUME NEW t \in Threads, LatchWait(t) PROVE StillBlocked'
  BY <1>15 DEF LatchWait
<1>16. ASSUME NEW t \in Threads, UnregisterWaiter(t) PROVE StillBlocked'
  BY <1>16 DEF UnregisterWaiter, Unregister
<1>17. ASSUME NEW t \in Threads, PollFinal(t) PROVE StillBlocked'
  BY <1>17 DEF PollFinal, Poll
<1>18. ASSUME NEW t \in Threads, WithWrite(t) PROVE StillBlocked'
  BY <1>18 DEF WithWrite, Settle, Return, Unlock, Finish
<1>19. ASSUME NEW t \in Threads, WithWriteNotify(t) PROVE StillBlocked'
  BY <1>19 DEF WithWriteNotify, Settle, Unlock
<1>20. ASSUME NEW t \in Threads, TakeReady(t) PROVE StillBlocked'
  BY <1>20 DEF TakeReady, Settle, Return, Unlock, Finish
<1>21. ASSUME NEW t \in Threads, EnterWait(t) PROVE StillBlocked'
  BY <1>21 DEF EnterWait
<1>22. ASSUME NEW t \in Threads, EnterTimedWait(t) PROVE StillBlocked'
  BY <1>22 DEF EnterTimedWait, Arm
<1>23. ASSUME NEW t \in Threads, ZeroTimeout(t) PROVE StillBlocked'
  BY <1>23 DEF ZeroTimeout, Return, Unlock, Finish
<1>24. ASSUME NEW t \in Threads, ArmFails(t) PROVE StillBlocked'
  BY <1>24 DEF ArmFails, Return, Unlock, Finish
<1>25. ASSUME NEW t \in Threads, PollDeadline(t) PROVE StillBlocked'
  BY <1>25 DEF PollDeadline
<1>26. ASSUME NEW t \in Threads, DeadlineExpired(t) PROVE StillBlocked'
  BY <1>26 DEF DeadlineExpired, Return, Unlock, Finish
<1>27. ASSUME NEW t \in Threads, WaitFails(t) PROVE StillBlocked'
  BY <1>27 DEF WaitFails, Forfeit, Settle, Return, Unlock, Finish
<1>28. ASSUME NEW t \in Threads, WaitTimesOut(t) PROVE StillBlocked'
  BY <1>28 DEF WaitTimesOut, Settle, Return, Unlock, Finish
<1>29. ASSUME NEW t \in Threads, WaitAgain(t) PROVE StillBlocked'
  BY <1>29 DEF WaitAgain, Settle
<1>30. ASSUME NEW t \in Threads, ClosurePanics(t) PROVE StillBlocked'
  BY <1>30 DEF ClosurePanics, Unwind, Settle, Unlock, Finish
<1>31. ASSUME NEW t \in Threads, RegisterPanics(t) PROVE StillBlocked'
  BY <1>31 DEF RegisterPanics, Unwind, Settle, Unlock, Finish
<1>32. ASSUME NEW t \in Threads, GuardWaitReturns(t) PROVE StillBlocked'
  BY <1>32 DEF GuardWaitReturns
<1>33. ASSUME NEW t \in Threads, GuardWait(t) PROVE StillBlocked'
  BY <1>33 DEF GuardWait, Settle
<1>34. ASSUME NEW t \in Threads, GuardTimedWait(t) PROVE StillBlocked'
  BY <1>34 DEF GuardTimedWait, Arm, Settle
<1>35. ASSUME NEW t \in Threads, GuardArmFails(t) PROVE StillBlocked'
  BY <1>35 DEF GuardArmFails, Settle
<1>36. ASSUME NEW t \in Threads, GuardDrop(t) PROVE StillBlocked'
  BY <1>36 DEF GuardDrop, Forfeit, Settle, Return, Unlock, Finish
<1>37. ASSUME NEW t \in Threads, GuardNotify(t) PROVE StillBlocked'
  BY <1>37 DEF GuardNotify, Forfeit, Settle, Unlock
<1>38. ASSUME NEW t \in Threads, Select(t) PROVE StillBlocked'
  BY <1>38 DEF Select, TakeAll, TakeOne
<1>39. ASSUME NEW t \in Threads, Signal(t) PROVE StillBlocked'
  BY <1>39 DEF Signal, Oldest
<1>40. ASSUME NEW t \in Threads, NotifyReturns(t) PROVE StillBlocked'
  BY <1>40 DEF NotifyReturns, Finish
<1>41. ASSUME NEW t \in Threads, TimerFires(t) PROVE StillBlocked'
  BY <1>41 DEF TimerFires, Complete
<1>42. ASSUME NEW t \in Threads, TimerFails(t) PROVE StillBlocked'
  BY <1>42 DEF TimerFails, Complete
<1>43. CASE UNCHANGED vars
  BY <1>43 DEF vars
<1> QED
  BY <1>1, <1>2, <1>3, <1>4, <1>5, <1>6, <1>7, <1>8, <1>9, <1>10, <1>11,
     <1>12, <1>13, <1>14, <1>15, <1>16, <1>17, <1>18, <1>19, <1>20, <1>21,
     <1>22, <1>23, <1>24, <1>25, <1>26, <1>27, <1>28, <1>29, <1>30, <1>31,
     <1>32, <1>33, <1>34, <1>35, <1>36, <1>37, <1>38, <1>39, <1>40, <1>41,
     <1>42, <1>43
     DEF Next, StartCall, LockStep, WaitStep, HeldStep, GuardStep, NotifyStep,
         TimerStep

-----------------------------------------------------------------------------
(* The local variables of the calls.                                       *)

(* A step of thread t or of its timer.                                     *)
StepOf(t) ==
    \/ StartCall(t) \/ LockStep(t) \/ WaitStep(t) \/ HeldStep(t)
    \/ GuardStep(t) \/ NotifyStep(t) \/ TimerStep(t)

(* What a step of t leaves to the other threads.                           *)
Frame(t) ==
    \A u \in Threads \ {t} :
        /\ pc'[u] = pc[u] /\ op'[u] = op[u]
        /\ status'[u] = status[u] /\ result'[u] = result[u]
        /\ timeout'[u] = timeout[u] /\ deadline'[u] = deadline[u]
        /\ timer'[u] = timer[u]

(* The local variables of a call are its own, and only Tick moves the      *)
(* clock.                                                                  *)
LEMMA FrameStep ==
  ASSUME TypeOK, NEW t \in Threads, StepOf(t)
  PROVE  Frame(t) /\ now' = now
<1> USE DEF TypeOK, Frame, threadVars, timerVars, Go
<1>1. CASE CallLocking(t)
  BY <1>1 DEF CallLocking, Begin
<1>2. CASE CallNotify(t)
  BY <1>2 DEF CallNotify, Begin
<1>3. CASE CallWaitFor(t)
  BY <1>3 DEF CallWaitFor, Begin
<1>4. CASE CallWaitDeadline(t)
  BY <1>4 DEF CallWaitDeadline, Begin
<1>5. CASE CallWaitTotal(t)
  BY <1>5 DEF CallWaitTotal, Begin
<1>6. CASE CallWaitTotalOverflow(t)
  BY <1>6 DEF CallWaitTotalOverflow, Finish
<1>7. CASE ClearPoison(t)
  BY <1>7 DEF ClearPoison
<1>8. CASE Acquire(t)
  BY <1>8 DEF Acquire
<1>9. CASE Reacquire(t)
  BY <1>9 DEF Reacquire
<1>10. CASE PollNoop(t)
  BY <1>10 DEF PollNoop, Poll
<1>11. CASE RegisterWaiter(t)
  BY <1>11 DEF RegisterWaiter
<1>12. CASE PollWaker(t)
  BY <1>12 DEF PollWaker, Poll
<1>13. CASE ReleaseGuard(t)
  BY <1>13 DEF ReleaseGuard
<1>14. CASE LatchWait(t)
  BY <1>14 DEF LatchWait
<1>15. CASE UnregisterWaiter(t)
  BY <1>15 DEF UnregisterWaiter
<1>16. CASE PollFinal(t)
  BY <1>16 DEF PollFinal, Poll
<1>17. CASE WithWrite(t)
  BY <1>17 DEF WithWrite, Return, Finish
<1>18. CASE WithWriteNotify(t)
  BY <1>18 DEF WithWriteNotify
<1>19. CASE TakeReady(t)
  BY <1>19 DEF TakeReady, Return, Finish
<1>20. CASE EnterWait(t)
  BY <1>20 DEF EnterWait
<1>21. CASE EnterTimedWait(t)
  BY <1>21 DEF EnterTimedWait, Arm
<1>22. CASE ZeroTimeout(t)
  BY <1>22 DEF ZeroTimeout, Return, Finish
<1>23. CASE ArmFails(t)
  BY <1>23 DEF ArmFails, Return, Finish
<1>24. CASE PollDeadline(t)
  BY <1>24 DEF PollDeadline
<1>25. CASE DeadlineExpired(t)
  BY <1>25 DEF DeadlineExpired, Return, Finish
<1>26. CASE WaitFails(t)
  BY <1>26 DEF WaitFails, Return, Finish
<1>27. CASE WaitTimesOut(t)
  BY <1>27 DEF WaitTimesOut, Return, Finish
<1>28. CASE WaitAgain(t)
  BY <1>28 DEF WaitAgain
<1>29. CASE ClosurePanics(t)
  BY <1>29 DEF ClosurePanics, Unwind, Finish
<1>30. CASE RegisterPanics(t)
  BY <1>30 DEF RegisterPanics, Unwind, Finish
<1>31. CASE GuardWaitReturns(t)
  BY <1>31 DEF GuardWaitReturns
<1>32. CASE GuardWait(t)
  BY <1>32 DEF GuardWait
<1>33. CASE GuardTimedWait(t)
  BY <1>33 DEF GuardTimedWait, Arm
<1>34. CASE GuardArmFails(t)
  BY <1>34 DEF GuardArmFails
<1>35. CASE GuardDrop(t)
  BY <1>35 DEF GuardDrop, Return, Finish
<1>36. CASE GuardNotify(t)
  BY <1>36 DEF GuardNotify
<1>37. CASE Select(t)
  BY <1>37 DEF Select
<1>38. CASE Signal(t)
  BY <1>38 DEF Signal
<1>39. CASE NotifyReturns(t)
  BY <1>39 DEF NotifyReturns, Finish
<1>40. CASE TimerFires(t)
  BY <1>40 DEF TimerFires, Complete
<1>41. CASE TimerFails(t)
  BY <1>41 DEF TimerFails, Complete
<1> QED
  BY <1>1, <1>2, <1>3, <1>4, <1>5, <1>6, <1>7, <1>8, <1>9, <1>10, <1>11,
     <1>12, <1>13, <1>14, <1>15, <1>16, <1>17, <1>18, <1>19, <1>20, <1>21,
     <1>22, <1>23, <1>24, <1>25, <1>26, <1>27, <1>28, <1>29, <1>30, <1>31,
     <1>32, <1>33, <1>34, <1>35, <1>36, <1>37, <1>38, <1>39, <1>40, <1>41
     DEF StepOf, StartCall, LockStep, WaitStep, HeldStep, GuardStep,
         NotifyStep, TimerStep

(* Each step of a call leaves its local variables as the next one expects. *)
LEMMA OwnCallState ==
  ASSUME TypeOK, NEW t \in Threads, CallStateOf(t), StepOf(t)
  PROVE  CallStateOf(t)'
<1> USE DEF TypeOK, CallStateOf, StartSteps, NotifySteps, Steps, Futures,
        Statuses, NotifyCalls, NotifyingWrites, WaitCalls, TimedCalls,
        WriteCalls, threadVars, timerVars, Go, Timed
<1>1. CASE CallLocking(t)
  BY <1>1 DEF CallLocking, Begin
<1>2. CASE CallNotify(t)
  BY <1>2 DEF CallNotify, Begin
<1>3. CASE CallWaitFor(t)
  BY <1>3 DEF CallWaitFor, Begin
<1>4. CASE CallWaitDeadline(t)
  BY <1>4 DEF CallWaitDeadline, Begin
<1>5. CASE CallWaitTotal(t)
  BY <1>5 DEF CallWaitTotal, Begin
<1>6. CASE CallWaitTotalOverflow(t)
  BY <1>6 DEF CallWaitTotalOverflow, Finish
<1>7. CASE ClearPoison(t)
  BY <1>7 DEF ClearPoison
<1>8. CASE Acquire(t)
  BY <1>8 DEF Acquire
<1>9. CASE Reacquire(t)
  BY <1>9 DEF Reacquire
<1>10. CASE PollNoop(t)
  BY <1>10 DEF PollNoop, Poll
<1>11. CASE RegisterWaiter(t)
  BY <1>11 DEF RegisterWaiter
<1>12. CASE PollWaker(t)
  BY <1>12 DEF PollWaker, Poll
<1>13. CASE ReleaseGuard(t)
  BY <1>13 DEF ReleaseGuard
<1>14. CASE LatchWait(t)
  BY <1>14 DEF LatchWait
<1>15. CASE UnregisterWaiter(t)
  BY <1>15 DEF UnregisterWaiter
<1>16. CASE PollFinal(t)
  BY <1>16 DEF PollFinal, Poll
<1>17. CASE WithWrite(t)
  BY <1>17 DEF WithWrite, Return, Finish
<1>18. CASE WithWriteNotify(t)
  BY <1>18 DEF WithWriteNotify
<1>19. CASE TakeReady(t)
  BY <1>19 DEF TakeReady, Return, Finish
<1>20. CASE EnterWait(t)
  BY <1>20 DEF EnterWait
<1>21. CASE EnterTimedWait(t)
  BY <1>21 DEF EnterTimedWait, Arm
<1>22. CASE ZeroTimeout(t)
  BY <1>22 DEF ZeroTimeout, Return, Finish
<1>23. CASE ArmFails(t)
  BY <1>23 DEF ArmFails, Return, Finish
<1>24. CASE PollDeadline(t)
  BY <1>24 DEF PollDeadline
<1>25. CASE DeadlineExpired(t)
  BY <1>25 DEF DeadlineExpired, Return, Finish
<1>26. CASE WaitFails(t)
  BY <1>26 DEF WaitFails, Return, Finish
<1>27. CASE WaitTimesOut(t)
  BY <1>27 DEF WaitTimesOut, Return, Finish
<1>28. CASE WaitAgain(t)
  BY <1>28 DEF WaitAgain
<1>29. CASE ClosurePanics(t)
  <2>1. PICK n : Unwind(t, n)
    BY <1>29 DEF ClosurePanics
  <2> QED
    BY <2>1 DEF Unwind, Finish
<1>30. CASE RegisterPanics(t)
  BY <1>30 DEF RegisterPanics, Unwind, Finish
<1>31. CASE GuardWaitReturns(t)
  BY <1>31 DEF GuardWaitReturns
<1>32. CASE GuardWait(t)
  BY <1>32 DEF GuardWait
<1>33. CASE GuardTimedWait(t)
  BY <1>33 DEF GuardTimedWait, Arm
<1>34. CASE GuardArmFails(t)
  BY <1>34 DEF GuardArmFails
<1>35. CASE GuardDrop(t)
  BY <1>35 DEF GuardDrop, Return, Finish
<1>36. CASE GuardNotify(t)
  BY <1>36 DEF GuardNotify
<1>37. CASE Select(t)
  BY <1>37 DEF Select
<1>38. CASE Signal(t)
  BY <1>38 DEF Signal
<1>39. CASE NotifyReturns(t)
  BY <1>39 DEF NotifyReturns, Finish
<1>40. CASE TimerFires(t)
  BY <1>40 DEF TimerFires, Complete
<1>41. CASE TimerFails(t)
  BY <1>41 DEF TimerFails, Complete
<1> QED
  BY <1>1, <1>2, <1>3, <1>4, <1>5, <1>6, <1>7, <1>8, <1>9, <1>10, <1>11,
     <1>12, <1>13, <1>14, <1>15, <1>16, <1>17, <1>18, <1>19, <1>20, <1>21,
     <1>22, <1>23, <1>24, <1>25, <1>26, <1>27, <1>28, <1>29, <1>30, <1>31,
     <1>32, <1>33, <1>34, <1>35, <1>36, <1>37, <1>38, <1>39, <1>40, <1>41
     DEF StepOf, StartCall, LockStep, WaitStep, HeldStep, GuardStep,
         NotifyStep, TimerStep

(* The local variables of a call fit its step, and the clock only moves    *)
(* forward.                                                                *)
LEMMA CallStateStep ==
  ASSUME TypeOK, CallState, [Next]_vars
  PROVE  CallState'
<1>1. CASE UNCHANGED vars
  BY <1>1 DEF vars, CallState, CallStateOf, threadVars, timerVars
<1>2. CASE Tick
  BY <1>2 DEF Tick, CallState, CallStateOf, threadVars, TypeOK
<1>3. ASSUME NEW t \in Threads, NEW u \in Threads, StepOf(t)
      PROVE  CallStateOf(u)'
  <2>1. CASE u = t
    BY <1>3, <2>1, OwnCallState DEF CallState
  <2>2. CASE u # t
    <3>1. Frame(t) /\ now' = now
      BY <1>3, FrameStep
    <3> QED
      BY <2>2, <3>1 DEF Frame, CallState, CallStateOf
  <2> QED
    BY <2>1, <2>2
<1>4. CASE \E t \in Threads : StepOf(t)
  BY <1>3, <1>4 DEF CallState
<1> QED
  BY <1>1, <1>2, <1>4 DEF Next, StepOf

-----------------------------------------------------------------------------

(* All of the inductive invariant but the counting part, NoLostWakeup.     *)
WaitInv == /\ TypeOK
           /\ GuardSlot
           /\ Bookkeeping
           /\ SelectionReachesWaiter
           /\ TimerReachesWaiter
           /\ StillBlocked
           /\ CallState

(* The initial state satisfies the invariant.                              *)
LEMMA InitWaitInv == Init => WaitInv
<1> SUFFICES ASSUME Init PROVE WaitInv
  OBVIOUS
<1>1. TypeOK
  BY InitTypeOK
<1>2. GuardSlot /\ StillBlocked
  BY DEF Init, GuardSlot, HoldingSteps, StillBlocked, CommittedSteps
<1>3. Bookkeeping
  BY DEF Init, RegistryInit, Bookkeeping, RegisteredSteps
<1>4. SelectionReachesWaiter /\ TimerReachesWaiter
  BY DEF Init, SelectionReachesWaiter, TimerReachesWaiter, Timed
<1>5. CallState
  BY DEF Init, CallState, CallStateOf, StartSteps, NotifySteps
<1> QED
  BY <1>1, <1>2, <1>3, <1>4, <1>5 DEF WaitInv

(* Every step preserves the invariant: the steps above, put together.      *)
LEMMA WaitInvStep ==
  ASSUME WaitInv, [Next]_vars
  PROVE  WaitInv'
  BY TypeOKStep, GuardSlotStep, BookkeepingStep, SelectionStep,
     TimerReachesStep, StillBlockedStep, CallStateStep DEF WaitInv

(* The invariant holds in every reachable state.                           *)
LEMMA WaitInvariant == Spec => []WaitInv
<1>1. Init => WaitInv
  BY InitWaitInv
<1>2. WaitInv /\ [Next]_vars => WaitInv'
  BY WaitInvStep
<1> QED
  BY <1>1, <1>2, PTL DEF Spec

(* The guard slot agrees with the mutex in every reachable state, so the   *)
(* `expect` of release_guard and Deref never fires and closures exclude    *)
(* one another (blocking_monitor_guard_wait.rs, std_monitor_guard.rs).     *)
THEOREM GuardSlotHolds == Spec => []GuardSlot
<1>1. WaitInv => GuardSlot
  BY DEF WaitInv
<1> QED
  BY <1>1, WaitInvariant, PTL

(* Only threads that are parked or about to park are eligible for          *)
(* notification (blocking_monitor_guard_wait.rs, drop(registration)        *)
(* before reacquire()).                                                    *)
THEOREM EligibleWaitersHold == Spec => []EligibleWaiters
<1>1. WaitInv => EligibleWaiters
  <2> SUFFICES ASSUME WaitInv, NEW id \in waiters
               PROVE  \E t \in Threads :
                         /\ reg[t] = id
                         /\ pc[t] \in RegisteredSteps
                         /\ \A u \in Threads : reg[u] = id => u = t
    BY DEF EligibleWaiters, RegisteredSteps
  <2>1. id # 0
    BY DEF WaitInv, TypeOK, RegistryTypeOK, WaiterIds
  <2>2. PICK t \in Threads : reg[t] = id
    BY DEF WaitInv, Bookkeeping
  <2> QED
    BY <2>1, <2>2 DEF WaitInv, Bookkeeping
<1> QED
  BY <1>1, WaitInvariant, PTL

(* A selected waiter's latch is set or still on its notifier's list        *)
(* (blocking_waiter_registry.rs, notify_one and notify_all).               *)
THEOREM SelectionReachesWaiterHolds == Spec => []SelectionReachesWaiter
<1>1. WaitInv => SelectionReachesWaiter
  BY DEF WaitInv
<1> QED
  BY <1>1, WaitInvariant, PTL

(* A thread that waits with a timer cannot miss its completion             *)
(* (blocking_monitor_guard_wait.rs, the two polls around register).        *)
THEOREM TimerReachesWaiterHolds == Spec => []TimerReachesWaiter
<1>1. WaitInv => TimerReachesWaiter
  BY DEF WaitInv
<1> QED
  BY <1>1, WaitInvariant, PTL

-----------------------------------------------------------------------------
(* The promises of MonitorContract.  Each step of a call is one of its     *)
(* steps or leaves everything a caller sees alone.                         *)

(* The phase of a call, case by case.                                      *)
LEMMA PhaseOf ==
  ASSUME NEW t \in Threads
  PROVE  /\ op[t] = "none" => Phase[t] = "none"
         /\ op[t] # "none" /\ pc[t] = "lock" => Phase[t] = "called"
         /\ op[t] # "none" /\ pc[t] # "lock" => Phase[t] = "running"
  BY DEF Phase

(* A step of t changes the phase of no other call.                         *)
LEMMA PhaseFrame ==
  ASSUME NEW t \in Threads, Frame(t)
  PROVE  Phase' = [Phase EXCEPT ![t] = Phase'[t]]
<1>1. \A u \in Threads \ {t} : Phase'[u] = Phase[u]
  BY DEF Frame, Phase
<1>2. /\ Phase = [u \in Threads |-> Phase[u]]
      /\ Phase' = [u \in Threads |-> Phase'[u]]
  BY DEF Phase
<1> QED
  BY <1>1, <1>2

(* A call that returns or unwinds is over for its caller.                  *)
LEMMA FinishEnds ==
  ASSUME TypeOK, NEW t \in Threads, NEW r, Frame(t), Finish(t, r)
  PROVE  Contract!End(t, r)
<1>1. op'[t] = "none"
  BY DEF Finish, TypeOK
<1>2. Phase'[t] = "none"
  BY <1>1 DEF Phase
<1>3. Phase' = [Phase EXCEPT ![t] = "none"]
  BY <1>2, PhaseFrame
<1> QED
  BY <1>3 DEF Finish, Contract!End

(* Where a call that is past its first lock is running.                    *)
LEMMA Running ==
  ASSUME CallState, NEW t \in Threads, pc[t] \notin {"idle", "lock"}
  PROVE  Phase[t] = "running"
  BY PhaseOf DEF CallState, CallStateOf

(* Nothing a caller sees changes.                                          *)
Silent(t) ==
    /\ UNCHANGED <<items, poisoned, op, result, now, timeout, deadline>>
    /\ (pc[t] # "lock" /\ pc'[t] # "lock") \/ pc'[t] = pc[t]

(* A silent step is a stuttering step of the contract.                     *)
LEMMA SilentStutters ==
  ASSUME NEW t \in Threads, Frame(t), Silent(t)
  PROVE  UNCHANGED Contract!vars
<1>1. Phase' = Phase
  BY DEF Phase, Frame, Silent
<1> QED
  BY <1>1 DEF Silent, Contract!vars

(* The steps between the calls' effects are silent.                        *)
LEMMA SilentSteps ==
  ASSUME TypeOK, NEW t \in Threads,
         \/ EnterWait(t) \/ EnterTimedWait(t) \/ PollDeadline(t)
         \/ WaitStep(t) \/ Reacquire(t) \/ WaitAgain(t)
         \/ Select(t) \/ Signal(t) \/ TimerStep(t)
  PROVE  Silent(t)
<1> USE DEF Silent, TypeOK, Go, threadVars, timerVars
<1>1. CASE EnterWait(t)
  BY <1>1 DEF EnterWait
<1>2. CASE EnterTimedWait(t)
  BY <1>2 DEF EnterTimedWait, Arm
<1>3. CASE PollDeadline(t)
  BY <1>3 DEF PollDeadline
<1>4. CASE PollNoop(t)
  BY <1>4 DEF PollNoop, Poll
<1>5. CASE RegisterWaiter(t)
  BY <1>5 DEF RegisterWaiter
<1>6. CASE PollWaker(t)
  BY <1>6 DEF PollWaker, Poll
<1>7. CASE ReleaseGuard(t)
  BY <1>7 DEF ReleaseGuard
<1>8. CASE LatchWait(t)
  BY <1>8 DEF LatchWait
<1>9. CASE UnregisterWaiter(t)
  BY <1>9 DEF UnregisterWaiter
<1>10. CASE Reacquire(t)
  BY <1>10 DEF Reacquire
<1>11. CASE PollFinal(t)
  BY <1>11 DEF PollFinal, Poll
<1>12. CASE WaitAgain(t)
  BY <1>12 DEF WaitAgain, Settle
<1>13. CASE Select(t)
  BY <1>13 DEF Select
<1>14. CASE Signal(t)
  BY <1>14 DEF Signal
<1>15. CASE TimerStep(t)
  BY <1>15 DEF TimerStep, TimerFires, TimerFails, Complete
<1> QED
  BY <1>1, <1>2, <1>3, <1>4, <1>5, <1>6, <1>7, <1>8, <1>9, <1>10, <1>11,
     <1>12, <1>13, <1>14, <1>15 DEF WaitStep

(* Calls are made, are refused and enter as the contract says, and         *)
(* clear_poison clears the marker.                                         *)
LEMMA CallsKeepContract ==
  ASSUME TypeOK, CallState, NEW t \in Threads, Frame(t), StartCall(t) \/ Acquire(t)
  PROVE  Contract!Next
<1>1. Phase' = [Phase EXCEPT ![t] = Phase'[t]]
  BY PhaseFrame
<1>2. ASSUME NEW c \in CallKinds, NEW step, Begin(t, c, step),
             timeout' = [timeout EXCEPT ![t] = timeout'[t]],
             deadline' = [deadline EXCEPT ![t] = deadline'[t]]
      PROVE  Contract!Next
  <2>1. /\ pc[t] = "idle" /\ op'[t] = c
        /\ op' = [op EXCEPT ![t] = op'[t]]
        /\ result' = [result EXCEPT ![t] = "none"]
        /\ UNCHANGED <<items, poisoned, now>>
    BY <1>2 DEF Begin, TypeOK
  <2>2. op[t] = "none" /\ op'[t] # "none"
    BY <2>1 DEF CallState, CallStateOf, CallKinds, WaitCalls, TimedCalls,
       WriteCalls, NotifyingWrites, NotifyCalls
  <2>3. Phase'[t] \in {"called", "running"}
    BY <2>2 DEF Phase
  <2>4. Contract!Invoke(t)
    BY <1>1, <1>2, <2>1, <2>2, <2>3 DEF Contract!Invoke
  <2> QED
    BY <2>4 DEF Contract!Next
<1>3. CASE CallLocking(t)
  BY <1>2, <1>3 DEF CallLocking, TypeOK, CallKinds, WriteCalls, WaitCalls,
     NotifyingWrites
<1>4. CASE CallNotify(t)
  BY <1>2, <1>4 DEF CallNotify, TypeOK, CallKinds
<1>5. CASE CallWaitFor(t)
  BY <1>2, <1>5 DEF CallWaitFor, TypeOK, CallKinds, WaitCalls, TimedCalls
<1>6. CASE CallWaitDeadline(t)
  BY <1>2, <1>6 DEF CallWaitDeadline, TypeOK, CallKinds, WaitCalls, TimedCalls
<1>7. CASE CallWaitTotal(t)
  BY <1>2, <1>7 DEF CallWaitTotal, TypeOK, CallKinds, WaitCalls, TimedCalls
<1>8. CASE CallWaitTotalOverflow(t)
  <2>1. Contract!End(t, "error")
    BY <1>8, FinishEnds DEF CallWaitTotalOverflow
  <2>2. op[t] = "none" /\ UNCHANGED <<items, poisoned>>
    BY <1>8 DEF CallWaitTotalOverflow, CallState, CallStateOf
  <2>3. Contract!Reject(t)
    BY <2>1, <2>2 DEF Contract!Reject
  <2> QED
    BY <2>3 DEF Contract!Next
<1>9. CASE ClearPoison(t)
  <2>1. Contract!ClearPoison
    BY <1>9 DEF ClearPoison, threadVars, timerVars, Phase, Contract!ClearPoison
  <2> QED
    BY <2>1 DEF Contract!Next
<1>10. CASE Acquire(t)
  <2>1. /\ pc[t] = "lock" /\ pc'[t] # "lock"
        /\ UNCHANGED <<items, poisoned, now, op, timeout, result>>
        /\ deadline' = IF op[t] \in {"wait_while_for"}
                         THEN [deadline EXCEPT ![t] = now + timeout[t]]
                         ELSE deadline
    BY <1>10 DEF Acquire, Go, TypeOK
  <2>2. op[t] # "none"
    BY <2>1 DEF CallState, CallStateOf
  <2>3. Phase[t] = "called" /\ Phase'[t] = "running"
    BY <2>1, <2>2 DEF Phase
  <2>4. Contract!Enter(t)
    BY <1>1, <2>1, <2>3 DEF Contract!Enter
  <2> QED
    BY <2>4 DEF Contract!Next
<1> QED
  BY <1>3, <1>4, <1>5, <1>6, <1>7, <1>8, <1>9, <1>10 DEF StartCall

(* The closures' effects and the results that report them.                 *)
LEMMA EffectsKeepContract ==
  ASSUME TypeOK, CallState, NEW t \in Threads, Frame(t),
         WithWrite(t) \/ WithWriteNotify(t) \/ TakeReady(t) \/ NotifyReturns(t)
  PROVE  Contract!Next
<1>0. Phase[t] = "running"
  BY Running DEF WithWrite, WithWriteNotify, TakeReady, NotifyReturns
<1>1. CASE WithWrite(t)
  <2>1. Contract!End(t, "done")
    BY <1>1, FinishEnds DEF WithWrite, Return
  <2>2. /\ \/ op[t] \in {"with_read"} /\ items' = items
           \/ op[t] \in {"with_write"} /\ items' \in 0 .. items
        /\ poisoned' = poisoned
    BY <1>1 DEF WithWrite, Settle, Return
  <2>3. Contract!Write(t)
    BY <1>0, <2>1, <2>2 DEF Contract!Write
  <2> QED
    BY <2>3 DEF Contract!Next
<1>2. CASE WithWriteNotify(t)
  <2>1. /\ op[t] \in NotifyingWrites /\ items' \in 0 .. MaxItems
        /\ pc[t] = "held" /\ pc'[t] = "notify"
        /\ UNCHANGED <<poisoned, op, now, timeout, deadline, result>>
    BY <1>2 DEF WithWriteNotify, Settle, NotifyingWrites, Go, timerVars, TypeOK
  <2>2. Phase' = Phase
    BY <2>1 DEF Phase, Frame
  <2>3. op' = [op EXCEPT ![t] = op'[t]] /\ op'[t] = op[t]
    BY <2>1 DEF TypeOK
  <2>4. result' = [result EXCEPT ![t] = "none"]
    BY <2>1 DEF TypeOK, CallState, CallStateOf, NotifyingWrites
  <2>5. Contract!Write(t)
    BY <1>0, <2>1, <2>2, <2>3, <2>4 DEF Contract!Write
  <2> QED
    BY <2>5 DEF Contract!Next
<1>3. CASE TakeReady(t)
  <2>1. Contract!End(t, "ready")
    BY <1>3, FinishEnds DEF TakeReady, Return
  <2>2. Contract!Ready(t)
    BY <1>0, <1>3, <2>1 DEF TakeReady, Settle, Return, Contract!Ready
  <2> QED
    BY <2>2 DEF Contract!Next
<1>4. CASE NotifyReturns(t)
  <2>1. Contract!End(t, "done")
    BY <1>4, FinishEnds DEF NotifyReturns
  <2>2. /\ op[t] \notin WaitCalls \cup {"with_read"}
        /\ UNCHANGED <<items, poisoned>>
    BY <1>4 DEF NotifyReturns, CallState, CallStateOf, NotifySteps,
       NotifyCalls, NotifyingWrites, WaitCalls, TimedCalls
  <2>3. Contract!Notified(t)
    BY <1>0, <2>1, <2>2 DEF Contract!Notified
  <2> QED
    BY <2>3 DEF Contract!Next
<1> QED
  BY <1>1, <1>2, <1>3, <1>4

(* Timeouts are reported at or after the deadline with nothing to take;    *)
(* errors by timed calls alone.                                            *)
LEMMA TimeoutsKeepContract ==
  ASSUME TypeOK, CallState, StillBlocked, NEW t \in Threads, Frame(t),
         \/ ZeroTimeout(t) \/ WaitTimesOut(t) \/ DeadlineExpired(t)
         \/ ArmFails(t) \/ WaitFails(t)
  PROVE  Contract!Next
<1>0. Phase[t] = "running"
  BY Running
     DEF ZeroTimeout, WaitTimesOut, DeadlineExpired, ArmFails, WaitFails
<1>1. now \in Nat /\ deadline[t] \in Nat /\ timeout[t] \in Nat
  BY DEF TypeOK
<1>2. CallStateOf(t)
  BY DEF CallState
<1>3. ASSUME op[t] \in TimedCalls, items = 0, deadline[t] <= now,
             Return(t, "timed_out"), items' = items
      PROVE  Contract!Next
  <2>1. Contract!End(t, "timed_out") /\ poisoned' = poisoned
    BY <1>3, FinishEnds DEF Return
  <2>2. Contract!TimedOut(t)
    BY <1>0, <1>1, <1>3, <2>1 DEF Contract!TimedOut
  <2> QED
    BY <2>2 DEF Contract!Next
<1>4. ASSUME op[t] \in TimedCalls, Return(t, "error"), items' = items
      PROVE  Contract!Next
  <2>1. Contract!End(t, "error") /\ poisoned' = poisoned
    BY <1>4, FinishEnds DEF Return
  <2>2. Contract!Fails(t)
    BY <1>0, <1>4, <2>1 DEF Contract!Fails
  <2> QED
    BY <2>2 DEF Contract!Next
<1>5. CASE ZeroTimeout(t)
  BY <1>1, <1>2, <1>3, <1>5 DEF ZeroTimeout, CallStateOf, TimedCalls
<1>6. CASE WaitTimesOut(t)
  <2>1. op[t] \in TimedCalls /\ deadline[t] <= now
    BY <1>2, <1>6 DEF WaitTimesOut, CallStateOf, WaitCalls, TimedCalls
  <2> QED
    BY <1>3, <1>6, <2>1 DEF WaitTimesOut, Settle
<1>7. CASE DeadlineExpired(t)
  <2>1. op[t] \in TimedCalls /\ items = 0 /\ items' = items
    BY <1>2, <1>7 DEF DeadlineExpired, CallStateOf, StillBlocked,
       CommittedSteps
  <2>2. CASE timer[t] = "fired"
    BY <1>2, <1>3, <1>7, <2>1, <2>2 DEF DeadlineExpired, CallStateOf
  <2>3. CASE timer[t] # "fired"
    BY <1>4, <1>7, <2>1, <2>3 DEF DeadlineExpired
  <2> QED
    BY <2>2, <2>3
<1>8. CASE ArmFails(t)
  BY <1>4, <1>8 DEF ArmFails
<1>9. CASE WaitFails(t)
  <2>1. op[t] \in TimedCalls
    BY <1>2, <1>9 DEF WaitFails, CallStateOf, WaitCalls, TimedCalls
  <2> QED
    BY <1>4, <1>9, <2>1 DEF WaitFails, Forfeit, Settle
<1> QED
  BY <1>5, <1>6, <1>7, <1>8, <1>9

(* A panic leaves no more than the call may change, and poisons where the  *)
(* mutex does.                                                             *)
LEMMA PanicsKeepContract ==
  ASSUME TypeOK, CallState, NEW t \in Threads, Frame(t),
         ClosurePanics(t) \/ RegisterPanics(t)
  PROVE  Contract!Next
<1>1. Phase[t] = "running"
  BY Running DEF ClosurePanics, RegisterPanics
<1>2. PICK n \in LeftByPanic(t) : Unwind(t, n)
  BY DEF ClosurePanics, RegisterPanics, LeftByPanic, TypeOK
<1>3. Contract!End(t, "panicked")
  BY <1>2, FinishEnds DEF Unwind
<1>4. \/ items' = items
      \/ op[t] \in WaitCalls /\ items > 0 /\ items' = items - 1
      \/ op[t] \in {"with_write"} /\ items' \in 0 .. items
      \/ op[t] \in NotifyingWrites \cup {"lock"} /\ items' \in 0 .. MaxItems
  <2>1. items' = n /\ n \in 0 .. MaxItems
    BY <1>2 DEF Unwind, Settle, LeftByPanic
  <2> QED
    BY <1>2, <2>1 DEF LeftByPanic, TypeOK, WriteCalls, WaitCalls, TimedCalls,
       NotifyingWrites
<1>5. poisoned' = (poisoned \/ Poisoning)
  BY <1>2, Zenon DEF Unwind
<1>6. Contract!Panic(t)
  BY <1>1, <1>3, <1>4, <1>5, Zenon DEF Contract!Panic
<1> QED
  BY <1>6 DEF Contract!Next

(* A client with a guard waits, times out not before its deadline, and     *)
(* ends with its changes made.                                             *)
LEMMA GuardsKeepContract ==
  ASSUME TypeOK, CallState, NEW t \in Threads, Frame(t), GuardStep(t)
  PROVE  Contract!Next
<1>0. Phase[t] = "running" /\ op[t] = "lock" /\ CallStateOf(t)
  <2>1. pc[t] \notin {"idle", "lock"}
    BY DEF GuardStep, GuardWaitReturns, GuardWait, GuardTimedWait,
       GuardArmFails, GuardDrop, GuardNotify
  <2>2. op[t] = "lock"
    BY DEF GuardStep, GuardWaitReturns, GuardWait, GuardTimedWait,
       GuardArmFails, GuardDrop, GuardNotify, CallState, CallStateOf
  <2> QED
    BY <2>1, <2>2, Running DEF CallState
<1>1. now \in Nat /\ deadline[t] \in Nat /\ deadline[t] <= MaxInstant
  BY <1>0 DEF TypeOK, CallStateOf
<1>2. ASSUME NEW r, NEW d, result' = [result EXCEPT ![t] = r],
             deadline' = [deadline EXCEPT ![t] = d], d <= MaxInstant,
             \/ r \in {"none", "woken", "error"}
             \/ r = "timed_out" /\ deadline[t] <= now,
             pc'[t] # "lock", pc[t] # "lock",
             UNCHANGED <<items, poisoned, now, op, timeout>>
      PROVE  Contract!Next
  <2>1. Phase' = Phase
    BY <1>2 DEF Phase, Frame
  <2>2. result'[t] = r /\ deadline'[t] = d
    BY <1>2 DEF TypeOK
  <2>3. Contract!GuardWait(t)
    BY <1>0, <1>1, <1>2, <2>1, <2>2 DEF Contract!GuardWait
  <2> QED
    BY <2>3 DEF Contract!Next
<1>3. deadline = [deadline EXCEPT ![t] = deadline[t]]
  BY DEF TypeOK
<1>4. CASE GuardWaitReturns(t)
  <2>1. /\ status[t] \in {"woken", "error"}
              \/ (status[t] = "timed_out" /\ deadline[t] <= now)
        /\ pc[t] # "lock" /\ pc'[t] # "lock"
    BY <1>0, <1>4 DEF GuardWaitReturns, CallStateOf, TypeOK, Statuses, Go
  <2>2. /\ result' = [result EXCEPT ![t] = status[t]]
        /\ deadline' = [deadline EXCEPT ![t] = 0] /\ 0 <= MaxInstant
        /\ UNCHANGED <<items, poisoned, now, op, timeout>>
    BY <1>4 DEF GuardWaitReturns
  <2> QED
    BY <1>2, <2>1, <2>2
<1>5. CASE GuardWait(t)
  BY <1>1, <1>2, <1>3, <1>5 DEF GuardWait, Settle, Go, timerVars, TypeOK
<1>6. CASE GuardTimedWait(t)
  <2>1. PICK d : d <= MaxInstant /\ deadline' = [deadline EXCEPT ![t] = d]
    BY <1>6 DEF GuardTimedWait
  <2> QED
    BY <1>2, <1>6, <2>1 DEF GuardTimedWait, Arm, Settle, Go, TypeOK
<1>7. CASE GuardArmFails(t)
  BY <1>1, <1>2, <1>3, <1>7 DEF GuardArmFails, Settle, timerVars
<1>8. CASE GuardDrop(t)
  <2>1. Contract!End(t, "done") /\ poisoned' = poisoned
    BY <1>8, FinishEnds DEF GuardDrop, Return
  <2>2. items' \in 0 .. MaxItems
    BY <1>8 DEF GuardDrop, Forfeit, Settle, TypeOK
  <2>3. Contract!Write(t)
    BY <1>0, <2>1, <2>2 DEF Contract!Write
  <2> QED
    BY <2>3 DEF Contract!Next
<1>9. CASE GuardNotify(t)
  <2>1. PICK c \in NotifyCalls : op' = [op EXCEPT ![t] = c]
    BY <1>9 DEF GuardNotify
  <2>2. /\ items' \in 0 .. MaxItems
        /\ pc[t] = "guard" /\ pc'[t] = "notify"
        /\ result' = [result EXCEPT ![t] = "none"]
        /\ UNCHANGED <<poisoned, now, timeout, deadline>>
    BY <1>9 DEF GuardNotify, Forfeit, Settle, Go, timerVars, TypeOK
  <2>3. op'[t] \in {"notify_one", "notify_all"} /\ op' = [op EXCEPT ![t] = op'[t]]
    BY <2>1 DEF NotifyCalls, TypeOK
  <2>4. Phase' = Phase
    BY <1>0, <2>2, <2>3 DEF Phase, Frame
  <2>5. Contract!Write(t)
    BY <1>0, <2>2, <2>3, <2>4 DEF Contract!Write
  <2> QED
    BY <2>5 DEF Contract!Next
<1> QED
  BY <1>4, <1>5, <1>6, <1>7, <1>8, <1>9 DEF GuardStep

(* Every step of the monitor is a step of the contract or a stutter.       *)
LEMMA ContractStep ==
  ASSUME WaitInv, [Next]_vars
  PROVE  [Contract!Next]_Contract!vars
<1>0. TypeOK /\ CallState /\ StillBlocked
  BY DEF WaitInv
<1>1. CASE UNCHANGED vars
  BY <1>1 DEF vars, threadVars, timerVars, Phase, Contract!vars
<1>2. CASE Tick
  <2>1. Contract!Tick
    BY <1>2 DEF Tick, threadVars, Phase, Contract!Tick
  <2> QED
    BY <2>1 DEF Contract!Next
<1>3. ASSUME NEW t \in Threads, StepOf(t)
      PROVE  [Contract!Next]_Contract!vars
  <2>1. Frame(t)
    BY <1>0, <1>3, FrameStep
  <2>2. CASE Contract!Next
    BY <2>2
  <2>3. CASE ~Contract!Next
    <3>1. Silent(t)
      BY <1>0, <1>3, <2>1, <2>3, CallsKeepContract, EffectsKeepContract,
         TimeoutsKeepContract, PanicsKeepContract, GuardsKeepContract,
         SilentSteps DEF StepOf, LockStep, HeldStep, NotifyStep
    <3> QED
      BY <2>1, <3>1, SilentStutters
  <2> QED
    BY <2>2, <2>3
<1> QED
  BY <1>1, <1>2, <1>3 DEF Next, StepOf

(* Every call on a StdMonitor or a ParkingLotMonitor keeps the promises of *)
(* MonitorContract, for every number of threads and every mix of calls:    *)
(* Ready only with an item to take, TimedOut only with none and not before *)
(* the one deadline of the call, no effect of a call that fails, poison    *)
(* set by panics and cleared by clear_poison alone (std_monitor.rs,        *)
(* parking_lot_monitor.rs, timeout_condition_waiter.rs).                   *)
THEOREM KeepsContractHolds == Spec => KeepsContract
<1>1. Init => Contract!Init
  BY DEF Init, Phase, Contract!Init
<1>2. WaitInv /\ [Next]_vars => [Contract!Next]_Contract!vars
  BY ContractStep
<1> QED
  BY <1>1, <1>2, WaitInvariant, PTL DEF Spec, KeepsContract, Contract!Spec

=============================================================================
