------------------------- MODULE NoLostWakeup_proofs -------------------------
(***************************************************************************)
(* No lost wakeup, for every finite set of threads.  The invariant counts: *)
(* while a waiter is registered, the items that nobody has given up are at *)
(* most as many as the threads on their way to look at them.               *)
(***************************************************************************)
EXTENDS BlockingMonitor_proofs, WaiterRegistry_proofs

USE ThreadsAssumption, ItemsAssumption

-----------------------------------------------------------------------------
(* What a step of t may do to the invariant without breaking it: nothing   *)
(* is left to cover, or notify_all is about to cover everything, or the    *)
(* items gained and given up balance the threads that come and go.         *)
Covers(t) ==
    \/ items' = 0
    \/ waiters' = {}
    \/ NotifiersAt("all")' # {}
    \/ /\ waiters # {}
       /\ NotifiersAt("all") = {}
       /\ OnTheWay \ {t} \subseteq OnTheWay'
       /\ \/ items' <= forfeited'
          \/ /\ t \in OnTheWay' \ OnTheWay
             /\ items' - forfeited' <= items - forfeited + 1
          \/ /\ OnTheWay \subseteq OnTheWay'
             /\ items' - forfeited' <= items - forfeited
          \/ items' - forfeited' + 1 <= items - forfeited

(* Covers is enough.                                                       *)
LEMMA CoverStep ==
  ASSUME TypeOK, TypeOK', NoLostWakeup, NEW t, Covers(t)
  PROVE  NoLostWakeup'
<1> SUFFICES ASSUME waiters' # {}, NotifiersAt("all")' = {}
             PROVE  items' <= Cardinality(OnTheWay') + forfeited'
  BY DEF NoLostWakeup
<1>1. OnTheWay \in SUBSET Threads /\ OnTheWay' \in SUBSET Threads
  BY DEF TypeOK, OnTheWay, InFlight, NotifiersAt
<1>2. /\ items \in Nat /\ forfeited \in Nat
      /\ items' \in Nat /\ forfeited' \in Nat
  BY DEF TypeOK
<1>3. CASE items' = 0
  <2>1. Cardinality(OnTheWay') \in Nat
    BY <1>1, FS_Subset, FS_CardinalityType
  <2> QED
    BY <1>2, <1>3, <2>1
<1>4. CASE items' # 0
  <2>1. items <= Cardinality(OnTheWay) + forfeited
    BY <1>4 DEF NoLostWakeup, Covers
  <2>2. /\ OnTheWay \ {t} \subseteq OnTheWay'
        /\ \/ items' <= forfeited'
           \/ /\ t \in OnTheWay' \ OnTheWay
              /\ items' - forfeited' <= items - forfeited + 1
           \/ /\ OnTheWay \subseteq OnTheWay'
              /\ items' - forfeited' <= items - forfeited
           \/ items' - forfeited' + 1 <= items - forfeited
    BY <1>4 DEF Covers
  <2> QED
    <3> DEFINE O == OnTheWay
               P == OnTheWay'
               i == items
               j == items'
               f == forfeited
               g == forfeited'
    <3> HIDE DEF O, P, i, j, f, g
    <3>1. O \in SUBSET Threads /\ P \in SUBSET Threads
      BY <1>1 DEF O, P
    <3>2. i \in Nat /\ j \in Nat /\ f \in Nat /\ g \in Nat
      BY <1>2 DEF i, j, f, g
    <3>3. i <= Cardinality(O) + f
      BY <2>1 DEF O, i, f
    <3>4. /\ O \ {t} \subseteq P
          /\ \/ j <= g
             \/ t \in P \ O /\ j - g <= i - f + 1
             \/ O \subseteq P /\ j - g <= i - f
             \/ j - g + 1 <= i - f
      BY <2>2 DEF O, P, i, j, f, g
    <3>5. j <= Cardinality(P) + g
      BY <3>1, <3>2, <3>3, <3>4, CoverSets
    <3> QED
      BY <3>5 DEF P, j, g
<1> QED
  BY <1>3, <1>4

(* Select with notify_one: the oldest waiter's thread is on the way in the *)
(* notifier's place.                                                       *)
LEMMA SelectOne ==
  ASSUME IInv, TypeOK', NEW t \in Threads, Select(t), Notified(t) = "one"
  PROVE  NoLostWakeup'
<1> USE DEF IInv
<1> SUFFICES ASSUME waiters' # {}, NotifiersAt("all")' = {}
             PROVE  items' <= Cardinality(OnTheWay') + forfeited'
  BY DEF NoLostWakeup
<1>1. waiters' = waiters \ Oldest(waiters) /\ waiters # {}
  BY DEF Select, TakeOne
<1>2. PICK id \in waiters : id \notin waiters'
  <2>1. waiters \in SUBSET Nat
    BY DEF TypeOK, RegistryTypeOK, WaiterIds
  <2> QED
    BY <1>1, <2>1, OldestExists DEF Oldest
<1>3. PICK u \in Threads : reg[u] = id
  BY DEF Bookkeeping
<1>4. u # t /\ id # 0
  BY <1>3 DEF Select, Bookkeeping, RegisteredSteps, TypeOK, RegistryTypeOK,
              WaiterIds
<1>5. u \notin OnTheWay
  BY <1>3, <1>4 DEF OnTheWay, InFlight, NotifiersAt, Bookkeeping,
                    RegisteredSteps
<1>6. u \in OnTheWay'
  BY <1>2, <1>3, <1>4 DEF Select, OnTheWay, InFlight
<1>7. OnTheWay \ {t} \subseteq OnTheWay'
  BY <1>1 DEF Select, OnTheWay, InFlight, NotifiersAt, Notified, Go,
              historyVars, TypeOK
<1>8. OnTheWay \in SUBSET Threads /\ OnTheWay' \in SUBSET Threads
  BY DEF TypeOK, OnTheWay, InFlight, NotifiersAt
<1>9. Cardinality(OnTheWay) <= Cardinality(OnTheWay')
  BY <1>5, <1>6, <1>7, <1>8, CardSwap
<1>10. Cardinality(OnTheWay) \in Nat /\ Cardinality(OnTheWay') \in Nat
  BY <1>8, FS_Subset, FS_CardinalityType
<1>11. NotifiersAt("all") = {}
  BY DEF Select, NotifiersAt, Notified, Go, TypeOK
<1>12. items <= Cardinality(OnTheWay) + forfeited
  BY <1>1, <1>11 DEF NoLostWakeup
<1>13. items' = items /\ forfeited' = forfeited
  BY DEF Select, historyVars
<1> QED
  BY <1>9, <1>10, <1>12, <1>13 DEF TypeOK

(* Every other step satisfies Covers.                                      *)
LEMMA EveryStepCovers ==
  ASSUME IInv, TypeOK', NEW t \in Threads,
         \/ Tick \/ StartCall(t) \/ LockStep(t) \/ WaitStep(t) \/ HeldStep(t)
         \/ GuardStep(t) \/ NotifyStep(t) \/ TimerStep(t),
         ~(Select(t) /\ Notified(t) = "one")
  PROVE  Covers(t)
<1> USE DEF IInv, TypeOK, RegistryTypeOK, Bookkeeping, RegisteredSteps,
        Covers, OnTheWay, InFlight, NotifiersAt, Notified, Go, registryVars,
        threadVars, timerVars, historyVars
<1>1. CASE Tick
  BY <1>1 DEF Tick
<1>2. CASE CallLocking(t)
  BY <1>2 DEF CallLocking, Begin
<1>3. CASE CallNotify(t)
  BY <1>3 DEF CallNotify, Begin
<1>4. CASE CallWaitFor(t)
  BY <1>4 DEF CallWaitFor, Begin
<1>5. CASE CallWaitDeadline(t)
  BY <1>5 DEF CallWaitDeadline, Begin
<1>6. CASE CallWaitTotal(t)
  BY <1>6 DEF CallWaitTotal, Begin
<1>7. CASE CallWaitTotalOverflow(t)
  BY <1>7 DEF CallWaitTotalOverflow, Finish
<1>8. CASE ClearPoison(t)
  BY <1>8 DEF ClearPoison
<1>9. CASE Acquire(t)
  BY <1>9 DEF Acquire
<1>10. CASE Reacquire(t)
  BY <1>10 DEF Reacquire
<1>11. CASE PollNoop(t)
  BY <1>11 DEF PollNoop, Poll, StillBlocked, CommittedSteps
<1>12. CASE RegisterWaiter(t)
  BY <1>12
     DEF RegisterWaiter, Register, Exhausted, StillBlocked, CommittedSteps
<1>13. CASE PollWaker(t)
  BY <1>13 DEF PollWaker, Poll, StillBlocked, CommittedSteps
<1>14. CASE ReleaseGuard(t)
  BY <1>14 DEF ReleaseGuard, Unlock, StillBlocked, CommittedSteps
<1>15. CASE LatchWait(t)
  BY <1>15 DEF LatchWait
<1>16. CASE UnregisterWaiter(t)
  BY <1>16 DEF UnregisterWaiter, Unregister
<1>17. CASE PollFinal(t)
  BY <1>17 DEF PollFinal, Poll
<1>18. CASE WithWrite(t)
  BY <1>18 DEF WithWrite, Settle, Return, Unlock, Finish
<1>19. CASE WithWriteNotify(t)
  <2>1. CASE op[t] = "with_write_notify_all"
    <3>1. t \in NotifiersAt("all")'
      BY <1>19, <2>1 DEF WithWriteNotify
    <3> QED
      BY <3>1
  <2>2. CASE op[t] = "with_write_notify_one"
    <3>1. /\ waiters' = waiters
          /\ NotifiersAt("all") \subseteq NotifiersAt("all")'
          /\ OnTheWay \ {t} \subseteq OnTheWay'
          /\ t \in OnTheWay' \ OnTheWay
      BY <1>19, <2>2 DEF WithWriteNotify, Settle
    <3>2. items' <= forfeited' \/ items' - forfeited' <= items - forfeited + 1
      BY <1>19, <2>2 DEF WithWriteNotify, Settle
    <3> HIDE DEF OnTheWay, NotifiersAt
    <3> QED
      BY <3>1, <3>2
  <2> QED
    BY <1>19, <2>1, <2>2 DEF WithWriteNotify
<1>20. CASE TakeReady(t)
  BY <1>20 DEF TakeReady, Settle, Return, Unlock, Finish
<1>21. CASE EnterWait(t)
  BY <1>21 DEF EnterWait, StillBlocked, CommittedSteps
<1>22. CASE EnterTimedWait(t)
  BY <1>22 DEF EnterTimedWait, Arm, StillBlocked, CommittedSteps
<1>23. CASE ZeroTimeout(t)
  BY <1>23
     DEF ZeroTimeout, Return, Unlock, Finish, StillBlocked, CommittedSteps
<1>24. CASE ArmFails(t)
  BY <1>24 DEF ArmFails, Return, Unlock, Finish, StillBlocked, CommittedSteps
<1>25. CASE PollDeadline(t)
  BY <1>25 DEF PollDeadline, StillBlocked, CommittedSteps
<1>26. CASE DeadlineExpired(t)
  BY <1>26
     DEF DeadlineExpired, Return, Unlock, Finish, StillBlocked,
         CommittedSteps
<1>27. CASE WaitFails(t)
  BY <1>27 DEF WaitFails, Forfeit, Settle, Return, Unlock, Finish
<1>28. CASE WaitTimesOut(t)
  BY <1>28
     DEF WaitTimesOut, Settle, Return, Unlock, Finish, StillBlocked,
         CommittedSteps
<1>29. CASE WaitAgain(t)
  BY <1>29 DEF WaitAgain, Settle, StillBlocked, CommittedSteps
<1>30. CASE ClosurePanics(t)
  <2>1. PICK n \in 0 .. MaxItems : Unwind(t, n)
    BY <1>30 DEF ClosurePanics, LeftByPanic
  <2>2. /\ waiters' = waiters
        /\ NotifiersAt("all") \subseteq NotifiersAt("all")'
        /\ OnTheWay \ {t} \subseteq OnTheWay'
        /\ t \notin chosen => OnTheWay \subseteq OnTheWay'
    BY <1>30, <2>1 DEF ClosurePanics, Unwind, Settle, Finish
  <2>3. \/ items' <= forfeited'
        \/ t \notin chosen /\ items' - forfeited' <= items - forfeited
        \/ items' - forfeited' + 1 <= items - forfeited
    BY <2>1 DEF Unwind, Settle
  <2> HIDE DEF OnTheWay, NotifiersAt
  <2> QED
    BY <2>2, <2>3
<1>31. CASE RegisterPanics(t)
  BY <1>31
     DEF RegisterPanics, Unwind, Settle, Unlock, Finish, StillBlocked,
         CommittedSteps
<1>32. CASE GuardWaitReturns(t)
  BY <1>32 DEF GuardWaitReturns
<1>33. CASE GuardWait(t)
  BY <1>33 DEF GuardWait, Settle, StillBlocked, CommittedSteps
<1>34. CASE GuardTimedWait(t)
  BY <1>34 DEF GuardTimedWait, Arm, Settle, StillBlocked, CommittedSteps
<1>35. CASE GuardArmFails(t)
  BY <1>35 DEF GuardArmFails, Settle, StillBlocked, CommittedSteps
<1>36. CASE GuardDrop(t)
  <2>1. /\ waiters' = waiters
        /\ NotifiersAt("all") \subseteq NotifiersAt("all")'
        /\ OnTheWay \ {t} \subseteq OnTheWay'
        /\ t \notin chosen => OnTheWay \subseteq OnTheWay'
    BY <1>36 DEF GuardDrop, Forfeit, Settle, Return, Finish
  <2> HIDE DEF OnTheWay, NotifiersAt
  <2>2. CASE \E n \in 0 .. items : n < items /\ Settle(t, n, 0)
    BY <2>1, <2>2 DEF Settle
  <2>3. CASE Forfeit(t, items)
    BY <2>1, <2>3 DEF Forfeit, Settle
  <2> QED
    BY <1>36, <2>2, <2>3 DEF GuardDrop
<1>37. CASE GuardNotify(t)
  <2>1. CASE op'[t] = "notify_all"
    <3>1. t \in NotifiersAt("all")'
      BY <1>37, <2>1 DEF GuardNotify
    <3> QED
      BY <3>1
  <2>2. CASE op'[t] = "notify_one"
    <3>1. /\ waiters' = waiters
          /\ NotifiersAt("all") \subseteq NotifiersAt("all")'
          /\ OnTheWay \ {t} \subseteq OnTheWay'
          /\ t \in OnTheWay'
          /\ t \in OnTheWay <=> t \in chosen
      BY <1>37, <2>2 DEF GuardNotify, Forfeit, Settle
    <3>0. /\ items \in Nat /\ forfeited \in Nat
          /\ items' \in Nat /\ forfeited' \in Nat
      OBVIOUS
    <3>2. items' = items \/ items' = items + 1
      BY <1>37, <2>2 DEF GuardNotify, Forfeit, Settle
    <3>3. CASE t \in chosen
      <4>1. forfeited' = IF forfeited + 1 < items' THEN forfeited + 1 ELSE items'
        BY <1>37, <3>3 DEF GuardNotify, Forfeit, Settle
      <4> HIDE DEF OnTheWay, NotifiersAt, IInv, TypeOK, Covers
      <4>2. items' <= forfeited' \/ items' - forfeited' <= items - forfeited
        BY <3>0, <3>2, <4>1, ForfeitKeepsPace
      <4> USE DEF Covers
      <4> QED
        BY <3>1, <3>3, <4>2
    <3>4. CASE t \notin chosen
      <4>1. forfeited' = IF forfeited < items' THEN forfeited ELSE items'
        BY <1>37, <3>4 DEF GuardNotify, Forfeit, Settle
      <4> HIDE DEF OnTheWay, NotifiersAt, IInv, TypeOK, Covers
      <4>2. items' <= forfeited' \/ items' - forfeited' <= items - forfeited + 1
        BY <3>0, <3>2, <4>1, OneItemMore
      <4> USE DEF Covers
      <4> QED
        BY <3>1, <3>4, <4>2
    <3> QED
      BY <3>3, <3>4
  <2>3. op'[t] = "notify_one" \/ op'[t] = "notify_all"
    BY <1>37 DEF GuardNotify, NotifyCalls
  <2> HIDE DEF Covers, IInv, TypeOK, Bookkeeping
  <2> QED
    BY <2>1, <2>2, <2>3
<1>38. CASE Select(t)
  BY <1>38 DEF Select, TakeAll
<1>39. CASE Signal(t)
  BY <1>39 DEF Signal, Oldest
<1>40. CASE NotifyReturns(t)
  BY <1>40 DEF NotifyReturns, Finish
<1>41. CASE TimerFires(t)
  BY <1>41 DEF TimerFires, Complete
<1>42. CASE TimerFails(t)
  BY <1>42 DEF TimerFails, Complete
<1> QED
  BY <1>1, <1>2, <1>3, <1>4, <1>5, <1>6, <1>7, <1>8, <1>9, <1>10, <1>11,
     <1>12, <1>13, <1>14, <1>15, <1>16, <1>17, <1>18, <1>19, <1>20, <1>21,
     <1>22, <1>23, <1>24, <1>25, <1>26, <1>27, <1>28, <1>29, <1>30, <1>31,
     <1>32, <1>33, <1>34, <1>35, <1>36, <1>37, <1>38, <1>39, <1>40, <1>41,
     <1>42
     DEF StartCall, LockStep, WaitStep, HeldStep, GuardStep, NotifyStep,
             TimerStep

(* Every step leaves each available item covered by a thread on its way.   *)
LEMMA NoLostWakeupStep ==
  ASSUME IInv, TypeOK', [Next]_vars
  PROVE  NoLostWakeup'
<1>1. TypeOK /\ NoLostWakeup
  BY DEF IInv
<1>2. CASE UNCHANGED vars
  BY <1>1, <1>2 DEF vars, NoLostWakeup, OnTheWay, InFlight, NotifiersAt,
     Notified, registryVars, threadVars, historyVars
<1>3. CASE Tick
  BY <1>1, <1>3 DEF Tick, NoLostWakeup, OnTheWay, InFlight, NotifiersAt,
     Notified, registryVars, threadVars, historyVars
<1>4. ASSUME NEW t \in Threads,
             \/ StartCall(t) \/ LockStep(t) \/ WaitStep(t) \/ HeldStep(t)
             \/ GuardStep(t) \/ NotifyStep(t) \/ TimerStep(t)
      PROVE  NoLostWakeup'
  <2>1. CASE Select(t) /\ Notified(t) = "one"
    BY <2>1, SelectOne
  <2>2. CASE ~(Select(t) /\ Notified(t) = "one")
    <3>1. Covers(t)
      BY <1>4, <2>2, EveryStepCovers
    <3> QED
      BY <1>1, <3>1, CoverStep
  <2> QED
    BY <2>1, <2>2
<1> QED
  BY <1>2, <1>3, <1>4 DEF Next

-----------------------------------------------------------------------------

(* IInv is an invariant: the one BlockingMonitor states and TLC checked.   *)
LEMMA Inductive == Spec => []IInv
<1>1. Init => IInv
  <2> SUFFICES ASSUME Init PROVE IInv
    OBVIOUS
  <2>1. WaitInv
    BY InitWaitInv
  <2>2. NoLostWakeup
    BY DEF Init, RegistryInit, NoLostWakeup
  <2> QED
    BY <2>1, <2>2 DEF IInv, WaitInv
<1>2. IInv /\ [Next]_vars => IInv'
  <2> SUFFICES ASSUME IInv, [Next]_vars PROVE IInv'
    OBVIOUS
  <2>1. WaitInv'
    BY WaitInvStep DEF IInv, WaitInv
  <2>2. NoLostWakeup'
    BY <2>1, NoLostWakeupStep DEF WaitInv
  <2> QED
    BY <2>1, <2>2 DEF IInv, WaitInv
<1> QED
  BY <1>1, <1>2, PTL DEF Spec

(* No interleaving of waiters, notifiers, timers, timeouts and panics      *)
(* loses a wakeup: a registered waiter never coexists with an item that    *)
(* nobody is on the way to look at, unless that item's wakeup was given up *)
(* (blocking_monitor_guard_wait.rs, registration before release).          *)
THEOREM NoLostWakeupHolds == Spec => []NoLostWakeup
<1>1. IInv => NoLostWakeup
  BY DEF IInv
<1> QED
  BY <1>1, Inductive, PTL

=============================================================================
