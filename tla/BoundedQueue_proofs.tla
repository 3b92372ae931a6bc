------------------------ MODULE BoundedQueue_proofs -------------------------
(* Proofs about BoundedQueue, for every set of threads, every mix of       *)
(* operations, every set of items and every capacity.                      *)
EXTENDS BoundedQueue, TLAPS

(* Which operation a thread is in says where it can be, whether it carries *)
(* an item, and whether it has a timer; an operation that has not taken    *)
(* effect has no outcome, and one that is about to notify has.             *)
Bookkeeping ==
    \A t \in Threads :
        /\ pc[t] = "idle" <=> op[t] = "none"
        /\ op[t] = "push" => item[t] \in Items
        /\ timer[t] # "none" => op[t] = "pop_for" /\ pc[t] \in {"check", "asleep"}
        /\ pc[t] \in {"check", "asleep"} => outcome[t] = "none"
        /\ pc[t] = "notify" => outcome[t] # "none"
        /\ pc[t] = "asleep" => op[t] \in {"push", "pop", "pop_for"}

IInv == TypeOK /\ Bookkeeping /\ NobodySleepsReady

-----------------------------------------------------------------------------

(* The initial states satisfy the inductive invariant: the queue is empty  *)
(* and everybody is outside.                                               *)
LEMMA InitIInv == Init => IInv
  <1> SUFFICES ASSUME Init PROVE IInv
      OBVIOUS
  <1> USE CapacityAssumption DEF Init
  <1>1. closed \in BOOLEAN
      BY Zenon
  <1>2. items \in Seq(Items) /\ Len(items) <= Capacity
      OBVIOUS
  <1>3. TypeOK
      BY <1>1, <1>2 DEF TypeOK, Steps, Timers, Outcomes
  <1>4. Bookkeeping /\ NobodySleepsReady
      BY DEF Bookkeeping, NobodySleepsReady
  <1> QED
      BY <1>3, <1>4 DEF IInv

(* What a step does to the queue keeps its type and its bound.             *)
LEMMA QueueTyped ==
    ASSUME IInv, Next
    PROVE  items' \in Seq(Items) /\ Len(items') <= Capacity /\ closed' \in BOOLEAN
  <1> USE CapacityAssumption DEF IInv, TypeOK, Next
  <1>1. PICK t \in Threads : Call(t) \/ Step(t) \/ TimerFires(t) \/ TimerFails(t)
      BY DEF Next
  <1>2. CASE Push(t)
    <2>1. item[t] \in Items /\ Len(items) < Capacity
        BY <1>2 DEF Push, CanPush, Bookkeeping
    <2>2. closed' = closed /\ items' = Append(items, item[t])
        BY <1>2 DEF Push
    <2> QED
        BY <2>1, <2>2
  <1>3. CASE Pop(t)
    <2>1. closed' = closed /\ items' = Tail(items) /\ items # <<>>
        BY <1>3 DEF Pop
    <2> QED
        BY <2>1
  <1>4. CASE Close(t)
    <2>1. closed' = TRUE
        BY Zenon, <1>4 DEF Close
    <2>2. closed' \in BOOLEAN
        BY Zenon, <2>1
    <2>3. items' = items
        BY <1>4 DEF Close
    <2> QED
        BY <2>2, <2>3
  <1>5. CASE ~ (Push(t) \/ Pop(t) \/ Close(t))
    <2>1. items' = items /\ closed' = closed
        BY <1>1, <1>5
        DEF Call, Step, CallPush, CallPop, CallPopFor, CallClose, Begin,
            TimerFires, TimerFails, TimerCompletes, PushRejected, PopDrained,
            PopTimesOut, PopFails, Sleep, NotifyAll, Unaffected
    <2> QED
        BY <2>1
  <1> QED
      BY <1>2, <1>3, <1>4, <1>5

(* The calls and the wakeups by a timer.                                   *)
LEMMA ArrivalKeeps ==
    ASSUME IInv, NEW t \in Threads, Call(t) \/ TimerFires(t) \/ TimerFails(t)
    PROVE  IInv'
  <1> USE DEF IInv, TypeOK, Bookkeeping, NobodySleepsReady, CanProceed, CanPush,
              CanPop, Steps, Timers, Outcomes, Operations
  <1>1. Next
      BY DEF Next
  <1> HIDE DEF CanProceed, CanPush, CanPop
  <1>2. items' \in Seq(Items) /\ Len(items') <= Capacity /\ closed' \in BOOLEAN
      BY <1>1, QueueTyped
  <1>3. CASE Call(t)
    <2>1. PICK o \in Operations, x \in Items \cup {NoItem},
               timeout \in {"none", "zero", "unarmed"} :
               /\ Begin(t, o, x, timeout)
               /\ o = "push" => x \in Items
               /\ timeout # "none" => o = "pop_for"
        BY <1>3 DEF Call, CallPush, CallPop, CallPopFor, CallClose, Unused
    <2>2. TypeOK' /\ Bookkeeping'
        BY <1>2, <2>1 DEF Begin
    <2>3. \A u \in Threads : u # t => CanProceed(u)' = CanProceed(u)
        BY <2>1 DEF Begin, CanProceed, CanPush, CanPop
    <2>4. NobodySleepsReady'
        BY <2>1, <2>3 DEF Begin
    <2> QED
        BY <2>2, <2>4
  <1>4. CASE TimerFires(t) \/ TimerFails(t)
    <2>1. PICK how \in {"fired", "failed"} : TimerCompletes(t, how)
        BY <1>4 DEF TimerFires, TimerFails
    <2>2. TypeOK' /\ Bookkeeping'
        BY <1>2, <2>1 DEF TimerCompletes
    <2>3. \A u \in Threads : CanProceed(u)' = CanProceed(u)
        BY <2>1 DEF TimerCompletes, CanProceed, CanPush, CanPop
    <2>4. NobodySleepsReady'
        BY <2>1, <2>3 DEF TimerCompletes
    <2> QED
        BY <2>2, <2>4
  <1> QED
      BY <1>3, <1>4

(* An operation that changes the queue goes on to notify: whoever it may   *)
(* have made ready is still to be told.                                    *)
LEMMA ChangeKeeps ==
    ASSUME IInv, NEW t \in Threads, Push(t) \/ Pop(t) \/ Close(t)
    PROVE  IInv'
  <1> USE DEF IInv, TypeOK, Bookkeeping, Steps, Timers, Outcomes, Operations
  <1>1. Next
      BY DEF Next, Step
  <1>2. items' \in Seq(Items) /\ Len(items') <= Capacity /\ closed' \in BOOLEAN
      BY <1>1, QueueTyped
  <1>3. PICK r \in Outcomes \ {"none"} : Changed(t, r)
      BY DEF Push, Pop, Close
  <1>4. /\ pc[t] = "check" /\ op[t] \in Operations
        /\ op[t] = "push" => item' = item
        /\ item' \in [Threads -> Items \cup {NoItem}]
        /\ \A u \in Threads : u # t => item'[u] = item[u]
        /\ entered' \in SUBSET Items
    <2>1. CASE Push(t)
        BY <2>1 DEF Push
    <2>2. CASE Pop(t)
        BY <2>2 DEF Pop, Pops
    <2>3. CASE Close(t)
        BY <2>3 DEF Close
    <2> QED
        BY <2>1, <2>2, <2>3
  <1>5. TypeOK' /\ Bookkeeping'
    <2>1. TypeOK'
        BY <1>2, <1>3, <1>4 DEF Changed
    <2>2. /\ pc' = [pc EXCEPT ![t] = "notify"] /\ op' = op
          /\ outcome' = [outcome EXCEPT ![t] = r]
          /\ timer' = [timer EXCEPT ![t] = "none"]
        BY <1>3 DEF Changed
    <2>3. Bookkeeping'
        BY <1>4, <2>2
    <2> QED
        BY <2>1, <2>3
  <1>6. pc'[t] = "notify"
      BY <1>3 DEF Changed
  <1> QED
      BY <1>5, <1>6 DEF NobodySleepsReady

(* An operation that returns without an effect leaves the queue alone.     *)
LEMMA ReportKeeps ==
    ASSUME IInv, NEW t \in Threads,
           PushRejected(t) \/ PopDrained(t) \/ PopTimesOut(t) \/ PopFails(t)
    PROVE  IInv'
  <1> USE DEF IInv, TypeOK, Bookkeeping, Steps, Timers, Outcomes, Operations
  <1>1. PICK r \in Outcomes : Unaffected(t, r)
      BY DEF PushRejected, PopDrained, PopTimesOut, PopFails
  <1>2. pc[t] = "check"
      BY DEF PushRejected, PopDrained, PopTimesOut, PopFails, Pops
  <1>3. TypeOK' /\ Bookkeeping'
      BY <1>1, <1>2 DEF Unaffected
  <1>4. \A u \in Threads : u # t => CanProceed(u)' = CanProceed(u)
      BY <1>1 DEF Unaffected, CanProceed, CanPush, CanPop
  <1>5. NobodySleepsReady'
      BY <1>1, <1>2, <1>4 DEF Unaffected, NobodySleepsReady
  <1> QED
      BY <1>3, <1>5

(* A thread goes to sleep only with a predicate that waits.                *)
LEMMA SleepKeeps ==
    ASSUME IInv, NEW t \in Threads, Sleep(t)
    PROVE  IInv'
  <1> USE DEF IInv, TypeOK, Bookkeeping, Steps, Timers, Outcomes, Operations, Sleep
  <1>1. op[t] \in {"push", "pop", "pop_for"}
      BY DEF CanProceed
  <1>2. TypeOK' /\ Bookkeeping'
      BY <1>1
  <1>3. \A u \in Threads : CanProceed(u)' = CanProceed(u)
      BY DEF CanProceed, CanPush, CanPop
  <1>4. NobodySleepsReady'
      BY <1>3 DEF NobodySleepsReady
  <1> QED
      BY <1>2, <1>4

(* After notify_all nobody is asleep.                                      *)
LEMMA NotifyKeeps ==
    ASSUME IInv, NEW t \in Threads, NotifyAll(t)
    PROVE  IInv'
  <1> USE DEF IInv, TypeOK, Bookkeeping, Steps, Timers, Outcomes, Operations,
              NotifyAll, Asleep
  <1>1. TypeOK' /\ Bookkeeping'
      OBVIOUS
  <1>2. \A u \in Threads : pc'[u] # "asleep"
      OBVIOUS
  <1> QED
      BY <1>1, <1>2 DEF NobodySleepsReady

(* The invariant holds in every reachable state.                           *)
THEOREM Invariance == Spec => []IInv
  <1>1. IInv /\ [Next]_vars => IInv'
    <2> SUFFICES ASSUME IInv, [Next]_vars PROVE IInv'
        OBVIOUS
    <2>1. CASE Next
        BY <2>1, ArrivalKeeps, ChangeKeeps, ReportKeeps, SleepKeeps, NotifyKeeps
        DEF Next, Step
    <2>2. CASE UNCHANGED vars
        BY <2>2 DEF vars, IInv, TypeOK, Bookkeeping, NobodySleepsReady,
                    CanProceed, CanPush, CanPop
    <2> QED
        BY <2>1, <2>2
  <1> QED
      BY <1>1, InitIInv, PTL DEF Spec

(* The queue never holds more than its capacity, and every variable keeps  *)
(* its type.                                                               *)
THEOREM QueueTypeCorrect == Spec => []TypeOK
  BY Invariance, PTL DEF IInv

(* No producer and no consumer stays asleep beside a queue that would let  *)
(* it proceed, unless a notify_all is on its way.                          *)
THEOREM NobodySleepsReadyHolds == Spec => []NobodySleepsReady
  BY Invariance, PTL DEF IInv

(* Once the queue is closed and empty it stays so.                         *)
THEOREM EndIsFinalHolds == Spec => EndIsFinal
  <1> DEFINE Kept == closed /\ items = <<>> =>
                       closed' /\ items' = <<>> /\ entered' = entered
  <1>1. ASSUME [Next]_vars PROVE [Kept]_vars
    <2> SUFFICES ASSUME Next, closed, items = <<>>
                 PROVE  closed' /\ items' = <<>> /\ entered' = entered
        BY <1>1
    <2>1. PICK t \in Threads : Call(t) \/ Step(t) \/ TimerFires(t) \/ TimerFails(t)
        BY DEF Next
    <2>2. ~ Push(t) /\ ~ Pop(t)
        BY DEF Push, Pop
    <2>3. CASE Close(t)
        BY <2>3 DEF Close
    <2>4. CASE ~ Close(t)
        BY <2>1, <2>2, <2>4
        DEF Call, Step, CallPush, CallPop, CallPopFor, CallClose, Begin,
            TimerFires, TimerFails, TimerCompletes, PushRejected, PopDrained,
            PopTimesOut, PopFails, Sleep, NotifyAll, Unaffected
    <2> QED
        BY <2>3, <2>4
  <1> QED
      BY <1>1, PTL DEF Spec, EndIsFinal

-----------------------------------------------------------------------------

(* One step of the queue is one step of the closable queue or a stutter:   *)
(* notifications, sleeping and waking do not show.                         *)
LEMMA StepRefines ==
    ASSUME IInv, NEW t \in Threads,
           Call(t) \/ Step(t) \/ TimerFires(t) \/ TimerFails(t)
    PROVE  Contract!Next \/ UNCHANGED Contract!vars
  <1> USE DEF IInv, TypeOK, Bookkeeping, Operations
  <1>1. CASE Call(t)
    <2>1. Contract!Invoke(t)
        BY <1>1 DEF Call, CallPush, CallPop, CallPopFor, CallClose, Begin, Unused,
                    Contract!Invoke
    <2> QED
        BY <2>1 DEF Contract!Next
  <1>2. CASE Push(t)
    <2>1. Contract!Push(t)
        BY <1>2 DEF Push, CanPush, Changed, Contract!Push, Contract!Effect
    <2> QED
        BY <2>1 DEF Contract!Next
  <1>3. CASE Pop(t)
    <2>1. Contract!Pop(t)
        BY <1>3 DEF Pop, Pops, Changed, Contract!Pop, Contract!Effect
    <2> QED
        BY <2>1 DEF Contract!Next
  <1>4. CASE Close(t)
    <2>1. Contract!Close(t)
        BY <1>4 DEF Close, Changed, Contract!Close, Contract!Effect
    <2> QED
        BY <2>1 DEF Contract!Next
  <1>5. CASE PushRejected(t) \/ PopDrained(t) \/ PopTimesOut(t) \/ PopFails(t)
    <2>1. Contract!Report(t)
        BY <1>5 DEF PushRejected, PopDrained, PopTimesOut, PopFails, Pops, CanPush,
                    CanPop, Unaffected, Contract!Report, Contract!Effect
    <2> QED
        BY <2>1 DEF Contract!Next
  <1>6. CASE NotifyAll(t)
    <2>1. Contract!Return(t)
        BY <1>6 DEF NotifyAll, Contract!Return
    <2> QED
        BY <2>1 DEF Contract!Next
  <1>7. CASE Sleep(t) \/ TimerFires(t) \/ TimerFails(t)
      BY <1>7 DEF Sleep, TimerFires, TimerFails, TimerCompletes, Contract!vars
  <1> QED
      BY <1>1, <1>2, <1>3, <1>4, <1>5, <1>6, <1>7 DEF Step

(* The bounded queue implements the closable queue: every operation takes  *)
(* effect at one moment between its call and its return, in FIFO order,    *)
(* and its outcome is true of the queue at that moment.                    *)
THEOREM IsClosableQueueHolds == Spec => IsClosableQueue
  <1>1. Init => Contract!Init
      BY DEF Init, Contract!Init
  <1>2. IInv /\ [Next]_vars => [Contract!Next]_(Contract!vars)
    <2> SUFFICES ASSUME IInv, [Next]_vars PROVE [Contract!Next]_(Contract!vars)
        OBVIOUS
    <2>1. CASE Next
        BY <2>1, StepRefines DEF Next
    <2>2. CASE UNCHANGED vars
        BY <2>2 DEF vars, Contract!vars
    <2> QED
        BY <2>1, <2>2
  <1> QED
      BY <1>1, <1>2, Invariance, PTL DEF Spec, IsClosableQueue, Contract!Spec

=============================================================================
