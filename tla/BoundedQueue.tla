---------------------------- MODULE BoundedQueue ----------------------------
(***************************************************************************)
(* The closable bounded queue of examples/bounded_queue.rs: a client with  *)
(* two conditions, "not full" and "not empty", on one monitor.  Every      *)
(* operation is one monitor call, and an operation that has changed the    *)
(* queue notifies everybody once it has let go of the lock.                *)
(*                                                                         *)
(* The monitor is seen from outside.  A thread at "check" is on its way to *)
(* the lock; a check with the lock, the action or the registration that    *)
(* follows from it, and the release are one step; notify_all takes all     *)
(* registered waiters, which are the threads at "asleep".                  *)
(***************************************************************************)
EXTENDS Integers, Sequences, FiniteSets

CONSTANTS Threads,
          Calls,     \* Calls[t]: the operations thread t uses
          Items,     \* the items; each enters the queue at most once
          NoItem,
          Capacity

Operations == {"push", "pop", "pop_for", "close"}

ASSUME CapacityAssumption == Capacity \in Nat \ {0}
ASSUME ItemsAssumption    == NoItem \notin Items
ASSUME CallsAssumption    == Calls \in [Threads -> SUBSET Operations]

VARIABLES
    items, closed,  \* QueueState
    entered,        \* history: the items that were accepted
    pc,             \* the step of t's operation
    op,             \* the operation t is in
    item,           \* the item t brings, or has received
    timer,          \* the timeout of t's pop_for, then its timer
    outcome         \* what t's latest operation decided

vars == <<items, closed, entered, pc, op, item, timer, outcome>>

Steps    == {"idle", "check", "asleep", "notify"}
Timers   == {"none", "zero", "unarmed", "armed", "fired", "failed"}
Outcomes == {"none", "pushed", "popped", "closed",
             "rejected", "drained", "timed_out", "error"}

TypeOK ==
    /\ items \in Seq(Items)
    /\ Len(items) <= Capacity
    /\ closed \in BOOLEAN
    /\ entered \in SUBSET Items
    /\ pc \in [Threads -> Steps]
    /\ op \in [Threads -> Operations \cup {"none"}]
    /\ item \in [Threads -> Items \cup {NoItem}]
    /\ timer \in [Threads -> Timers]
    /\ outcome \in [Threads -> Outcomes]

Init ==
    /\ items = <<>>
    /\ closed = FALSE
    /\ entered = {}
    /\ pc = [t \in Threads |-> "idle"]
    /\ op = [t \in Threads |-> "none"]
    /\ item = [t \in Threads |-> NoItem]
    /\ timer = [t \in Threads |-> "none"]
    /\ outcome = [t \in Threads |-> "none"]

-----------------------------------------------------------------------------
(* Calls.                                                                  *)

Begin(t, o, x, timeout) ==
    /\ pc[t] = "idle"
    /\ o \in Calls[t]
    /\ pc' = [pc EXCEPT ![t] = "check"]
    /\ op' = [op EXCEPT ![t] = o]
    /\ item' = [item EXCEPT ![t] = x]
    /\ timer' = [timer EXCEPT ![t] = timeout]
    /\ outcome' = [outcome EXCEPT ![t] = "none"]
    /\ UNCHANGED <<items, closed, entered>>

(* The items that no push has in hand and that have not been accepted.     *)
Unused == (Items \ entered) \ {item[t] : t \in {u \in Threads : op[u] = "push"}}

CallPush(t)  == \E x \in Unused : Begin(t, "push", x, "none")
CallPop(t)   == Begin(t, "pop", NoItem, "none")
CallClose(t) == Begin(t, "close", NoItem, "none")

CallPopFor(t) ==
    \E timeout \in {"zero", "unarmed"} : Begin(t, "pop_for", NoItem, timeout)

-----------------------------------------------------------------------------
(* Steps with the lock.                                                    *)

CanPush == closed \/ Len(items) < Capacity
CanPop  == closed \/ items # <<>>

(* The predicate of t's operation; close does not wait.                    *)
CanProceed(t) ==
    CASE op[t] = "push"               -> CanPush
      [] op[t] \in {"pop", "pop_for"} -> CanPop
      [] OTHER                        -> TRUE

(* The operation has changed the queue and goes on to notify.              *)
Changed(t, r) ==
    /\ pc' = [pc EXCEPT ![t] = "notify"]
    /\ outcome' = [outcome EXCEPT ![t] = r]
    /\ timer' = [timer EXCEPT ![t] = "none"]
    /\ UNCHANGED op

(* The operation returns and has changed nothing.                          *)
Unaffected(t, r) ==
    /\ pc' = [pc EXCEPT ![t] = "idle"]
    /\ op' = [op EXCEPT ![t] = "none"]
    /\ outcome' = [outcome EXCEPT ![t] = r]
    /\ timer' = [timer EXCEPT ![t] = "none"]
    /\ UNCHANGED <<items, closed, entered, item>>

(* Mutants of Push: room for one too many; a closed queue still accepts.   *)
PushOneTooMany(t) ==
    /\ pc[t] = "check" /\ op[t] = "push"
    /\ ~ closed /\ Len(items) <= Capacity
    /\ items' = Append(items, item[t])
    /\ entered' = entered \cup {item[t]}
    /\ Changed(t, "pushed")
    /\ UNCHANGED <<closed, item>>

PushIntoClosed(t) ==
    /\ pc[t] = "check" /\ op[t] = "push"
    /\ CanPush /\ Len(items) < Capacity
    /\ items' = Append(items, item[t])
    /\ entered' = entered \cup {item[t]}
    /\ Changed(t, "pushed")
    /\ UNCHANGED <<closed, item>>

Push(t) ==
    /\ pc[t] = "check" /\ op[t] = "push"
    /\ CanPush /\ ~ closed
    /\ items' = Append(items, item[t])
    /\ entered' = entered \cup {item[t]}
    /\ Changed(t, "pushed")
    /\ UNCHANGED <<closed, item>>

PushRejected(t) ==
    /\ pc[t] = "check" /\ op[t] = "push"
    /\ CanPush /\ closed
    /\ Unaffected(t, "rejected")

(* A timer error comes before the check of the predicate.                  *)
Pops(t) == pc[t] = "check" /\ op[t] \in {"pop", "pop_for"} /\ timer[t] # "failed"

(* Mutant of Pop: the notification is left out, as if only producers had   *)
(* to notify.                                                              *)
PopSilently(t) ==
    /\ Pops(t)
    /\ CanPop /\ items # <<>>
    /\ item' = [item EXCEPT ![t] = Head(items)]
    /\ items' = Tail(items)
    /\ pc' = [pc EXCEPT ![t] = "idle"]
    /\ op' = [op EXCEPT ![t] = "none"]
    /\ outcome' = [outcome EXCEPT ![t] = "popped"]
    /\ timer' = [timer EXCEPT ![t] = "none"]
    /\ UNCHANGED <<closed, entered>>

Pop(t) ==
    /\ Pops(t)
    /\ CanPop /\ items # <<>>
    /\ item' = [item EXCEPT ![t] = Head(items)]
    /\ items' = Tail(items)
    /\ Changed(t, "popped")
    /\ UNCHANGED <<closed, entered>>

(* Mutant of PopDrained: the end is reported although items are left.      *)
PopDrainedEarly(t) ==
    /\ Pops(t)
    /\ closed
    /\ Unaffected(t, "drained")

PopDrained(t) ==
    /\ Pops(t)
    /\ CanPop /\ items = <<>>
    /\ Unaffected(t, "drained")

(* A zero timeout is over at the first check, any other when its timer has *)
(* fired and the queue still gives no reason to return.                    *)
PopTimesOut(t) ==
    /\ Pops(t)
    /\ ~ CanPop
    /\ timer[t] \in {"zero", "fired"}
    /\ Unaffected(t, "timed_out")

(* The deadline overflows or the timer refuses it at the first check, or   *)
(* the timer has failed since.                                             *)
PopFails(t) ==
    /\ pc[t] = "check"
    /\ timer[t] = "failed" \/ (timer[t] = "unarmed" /\ ~ CanPop)
    /\ Unaffected(t, "error")

Close(t) ==
    /\ pc[t] = "check" /\ op[t] = "close"
    /\ closed' = TRUE
    /\ Changed(t, "closed")
    /\ UNCHANGED <<items, entered, item>>

(* Mutant of Sleep: pop_for waits as pop does, without its timer.          *)
SleepUntimed(t) ==
    /\ pc[t] = "check"
    /\ ~ CanProceed(t)
    /\ timer[t] \in {"none", "unarmed", "armed"}
    /\ pc' = [pc EXCEPT ![t] = "asleep"]
    /\ UNCHANGED <<items, closed, entered, op, item, timer, outcome>>

(* The predicate waits: the thread registers and gives up the lock.        *)
Sleep(t) ==
    /\ pc[t] = "check"
    /\ ~ CanProceed(t)
    /\ timer[t] \in {"none", "unarmed", "armed"}
    /\ pc' = [pc EXCEPT ![t] = "asleep"]
    /\ timer' = [timer EXCEPT ![t] = IF @ = "unarmed" THEN "armed" ELSE @]
    /\ UNCHANGED <<items, closed, entered, op, item, outcome>>

-----------------------------------------------------------------------------
(* Wakeups.                                                                *)

(* The timer completes or fails, and wakes the thread if it sleeps.        *)
TimerCompletes(t, how) ==
    /\ timer[t] = "armed"
    /\ timer' = [timer EXCEPT ![t] = how]
    /\ pc' = [pc EXCEPT ![t] = "check"]
    /\ UNCHANGED <<items, closed, entered, op, item, outcome>>

TimerFires(t) == TimerCompletes(t, "fired")
TimerFails(t) == TimerCompletes(t, "failed")

Asleep == {t \in Threads : pc[t] = "asleep"}

(* Mutant of NotifyAll: one waiter is selected.                            *)
NotifyJustOne(t) ==
    /\ pc[t] = "notify"
    /\ \E u \in (IF Asleep = {} THEN {t} ELSE Asleep) :
          pc' = [x \in Threads |-> IF x = t THEN "idle"
                                   ELSE IF x = u THEN "check" ELSE pc[x]]
    /\ op' = [op EXCEPT ![t] = "none"]
    /\ UNCHANGED <<items, closed, entered, item, timer, outcome>>

NotifyAll(t) ==
    /\ pc[t] = "notify"
    /\ pc' = [x \in Threads |-> IF x = t THEN "idle"
                                ELSE IF x \in Asleep THEN "check" ELSE pc[x]]
    /\ op' = [op EXCEPT ![t] = "none"]
    /\ UNCHANGED <<items, closed, entered, item, timer, outcome>>

-----------------------------------------------------------------------------

Call(t) == CallPush(t) \/ CallPop(t) \/ CallPopFor(t) \/ CallClose(t)

Step(t) ==
    \/ Push(t) \/ PushRejected(t)
    \/ Pop(t) \/ PopDrained(t) \/ PopTimesOut(t) \/ PopFails(t)
    \/ Close(t) \/ Sleep(t) \/ NotifyAll(t)

Next == \E t \in Threads : Call(t) \/ Step(t) \/ TimerFires(t) \/ TimerFails(t)

Spec == Init /\ [][Next]_vars

(* Threads run, timers complete, and the monitor's lock goes to everybody  *)
(* who asks for it.                                                        *)
FairSpec ==
    /\ Spec
    /\ \A t \in Threads : WF_vars(Step(t)) /\ WF_vars(TimerFires(t))

-----------------------------------------------------------------------------

(* A thread whose predicate holds is not left asleep: somebody is about to *)
(* notify everybody.  Effect and notification are two steps, and in        *)
(* between producers and consumers may be asleep side by side.             *)
NobodySleepsReady ==
    \A t \in Threads :
        pc[t] = "asleep" /\ CanProceed(t) => \E u \in Threads : pc[u] = "notify"

(* The end of the queue is final: once it is closed and empty, which is    *)
(* what None tells a consumer, nothing comes out of it or goes in again.   *)
EndIsFinal ==
    [][closed /\ items = <<>> => closed' /\ items' = <<>> /\ entered' = entered]_vars

(* Every operation takes effect in one step on a FIFO queue: no item is    *)
(* lost, duplicated or reordered, and each outcome is true of the queue.   *)
Contract == INSTANCE ClosableQueue
IsClosableQueue == Contract!Spec

(* No operation stays in its call for ever while its predicate holds.      *)
(* With closed true it always does: close releases everybody.              *)
ReadyCallsReturn ==
    \A t \in Threads : []<>(op[t] = "none" \/ ~ CanProceed(t))

(* pop_for returns, whatever the other threads do.                         *)
TimedPopReturns ==
    \A t \in Threads : op[t] = "pop_for" ~> op[t] # "pop_for"

=============================================================================
