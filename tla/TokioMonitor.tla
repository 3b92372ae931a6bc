---------------------------- MODULE TokioMonitor ----------------------------
(***************************************************************************)
(* TokioMonitor (src/monitor/tokio_monitor.rs): Tokio's fair mutex around  *)
(* the protected state, the waiter registry, one private Notify for each   *)
(* registration and a timer.  A call is a future; its steps between two    *)
(* await points run within one poll, and dropping it while it is pending   *)
(* cancels it at the await point it has reached: "lock", "wait" or         *)
(* "relock".                                                               *)
(*                                                                         *)
(* The protected state is a number of items, as in BlockingMonitor.  The   *)
(* wait_until* forms forward to the wait_while* calls and are not told     *)
(* apart.                                                                  *)
(*                                                                         *)
(* Tokio and the timer are external.  Tokio's mutex hands itself to the    *)
(* contender that asked first; that of a contender dropped before it       *)
(* resumed goes to the next one.  A pending future is polled again once    *)
(* its signal or its deadline is ready, and may be polled at other times.  *)
(***************************************************************************)
EXTENDS WaiterRegistry, FiniteSets, SequencesExt

CONSTANTS Tasks, NoTask,
          Calls,          \* Calls[t]: the calls task t makes
          Timeouts,       \* the relative timeouts callers pass
          MaxInstant,     \* the last representable instant, and clock bound
          MaxItems,       \* bound on the protected value
          Cancellation,   \* pending calls may be dropped
          Panics,         \* user closures may panic
          TimerFaults     \* the timer may fail to register or to complete

TimedCalls  == {"wait_while_for_async", "wait_while_with_deadline_async"}
WaitCalls   == {"wait_while_async"} \cup TimedCalls
NotifyCalls == {"notify_one", "notify_all"}
NotifyingWrites == {"with_write_notify_one_async", "with_write_notify_all_async"}
WriteCalls  == {"with_read_async", "with_write_async"} \cup NotifyingWrites
CallKinds   == WaitCalls \cup NotifyCalls \cup WriteCalls

ASSUME TasksAssumption    == NoTask \notin Tasks /\ IsFiniteSet(Tasks)
ASSUME CallsAssumption    == Calls \in [Tasks -> SUBSET CallKinds]
ASSUME TimeoutsAssumption == Timeouts \subseteq Nat /\ MaxInstant \in Nat
ASSUME ItemsAssumption    == MaxItems \in Nat
ASSUME SwitchesAssumption == {Cancellation, Panics, TimerFaults} \subseteq BOOLEAN

VARIABLES
    owner,      \* the task the mutex is granted to
    contenders, \* the tasks queued for it, first come first
    items,      \* the protected value
    signalled,  \* waiters whose Notify holds a permit
    wakes,      \* wakes[t]: waiters t took from the registry, not yet woken
    pc, op,     \* the step of t's call, and the call
    reg,        \* t's registration, 0 when it has none
    status,     \* outcome of t's latest suspension and deadline check
    result,     \* how t's latest call ended
    now, timeout, deadline, timer,
    chosen,     \* history: tasks that left a wait because they were selected
                \* and have not examined the protected value since
    forfeited   \* history: items whose wakeup was given up by an error, a
                \* panic or a cancellation

lockVars    == <<owner, contenders>>
taskVars    == <<pc, op, reg, status, result>>
timerVars   == <<now, timeout, deadline, timer>>
historyVars == <<chosen, forfeited>>
vars == <<lockVars, items, registryVars, signalled, wakes, taskVars, timerVars,
          historyVars>>

Steps == {"idle", "lock", "held", "poll_deadline", "register", "release",
          "wait", "poll_signal", "unregister", "ask", "relock", "recheck",
          "check", "notify", "signal"}

(* The steps between a lock().await that returned and the drop of its      *)
(* guard.                                                                  *)
HoldingSteps == {"held", "poll_deadline", "register", "release", "recheck",
                 "check"}

Results  == {"none", "done", "ready", "timed_out", "error", "panicked",
             "cancelled"}
Statuses == {"woken", "timed_out", "error"}
Futures  == {"none", "pending", "fired", "failed"}

TypeOK ==
    /\ RegistryTypeOK
    /\ owner \in Tasks \cup {NoTask}
    /\ contenders \in Seq(Tasks)
    /\ items \in 0 .. MaxItems
    /\ signalled \in SUBSET WaiterIds
    /\ wakes \in [Tasks -> SUBSET WaiterIds]
    /\ pc \in [Tasks -> Steps]
    /\ op \in [Tasks -> CallKinds \cup {"none"}]
    /\ reg \in [Tasks -> {0} \cup WaiterIds]
    /\ status \in [Tasks -> Statuses]
    /\ result \in [Tasks -> Results]
    /\ now \in 0 .. MaxInstant
    /\ timeout \in [Tasks -> Nat]
    /\ deadline \in [Tasks -> Nat]
    /\ timer \in [Tasks -> Futures]
    /\ chosen \in SUBSET Tasks
    /\ forfeited \in 0 .. MaxItems

Init ==
    /\ RegistryInit
    /\ owner = NoTask
    /\ contenders = <<>>
    /\ items = 0
    /\ signalled = {}
    /\ wakes = [t \in Tasks |-> {}]
    /\ pc = [t \in Tasks |-> "idle"]
    /\ op = [t \in Tasks |-> "none"]
    /\ reg = [t \in Tasks |-> 0]
    /\ status = [t \in Tasks |-> "woken"]
    /\ result = [t \in Tasks |-> "none"]
    /\ now = 0
    /\ timeout = [t \in Tasks |-> 0]
    /\ deadline = [t \in Tasks |-> 0]
    /\ timer = [t \in Tasks |-> "none"]
    /\ chosen = {}
    /\ forfeited = 0

-----------------------------------------------------------------------------
(* What the steps below are made of.                                       *)

Go(t, step) == pc' = [pc EXCEPT ![t] = step]

(* Tokio's mutex: ask for it, give it up, stop asking for it.              *)
Ask(t) ==
    IF owner = NoTask
    THEN owner' = t /\ UNCHANGED contenders
    ELSE contenders' = Append(contenders, t) /\ UNCHANGED owner

Unlock ==
    IF contenders = <<>>
    THEN owner' = NoTask /\ UNCHANGED contenders
    ELSE owner' = Head(contenders) /\ contenders' = Tail(contenders)

Withdraw(t) ==
    IF owner = t
    THEN Unlock
    ELSE /\ \E i \in DOMAIN contenders :
                contenders[i] = t /\ contenders' = RemoveAt(contenders, i)
         /\ UNCHANGED owner

(* The protected value becomes n, lost of the items in it without a        *)
(* notification, and t is done with whatever selection it had.             *)
Settle(t, n, lost) ==
    /\ items' = n
    /\ chosen' = chosen \ {t}
    /\ forfeited' = IF forfeited + lost < n THEN forfeited + lost ELSE n

(* t gives up a selection, if it has one, that an item could have used.    *)
Forfeit(t, selected) == Settle(t, items, IF selected THEN 1 ELSE 0)

(* The future completes with r, unwinds or is dropped, and its timer       *)
(* future with it.                                                         *)
Finish(t, r) ==
    /\ Go(t, "idle")
    /\ op' = [op EXCEPT ![t] = "none"]
    /\ status' = [status EXCEPT ![t] = "woken"]
    /\ result' = [result EXCEPT ![t] = r]
    /\ timeout' = [timeout EXCEPT ![t] = 0]
    /\ deadline' = [deadline EXCEPT ![t] = 0]
    /\ timer' = [timer EXCEPT ![t] = "none"]
    /\ UNCHANGED <<now, wakes>>

(* The guard is dropped and the call ends with r.                          *)
Return(t, r) ==
    /\ Unlock
    /\ Finish(t, r)
    /\ UNCHANGED <<registryVars, signalled, reg>>

-----------------------------------------------------------------------------
(* The first poll of a call.                                               *)

Begin(t, c) ==
    /\ pc[t] = "idle"
    /\ c \in Calls[t]
    /\ op' = [op EXCEPT ![t] = c]
    /\ result' = [result EXCEPT ![t] = "none"]
    /\ UNCHANGED <<items, registryVars, signalled, wakes, reg, status, now,
                   timer, historyVars>>

CallLocking(t) ==
    \E c \in {"wait_while_async"} \cup WriteCalls :
        /\ Begin(t, c)
        /\ Ask(t) /\ Go(t, "lock")
        /\ UNCHANGED <<timeout, deadline>>

CallWaitFor(t) ==
    \E d \in Timeouts :
        /\ Begin(t, "wait_while_for_async")
        /\ Ask(t) /\ Go(t, "lock")
        /\ timeout' = [timeout EXCEPT ![t] = d]
        /\ UNCHANGED deadline

CallWaitDeadline(t) ==
    \E d \in 0 .. MaxInstant :
        /\ Begin(t, "wait_while_with_deadline_async")
        /\ Ask(t) /\ Go(t, "lock")
        /\ deadline' = [deadline EXCEPT ![t] = d]
        /\ UNCHANGED timeout

(* notify_one and notify_all are not futures: they never touch the mutex.  *)
CallNotify(t) ==
    \E c \in NotifyCalls :
        /\ Begin(t, c)
        /\ Go(t, "notify")
        /\ UNCHANGED <<lockVars, timeout, deadline>>

(* The relative budget of wait_while_for_async starts with the lock held.  *)
Acquire(t) ==
    /\ pc[t] = "lock"
    /\ owner = t
    /\ Go(t, "held")
    /\ deadline' = IF op[t] = "wait_while_for_async"
                     THEN [deadline EXCEPT ![t] = now + timeout[t]]
                     ELSE deadline
    /\ UNCHANGED <<lockVars, items, registryVars, signalled, wakes, op, reg,
                   status, result, now, timeout, timer, historyVars>>

-----------------------------------------------------------------------------
(* Steps taken with the guard, before any wait.                            *)

WithWrite(t) ==
    /\ pc[t] = "held"
    /\ \E n \in 0 .. items :
          /\ \/ op[t] = "with_write_async"
             \/ op[t] = "with_read_async" /\ n = items
          /\ Settle(t, n, 0)
    /\ Return(t, "done")

(* The inner future drops the guard; the notification follows in the same  *)
(* poll, so that nothing can cancel it.                                    *)
WithWriteNotify(t) ==
    /\ pc[t] = "held"
    /\ \E n \in 0 .. MaxItems :
          /\ \/ op[t] = "with_write_notify_one_async" /\ n \in {items, items + 1}
             \/ op[t] = "with_write_notify_all_async"
          /\ Settle(t, n, 0)
    /\ Unlock
    /\ Go(t, "notify")
    /\ UNCHANGED <<registryVars, signalled, wakes, op, reg, status, result,
                   timerVars>>

(* The predicate no longer waits: the action takes an item.                *)
TakeReady(t) ==
    /\ op[t] \in WaitCalls
    /\ \/ pc[t] = "held"
       \/ pc[t] = "check" /\ status[t] # "error"
    /\ items > 0
    /\ Settle(t, items - 1, 0)
    /\ Return(t, "ready")

(* Mutant of EnterWait: the guard is dropped before the registration.      *)
EnterWaitUnlocked(t) ==
    /\ pc[t] = "held"
    /\ op[t] = "wait_while_async"
    /\ items = 0
    /\ Unlock
    /\ Go(t, "register")
    /\ UNCHANGED <<items, registryVars, signalled, wakes, op, reg, status,
                   result, timerVars, historyVars>>

EnterWait(t) ==
    /\ pc[t] = "held"
    /\ op[t] = "wait_while_async"
    /\ items = 0
    /\ Go(t, "register")
    /\ UNCHANGED <<lockVars, items, registryVars, signalled, wakes, op, reg,
                   status, result, timerVars, historyVars>>

(* The timer future is made once; wait_while_with_deadline_async polls it  *)
(* before it waits, wait_while_for_async does not.                         *)
EnterTimedWait(t) ==
    /\ pc[t] = "held"
    /\ op[t] \in TimedCalls
    /\ items = 0
    /\ op[t] = "wait_while_for_async" =>
          timeout[t] > 0 /\ deadline[t] <= MaxInstant
    /\ timer' = [timer EXCEPT ![t] = "pending"]
    /\ Go(t, IF op[t] = "wait_while_for_async" THEN "register"
                                               ELSE "poll_deadline")
    /\ UNCHANGED <<lockVars, items, registryVars, signalled, wakes, op, reg,
                   status, result, now, timeout, deadline, historyVars>>

ZeroTimeout(t) ==
    /\ pc[t] = "held"
    /\ op[t] = "wait_while_for_async"
    /\ items = 0
    /\ timeout[t] = 0
    /\ Return(t, "timed_out")
    /\ UNCHANGED <<items, historyVars>>

(* checked_add overflows, or the timer refuses the deadline.               *)
ArmFails(t) ==
    /\ pc[t] = "held"
    /\ op[t] \in TimedCalls
    /\ items = 0
    /\ op[t] = "wait_while_for_async" => timeout[t] > 0
    /\ deadline[t] > MaxInstant \/ TimerFaults
    /\ Return(t, "error")
    /\ UNCHANGED <<items, historyVars>>

DeadlinePending(t) ==
    /\ pc[t] = "poll_deadline"
    /\ timer[t] = "pending"
    /\ Go(t, "register")
    /\ UNCHANGED <<lockVars, items, registryVars, signalled, wakes, op, reg,
                   status, result, timerVars, historyVars>>

DeadlineExpired(t) ==
    /\ pc[t] = "poll_deadline"
    /\ timer[t] # "pending"
    /\ Return(t, IF timer[t] = "fired" THEN "timed_out" ELSE "error")
    /\ UNCHANGED <<items, historyVars>>

-----------------------------------------------------------------------------
(* One suspension: register, drop the guard, wait for the signal or the    *)
(* deadline, drop the registration, lock again.                            *)

RegisterWaiter(t) ==
    /\ pc[t] = "register"
    /\ \E id \in 1 .. MaxWaiterId :
          /\ Register(id)
          /\ reg' = [reg EXCEPT ![t] = id]
    /\ Go(t, "release")
    /\ UNCHANGED <<lockVars, items, signalled, wakes, op, status, result,
                   timerVars, historyVars>>

(* Mutant of ReleaseGuard: the guard lives on across the await.            *)
SuspendWithGuard(t) ==
    /\ pc[t] = "release"
    /\ Go(t, "wait")
    /\ UNCHANGED <<lockVars, items, registryVars, signalled, wakes, op, reg,
                   status, result, timerVars, historyVars>>

ReleaseGuard(t) ==
    /\ pc[t] = "release"
    /\ Unlock
    /\ Go(t, "wait")
    /\ UNCHANGED <<items, registryVars, signalled, wakes, op, reg, status,
                   result, timerVars, historyVars>>

(* Mutant of PollTimer: only the signal is polled.                         *)
PollTimerSkipped(t) ==
    /\ pc[t] = "wait"
    /\ Go(t, "poll_signal")
    /\ UNCHANGED <<lockVars, items, registryVars, signalled, wakes, op, reg,
                   status, result, timerVars, historyVars>>

(* A poll of the suspended call looks at the deadline first ...            *)
PollTimer(t) ==
    /\ pc[t] = "wait"
    /\ \/ /\ timer[t] \in {"none", "pending"}
          /\ Go(t, "poll_signal")
          /\ UNCHANGED status
       \/ /\ timer[t] \in {"fired", "failed"}
          /\ Go(t, "unregister")
          /\ status' = [status EXCEPT ![t] =
                          IF timer[t] = "fired" THEN "timed_out" ELSE "error"]
    /\ UNCHANGED <<lockVars, items, registryVars, signalled, wakes, op, reg,
                   result, timerVars, historyVars>>

(* ... and then at the signal; it stays pending when neither is ready.     *)
PollSignal(t) ==
    /\ pc[t] = "poll_signal"
    /\ IF reg[t] \in signalled
         THEN Go(t, "unregister") /\ status' = [status EXCEPT ![t] = "woken"]
         ELSE Go(t, "wait") /\ UNCHANGED status
    /\ UNCHANGED <<lockVars, items, registryVars, signalled, wakes, op, reg,
                   result, timerVars, historyVars>>

(* A notification that took the waiter before is not handed on.            *)
UnregisterWaiter(t) ==
    /\ pc[t] = "unregister"
    /\ Unregister(reg[t])
    /\ reg' = [reg EXCEPT ![t] = 0]
    /\ chosen' = IF reg[t] \in waiters THEN chosen ELSE chosen \cup {t}
    /\ Go(t, "ask")
    /\ UNCHANGED <<lockVars, items, signalled, wakes, op, status, result,
                   timerVars, forfeited>>

Relock(t) ==
    /\ pc[t] = "ask"
    /\ Ask(t)
    /\ Go(t, "relock")
    /\ UNCHANGED <<items, registryVars, signalled, wakes, op, reg, status,
                   result, timerVars, historyVars>>

(* Only a call that the signal woke polls its deadline again.              *)
Reacquire(t) ==
    /\ pc[t] = "relock"
    /\ owner = t
    /\ Go(t, IF timer[t] # "none" /\ status[t] = "woken" THEN "recheck"
                                                         ELSE "check")
    /\ UNCHANGED <<lockVars, items, registryVars, signalled, wakes, op, reg,
                   status, result, timerVars, historyVars>>

(* Mutant of Recheck: a failed timer counts as an expired one.             *)
RecheckHidesError(t) ==
    /\ pc[t] = "recheck"
    /\ Go(t, "check")
    /\ status' = [status EXCEPT ![t] =
                    IF timer[t] = "pending" THEN "woken" ELSE "timed_out"]
    /\ UNCHANGED <<lockVars, items, registryVars, signalled, wakes, op, reg,
                   result, timerVars, historyVars>>

Recheck(t) ==
    /\ pc[t] = "recheck"
    /\ Go(t, "check")
    /\ status' = [status EXCEPT ![t] = CASE timer[t] = "pending" -> "woken"
                                         [] timer[t] = "fired"   -> "timed_out"
                                         [] timer[t] = "failed"  -> "error"]
    /\ UNCHANGED <<lockVars, items, registryVars, signalled, wakes, op, reg,
                   result, timerVars, historyVars>>

-----------------------------------------------------------------------------
(* After a suspension, with the guard.                                     *)

(* A timer error returns before the predicate is looked at.                *)
WaitFails(t) ==
    /\ pc[t] = "check"
    /\ status[t] = "error"
    /\ Forfeit(t, t \in chosen)
    /\ Return(t, "error")

(* Mutant of WaitTimesOut: an expired wait skips the predicate.            *)
WaitTimesOutUnchecked(t) ==
    /\ pc[t] = "check"
    /\ status[t] = "timed_out"
    /\ Settle(t, items, 0)
    /\ Return(t, "timed_out")

WaitTimesOut(t) ==
    /\ pc[t] = "check"
    /\ status[t] = "timed_out"
    /\ items = 0
    /\ Settle(t, items, 0)
    /\ Return(t, "timed_out")

WaitAgain(t) ==
    /\ pc[t] = "check"
    /\ status[t] = "woken"
    /\ items = 0
    /\ Settle(t, items, 0)
    /\ Go(t, "register")
    /\ UNCHANGED <<lockVars, registryVars, signalled, wakes, op, reg, status,
                   result, timerVars>>

-----------------------------------------------------------------------------
(* Unwinding drops the guard and sends no notification; Tokio's mutex has  *)
(* no poison marker.                                                       *)

Unwind(t, n) ==
    /\ Settle(t, n, IF n < items THEN 0
                    ELSE n - items + (IF t \in chosen THEN 1 ELSE 0))
    /\ Return(t, "panicked")

(* What a panicking closure may leave behind: a predicate or a read has    *)
(* changed nothing, an action may have taken its item, a write removed     *)
(* some, and one that was to notify added some.                            *)
LeftByPanic(t) ==
    {n \in 0 .. MaxItems :
        /\ n < items => op[t] \in WaitCalls \cup (WriteCalls \ {"with_read_async"})
        /\ n + 1 < items => op[t] \notin WaitCalls
        /\ n > items => op[t] \in NotifyingWrites}

ClosurePanics(t) ==
    /\ Panics
    /\ \/ pc[t] = "held"
       \/ pc[t] = "check" /\ status[t] # "error"
    /\ \E n \in LeftByPanic(t) : Unwind(t, n)

RegisterPanics(t) ==
    /\ pc[t] = "register"
    /\ Exhausted
    /\ Unwind(t, items)

-----------------------------------------------------------------------------
(* Cancellation: the pending future is dropped with what it owns.          *)

CancelLock(t) ==
    /\ Cancellation
    /\ pc[t] \in {"lock", "relock"}
    /\ Withdraw(t)
    /\ Forfeit(t, t \in chosen)
    /\ Finish(t, "cancelled")
    /\ UNCHANGED <<registryVars, signalled, reg>>

(* Mutant of CancelWait: the registration outlives the call.               *)
CancelForgets(t) ==
    /\ Cancellation
    /\ pc[t] = "wait"
    /\ reg' = [reg EXCEPT ![t] = 0]
    /\ Forfeit(t, reg[t] \notin waiters)
    /\ Finish(t, "cancelled")
    /\ UNCHANGED <<lockVars, registryVars, signalled>>

(* The registration is dropped; a selection it had is not handed on.       *)
CancelWait(t) ==
    /\ Cancellation
    /\ pc[t] = "wait"
    /\ Unregister(reg[t])
    /\ reg' = [reg EXCEPT ![t] = 0]
    /\ Forfeit(t, reg[t] \notin waiters)
    /\ Finish(t, "cancelled")
    /\ UNCHANGED <<lockVars, signalled>>

-----------------------------------------------------------------------------
(* Notification: take the waiters under the registry's lock, then signal   *)
(* them one by one, oldest first, without any lock.                        *)

Notified(t) == IF op[t] \in {"notify_all", "with_write_notify_all_async"}
               THEN "all" ELSE "one"

Select(t) ==
    /\ pc[t] = "notify"
    /\ \E taken \in SUBSET waiters :
          /\ IF Notified(t) = "all" THEN TakeAll(taken) ELSE TakeOne(taken)
          /\ wakes' = [wakes EXCEPT ![t] = taken]
    /\ Go(t, "signal")
    /\ UNCHANGED <<lockVars, items, signalled, op, reg, status, result,
                   timerVars, historyVars>>

Signal(t) ==
    /\ pc[t] = "signal"
    /\ \E id \in Oldest(wakes[t]) :
          /\ signalled' = signalled \cup {id}
          /\ wakes' = [wakes EXCEPT ![t] = @ \ {id}]
    /\ UNCHANGED <<lockVars, items, registryVars, taskVars, timerVars,
                   historyVars>>

NotifyReturns(t) ==
    /\ pc[t] = "signal"
    /\ wakes[t] = {}
    /\ Finish(t, "done")
    /\ UNCHANGED <<lockVars, items, registryVars, signalled, reg, historyVars>>

-----------------------------------------------------------------------------
(* The clock and the timer (external).                                     *)

Tick ==
    /\ now < MaxInstant
    /\ now' = now + 1
    /\ UNCHANGED <<lockVars, items, registryVars, signalled, wakes, taskVars,
                   timeout, deadline, timer, historyVars>>

Complete(t, outcome) ==
    /\ timer[t] = "pending"
    /\ timer' = [timer EXCEPT ![t] = outcome]
    /\ UNCHANGED <<lockVars, items, registryVars, signalled, wakes, taskVars,
                   now, timeout, deadline, historyVars>>

TimerFires(t) == now >= deadline[t] /\ Complete(t, "fired")

TimerFails(t) == TimerFaults /\ Complete(t, "failed")

-----------------------------------------------------------------------------

StartCall(t) ==
    \/ CallLocking(t) \/ CallWaitFor(t) \/ CallWaitDeadline(t) \/ CallNotify(t)

(* What the executor does for t by polling its call.                       *)
PollStep(t) ==
    \/ Acquire(t) \/ WithWrite(t) \/ WithWriteNotify(t)
    \/ TakeReady(t) \/ EnterWait(t) \/ EnterTimedWait(t)
    \/ ZeroTimeout(t) \/ ArmFails(t) \/ DeadlinePending(t) \/ DeadlineExpired(t)
    \/ RegisterWaiter(t) \/ RegisterPanics(t) \/ ReleaseGuard(t)
    \/ PollTimer(t) \/ PollSignal(t) \/ UnregisterWaiter(t)
    \/ Relock(t) \/ Reacquire(t) \/ Recheck(t)
    \/ WaitFails(t) \/ WaitTimesOut(t) \/ WaitAgain(t)
    \/ ClosurePanics(t)
    \/ Select(t) \/ Signal(t) \/ NotifyReturns(t)

Cancel(t) == CancelLock(t) \/ CancelWait(t)

TimerStep(t) == TimerFires(t) \/ TimerFails(t)

Next ==
    \/ Tick
    \/ \E t \in Tasks : StartCall(t) \/ PollStep(t) \/ Cancel(t) \/ TimerStep(t)

Spec == Init /\ [][Next]_vars

-----------------------------------------------------------------------------
(* Safety.                                                                 *)

(* A guard is held exactly by the task the mutex is granted to; a task     *)
(* that is suspended in a wait, has ended or was cancelled neither keeps   *)
(* the mutex nor stays in its queue, so nobody waits for a task that will  *)
(* not come back; a task that asked for the mutex has it or is queued, and *)
(* queued once.                                                            *)
LockSlot ==
    /\ \A t \in Tasks : pc[t] \in HoldingSteps => owner = t
    /\ \A t \in Tasks :
          owner = t => pc[t] \in HoldingSteps \cup {"lock", "relock"}
    /\ \A i \in DOMAIN contenders :
          /\ contenders[i] # owner
          /\ pc[contenders[i]] \in {"lock", "relock"}
    /\ owner = NoTask => contenders = <<>>
    /\ \A t \in Tasks : pc[t] \in {"lock", "relock"} =>
          owner = t \/ \E i \in DOMAIN contenders : contenders[i] = t
    /\ \A i, j \in DOMAIN contenders : contenders[i] = contenders[j] => i = j

(* Every registered waiter belongs to one task that is about to suspend,   *)
(* is suspended or is about to drop its registration: neither cancellation *)
(* nor a panic nor a call that contends for the mutex again leaves an      *)
(* entry that could absorb a notification.                                 *)
EligibleWaiters ==
    \A id \in waiters :
        \E t \in Tasks :
            /\ reg[t] = id
            /\ pc[t] \in {"release", "wait", "poll_signal", "unregister"}
            /\ \A u \in Tasks : reg[u] = id => u = t

(* The tasks that will look at the items without further notification.     *)
NotifiersAt(kind) == {t \in Tasks : pc[t] = "notify" /\ Notified(t) = kind}
InFlight  == {t \in Tasks : reg[t] # 0 /\ reg[t] \notin waiters}
OnTheWay  == NotifiersAt("one") \cup InFlight \cup chosen

(* No lost wakeup: while some waiter is still registered, every available  *)
(* item has its own notification on the way to a task that will look at    *)
(* it, except the items whose wakeup an error, a panic or the cancellation *)
(* of a selected wait gave up.                                             *)
NoLostWakeup ==
    waiters # {} /\ NotifiersAt("all") = {} =>
        items <= Cardinality(OnTheWay) + forfeited

(* Between the predicate check that decides to wait and the drop of the    *)
(* guard, the protected value stays as the predicate saw it.               *)
CommittedSteps == {"poll_deadline", "register", "release"}
StillBlocked == \A t \in Tasks : pc[t] \in CommittedSteps => items = 0

(* The bookkeeping the invariants above rest on.                           *)
RegisteredSteps == {"release", "wait", "poll_signal", "unregister"}
Bookkeeping ==
    /\ \A t \in Tasks : reg[t] # 0 <=> pc[t] \in RegisteredSteps
    /\ \A t \in Tasks : reg[t] < next_waiter_id
    /\ \A t, u \in Tasks : reg[t] # 0 /\ reg[t] = reg[u] => t = u
    /\ \A id \in waiters : id < next_waiter_id /\ \E t \in Tasks : reg[t] = id
    /\ \A t \in Tasks : pc[t] # "signal" => wakes[t] = {}
    /\ \A t \in chosen : pc[t] \in {"ask", "relock", "recheck", "check"}
    /\ forfeited <= items

(* What the local variables of a call say at each of its steps, and that a *)
(* timer or a status that reports the deadline does not report it early.   *)
StartSteps  == {"idle", "lock", "held"}
NotifySteps == {"notify", "signal"}
CallStateOf(t) ==
    /\ op[t] = "none" <=> pc[t] = "idle"
    /\ pc[t] \in {"lock", "held"} => op[t] \notin NotifyCalls
    /\ pc[t] \in NotifySteps => op[t] \in NotifyCalls \cup NotifyingWrites
    /\ pc[t] \notin StartSteps \cup NotifySteps => op[t] \in WaitCalls
    /\ pc[t] \in StartSteps => timer[t] = "none" /\ status[t] = "woken"
    /\ pc[t] \in {"poll_deadline", "recheck"} => timer[t] # "none"
    /\ timer[t] # "none" \/ status[t] # "woken" => op[t] \in TimedCalls
    /\ timer[t] = "fired" \/ status[t] = "timed_out" => deadline[t] <= now
    /\ pc[t] = "held" /\ op[t] = "wait_while_for_async" =>
          deadline[t] <= now + timeout[t]
    /\ pc[t] # "idle" => result[t] = "none"

CallState == \A t \in Tasks : CallStateOf(t)

(* The inductive invariant.                                                *)
IInv == /\ TypeOK
        /\ LockSlot
        /\ Bookkeeping
        /\ CallState
        /\ StillBlocked
        /\ NoLostWakeup

(* How far a call has come: made, or past its first lock.                  *)
Phase == [t \in Tasks |-> IF op[t] = "none" THEN "none"
    ELSE IF pc[t] = "lock" THEN "called" ELSE "running"]

(* Every call keeps the promises of MonitorContract; besides those of the  *)
(* blocking monitors, a call that was cancelled has changed nothing, and a *)
(* write that has run is never cancelled before its notification.          *)
Contract == INSTANCE MonitorContract WITH
    Threads <- Tasks,
    Poisoning <- FALSE,
    poisoned <- FALSE,
    phase <- Phase,
    BudgetCalls <- {"wait_while_for_async"},
    ReadCalls <- {"with_read_async"},
    RemovingCalls <- {"with_write_async"},
    AddingCalls <- NotifyingWrites,
    CancellableCalls <- WaitCalls \cup WriteCalls

KeepsContract == Contract!Spec

-----------------------------------------------------------------------------
(* Fairness and liveness.                                                  *)

(* The executor polls a task that can go on, the clock and the timer       *)
(* advance; Tokio's mutex is fair by its queue.  Nobody has to make a      *)
(* call, and nothing has to fail or be cancelled.                          *)
Fairness ==
    /\ WF_vars(Tick)
    /\ \A t \in Tasks : WF_vars(PollStep(t)) /\ WF_vars(TimerFires(t))

FairSpec == Spec /\ Fairness

(* A wait with a timeout or a deadline ends, whoever notifies or not.      *)
TimedWaitReturns ==
    \A t \in Tasks : op[t] \in TimedCalls ~> op[t] = "none"

(* An available item does not sit beside a suspended waiter for ever: it   *)
(* is taken, or nobody is registered, unless its wakeup was given up.      *)
ItemsAreTaken ==
    items > 0 ~> (items = 0 \/ waiters = {} \/ forfeited > 0)

=============================================================================
