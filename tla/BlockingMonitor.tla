-------------------------- MODULE BlockingMonitor --------------------------
(***************************************************************************)
(* StdMonitor and ParkingLotMonitor: a mutex around the protected state, a *)
(* waiter registry, one private latch per registration and a timer.  The   *)
(* two monitors run the same algorithm (the blocking_ modules under        *)
(* src/monitor/internal); they differ in the mutex, which poisons or not:  *)
(* constant Poisoning.                                                     *)
(*                                                                         *)
(* The protected state is a number of items.  Waiting closures are the     *)
(* documented ones: the predicate waits while there is no item, the action *)
(* takes one.  A closure that adds items is always followed by the notify  *)
(* call the documentation asks for.  wait_until*, wait_until_ready* and    *)
(* the trait methods forward to the four wait_while* calls, so a call here *)
(* stands for its forwarding forms too.                                    *)
(*                                                                         *)
(* Timer and clock are external (qubit_clock).  A timer future completes   *)
(* at or after its deadline, or fails, and then wakes the latest waker it  *)
(* was polled with.                                                        *)
(***************************************************************************)
EXTENDS WaiterRegistry, FiniteSets

CONSTANTS Threads, NoThread,
          Calls,          \* Calls[t]: the calls thread t makes
          Timeouts,       \* the relative timeouts callers pass
          MaxInstant,     \* the last representable instant, and clock bound
          MaxItems,       \* bound on the protected value
          Poisoning,      \* TRUE: std Mutex; FALSE: parking_lot Mutex
          Panics,         \* user closures may panic
          TimerFaults     \* the timer may fail to register or to complete

TimedCalls  == {"wait_while_for", "wait_while_with_deadline",
                "wait_while_with_total_timeout"}
WaitCalls   == {"wait_while"} \cup TimedCalls
NotifyCalls == {"notify_one", "notify_all"}
NotifyingWrites == {"with_write_notify_one", "with_write_notify_all"}
WriteCalls  == {"with_read", "with_write"} \cup NotifyingWrites
CallKinds   == WaitCalls \cup NotifyCalls \cup WriteCalls
                 \cup {"lock", "clear_poison"}

ASSUME ThreadsAssumption  == NoThread \notin Threads /\ IsFiniteSet(Threads)
ASSUME CallsAssumption    == Calls \in [Threads -> SUBSET CallKinds]
ASSUME TimeoutsAssumption == Timeouts \subseteq Nat /\ MaxInstant \in Nat
ASSUME ItemsAssumption    == MaxItems \in Nat
ASSUME SwitchesAssumption == {Poisoning, Panics, TimerFaults} \subseteq BOOLEAN

VARIABLES
    owner,      \* the thread whose guard slot holds the mutex guard
    poisoned,   \* the mutex's poison marker
    items,      \* the protected value
    signalled,  \* waiters whose latch is set
    wakes,      \* wakes[t]: waiters t took from the registry, not yet woken
    pc,         \* the step of t's call
    op,         \* the call t is in
    reg,        \* t's registration, 0 when it has none
    status,     \* outcome of t's latest low-level wait
    result,     \* what t's latest call returned
    now,        \* the monotonic clock
    timeout,    \* t's relative timeout
    deadline,   \* t's deadline
    timer,      \* t's timer future
    waker,      \* the waiter the future wakes, 0 for the no-op waker
    chosen,     \* history: threads that left a wait because they were selected
                \* and have not examined the protected value since
    forfeited   \* history: items whose wakeup was given up by an error, a
                \* panic or a client that ignored its selection

threadVars  == <<pc, op, reg, status, result>>
timerVars   == <<now, timeout, deadline, timer, waker>>
historyVars == <<chosen, forfeited>>
vars == <<owner, poisoned, items, registryVars, signalled, wakes, threadVars,
          timerVars, historyVars>>

Steps == {"idle", "lock", "held", "guard", "poll_deadline", "poll_noop",
          "register", "poll_waker", "release", "wait", "unregister", "relock",
          "poll_final", "check", "notify", "signal"}

(* The steps at which the thread's guard slot is occupied.  At             *)
(* "unregister" it is when the timer completed before the guard was        *)
(* released, and is not once the latch was waited on.                      *)
HoldingSteps == {"held", "guard", "poll_deadline", "poll_noop", "register",
                 "poll_waker", "release", "poll_final", "check"}

Results  == {"none", "done", "ready", "woken", "timed_out", "error", "panicked"}
Statuses == {"woken", "timed_out", "error"}
Futures  == {"none", "pending", "fired", "failed"}

TypeOK ==
    /\ RegistryTypeOK
    /\ owner \in Threads \cup {NoThread}
    /\ poisoned \in BOOLEAN
    /\ items \in 0 .. MaxItems
    /\ signalled \in SUBSET WaiterIds
    /\ wakes \in [Threads -> SUBSET WaiterIds]
    /\ pc \in [Threads -> Steps]
    /\ op \in [Threads -> CallKinds \cup {"none"}]
    /\ reg \in [Threads -> {0} \cup WaiterIds]
    /\ status \in [Threads -> Statuses]
    /\ result \in [Threads -> Results]
    /\ now \in 0 .. MaxInstant
    /\ timeout \in [Threads -> Nat]
    /\ deadline \in [Threads -> Nat]
    /\ timer \in [Threads -> Futures]
    /\ waker \in [Threads -> {0} \cup WaiterIds]
    /\ chosen \in SUBSET Threads
    /\ forfeited \in 0 .. MaxItems

Init ==
    /\ RegistryInit
    /\ owner = NoThread
    /\ poisoned = FALSE
    /\ items = 0
    /\ signalled = {}
    /\ wakes = [t \in Threads |-> {}]
    /\ pc = [t \in Threads |-> "idle"]
    /\ op = [t \in Threads |-> "none"]
    /\ reg = [t \in Threads |-> 0]
    /\ status = [t \in Threads |-> "woken"]
    /\ result = [t \in Threads |-> "none"]
    /\ now = 0
    /\ timeout = [t \in Threads |-> 0]
    /\ deadline = [t \in Threads |-> 0]
    /\ timer = [t \in Threads |-> "none"]
    /\ waker = [t \in Threads |-> 0]
    /\ chosen = {}
    /\ forfeited = 0

-----------------------------------------------------------------------------
(* What the steps below are made of.                                       *)

Go(t, step) == pc' = [pc EXCEPT ![t] = step]

Unlock == owner' = NoThread

Timed(t) == timer[t] # "none"

(* The protected value becomes n, lost of the items in it without a        *)
(* notification, and t is done with whatever selection it had.             *)
Settle(t, n, lost) ==
    /\ items' = n
    /\ chosen' = chosen \ {t}
    /\ forfeited' = IF forfeited + lost < n THEN forfeited + lost ELSE n

(* t gives up a selection, if it has one, that an item could have used.    *)
Forfeit(t, n) == Settle(t, n, IF t \in chosen THEN 1 ELSE 0)

(* The call returns r (or unwinds) and its timer future is dropped.        *)
Finish(t, r) ==
    /\ Go(t, "idle")
    /\ op' = [op EXCEPT ![t] = "none"]
    /\ status' = [status EXCEPT ![t] = "woken"]
    /\ result' = [result EXCEPT ![t] = r]
    /\ timeout' = [timeout EXCEPT ![t] = 0]
    /\ deadline' = [deadline EXCEPT ![t] = 0]
    /\ timer' = [timer EXCEPT ![t] = "none"]
    /\ waker' = [waker EXCEPT ![t] = 0]
    /\ UNCHANGED <<reg, now>>

(* The guard is dropped and the call returns r.                            *)
Return(t, r) ==
    /\ Unlock
    /\ Finish(t, r)
    /\ UNCHANGED <<poisoned, registryVars, signalled, wakes>>

(* timer.at / timer.after: a fresh future, never polled.                   *)
Arm(t) ==
    /\ timer' = [timer EXCEPT ![t] = "pending"]
    /\ UNCHANGED <<now, timeout, waker>>

(* One poll of t's future leaves w as its waker; the thread goes on at     *)
(* step when the future is pending, else at the step ready with the        *)
(* status that the completed future stands for.                            *)
Poll(t, w, step, ready) ==
    /\ waker' = [waker EXCEPT ![t] = w]
    /\ \/ /\ timer[t] = "pending"
          /\ Go(t, step)
          /\ status' = [status EXCEPT ![t] = "woken"]
       \/ /\ timer[t] = "fired"
          /\ Go(t, ready)
          /\ status' = [status EXCEPT ![t] = "timed_out"]
       \/ /\ timer[t] = "failed"
          /\ Go(t, ready)
          /\ status' = [status EXCEPT ![t] = "error"]
    /\ UNCHANGED <<owner, poisoned, items, registryVars, signalled, wakes, op,
                   reg, result, now, timeout, deadline, timer, historyVars>>

-----------------------------------------------------------------------------
(* Calls.                                                                  *)

Begin(t, c, step) ==
    /\ pc[t] = "idle"
    /\ c \in Calls[t]
    /\ Go(t, step)
    /\ op' = [op EXCEPT ![t] = c]
    /\ result' = [result EXCEPT ![t] = "none"]
    /\ UNCHANGED <<owner, poisoned, items, registryVars, signalled, wakes, reg,
                   status, now, timer, waker, historyVars>>

CallLocking(t) ==
    \E c \in {"lock", "wait_while"} \cup WriteCalls :
        Begin(t, c, "lock") /\ UNCHANGED <<timeout, deadline>>

CallNotify(t) ==
    \E c \in NotifyCalls :
        Begin(t, c, "notify") /\ UNCHANGED <<timeout, deadline>>

CallWaitFor(t) ==
    \E d \in Timeouts :
        /\ Begin(t, "wait_while_for", "lock")
        /\ timeout' = [timeout EXCEPT ![t] = d]
        /\ UNCHANGED deadline

CallWaitDeadline(t) ==
    \E d \in 0 .. MaxInstant :
        /\ Begin(t, "wait_while_with_deadline", "lock")
        /\ deadline' = [deadline EXCEPT ![t] = d]
        /\ UNCHANGED timeout

(* The deadline is fixed before the lock is contended for.                 *)
CallWaitTotal(t) ==
    \E d \in Timeouts :
        /\ now + d <= MaxInstant
        /\ Begin(t, "wait_while_with_total_timeout", "lock")
        /\ deadline' = [deadline EXCEPT ![t] = now + d]
        /\ UNCHANGED timeout

CallWaitTotalOverflow(t) ==
    /\ pc[t] = "idle"
    /\ "wait_while_with_total_timeout" \in Calls[t]
    /\ \E d \in Timeouts : now + d > MaxInstant
    /\ Finish(t, "error")
    /\ UNCHANGED <<owner, poisoned, items, registryVars, signalled, wakes,
                   historyVars>>

ClearPoison(t) ==
    /\ pc[t] = "idle"
    /\ "clear_poison" \in Calls[t]
    /\ poisoned' = FALSE
    /\ UNCHANGED <<owner, items, registryVars, signalled, wakes, threadVars,
                   timerVars, historyVars>>

(* Mutant of Acquire: recovering the lock clears the poison marker.        *)
AcquireClearsPoison(t) ==
    /\ pc[t] = "lock"
    /\ owner = NoThread
    /\ owner' = t
    /\ poisoned' = FALSE
    /\ Go(t, IF op[t] = "lock" THEN "guard" ELSE "held")
    /\ deadline' = IF op[t] = "wait_while_for"
                     THEN [deadline EXCEPT ![t] = now + timeout[t]]
                     ELSE deadline
    /\ UNCHANGED <<items, registryVars, signalled, wakes, op, reg, status,
                   result, now, timeout, timer, waker, historyVars>>

(* lock() recovers a poisoned mutex and leaves the marker alone.  The      *)
(* relative budget of wait_while_for starts once the lock is held.         *)
Acquire(t) ==
    /\ pc[t] = "lock"
    /\ owner = NoThread
    /\ owner' = t
    /\ Go(t, IF op[t] = "lock" THEN "guard" ELSE "held")
    /\ deadline' = IF op[t] = "wait_while_for"
                     THEN [deadline EXCEPT ![t] = now + timeout[t]]
                     ELSE deadline
    /\ UNCHANGED <<poisoned, items, registryVars, signalled, wakes, op, reg,
                   status, result, now, timeout, timer, waker, historyVars>>

-----------------------------------------------------------------------------
(* Steps taken with the guard, before any wait.                            *)

(* with_read and with_write: the closure sees the value, and may remove    *)
(* items, which asks for no notification.                                  *)
WithWrite(t) ==
    /\ pc[t] = "held"
    /\ \E n \in 0 .. items :
          /\ \/ op[t] = "with_write"
             \/ op[t] = "with_read" /\ n = items
          /\ Settle(t, n, 0)
    /\ Return(t, "done")

(* with_write_notify_*: the closure, the release of the guard, and only    *)
(* then the notification (at step "notify").                               *)
WithWriteNotify(t) ==
    /\ pc[t] = "held"
    /\ \E n \in 0 .. MaxItems :
          /\ \/ op[t] = "with_write_notify_one" /\ n \in {items, items + 1}
             \/ op[t] = "with_write_notify_all"
          /\ Settle(t, n, 0)
    /\ Unlock
    /\ Go(t, "notify")
    /\ UNCHANGED <<poisoned, registryVars, signalled, wakes, op, reg, status,
                   result, timerVars>>

(* Mutant of TakeReady: a woken thread assumes that the predicate holds.   *)
TakeReadyUnchecked(t) ==
    /\ op[t] \in WaitCalls
    /\ \/ pc[t] = "held" /\ items > 0
       \/ pc[t] = "check" /\ status[t] # "error"
    /\ Settle(t, IF items > 0 THEN items - 1 ELSE 0, 0)
    /\ Return(t, "ready")

(* The predicate no longer waits: the action takes an item.                *)
TakeReady(t) ==
    /\ op[t] \in WaitCalls
    /\ \/ pc[t] = "held"
       \/ pc[t] = "check" /\ status[t] # "error"
    /\ items > 0
    /\ Settle(t, items - 1, 0)
    /\ Return(t, "ready")

(* Mutant of EnterWait: the guard is released before the registration.     *)
EnterWaitUnlocked(t) ==
    /\ pc[t] = "held"
    /\ op[t] = "wait_while"
    /\ items = 0
    /\ Unlock
    /\ Go(t, "register")
    /\ UNCHANGED <<poisoned, items, registryVars, signalled, wakes, op, reg,
                   status, result, timerVars, historyVars>>

(* The predicate waits at the first check of a call without a timeout.     *)
EnterWait(t) ==
    /\ pc[t] = "held"
    /\ op[t] = "wait_while"
    /\ items = 0
    /\ Go(t, "register")
    /\ UNCHANGED <<owner, poisoned, items, registryVars, signalled, wakes, op,
                   reg, status, result, timerVars, historyVars>>

(* The predicate waits at the first check of a call with a timeout.        *)
EnterTimedWait(t) ==
    /\ pc[t] = "held"
    /\ op[t] \in TimedCalls
    /\ items = 0
    /\ op[t] = "wait_while_for" => timeout[t] > 0 /\ deadline[t] <= MaxInstant
    /\ Arm(t)
    /\ Go(t, IF op[t] = "wait_while_for" THEN "poll_noop" ELSE "poll_deadline")
    /\ UNCHANGED <<owner, poisoned, items, registryVars, signalled, wakes, op,
                   reg, status, result, deadline, historyVars>>

(* A zero timeout only checks the predicate once.                          *)
ZeroTimeout(t) ==
    /\ pc[t] = "held"
    /\ op[t] = "wait_while_for"
    /\ items = 0
    /\ timeout[t] = 0
    /\ Return(t, "timed_out")
    /\ UNCHANGED <<items, historyVars>>

(* checked_add overflows, or the timer refuses the deadline.               *)
ArmFails(t) ==
    /\ pc[t] = "held"
    /\ op[t] \in TimedCalls
    /\ items = 0
    /\ op[t] = "wait_while_for" => timeout[t] > 0
    /\ deadline[t] > MaxInstant \/ TimerFaults
    /\ Return(t, "error")
    /\ UNCHANGED <<items, historyVars>>

(* wait_while_with_deadline polls once before it starts to wait.           *)
PollDeadline(t) ==
    /\ pc[t] = "poll_deadline"
    /\ timer[t] = "pending"
    /\ Go(t, "poll_noop")
    /\ waker' = [waker EXCEPT ![t] = 0]
    /\ UNCHANGED <<owner, poisoned, items, registryVars, signalled, wakes, op,
                   reg, status, result, now, timeout, deadline, timer,
                   historyVars>>

DeadlineExpired(t) ==
    /\ pc[t] = "poll_deadline"
    /\ timer[t] # "pending"
    /\ Return(t, IF timer[t] = "fired" THEN "timed_out" ELSE "error")
    /\ UNCHANGED <<items, historyVars>>

-----------------------------------------------------------------------------
(* One low-level wait: wait_for_notification from step "register" on, and  *)
(* wait_with_timer from step "poll_noop" on.                               *)

PollNoop(t) ==
    /\ pc[t] = "poll_noop"
    /\ Poll(t, 0, "register", "check")

RegisterWaiter(t) ==
    /\ pc[t] = "register"
    /\ \E id \in 1 .. MaxWaiterId :
          /\ Register(id)
          /\ reg' = [reg EXCEPT ![t] = id]
    /\ Go(t, IF Timed(t) THEN "poll_waker" ELSE "release")
    /\ UNCHANGED <<owner, poisoned, items, signalled, wakes, op, status, result,
                   timerVars, historyVars>>

(* Mutant of PollWaker: the registered waiter is not given to the timer.   *)
PollWakerSkipped(t) ==
    /\ pc[t] = "poll_waker"
    /\ Poll(t, 0, "release", "release")

(* A future that completed since the first poll ends the wait before the   *)
(* guard is released.                                                      *)
PollWaker(t) ==
    /\ pc[t] = "poll_waker"
    /\ Poll(t, reg[t], "release", "unregister")

ReleaseGuard(t) ==
    /\ pc[t] = "release"
    /\ Unlock
    /\ Go(t, "wait")
    /\ UNCHANGED <<poisoned, items, registryVars, signalled, wakes, op, reg,
                   status, result, timerVars, historyVars>>

(* The latch absorbs spurious wakeups of its condition variable.           *)
LatchWait(t) ==
    /\ pc[t] = "wait"
    /\ reg[t] \in signalled
    /\ Go(t, "unregister")
    /\ UNCHANGED <<owner, poisoned, items, registryVars, signalled, wakes, op,
                   reg, status, result, timerVars, historyVars>>

(* Mutant of UnregisterWaiter: the registration is forgotten, not dropped. *)
ForgetRegistration(t) ==
    /\ pc[t] = "unregister"
    /\ reg' = [reg EXCEPT ![t] = 0]
    /\ chosen' = IF reg[t] \in waiters THEN chosen ELSE chosen \cup {t}
    /\ Go(t, IF owner = t THEN "check" ELSE "relock")
    /\ UNCHANGED <<owner, poisoned, items, registryVars, signalled, wakes, op,
                   status, result, timerVars, forfeited>>

(* Dropping the registration.  A notification that took the waiter before  *)
(* is not handed on to another one.                                        *)
UnregisterWaiter(t) ==
    /\ pc[t] = "unregister"
    /\ Unregister(reg[t])
    /\ reg' = [reg EXCEPT ![t] = 0]
    /\ chosen' = IF reg[t] \in waiters THEN chosen ELSE chosen \cup {t}
    /\ Go(t, IF owner = t THEN "check" ELSE "relock")
    /\ UNCHANGED <<owner, poisoned, items, signalled, wakes, op, status, result,
                   timerVars, forfeited>>

Reacquire(t) ==
    /\ pc[t] = "relock"
    /\ owner = NoThread
    /\ owner' = t
    /\ Go(t, IF Timed(t) THEN "poll_final" ELSE "check")
    /\ UNCHANGED <<poisoned, items, registryVars, signalled, wakes, op, reg,
                   status, result, timerVars, historyVars>>

(* The final poll leaves the dropped registration's waiter as the waker    *)
(* until the next wait polls again.                                        *)
PollFinal(t) ==
    /\ pc[t] = "poll_final"
    /\ Poll(t, waker[t], "check", "check")

-----------------------------------------------------------------------------
(* After a low-level wait of a wait_while* call (TakeReady is the other    *)
(* outcome).  A timer error returns before the predicate is looked at.     *)

WaitFails(t) ==
    /\ pc[t] = "check"
    /\ op[t] \in WaitCalls
    /\ status[t] = "error"
    /\ Forfeit(t, items)
    /\ Return(t, "error")

(* Mutant of WaitTimesOut: an expired wait skips the predicate.            *)
WaitTimesOutUnchecked(t) ==
    /\ pc[t] = "check"
    /\ op[t] \in WaitCalls
    /\ status[t] = "timed_out"
    /\ Settle(t, items, 0)
    /\ Return(t, "timed_out")

WaitTimesOut(t) ==
    /\ pc[t] = "check"
    /\ op[t] \in WaitCalls
    /\ status[t] = "timed_out"
    /\ items = 0
    /\ Settle(t, items, 0)
    /\ Return(t, "timed_out")

(* Mutant of WaitAgain: every wakeup restarts the relative timeout.        *)
WaitAgainRestarts(t) ==
    /\ pc[t] = "check"
    /\ op[t] \in WaitCalls
    /\ status[t] = "woken"
    /\ items = 0
    /\ Settle(t, items, 0)
    /\ Go(t, IF Timed(t) THEN "poll_noop" ELSE "register")
    /\ deadline' = [deadline EXCEPT ![t] = now + timeout[t]]
    /\ UNCHANGED <<owner, poisoned, registryVars, signalled, wakes, op, reg,
                   status, result, now, timeout, timer, waker>>

WaitAgain(t) ==
    /\ pc[t] = "check"
    /\ op[t] \in WaitCalls
    /\ status[t] = "woken"
    /\ items = 0
    /\ Settle(t, items, 0)
    /\ Go(t, IF Timed(t) THEN "poll_noop" ELSE "register")
    /\ UNCHANGED <<owner, poisoned, registryVars, signalled, wakes, op, reg,
                   status, result, timerVars>>

-----------------------------------------------------------------------------
(* A client that holds a monitor guard, and waits in a predicate loop.     *)

(* The wait returned to the client, which holds the guard in every case.   *)
GuardWaitReturns(t) ==
    /\ pc[t] = "check"
    /\ op[t] = "lock"
    /\ Go(t, "guard")
    /\ result' = [result EXCEPT ![t] = status[t]]
    /\ status' = [status EXCEPT ![t] = "woken"]
    /\ timer' = [timer EXCEPT ![t] = "none"]
    /\ waker' = [waker EXCEPT ![t] = 0]
    /\ deadline' = [deadline EXCEPT ![t] = 0]
    /\ UNCHANGED <<owner, poisoned, items, registryVars, signalled, wakes, op,
                   reg, now, timeout, historyVars>>

GuardWait(t) ==
    /\ pc[t] = "guard"
    /\ items = 0
    /\ Settle(t, items, 0)
    /\ Go(t, "register")
    /\ result' = [result EXCEPT ![t] = "none"]
    /\ UNCHANGED <<owner, poisoned, registryVars, signalled, wakes, op, reg,
                   status, timerVars>>

(* wait_for and wait_until: the future is made with the guard held.        *)
GuardTimedWait(t) ==
    /\ pc[t] = "guard"
    /\ items = 0
    /\ \E d \in {now + after : after \in Timeouts} \cup 0 .. MaxInstant :
          /\ d <= MaxInstant
          /\ deadline' = [deadline EXCEPT ![t] = d]
    /\ Arm(t)
    /\ Settle(t, items, 0)
    /\ Go(t, "poll_noop")
    /\ result' = [result EXCEPT ![t] = "none"]
    /\ UNCHANGED <<owner, poisoned, registryVars, signalled, wakes, op, reg,
                   status>>

GuardArmFails(t) ==
    /\ pc[t] = "guard"
    /\ items = 0
    /\ TimerFaults \/ \E d \in Timeouts : now + d > MaxInstant
    /\ Settle(t, items, 0)
    /\ result' = [result EXCEPT ![t] = "error"]
    /\ UNCHANGED <<owner, poisoned, registryVars, signalled, wakes, pc, op, reg,
                   status, timerVars>>

(* The client removes items, or none, and drops the guard.                 *)
GuardDrop(t) ==
    /\ pc[t] = "guard"
    /\ \/ \E n \in 0 .. items : n < items /\ Settle(t, n, 0)
       \/ Forfeit(t, items)
    /\ Return(t, "done")

(* guard.notify_*: as with_write_notify_*.                                 *)
GuardNotify(t) ==
    /\ pc[t] = "guard"
    /\ \E c \in NotifyCalls, n \in 0 .. MaxItems :
          /\ c = "notify_one" => n \in {items, items + 1}
          /\ Forfeit(t, n)
          /\ op' = [op EXCEPT ![t] = c]
    /\ Unlock
    /\ Go(t, "notify")
    /\ result' = [result EXCEPT ![t] = "none"]
    /\ UNCHANGED <<poisoned, registryVars, signalled, wakes, reg, status,
                   timerVars>>

-----------------------------------------------------------------------------
(* Unwinding drops the guard and sends no notification, whatever the       *)
(* closure had done to the items by then.                                  *)

(* Mutant of Unwind: the guard leaks.                                      *)
UnwindKeepsGuard(t, n) ==
    /\ Settle(t, n, 0)
    /\ poisoned' = (poisoned \/ Poisoning)
    /\ Finish(t, "panicked")
    /\ UNCHANGED <<owner, registryVars, signalled, wakes>>

Unwind(t, n) ==
    /\ Settle(t, n, IF n < items THEN 0
                    ELSE n - items + (IF t \in chosen THEN 1 ELSE 0))
    /\ Unlock
    /\ poisoned' = (poisoned \/ Poisoning)
    /\ Finish(t, "panicked")
    /\ UNCHANGED <<registryVars, signalled, wakes>>

(* What a panicking closure may leave behind: a predicate or a read has    *)
(* changed nothing, an action may have taken its item, a write removed     *)
(* some, and one that was to notify added some.                            *)
LeftByPanic(t) ==
    {n \in 0 .. MaxItems :
        /\ n < items =>
              op[t] \in WaitCalls \cup (WriteCalls \ {"with_read"}) \cup {"lock"}
        /\ n + 1 < items => op[t] \notin WaitCalls
        /\ n > items => op[t] \in NotifyingWrites \cup {"lock"}}

ClosurePanics(t) ==
    /\ Panics
    /\ \/ pc[t] \in {"held", "guard"}
       \/ pc[t] = "check" /\ op[t] \in WaitCalls /\ status[t] # "error"
    /\ \E n \in LeftByPanic(t) : Unwind(t, n)

RegisterPanics(t) ==
    /\ pc[t] = "register"
    /\ Exhausted
    /\ Unwind(t, items)

-----------------------------------------------------------------------------
(* Notification: take the waiters under the registry's lock, then wake     *)
(* them one by one, oldest first, without any lock.                        *)

Notified(t) == IF op[t] \in {"notify_all", "with_write_notify_all"}
               THEN "all" ELSE "one"

(* Mutant of Select: notify_all wakes the first of the waiters it took.    *)
SelectWakesFirst(t) ==
    /\ pc[t] = "notify"
    /\ \E taken \in SUBSET waiters :
          /\ IF Notified(t) = "all" THEN TakeAll(taken) ELSE TakeOne(taken)
          /\ wakes' = [wakes EXCEPT ![t] = Oldest(taken)]
    /\ Go(t, "signal")
    /\ UNCHANGED <<owner, poisoned, items, signalled, op, reg, status, result,
                   timerVars, historyVars>>

Select(t) ==
    /\ pc[t] = "notify"
    /\ \E taken \in SUBSET waiters :
          /\ IF Notified(t) = "all" THEN TakeAll(taken) ELSE TakeOne(taken)
          /\ wakes' = [wakes EXCEPT ![t] = taken]
    /\ Go(t, "signal")
    /\ UNCHANGED <<owner, poisoned, items, signalled, op, reg, status, result,
                   timerVars, historyVars>>

Signal(t) ==
    /\ pc[t] = "signal"
    /\ \E id \in Oldest(wakes[t]) :
          /\ signalled' = signalled \cup {id}
          /\ wakes' = [wakes EXCEPT ![t] = @ \ {id}]
    /\ UNCHANGED <<owner, poisoned, items, registryVars, threadVars, timerVars,
                   historyVars>>

NotifyReturns(t) ==
    /\ pc[t] = "signal"
    /\ wakes[t] = {}
    /\ Finish(t, "done")
    /\ UNCHANGED <<owner, poisoned, items, registryVars, signalled, wakes,
                   historyVars>>

-----------------------------------------------------------------------------
(* The clock and the timer (external).                                     *)

Tick ==
    /\ now < MaxInstant
    /\ now' = now + 1
    /\ UNCHANGED <<owner, poisoned, items, registryVars, signalled, wakes,
                   threadVars, timeout, deadline, timer, waker, historyVars>>

Complete(t, outcome) ==
    /\ timer[t] = "pending"
    /\ timer' = [timer EXCEPT ![t] = outcome]
    /\ signalled' = signalled \cup ({waker[t]} \ {0})
    /\ UNCHANGED <<owner, poisoned, items, registryVars, wakes, threadVars, now,
                   timeout, deadline, waker, historyVars>>

TimerFires(t) == now >= deadline[t] /\ Complete(t, "fired")

TimerFails(t) == TimerFaults /\ Complete(t, "failed")

-----------------------------------------------------------------------------

StartCall(t) ==
    \/ CallLocking(t) \/ CallNotify(t)
    \/ CallWaitFor(t) \/ CallWaitDeadline(t)
    \/ CallWaitTotal(t) \/ CallWaitTotalOverflow(t)
    \/ ClearPoison(t)

(* The steps that need the mutex to be free.                               *)
LockStep(t) == Acquire(t) \/ Reacquire(t)

WaitStep(t) ==
    \/ PollNoop(t) \/ RegisterWaiter(t) \/ PollWaker(t) \/ ReleaseGuard(t)
    \/ LatchWait(t) \/ UnregisterWaiter(t) \/ PollFinal(t)

HeldStep(t) ==
    \/ WithWrite(t) \/ WithWriteNotify(t)
    \/ TakeReady(t) \/ EnterWait(t) \/ EnterTimedWait(t)
    \/ ZeroTimeout(t) \/ ArmFails(t) \/ PollDeadline(t) \/ DeadlineExpired(t)
    \/ WaitFails(t) \/ WaitTimesOut(t) \/ WaitAgain(t)
    \/ ClosurePanics(t) \/ RegisterPanics(t)

GuardStep(t) ==
    \/ GuardWaitReturns(t) \/ GuardWait(t) \/ GuardTimedWait(t)
    \/ GuardArmFails(t) \/ GuardDrop(t) \/ GuardNotify(t)

NotifyStep(t) == Select(t) \/ Signal(t) \/ NotifyReturns(t)

TimerStep(t) == TimerFires(t) \/ TimerFails(t)

Next ==
    \/ Tick
    \/ \E t \in Threads :
          \/ StartCall(t) \/ LockStep(t) \/ WaitStep(t) \/ HeldStep(t)
          \/ GuardStep(t) \/ NotifyStep(t) \/ TimerStep(t)

Spec == Init /\ [][Next]_vars

-----------------------------------------------------------------------------
(* Safety.                                                                 *)

(* A thread's guard slot is occupied exactly while it owns the mutex, so   *)
(* two closures never run at once, no step finds the slot empty (the       *)
(* `expect` in release_guard and in Deref never fires), and a thread never *)
(* stays the owner once it has returned, parked or unwound.                *)
GuardSlot ==
    \A t \in Threads :
        /\ pc[t] \in HoldingSteps => owner = t
        /\ owner = t => pc[t] \in HoldingSteps
                          \/ (pc[t] = "unregister" /\ status[t] # "woken")

(* Every registered waiter belongs to one thread that is about to park, is *)
(* parked or is about to drop its registration: a waiter that contends for *)
(* the lock again, has returned or has unwound is never eligible, so no    *)
(* notification is spent on it.                                            *)
EligibleWaiters ==
    \A id \in waiters :
        \E t \in Threads :
            /\ reg[t] = id
            /\ pc[t] \in {"poll_waker", "release", "wait", "unregister"}
            /\ \A u \in Threads : reg[u] = id => u = t

(* A waiter that a notification took from the registry has its latch set,  *)
(* or the notifier still has it on its list: between take and wake nothing *)
(* is dropped, however notifiers, timers and waiters interleave.           *)
SelectionReachesWaiter ==
    \A t \in Threads :
        reg[t] # 0 /\ reg[t] \notin waiters =>
            reg[t] \in signalled \/ \E u \in Threads : reg[t] \in wakes[u]

(* A thread that gives up the lock to wait with a timer is woken by it: a  *)
(* pending future holds the waker of the current registration, and a       *)
(* future that completed meanwhile has set the latch.                      *)
TimerReachesWaiter ==
    \A t \in Threads :
        pc[t] \in {"release", "wait"} /\ Timed(t) =>
            IF timer[t] = "pending" THEN waker[t] = reg[t]
                                    ELSE reg[t] \in signalled

(* The threads that will look at the items without further notification:   *)
(* notifiers about to select, threads that were selected and have yet to   *)
(* drop their registration, and those that have dropped it since.          *)
NotifiersAt(kind) == {t \in Threads : pc[t] = "notify" /\ Notified(t) = kind}
InFlight  == {t \in Threads : reg[t] # 0 /\ reg[t] \notin waiters}
OnTheWay  == NotifiersAt("one") \cup InFlight \cup chosen

(* No lost wakeup: while some waiter is still registered, every available  *)
(* item has its own notification on the way to a thread that will look at  *)
(* it, except the items whose wakeup an error, a panic or the client gave  *)
(* up.                                                                     *)
NoLostWakeup ==
    waiters # {} /\ NotifiersAt("all") = {} =>
        items <= Cardinality(OnTheWay) + forfeited

(* Between the predicate check that decides to wait and the release of the *)
(* guard, the protected value stays as the predicate saw it.               *)
CommittedSteps == {"poll_deadline", "poll_noop", "register", "poll_waker",
                   "release"}
StillBlocked ==
    \A t \in Threads :
        pc[t] \in CommittedSteps \/ (pc[t] = "unregister" /\ owner = t) => items = 0

(* The bookkeeping the invariants above rest on.                           *)
RegisteredSteps == {"poll_waker", "release", "wait", "unregister"}
Bookkeeping ==
    /\ \A t \in Threads : reg[t] # 0 <=> pc[t] \in RegisteredSteps
    /\ \A t \in Threads : reg[t] < next_waiter_id
    /\ \A t, u \in Threads : reg[t] # 0 /\ reg[t] = reg[u] => t = u
    /\ \A id \in waiters : id < next_waiter_id /\ \E t \in Threads : reg[t] = id
    /\ \A t \in Threads : pc[t] # "signal" => wakes[t] = {}
    /\ \A t \in chosen : pc[t] \in {"relock", "poll_final", "check", "guard"}
    /\ forfeited <= items

(* What the local variables of a call say at each of its steps, and that a *)
(* timer or a status that reports the deadline does not report it early.   *)
StartSteps  == {"idle", "lock", "held", "guard"}
NotifySteps == {"notify", "signal"}
CallStateOf(t) ==
    /\ op[t] = "none" <=> pc[t] = "idle"
    /\ pc[t] = "lock" => op[t] \notin NotifyCalls
    /\ pc[t] = "held" => op[t] \notin NotifyCalls \cup {"lock"}
    /\ pc[t] = "guard" => op[t] = "lock"
    /\ pc[t] \in NotifySteps => op[t] \in NotifyCalls \cup NotifyingWrites
    /\ pc[t] \notin StartSteps \cup NotifySteps =>
          op[t] \in WaitCalls \cup {"lock"}
    /\ pc[t] \in StartSteps => timer[t] = "none" /\ status[t] = "woken"
    /\ pc[t] = "poll_deadline" => timer[t] # "none" /\ op[t] # "lock"
    /\ timer[t] # "none" \/ status[t] # "woken" =>
          op[t] \in TimedCalls \cup {"lock"}
    /\ timer[t] = "fired" \/ status[t] = "timed_out" => deadline[t] <= now
    /\ pc[t] = "held" /\ op[t] = "wait_while_for" =>
          deadline[t] <= now + timeout[t]
    /\ op[t] \in {"none", "lock"} => deadline[t] <= MaxInstant
    /\ op[t] \notin {"none", "lock"} => result[t] = "none"

CallState == \A t \in Threads : CallStateOf(t)

(* The inductive invariant.                                                *)
IInv == /\ TypeOK
        /\ GuardSlot
        /\ Bookkeeping
        /\ SelectionReachesWaiter
        /\ TimerReachesWaiter
        /\ StillBlocked
        /\ CallState
        /\ NoLostWakeup

(* How far a call has come: made, or past its first lock.                  *)
Phase == [t \in Threads |-> IF op[t] = "none" THEN "none"
    ELSE IF pc[t] = "lock" THEN "called" ELSE "running"]

(* Every call keeps the promises of MonitorContract: Ready only with an    *)
(* item to take, TimedOut only with none and not before the one deadline   *)
(* of the call, no effect on errors, poison set by panics alone and        *)
(* cleared by clear_poison alone.                                          *)
Contract == INSTANCE MonitorContract WITH
    phase <- Phase,
    BudgetCalls <- {"wait_while_for"},
    ReadCalls <- {"with_read"},
    RemovingCalls <- {"with_write"},
    AddingCalls <- NotifyingWrites \cup {"lock"},
    CancellableCalls <- {}

KeepsContract == Contract!Spec

-----------------------------------------------------------------------------
(* Fairness and liveness.                                                  *)

(* Threads run, closures and clients let go of the guard, the clock and    *)
(* the timer advance.  The mutex grants a contender that keeps asking.     *)
(* Nobody has to make a call, and nothing has to fail.                     *)
Fairness ==
    /\ WF_vars(Tick)
    /\ \A t \in Threads :
          /\ WF_vars(WaitStep(t))
          /\ WF_vars(HeldStep(t))
          /\ WF_vars(GuardWaitReturns(t) \/ GuardDrop(t) \/ GuardNotify(t))
          /\ WF_vars(NotifyStep(t))
          /\ WF_vars(TimerFires(t))
          /\ SF_vars(LockStep(t))

FairSpec == Spec /\ Fairness

(* A wait with a timeout or a deadline returns, whoever notifies or not.   *)
TimedWaitReturns ==
    \A t \in Threads : op[t] \in TimedCalls ~> op[t] = "none"

(* An available item does not sit beside a parked waiter for ever: it is   *)
(* taken, or nobody is registered, unless its wakeup was given up.         *)
ItemsAreTaken ==
    items > 0 ~> (items = 0 \/ waiters = {} \/ forfeited > 0)

=============================================================================
