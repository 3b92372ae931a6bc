--------------------------- MODULE MonitorContract ---------------------------
(***************************************************************************)
(* What a monitor call promises its caller, with no lock, registry, latch  *)
(* or timer in sight: each call takes effect in one step that reads and    *)
(* changes the protected items, and its result tells the truth about that  *)
(* step.  It is stated from the documented results of wait_while* and      *)
(* with_write* (WaitTimeoutResult, WaitTimeoutStatus, is_poisoned).        *)
(***************************************************************************)
EXTENDS Integers

CONSTANTS Threads, MaxInstant, MaxItems, Poisoning,
          WaitCalls,        \* the calls with a predicate and an action
          TimedCalls,       \* those of them with a timeout or deadline
          BudgetCalls,      \* those whose budget starts once they are running
          ReadCalls,        \* calls that leave the items alone
          RemovingCalls,    \* calls that may remove items
          AddingCalls,      \* calls that may add items
          CancellableCalls  \* calls that may be dropped while pending

VARIABLES items, poisoned, now,
          op,         \* the call a thread is in, "none" outside
          phase,      \* "none", "called" or, once it holds the lock, "running"
          timeout, deadline, result

vars == <<items, poisoned, now, op, phase, timeout, deadline, result>>

Init ==
    /\ items = 0
    /\ poisoned = FALSE
    /\ now = 0
    /\ op = [t \in Threads |-> "none"]
    /\ phase = [t \in Threads |-> "none"]
    /\ timeout = [t \in Threads |-> 0]
    /\ deadline = [t \in Threads |-> 0]
    /\ result = [t \in Threads |-> "none"]

(* The call ends with result r.                                            *)
End(t, r) ==
    /\ op' = [op EXCEPT ![t] = "none"]
    /\ phase' = [phase EXCEPT ![t] = "none"]
    /\ timeout' = [timeout EXCEPT ![t] = 0]
    /\ deadline' = [deadline EXCEPT ![t] = 0]
    /\ result' = [result EXCEPT ![t] = r]
    /\ UNCHANGED now

(* A call names its timeout or its deadline when it is made.               *)
Invoke(t) ==
    /\ op[t] = "none"
    /\ op'[t] # "none"
    /\ op' = [op EXCEPT ![t] = op'[t]]
    /\ phase' = [phase EXCEPT ![t] = phase'[t]]
    /\ phase'[t] \in {"called", "running"}
    /\ timeout' = [timeout EXCEPT ![t] = timeout'[t]]
    /\ deadline' = [deadline EXCEPT ![t] = deadline'[t]]
    /\ result' = [result EXCEPT ![t] = "none"]
    /\ UNCHANGED <<items, poisoned, now>>

(* A deadline out of range is refused before anything else.                *)
Reject(t) ==
    /\ op[t] = "none"
    /\ End(t, "error")
    /\ UNCHANGED <<items, poisoned>>

(* The one step at which a relative budget becomes a deadline.             *)
Enter(t) ==
    /\ phase[t] = "called"
    /\ phase' = [phase EXCEPT ![t] = "running"]
    /\ deadline' = IF op[t] \in BudgetCalls
                     THEN [deadline EXCEPT ![t] = now + timeout[t]]
                     ELSE deadline
    /\ UNCHANGED <<items, poisoned, now, op, timeout, result>>

Ready(t) ==
    /\ phase[t] = "running" /\ op[t] \in WaitCalls
    /\ items > 0
    /\ items' = items - 1
    /\ End(t, "ready")
    /\ UNCHANGED poisoned

TimedOut(t) ==
    /\ phase[t] = "running" /\ op[t] \in TimedCalls
    /\ items = 0
    /\ now >= deadline[t]
    /\ End(t, "timed_out")
    /\ UNCHANGED <<items, poisoned>>

Fails(t) ==
    /\ phase[t] = "running" /\ op[t] \in TimedCalls
    /\ End(t, "error")
    /\ UNCHANGED <<items, poisoned>>

(* A call that reads, removes or adds items; one that adds items goes on   *)
(* to notify.                                                              *)
Write(t) ==
    /\ phase[t] = "running"
    /\ \/ op[t] \in ReadCalls     /\ items' = items
       \/ op[t] \in RemovingCalls /\ items' \in 0 .. items
       \/ op[t] \in AddingCalls   /\ items' \in 0 .. MaxItems
    /\ UNCHANGED poisoned
    /\ \/ End(t, "done")
       \/ /\ op[t] \in AddingCalls
          /\ op' = [op EXCEPT ![t] = op'[t]]
          /\ op'[t] \in {op[t], "notify_one", "notify_all"}
          /\ result' = [result EXCEPT ![t] = "none"]
          /\ UNCHANGED <<now, phase, timeout, deadline>>

(* A notify call, or the notifying half of a write, is over.               *)
Notified(t) ==
    /\ phase[t] = "running" /\ op[t] \notin WaitCalls \cup ReadCalls
    /\ End(t, "done")
    /\ UNCHANGED <<items, poisoned>>

(* A closure panics. What it did to the items stays: the action of a       *)
(* waiting call may have taken its item, a write what it may change.       *)
Panic(t) ==
    /\ phase[t] = "running"
    /\ poisoned' = (poisoned \/ Poisoning)
    /\ \/ items' = items
       \/ op[t] \in WaitCalls     /\ items > 0 /\ items' = items - 1
       \/ op[t] \in RemovingCalls /\ items' \in 0 .. items
       \/ op[t] \in AddingCalls   /\ items' \in 0 .. MaxItems
    /\ End(t, "panicked")

(* A low-level wait inside a guard: its deadline is its own, a timeout is  *)
(* reported at or after it.                                                *)
GuardWait(t) ==
    /\ phase[t] = "running" /\ op[t] = "lock"
    /\ \/ result'[t] \in {"none", "woken", "error"}
       \/ result'[t] = "timed_out" /\ now >= deadline[t]
    /\ result' = [result EXCEPT ![t] = result'[t]]
    /\ deadline' = [deadline EXCEPT ![t] = deadline'[t]]
    /\ deadline'[t] <= MaxInstant
    /\ UNCHANGED <<items, poisoned, now, op, phase, timeout>>

(* A call is cancelled before it takes effect, or not at all.              *)
Cancelled(t) ==
    /\ op[t] \in CancellableCalls
    /\ phase[t] = "called" \/ (phase[t] = "running" /\ op[t] \in WaitCalls)
    /\ End(t, "cancelled")
    /\ UNCHANGED <<items, poisoned>>

ClearPoison ==
    /\ poisoned' = FALSE
    /\ UNCHANGED <<items, now, op, phase, timeout, deadline, result>>

Tick ==
    /\ now' = now + 1
    /\ UNCHANGED <<items, poisoned, op, phase, timeout, deadline, result>>

Next ==
    \/ Tick \/ ClearPoison
    \/ \E t \in Threads :
          \/ Invoke(t) \/ Reject(t) \/ Enter(t)
          \/ Ready(t) \/ TimedOut(t) \/ Fails(t)
          \/ Write(t) \/ Notified(t) \/ Panic(t) \/ GuardWait(t) \/ Cancelled(t)

Spec == Init /\ [][Next]_vars

=============================================================================
