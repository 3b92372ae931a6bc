---------------------------- MODULE ClosableQueue ----------------------------
(***************************************************************************)
(* What the callers of the bounded queue may count on: a FIFO queue of     *)
(* bounded length that can be closed.  Each call takes effect at most once *)
(* and in one step, at a moment between its beginning and its return.      *)
(***************************************************************************)
EXTENDS Integers, Sequences

CONSTANTS Threads, Items, NoItem, Capacity

VARIABLES items, closed,
          op,       \* the call a thread is in, "none" outside
          item,     \* the item a push brings or a pop has received
          outcome   \* "none" until the call has taken effect

vars == <<items, closed, op, item, outcome>>

Init ==
    /\ items = <<>>
    /\ closed = FALSE
    /\ op = [t \in Threads |-> "none"]
    /\ item = [t \in Threads |-> NoItem]
    /\ outcome = [t \in Threads |-> "none"]

Invoke(t) ==
    /\ op[t] = "none"
    /\ \/ \E x \in Items :
             /\ op' = [op EXCEPT ![t] = "push"]
             /\ item' = [item EXCEPT ![t] = x]
       \/ \E o \in {"pop", "pop_for", "close"} :
             /\ op' = [op EXCEPT ![t] = o]
             /\ item' = [item EXCEPT ![t] = NoItem]
    /\ outcome' = [outcome EXCEPT ![t] = "none"]
    /\ UNCHANGED <<items, closed>>

(* The call of t is of kind o, and this step is its effect.                *)
Effect(t, o, r) ==
    /\ op[t] = o
    /\ outcome[t] = "none"
    /\ outcome' = [outcome EXCEPT ![t] = r]

Push(t) ==
    /\ ~ closed
    /\ Len(items) < Capacity
    /\ Effect(t, "push", "pushed")
    /\ items' = Append(items, item[t])
    /\ UNCHANGED <<closed, item>>

Pop(t) ==
    /\ items # <<>>
    /\ \E o \in {"pop", "pop_for"} : Effect(t, o, "popped")
    /\ item' = [item EXCEPT ![t] = Head(items)]
    /\ items' = Tail(items)
    /\ UNCHANGED closed

Close(t) ==
    /\ Effect(t, "close", "closed")
    /\ closed' = TRUE
    /\ UNCHANGED <<items, item>>

(* A push is refused by a closed queue alone; a pop finds the end of a     *)
(* queue that is closed and empty; a wait times out beside one that is     *)
(* open and empty; a timer error says nothing about the queue.             *)
Report(t) ==
    /\ op' = [op EXCEPT ![t] = "none"]
    /\ \/ closed /\ Effect(t, "push", "rejected")
       \/ closed /\ items = <<>> /\ Effect(t, "pop", "drained")
       \/ closed /\ items = <<>> /\ Effect(t, "pop_for", "drained")
       \/ ~ closed /\ items = <<>> /\ Effect(t, "pop_for", "timed_out")
       \/ Effect(t, "pop_for", "error")
    /\ UNCHANGED <<items, closed, item>>

(* A call returns after its effect, and with it.                           *)
Return(t) ==
    /\ outcome[t] # "none"
    /\ op' = [op EXCEPT ![t] = "none"]
    /\ UNCHANGED <<items, closed, item, outcome>>

Next ==
    \E t \in Threads :
        \/ Invoke(t) \/ Push(t) \/ Pop(t) \/ Close(t)
        \/ Report(t) \/ Return(t)

Spec == Init /\ [][Next]_vars

=============================================================================
