----------------------------- MODULE FifoWaiters -----------------------------
(***************************************************************************)
(* What a monitor expects of its waiter registry: a queue of registrations *)
(* that serves the longest-waiting one first, serves all of them in order, *)
(* lets any of them withdraw, and never issues an identifier twice.        *)
(***************************************************************************)
EXTENDS SequencesExt

VARIABLES queue,    \* the registrations, the longest-waiting first
          issued,   \* the identifiers handed out so far
          served    \* the registrations served so far, in order

Init == queue = <<>> /\ issued = {} /\ served = <<>>

Enqueue ==
    \E id \in issued' :
        /\ id \notin issued
        /\ issued' = issued \cup {id}
        /\ queue' = Append(queue, id)
        /\ UNCHANGED served

Serve ==
    /\ queue # <<>>
    /\ queue' = Tail(queue)
    /\ served' = Append(served, Head(queue))
    /\ UNCHANGED issued

ServeAll ==
    /\ queue' = <<>>
    /\ served' = served \o queue
    /\ UNCHANGED issued

Cancel ==
    \E i \in DOMAIN queue :
        /\ queue' = RemoveAt(queue, i)
        /\ UNCHANGED <<issued, served>>

Next == Enqueue \/ Serve \/ ServeAll \/ Cancel

Spec == Init /\ [][Next]_<<queue, issued, served>>

=============================================================================
