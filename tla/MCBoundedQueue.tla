--------------------------- MODULE MCBoundedQueue ---------------------------
(***************************************************************************)
(* A producer, three consumers and a thread that closes the queue.         *)
(***************************************************************************)
EXTENDS BoundedQueue, TLC

CONSTANTS p, c1, c2, c3, closer

MCThreads == {p, c1, c2, c3, closer}

(* With two places it takes two consumers to empty a full queue and a      *)
(* third to fall asleep before they have told the producer.                *)
MCCalls ==
    (p :> {"push"} @@ c1 :> {"pop"} @@ c2 :> {"pop"} @@ c3 :> {"pop_for"}
       @@ closer :> {"close"})

=============================================================================
