------------------------- MODULE MCBlockingMonitor -------------------------
(* Constants of the model-checking runs of BlockingMonitor.                *)
EXTENDS BlockingMonitor, TLC

CONSTANTS t1, t2, t3

(* Two waiters without timeouts, one of them through a guard, against a    *)
(* producer.                                                               *)
UntimedMix ==
    (t1 :> {"wait_while"}) @@ (t2 :> {"wait_while", "lock"})
      @@ (t3 :> {"with_write_notify_one", "with_write_notify_all",
                 "notify_one", "with_read", "with_write"})

(* Two waiters with a relative timeout and with a total timeout or a       *)
(* deadline, against a producer.                                           *)
TimedMix ==
    (t1 :> {"wait_while_for"})
      @@ (t2 :> {"wait_while_with_total_timeout", "wait_while_with_deadline"})
      @@ (t3 :> {"with_write_notify_one", "notify_all"})

(* A guard client and a waiter that fail in every way, and a producer that *)
(* repairs the poison marker.                                              *)
FaultMix ==
    (t1 :> {"wait_while_with_deadline"}) @@ (t2 :> {"lock"})
      @@ (t3 :> {"with_write_notify_one", "clear_poison"})

(* A timed and an untimed waiter against a producer, for liveness.         *)
LiveMix ==
    (t1 :> {"wait_while_for"}) @@ (t2 :> {"wait_while"})
      @@ (t3 :> {"with_write_notify_one", "with_read"})

=============================================================================
