--------------------------- MODULE MCTokioMonitor ---------------------------
(* Constants of the model-checking runs of TokioMonitor.                   *)
EXTENDS TokioMonitor, TLC

CONSTANTS t1, t2, t3

(* A timed and an untimed waiter, either of which may be dropped, against  *)
(* a producer that uses every write and notify call.                       *)
CancelMix ==
    (t1 :> {"wait_while_async"})
      @@ (t2 :> {"wait_while_async", "wait_while_for_async"})
      @@ (t3 :> {"with_write_notify_one_async", "with_write_notify_all_async",
                 "notify_one", "notify_all", "with_read_async",
                 "with_write_async"})

(* Waiters with a deadline and with a relative timeout whose timers fail   *)
(* and whose closures panic.                                               *)
FaultMix ==
    (t1 :> {"wait_while_with_deadline_async"})
      @@ (t2 :> {"wait_while_for_async", "wait_while_async"})
      @@ (t3 :> {"with_write_notify_one_async"})

(* A timed and an untimed waiter against a producer, for liveness.         *)
LiveMix ==
    (t1 :> {"wait_while_for_async"}) @@ (t2 :> {"wait_while_async"})
      @@ (t3 :> {"with_write_notify_one_async", "with_read_async"})

=============================================================================
