---------------------------- MODULE MCMonitorApi ----------------------------
(***************************************************************************)
(* Instances of MonitorApi for TLC: a waiting caller with every form beside *)
(* a writer, and two waiting callers with few forms.                       *)
(***************************************************************************)
EXTENDS MonitorApi, TLC

CONSTANTS first, second, writer, nobody

OneWaiter  == {first, writer}
TwoWaiters == {first, second, writer}

(* Safety: every form against every kind of write.                         *)
AllForms == (first :> WaitForms @@ writer :> WriteForms)

(* Liveness: two conditions on one monitor, and writes that tell all.      *)
LiveForms ==
    (first :> {"wait_until"}
       @@ second :> {"wait_until_ready_for", "wait_while_with_total_timeout"}
       @@ writer :> {"with_write_notify_all"})

MCValues     == {0, 1}
MCPredicates == {{0}, {1}}
Take         == [v \in MCValues |-> 0]
Put          == [v \in MCValues |-> 1]

TakeActions  == {Take}
BothWrites   == {Take, Put}
UnitActions  == {[v \in MCValues |-> v]}

=============================================================================
