---------------------------- MODULE MCScheduler ----------------------------
(* Small instances of Scheduler: a tick is two units, a week four minutes. *)
EXTENDS Scheduler

CONSTANT LastInstant

Local(t, elapsed) ==
    [week |-> elapsed \div 8, minute |-> (elapsed \div 2) % 4,
     month |-> elapsed \div 16, opening |-> (elapsed \div 2) % 8 = 0,
     day |-> t \div 4]

\* In week 1 the clock goes through minute 1 twice.
FallBack == [t \in 0 .. LastInstant |-> Local(t, IF t < 12 THEN t ELSE t - 2)]
=============================================================================
