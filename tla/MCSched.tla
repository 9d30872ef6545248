------------------------------ MODULE MCSched -------------------------------
(* Task configurations of every kind, with periods of 2, 1 and 0 ticks.    *)
EXTENDS Sched

Task(id, priority, freq, max, delay, cb) ==
  [id |-> id, priority |-> priority, freq |-> freq, max |-> max, delay |-> delay, cb |-> cb]

AllCfgs == {Task(0, 1, 1, 0, 1, TRUE), Task(1, 0, 2, 2, 0, TRUE), Task(0, 0, 4, 0, 0, TRUE),
            Task(3, 1, 1, 0, 0, TRUE), Task(2, 1, 1, 0, 0, FALSE)}
Disciplined == {[type |-> "cfs", threads |-> FALSE], [type |-> "fcfs", threads |-> TRUE]}

(* As test/sched_test.c: CFS, tasks added while the executor thread runs.  *)
TestCfgs == {Task(0, 1, 1, 2, 0, TRUE)}
Racing   == {[type |-> "cfs", threads |-> TRUE]}
=============================================================================
