---------------------------- MODULE MCSchedules -----------------------------
(* Model checking Schedules: values for the constants that are records or  *)
(* functions.                                                              *)
EXTENDS Schedules

OnceKind == {[type |-> "once", at |-> 0]}
AllKinds == {[type |-> "once", at |-> 1], [type |-> "interval", period |-> 2],
             [type |-> "cron", times |-> {1, 2, 4}]}

\* Every schedule continues the same session.
Continue == [s \in Sched |-> CHOOSE x \in Session : TRUE]

\* One schedule starts new sessions, the others continue one.
Mixed == LET new == CHOOSE s \in Sched : TRUE
         IN [s \in Sched |-> IF s = new THEN None ELSE CHOOSE x \in Session : TRUE]
=============================================================================
