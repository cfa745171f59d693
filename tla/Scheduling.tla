----------------------------- MODULE Scheduling -----------------------------
(***************************************************************************)
(* CooperativeScheduler (src/src/runtime.cpp): for each periodic task the  *)
(* release the next poll waits for.  The deadlines are kept as LEADS, the  *)
(* unsigned difference deadline - now, one per task.                       *)
(***************************************************************************)
EXTENDS Clock

CONSTANTS
  Task,     \* RuntimeTask
  Period    \* SchedulerConfig.period_ms: a period for every task

(* validate_config refuses a zero period; the largest it accepts, 60 s, is *)
(* far below half the range of the counter.                                *)
ASSUME SchedulerConfigAssumption ==
  /\ Period \in [Task -> Nat \ {0}]
  /\ \A t \in Task : 2 * Period[t] < ClockSize

(* reset: the first release of every task is one period away.              *)
Released == [t \in Task |-> Period[t]]

Nearer(lead, d) == [t \in Task |-> (lead[t] - d) % ClockSize]

(* elapsed_ms(now, deadline), and reached(now, deadline): the difference   *)
(* is not negative when read as a signed number.                           *)
Lateness(lead, t) == (-lead[t]) % ClockSize
Reached(lead, t) == 2 * Lateness(lead, t) < ClockSize

(* poll: the tasks that are due, and the next release of each of them, the *)
(* first multiple of the period that is still ahead.                       *)
Due(lead) == {t \in Task : Reached(lead, t)}

Slip_NextDrifting(lead, t) ==
  ((Lateness(lead, t) \div Period[t] + 1) * Period[t]) % ClockSize
Slip_NextUnskipped(lead, t) == (lead[t] + Period[t]) % ClockSize
NextRelease(lead, t) ==
  LET skipped == Lateness(lead, t) \div Period[t]
  IN  (lead[t] + (skipped + 1) * Period[t]) % ClockSize

Polled(lead) ==
  [t \in Task |-> IF Reached(lead, t) THEN NextRelease(lead, t) ELSE lead[t]]
=============================================================================
