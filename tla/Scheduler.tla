----------------------------- MODULE Scheduler -----------------------------
(***************************************************************************)
(* CooperativeScheduler as FirmwareSession uses it: started at boot, first *)
(* polled when the host has opened a session (FirmwareSession::tick        *)
(* returns before the poll until then), and polled at every loop after.    *)
(* The loop polls as often as it likes, at most MaxGap apart, and the host *)
(* may take up to MaxIdle to say HELLO.                                    *)
(***************************************************************************)
EXTENDS Scheduling

CONSTANTS MaxGap, MaxIdle

ASSUME SchedulerAssumption == MaxGap \in Nat /\ MaxIdle \in Nat

VARIABLES
  lead,    \* per task, next_release_ms - now
  due,     \* the tasks released by the last step
  open,    \* a session is open: tick polls the scheduler
  gap,     \* time since the last poll, or since the session was opened
  idle,    \* time from boot to the session
  phase,   \* per task, true time since boot modulo its period
  wait     \* per task, true time since its last release, or since the
           \* session was opened

vars == <<lead, due, open, gap, idle, phase, wait>>

(* Types.                                                                  *)
TypeOK ==
  /\ lead \in [Task -> Age]
  /\ due \in SUBSET Task
  /\ open \in BOOLEAN
  /\ gap \in 0 .. MaxGap
  /\ idle \in 0 .. MaxIdle
  /\ \A t \in Task : /\ phase[t] \in 0 .. Period[t] - 1
                     /\ wait[t] \in 0 .. Period[t] + MaxGap

Init ==
  /\ lead = Released
  /\ due = {}
  /\ open = FALSE
  /\ gap = 0
  /\ idle = 0
  /\ phase = [t \in Task |-> 0]
  /\ wait = [t \in Task |-> 0]

Advance(d) ==
  /\ IF open THEN gap + d <= MaxGap ELSE idle + d <= MaxIdle
  /\ lead' = Nearer(lead, d)
  /\ due' = {}
  /\ gap' = IF open THEN gap + d ELSE gap
  /\ idle' = IF open THEN idle ELSE idle + d
  /\ phase' = [t \in Task |-> (phase[t] + d) % Period[t]]
  /\ wait' = IF open THEN [t \in Task |-> wait[t] + d] ELSE wait
  /\ UNCHANGED open

Open ==
  /\ ~open
  /\ open' = TRUE
  /\ due' = {}
  /\ UNCHANGED <<lead, gap, idle, phase, wait>>

Poll ==
  /\ open
  /\ due' = Due(lead)
  /\ lead' = Polled(lead)
  /\ gap' = 0
  /\ wait' = [t \in Task |-> IF t \in due' THEN 0 ELSE wait[t]]
  /\ UNCHANGED <<open, idle, phase>>

Next ==
  \/ \E d \in 1 .. MaxGap : Advance(d)
  \/ Open
  \/ Poll

Spec == Init /\ [][Next]_vars

-----------------------------------------------------------------------------
(* Once a session is open no task goes without a release for longer than   *)
(* its period, beyond the time the loop itself takes to come round: no     *)
(* poll in between may lose a release, whatever the counter shows.         *)
ReleasedInTime ==
  open => \A t \in Task : wait[t] < Period[t] + gap

(* Releases stay on the grid laid at boot: a poll leaves as next release   *)
(* the first multiple of the period still ahead, however late it came, so  *)
(* there is neither drift nor a burst of releases to catch up.             *)
OnGrid ==
  [][Poll => \A t \in Task : lead'[t] = Period[t] - phase[t]]_vars

(* A task whose period is a multiple of another's is never released        *)
(* without it.  FirmwareSession::tick drops a health or telemetry release  *)
(* that comes without a control release, so telemetry depends on this.     *)
Harmonic ==
  \A t, u \in Task :
    (u \in due /\ Period[u] % Period[t] = 0) => t \in due
=============================================================================
