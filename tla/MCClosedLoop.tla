---------------------------- MODULE MCClosedLoop ----------------------------
(***************************************************************************)
(* ClosedLoop with every release of the controller due at every step and   *)
(* both timeouts of five steps, as at 10 steps a second; a command may be  *)
(* three steps old, as at 30, so that an older one may take over.  The IMU *)
(* is sampled at every step, the others at every second, third and fourth, *)
(* as in fault_smoke.yaml but for GNSS and landmarks, which are seen more  *)
(* often.  Windows of every kind of fault of the link, short and long,     *)
(* alone and in overlapping pairs, and of the sensors, alone and with one  *)
(* of the link; spikes shorter and longer than the timeouts and than the   *)
(* lag that the controller accepts.                                        *)
(***************************************************************************)
EXTENDS ClosedLoop

MCTask == {"Control", "Health", "Telemetry"}
MCPeriod == [t \in MCTask |-> 1]

MCSensorOrder == <<"Imu", "Wheel", "Gnss", "Landmark">>
MCSamplePeriod == [s \in ToSet(MCSensorOrder) |->
  CASE s = "Imu" -> 1 [] s = "Wheel" -> 2 [] s = "Gnss" -> 3
    [] s = "Landmark" -> 4]
MCLatency == [s \in ToSet(MCSensorOrder) |-> IF s = "Landmark" THEN 1 ELSE 0]

Never == StepCount + 1

Window(target, kind, w, delay) ==
  [target |-> target, kind |-> kind, from |-> w[1], until |-> w[2],
   delay |-> delay]

Kinds == {"packet_loss", "packet_corruption", "stale_frame", "disconnect"}
Windows == {<<0, 2>>, <<3, 5>>, <<4, 12>>, <<8, 10>>, <<10, 20>>}

OnLink ==
  {Window("link", kind, w, 0) : kind \in Kinds, w \in Windows}
    \cup {Window("link", "latency_spike", w, delay) :
            w \in Windows, delay \in {1, 3, 7}}

OnSensors ==
  {Window(s, "latency_spike", w, delay) :
     s \in ToSet(MCSensorOrder), w \in {<<3, 5>>, <<4, 24>>}, delay \in {2, 15}}
    \cup {Window(s, "dropout", <<4, 12>>, 0) : s \in ToSet(MCSensorOrder)}
    \cup {Window("Imu", "latency_spike", <<4, 28>>, delay) : delay \in {12, 13}}

(* Packets of a session that are delayed beyond its end: HELLO meets them  *)
(* (Misled), and a command of the session before takes over (Superseded).  *)
Delayed ==
  {{Window("link", "packet_loss", <<0, 7>>, 0),
    Window("link", "latency_spike", <<5, 8>>, delay)} : delay \in {1, 3}}
    \cup {{Window("link", "packet_loss", <<2, lost>>, 0),
           Window("link", "latency_spike", <<from, 9>>, delay),
           Window("link", "stale_frame", <<9, until>>, 0)} :
             lost \in {7, 8}, from \in {7, 8}, delay \in {2, 3, 5},
             until \in {10, 11, 12, 13}}

MCFaultSets ==
  {{}} \cup {{f, g} : f, g \in OnLink} \cup {{f} : f \in OnSensors}
    \cup {{f, g} : f \in OnSensors, g \in OnLink} \cup Delayed

MCStopAt == {4, 9, Never}
=============================================================================
