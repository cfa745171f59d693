-------------------------------- MODULE Core --------------------------------
(***************************************************************************)
(* What the session needs to know of EmbeddedControllerCore (src/src/      *)
(* runtime.cpp): how a sensor frame and a step change the runtime, and     *)
(* what is decided.  The estimator is a flag here, the route is set or is  *)
(* not, and the navigation mode and the outcome of a frame are choices.    *)
(* EmbeddedCore opens the estimator and the controller, and shows that     *)
(* these operators allow all that they do.                                 *)
(***************************************************************************)
EXTENDS Runtime

(* EmbeddedControllerCore::step, after its manual stop.  An estimator that *)
(* was never initialised is unhealthy and knows no navigation mode; one    *)
(* that was is healthy, because a frame that breaks it is not committed.   *)
CoreStep(s, mode) ==
  LET known == IF s.initialized THEN mode ELSE "Unavailable"
      ready == s.route # <<>>
      next  == Ticked(s.rt, known, s.initialized, ready)
      decision == Decide(next, known, s.initialized, ready)
  IN  [s EXCEPT !.rt = next, !.command = decision,
                !.drives = IF decision = "Control" THEN @ + 1 ELSE @]

(* process_sensor_frame.  The first frame with a GNSS sample initialises   *)
(* the estimator; before that any other is accepted and changes nothing.   *)
Result == {"Accepted", "Rejected", "Numerical"}
ResultsOf(s, frame) ==
  IF s.initialized \/ "Gnss" \in DOMAIN frame THEN Result ELSE {"Accepted"}

Process(s, frame, result) ==
  CASE result = "Accepted" ->
         [s EXCEPT !.initialized = @ \/ "Gnss" \in DOMAIN frame,
                   !.rt = AcceptInput(@)]
    [] result = "Rejected"  -> s
    [] result = "Numerical" -> [s EXCEPT !.rt = ReportNumericalFault(@)]
=============================================================================
