------------------------------- MODULE Frames -------------------------------
(***************************************************************************)
(* What a sender makes of a message: it keeps its fields and takes those   *)
(* of the header that goes with it (encode_packet of protocol.py on the    *)
(* host, encode_packet of protocol.cpp on the controller).                 *)
(***************************************************************************)
Stamped(message, header) ==
  [field \in DOMAIN message \cup DOMAIN header |->
     IF field \in DOMAIN message THEN message[field] ELSE header[field]]
=============================================================================
