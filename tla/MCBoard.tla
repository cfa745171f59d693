------------------------------ MODULE MCBoard ------------------------------
(***************************************************************************)
(* Board with a queue of one, replies of one unit and reports of a chunk   *)
(* and a half.                                                             *)
(***************************************************************************)
EXTENDS Board
=============================================================================
