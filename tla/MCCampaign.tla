----------------------------- MODULE MCCampaign -----------------------------
(***************************************************************************)
(* Campaign with two runs of two record files of one record each, and one  *)
(* loss of power or of records at any time.                                *)
(***************************************************************************)
EXTENDS Campaign
=============================================================================
