------------------------ MODULE MCSequenceTracking ------------------------
(***************************************************************************)
(* SequenceTracking for TLC; the configurations give all its constants.    *)
(***************************************************************************)
EXTENDS SequenceTracking
=============================================================================
