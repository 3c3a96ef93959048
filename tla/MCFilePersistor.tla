---------------------------- MODULE MCFilePersistor ----------------------------
(***************************************************************************)
(* FilePersistor for TLC: what its constants are in the runs.  The second  *)
(* event does not fit the scanner's buffer unless it is torn, the third    *)
(* has no JSON form.                                                       *)
(***************************************************************************)
EXTENDS FilePersistor

AllKinds == <<2, 4, 0, 2>>
Small    == <<2, 2>>
=============================================================================
