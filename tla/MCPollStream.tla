----------------------------- MODULE MCPollStream -----------------------------
(***************************************************************************)
(* PollStream for TLC: what its constants are in the runs.  An int64 is    *)
(* one byte and a millisecond has ten nanoseconds: MaxMs is 12, and 20 ms  *)
(* wrap around to a negative time.                                         *)
(***************************************************************************)
EXTENDS PollStream

PastOrTooFar == {1, 20}
Past == {1}
NoTimes == {}
=============================================================================
