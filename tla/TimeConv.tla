------------------------------- MODULE TimeConv -------------------------------
(***************************************************************************)
(* The conversions of utils.go between milliseconds, which the HTTP API    *)
(* speaks, and time.Time, which is an int64 of nanoseconds here.           *)
(***************************************************************************)
EXTENDS Integers

CONSTANTS
  NsPerMs,               \* int64(time.Millisecond): 10^6
  HalfRange              \* an int64 is in -HalfRange .. HalfRange - 1: 2^63

ASSUME TimeConvAssumption == NsPerMs \in Nat \ {0} /\ HalfRange \in Nat \ {0}

(* Signed integers overflow by wrapping around.                            *)
Wrap(n) == ((n + HalfRange) % (2 * HalfRange)) - HalfRange

(* Go's division drops the fraction, towards zero.                         *)
Quotient(n, d) == IF n >= 0 THEN n \div d ELSE -((-n) \div d)

(* Variant for the mutation runs: the number is taken for nanoseconds.     *)
millisecondStringToTime_NoUnit(ms) == Wrap(ms)

(* time.Unix(0, msInt*int64(time.Millisecond)).  No range is checked.      *)
millisecondStringToTime(ms) == Wrap(ms * NsPerMs)

(* t.UnixNano() / int64(time.Millisecond)                                  *)
timeToEpochMilliseconds(t) == Quotient(t, NsPerMs)

(* The last millisecond an int64 of nanoseconds holds (in the year 2262).  *)
MaxMs == (HalfRange - 1) \div NsPerMs
=============================================================================
