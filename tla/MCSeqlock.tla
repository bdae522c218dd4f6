----------------------------- MODULE MCSeqlock -----------------------------
(***************************************************************************)
(* Small instances of Seqlock.  A second has 3 nanoseconds, so that one    *)
(* tick of 2 or 4 carries into the seconds and the two words change        *)
(* together, and time_seq has 2 bits, so that it wraps within a run.       *)
(***************************************************************************)
EXTENDS Seqlock

CONSTANTS r1, r2

MCReaders == {r1, r2}
MCOneReader == {r1}

\* SET_TIME can carry a time before 1970 and a tv_nsec outside a second: the
\* controller checks neither.
MCSetTimes == {[sec |-> -2, nsec |-> 2], [sec |-> 1, nsec |-> -5],
               [sec |-> 0, nsec |-> 7]}
MCOneSetTime == {[sec |-> -1, nsec |-> 1]}
MCNoSetTimes == {}

\* An epoch before 1970 lets the monotonicity run cross zero.
MCNegativeEpoch == -1
=============================================================================
