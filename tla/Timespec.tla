------------------------------ MODULE Timespec ------------------------------
(***************************************************************************)
(* The arithmetic on struct timespec that the time manager uses            *)
(* (src/controller/time-manager.c, ns_add).  A timespec is a record of two *)
(* words.  The number of nanoseconds in a second and the width of int64_t  *)
(* are constants, so that TLC can use small ones.                          *)
(***************************************************************************)
EXTENDS Integers

CONSTANTS
    NSEC,     \* nanoseconds per second: 1000000000 in the code
    I64_HALF  \* 2^63: int64_t holds -I64_HALF .. I64_HALF - 1

ASSUME NSECAssumption == NSEC \in Nat /\ NSEC > 0
ASSUME WidthAssumption == I64_HALF \in Nat /\ I64_HALF > 0

Words == {"sec", "nsec"}

Timespec == [sec : Int, nsec : Int]

\* What a timespec stands for, in nanoseconds.
TotalNs(ts) == ts.sec * NSEC + ts.nsec

Normalised(ts) == ts.nsec \in 0 .. NSEC - 1

\* The lexicographic order a caller compares two clock readings with.
NotLater(a, b) == a.sec < b.sec \/ (a.sec = b.sec /\ a.nsec <= b.nsec)

\* Signed 64-bit arithmetic as the build compiles it: it wraps.
Int64(n) == ((n + I64_HALF) % (2 * I64_HALF)) - I64_HALF

\* C's / and %: the quotient is truncated towards zero, the remainder has the
\* sign of the dividend.
CDiv(n, m) == IF n >= 0 THEN n \div m ELSE -((-n) \div m)
CMod(n, m) == n - m * CDiv(n, m)

\* Mutant: the borrow is forgotten.
ns_add_no_borrow(in, delta_ns) ==
    LET ns == Int64(in.sec * NSEC + in.nsec + delta_ns)
    IN  [sec |-> CDiv(ns, NSEC), nsec |-> CMod(ns, NSEC)]

\* ns_add: convert to nanoseconds, add, convert back, and borrow a second when
\* the remainder is negative.
ns_add(in, delta_ns) ==
    LET ns   == Int64(in.sec * NSEC + in.nsec + delta_ns)
        sec  == CDiv(ns, NSEC)
        nsec == CMod(ns, NSEC)
    IN  IF nsec < 0
        THEN [sec |-> sec - 1, nsec |-> nsec + NSEC]
        ELSE [sec |-> sec, nsec |-> nsec]
=============================================================================
