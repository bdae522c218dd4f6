--------------------------- MODULE ClockFunctions ---------------------------
(***************************************************************************)
(* The units in which libc answers (src/shim/time.c): every clock function *)
(* reads the same virtual time and converts it, in C's arithmetic.         *)
(***************************************************************************)
EXTENDS Timespec

CONSTANTS
    USEC,  \* microseconds per second, and CLOCKS_PER_SEC: 1000000 in the code
    HZ     \* sysconf(_SC_CLK_TCK), clock ticks per second

ASSUME UnitsAssumption ==
    /\ USEC \in Nat \ {0} /\ NSEC % USEC = 0
    /\ HZ \in Nat \ {0} /\ NSEC % HZ = 0

TimeFns == {"clock_gettime", "timespec_get", "gettimeofday", "clock", "times", "time"}

Usec(ts) == ts.sec * USEC + CDiv(ts.nsec, NSEC \div USEC)

\* Mutant: times() rounds the fraction of a tick up.
times_rounding(ts) == ts.sec * HZ + CDiv(ts.nsec * HZ + NSEC - 1, NSEC)

times(ts) == ts.sec * HZ + CDiv(ts.nsec * HZ, NSEC)

\* clock() multiplies the microseconds by CLOCKS_PER_SEC in int64_t.  From about
\* 106 days on, so at the default epoch of the box too, the product overflows,
\* which C leaves undefined: the compiler cancels the two factors (gcc -O0, -O2),
\* or the product wraps (gcc -fsanitize).
clock(ts) == {Usec(ts), CDiv(Int64(Usec(ts) * USEC), USEC)}
Overflows(fn, ts) ==
    fn = "clock" /\ Usec(ts) * USEC \notin -I64_HALF .. I64_HALF - 1

\* What fn can answer at time ts, as numbers of its units.
Answers(fn, ts) ==
    CASE fn \in {"clock_gettime", "timespec_get"} -> {TotalNs(ts)}
      [] fn = "gettimeofday" -> {Usec(ts)}
      [] fn = "clock" -> clock(ts)
      [] fn = "times" -> {times(ts)}
      [] fn = "time" -> {ts.sec}

\* The unit of fn, in nanoseconds.
Unit(fn) ==
    CASE fn \in {"clock_gettime", "timespec_get"} -> 1
      [] fn \in {"gettimeofday", "clock"} -> NSEC \div USEC
      [] fn = "times" -> NSEC \div HZ
      [] fn = "time" -> NSEC
=============================================================================
