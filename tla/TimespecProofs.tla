--------------------------- MODULE TimespecProofs ---------------------------
(***************************************************************************)
(* Lemmas about the arithmetic of Timespec, for every number of            *)
(* nanoseconds in a second and every width of int64_t.                     *)
(***************************************************************************)
EXTENDS Timespec, TLAPS

-----------------------------------------------------------------------------
(* Division. *)

\* Quotient and remainder of natural numbers.
LEMMA Division ==
    ASSUME NEW n \in Nat, NEW m \in Nat, m > 0
    PROVE  /\ n \div m \in Nat
           /\ n % m \in 0 .. m - 1
           /\ n = m * (n \div m) + (n % m)
  OBVIOUS

\* The remainder is the only number below m that differs from n by a multiple.
LEMMA RemainderUnique ==
    ASSUME NEW m \in Nat, m > 0, NEW q \in Nat, NEW t \in 0 .. m - 1
    PROVE  (m * q + t) % m = t
  OBVIOUS

-----------------------------------------------------------------------------
(* ns_add. *)

\* C's division is defined on all integers and yields an integer.
LEMMA TruncatedDivision ==
    ASSUME NEW n \in Int
    PROVE  /\ CDiv(n, NSEC) \in Int
           /\ CMod(n, NSEC) \in Int
           /\ n = NSEC * CDiv(n, NSEC) + CMod(n, NSEC)
           /\ -NSEC < CMod(n, NSEC) /\ CMod(n, NSEC) < NSEC
  <1>1. CASE n >= 0
    BY <1>1, Division, NSECAssumption DEF CDiv, CMod
  <1>2. CASE n < 0
    <2> DEFINE k == -n
    <2>1. k \in Nat
      BY <1>2
    <2>2. k \div NSEC \in Nat /\ k % NSEC \in 0 .. NSEC - 1
          /\ k = NSEC * (k \div NSEC) + (k % NSEC)
      BY <2>1, Division, NSECAssumption
    <2>3. CDiv(n, NSEC) = -(k \div NSEC)
      BY <1>2 DEF CDiv
    <2>4. CMod(n, NSEC) = -(k % NSEC)
      BY <2>2, <2>3, NSECAssumption DEF CMod
    <2> QED BY <2>2, <2>3, <2>4, NSECAssumption
  <1> QED BY <1>1, <1>2

\* Truncation to 64 bits yields an integer, the same one if it fits.
LEMMA WrapsToInt ==
    ASSUME NEW n \in Int
    PROVE  Int64(n) \in Int
  BY WidthAssumption DEF Int64

LEMMA FitsInt64 ==
    ASSUME NEW n \in -I64_HALF .. I64_HALF - 1
    PROVE  Int64(n) = n
  <1> DEFINE m == 2 * I64_HALF
             k == n + I64_HALF
  <1>1. m \in Nat /\ m > 0 /\ k \in 0 .. m - 1
    BY WidthAssumption
  <1>2. (m * 0 + k) % m = k
    BY <1>1, RemainderUnique
  <1>3. m * 0 + k = k
    BY <1>1
  <1>4. k % m = k
    BY <1>2, <1>3
  <1> QED BY <1>4, WidthAssumption DEF Int64

\* ns_add returns a timespec with tv_nsec within a second, whatever it is given,
\* and the timespec stands for the 64-bit sum.
LEMMA ns_addExact ==
    ASSUME NEW ts \in Timespec, NEW d \in Int
    PROVE  /\ ns_add(ts, d) \in Timespec
           /\ Normalised(ns_add(ts, d))
           /\ TotalNs(ns_add(ts, d)) = Int64(TotalNs(ts) + d)
  <1> DEFINE n == Int64(ts.sec * NSEC + ts.nsec + d)
             q == CDiv(n, NSEC)
             t == CMod(n, NSEC)
  <1>1. ts.sec * NSEC + ts.nsec + d \in Int
    BY NSECAssumption DEF Timespec
  <1>2. n \in Int
    BY <1>1, WrapsToInt
  <1>3. q \in Int /\ t \in Int /\ n = NSEC * q + t /\ -NSEC < t /\ t < NSEC
    BY <1>2, TruncatedDivision
  <1> HIDE DEF q, t
  <1>4. ns_add(ts, d) = IF t < 0 THEN [sec |-> q - 1, nsec |-> t + NSEC]
                                 ELSE [sec |-> q, nsec |-> t]
    BY DEF ns_add, q, t
  <1>5. n = Int64(TotalNs(ts) + d)
    BY DEF TotalNs
  <1> HIDE DEF n
  <1> QED BY <1>3, <1>4, <1>5, NSECAssumption DEF Timespec, Normalised, TotalNs
=============================================================================
