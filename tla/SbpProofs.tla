----------------------------- MODULE SbpProofs -----------------------------
(***************************************************************************)
(* The wire format loses nothing and accepts nothing else, for bytes of    *)
(* any even number of values.                                              *)
(***************************************************************************)
EXTENDS Sbp, SequenceTheorems, TLAPS

-----------------------------------------------------------------------------
(* Integers in halves.                                                     *)

\* Quotient and remainder of natural numbers.
LEMMA Division ==
    ASSUME NEW n \in Nat, NEW m \in Nat, m > 0
    PROVE  /\ n \div m \in Nat
           /\ n % m \in 0 .. m - 1
           /\ n = m * (n \div m) + (n % m)
  OBVIOUS

\* The low and the high half of an integer of two M-valued halves.
LEMMA Halve ==
    ASSUME NEW M \in Nat, M > 0, NEW x \in 0 .. M * M - 1
    PROVE  /\ x % M \in 0 .. M - 1
           /\ x \div M \in 0 .. M - 1
           /\ x = (x % M) + M * (x \div M)
<1>1. x \in Nat /\ x < M * M
  OBVIOUS
<1>2. x \div M \in Nat /\ x % M \in 0 .. M - 1 /\ x = M * (x \div M) + (x % M)
  BY <1>1, Division, Zenon
<1> DEFINE q == x \div M  r == x % M
<1> HIDE DEF q, r
<1>3. r \in 0 .. M - 1 /\ q \in Nat /\ x = M * q + r
  BY <1>2 DEF q, r
<1>4. q < M
  <2>1. SUFFICES ASSUME q >= M PROVE FALSE
    BY <1>3
  <2>2. M * q >= M * M
    BY <2>1, <1>3
  <2> QED
    BY <1>1, <1>3, <2>2
<1> QED
  BY <1>2, <1>3, <1>4 DEF q, r

\* Two halves make one integer, and halving it gives them back.
LEMMA Join ==
    ASSUME NEW M \in Nat, M > 0, NEW a \in 0 .. M - 1, NEW b \in 0 .. M - 1
    PROVE  /\ a + M * b \in 0 .. M * M - 1
           /\ (a + M * b) % M = a
           /\ (a + M * b) \div M = b
<1>1. a + M * b \in Nat /\ M * b <= M * (M - 1)
  OBVIOUS
<1>2. M * (M - 1) = M * M - M
  OBVIOUS
<1>3. a + M * b \in 0 .. M * M - 1
  BY <1>1, <1>2
<1>4. (a + M * b) % M = a /\ (a + M * b) \div M = b
  BY <1>1
<1> QED
  BY <1>3, <1>4

-----------------------------------------------------------------------------
(* Bytes of an integer.                                                    *)

Bytes == 0 .. BYTE - 1

\* q stands in p after the first at bytes.
Holds(p, at, q) == \A k \in 1 .. Len(q) : p[at + k] = q[k]

\* n bytes stand in p after the first at bytes.
HasBytes(p, at, n) == \A k \in 1 .. n : p[at + k] \in Bytes

\* The widths are positive.
LEMMA Widths ==
    /\ BYTE \in Nat /\ BYTE > 0
    /\ U16 \in Nat /\ U16 > 0
    /\ U32 \in Nat /\ U32 > 0
    /\ U64 \in Nat /\ U64 > 0
<1>1. BYTE \in Nat /\ BYTE > 0
  BY ByteAssumption
<1>2. U16 \in Nat /\ U16 > 0
  BY <1>1 DEF U16
<1>3. U32 \in Nat /\ U32 > 0
  BY <1>2 DEF U32
<1>4. U64 \in Nat /\ U64 > 0
  BY <1>3 DEF U64
<1> QED
  BY <1>1, <1>2, <1>3, <1>4

\* Two pieces stand in p one after the other.
LEMMA HoldsConcat ==
    ASSUME NEW p, NEW at \in Nat, NEW q \in Seq(Bytes), NEW r \in Seq(Bytes)
    PROVE  Holds(p, at, q \o r) <=> (Holds(p, at, q) /\ Holds(p, at + Len(q), r))
<1>1. /\ Len(q) \in Nat /\ Len(r) \in Nat
      /\ Len(q \o r) = Len(q) + Len(r)
      /\ \A i \in 1 .. Len(q) + Len(r) :
            (q \o r)[i] = IF i <= Len(q) THEN q[i] ELSE r[i - Len(q)]
  BY ConcatProperties, LenProperties
<1>2. ASSUME Holds(p, at, q \o r)
      PROVE  Holds(p, at, q) /\ Holds(p, at + Len(q), r)
  <2>1. ASSUME NEW k \in 1 .. Len(q) PROVE p[at + k] = q[k]
    <3>1. p[at + k] = (q \o r)[k]
      BY <1>1, <1>2 DEF Holds
    <3> QED
      BY <1>1, <3>1
  <2>2. ASSUME NEW k \in 1 .. Len(r) PROVE p[at + Len(q) + k] = r[k]
    <3> DEFINE i == Len(q) + k
    <3>1. i \in 1 .. Len(q) + Len(r) /\ ~(i <= Len(q)) /\ i - Len(q) = k
      BY <1>1
    <3>2. (q \o r)[i] = r[k]
      BY <1>1, <3>1
    <3>3. p[at + i] = (q \o r)[i]
      BY <1>1, <1>2, <3>1 DEF Holds
    <3>4. at + Len(q) + k = at + i
      BY <1>1
    <3> QED
      BY <3>2, <3>3, <3>4
  <2> QED
    BY <2>1, <2>2 DEF Holds
<1>3. ASSUME Holds(p, at, q), Holds(p, at + Len(q), r)
      PROVE  Holds(p, at, q \o r)
  <2>1. SUFFICES ASSUME NEW i \in 1 .. Len(q) + Len(r)
                 PROVE  p[at + i] = (q \o r)[i]
    BY <1>1 DEF Holds
  <2>2. CASE i <= Len(q)
    <3>1. p[at + i] = q[i]
      BY <1>1, <1>3, <2>2 DEF Holds
    <3> QED
      BY <1>1, <2>2, <3>1
  <2>3. CASE ~(i <= Len(q))
    <3> DEFINE k == i - Len(q)
    <3>1. k \in 1 .. Len(r) /\ at + Len(q) + k = at + i
      BY <1>1, <2>3
    <3>2. p[at + Len(q) + k] = r[k]
      BY <1>3, <3>1 DEF Holds
    <3> QED
      BY <1>1, <2>3, <3>1, <3>2
  <2> QED
    BY <2>2, <2>3
<1> QED
  BY <1>2, <1>3

\* What write_le16, write_le32 and write_le64 write.
LEMMA Write16 ==
    ASSUME NEW v \in 0 .. U16 - 1
    PROVE  /\ write_le16(v) \in Seq(Bytes)
           /\ Len(write_le16(v)) = 2
           /\ write_le16(v)[1] = v % BYTE
           /\ write_le16(v)[2] = v \div BYTE
<1>1. v % BYTE \in Bytes /\ v \div BYTE \in Bytes
  BY Widths, Halve DEF U16, Bytes
<1> QED
  BY <1>1 DEF write_le16

LEMMA Write32 ==
    ASSUME NEW v \in 0 .. U32 - 1
    PROVE  /\ write_le32(v) \in Seq(Bytes)
           /\ Len(write_le32(v)) = 4
<1>1. v % U16 \in 0 .. U16 - 1 /\ v \div U16 \in 0 .. U16 - 1
  BY Widths, Halve DEF U32
<1> DEFINE q == write_le16(v % U16)  r == write_le16(v \div U16)
<1>2. q \in Seq(Bytes) /\ Len(q) = 2
  BY <1>1, Write16
<1>3. r \in Seq(Bytes) /\ Len(r) = 2
  BY <1>1, Write16
<1> HIDE DEF q, r
<1>4. q \o r \in Seq(Bytes) /\ Len(q \o r) = Len(q) + Len(r)
  BY <1>2, <1>3, ConcatProperties, Zenon
<1>5. Len(q \o r) = 4
  BY <1>2, <1>3, <1>4
<1> QED
  BY <1>4, <1>5 DEF write_le32, q, r

LEMMA Write64 ==
    ASSUME NEW v \in 0 .. U64 - 1
    PROVE  /\ write_le64(v) \in Seq(Bytes)
           /\ Len(write_le64(v)) = 8
<1>1. v % U32 \in 0 .. U32 - 1 /\ v \div U32 \in 0 .. U32 - 1
  BY Widths, Halve DEF U64
<1> DEFINE q == write_le32(v % U32)  r == write_le32(v \div U32)
<1>2. q \in Seq(Bytes) /\ Len(q) = 4
  BY <1>1, Write32
<1>3. r \in Seq(Bytes) /\ Len(r) = 4
  BY <1>1, Write32
<1> HIDE DEF q, r
<1>4. q \o r \in Seq(Bytes) /\ Len(q \o r) = Len(q) + Len(r)
  BY <1>2, <1>3, ConcatProperties, Zenon
<1>5. Len(q \o r) = 8
  BY <1>2, <1>3, <1>4
<1> QED
  BY <1>4, <1>5 DEF write_le64, q, r

\* Reading what was written gives it back, whatever stands around it.
LEMMA ReadWritten16 ==
    ASSUME NEW p, NEW at \in Nat, NEW v \in 0 .. U16 - 1, Holds(p, at, write_le16(v))
    PROVE  read_le16(p, at) = v
<1>1. p[at + 1] = v % BYTE /\ p[at + 2] = v \div BYTE
  BY Write16 DEF Holds
<1>2. v = (v % BYTE) + BYTE * (v \div BYTE)
  BY Widths, Halve DEF U16
<1> QED
  BY <1>1, <1>2, Zenon DEF read_le16

LEMMA ReadWritten32 ==
    ASSUME NEW p, NEW at \in Nat, NEW v \in 0 .. U32 - 1, Holds(p, at, write_le32(v))
    PROVE  read_le32(p, at) = v
<1>1. /\ v % U16 \in 0 .. U16 - 1
      /\ v \div U16 \in 0 .. U16 - 1
      /\ v = (v % U16) + U16 * (v \div U16)
  BY Widths, Halve DEF U32
<1> DEFINE lo == v % U16  hi == v \div U16
<1>2. write_le16(lo) \in Seq(Bytes) /\ Len(write_le16(lo)) = 2
  BY <1>1, Write16
<1>3. write_le16(hi) \in Seq(Bytes)
  BY <1>1, Write16
<1>4. Holds(p, at, write_le16(lo) \o write_le16(hi))
  BY DEF write_le32
<1> HIDE DEF lo, hi
<1>5. Holds(p, at, write_le16(lo)) /\ Holds(p, at + 2, write_le16(hi))
  BY <1>2, <1>3, <1>4, HoldsConcat, Zenon
<1>6. lo \in 0 .. U16 - 1 /\ hi \in 0 .. U16 - 1 /\ at + 2 \in Nat
  BY <1>1 DEF lo, hi
<1>7. read_le16(p, at) = lo /\ read_le16(p, at + 2) = hi
  BY <1>5, <1>6, ReadWritten16, Zenon
<1>8. v = lo + U16 * hi
  BY <1>1 DEF lo, hi
<1> QED
  BY <1>7, <1>8, Zenon DEF read_le32

LEMMA ReadWritten64 ==
    ASSUME NEW p, NEW at \in Nat, NEW v \in 0 .. U64 - 1, Holds(p, at, write_le64(v))
    PROVE  read_le64(p, at) = v
<1>1. /\ v % U32 \in 0 .. U32 - 1
      /\ v \div U32 \in 0 .. U32 - 1
      /\ v = (v % U32) + U32 * (v \div U32)
  BY Widths, Halve DEF U64
<1> DEFINE lo == v % U32  hi == v \div U32
<1>2. write_le32(lo) \in Seq(Bytes) /\ Len(write_le32(lo)) = 4
  BY <1>1, Write32
<1>3. write_le32(hi) \in Seq(Bytes)
  BY <1>1, Write32
<1>4. Holds(p, at, write_le32(lo) \o write_le32(hi))
  BY DEF write_le64
<1> HIDE DEF lo, hi
<1>5. Holds(p, at, write_le32(lo)) /\ Holds(p, at + 4, write_le32(hi))
  BY <1>2, <1>3, <1>4, HoldsConcat, Zenon
<1>6. lo \in 0 .. U32 - 1 /\ hi \in 0 .. U32 - 1 /\ at + 4 \in Nat
  BY <1>1 DEF lo, hi
<1>7. read_le32(p, at) = lo /\ read_le32(p, at + 4) = hi
  BY <1>5, <1>6, ReadWritten32, Zenon
<1>8. v = lo + U32 * hi
  BY <1>1 DEF lo, hi
<1> QED
  BY <1>7, <1>8, Zenon DEF read_le64

\* Bytes that are read make an integer of their width, and writing it gives
\* them back.
LEMMA WriteRead16 ==
    ASSUME NEW p, NEW at \in Nat, HasBytes(p, at, 2)
    PROVE  /\ read_le16(p, at) \in 0 .. U16 - 1
           /\ Holds(p, at, write_le16(read_le16(p, at)))
<1>1. p[at + 1] \in 0 .. BYTE - 1 /\ p[at + 2] \in 0 .. BYTE - 1
  BY DEF HasBytes, Bytes
<1> DEFINE v == p[at + 1] + BYTE * p[at + 2]
<1>2. v \in 0 .. U16 - 1 /\ v % BYTE = p[at + 1] /\ v \div BYTE = p[at + 2]
  BY <1>1, Widths, Join, Zenon DEF U16
<1> HIDE DEF v
<1>3. Holds(p, at, write_le16(v))
  BY <1>2, Write16 DEF Holds
<1> QED
  BY <1>2, <1>3, Zenon DEF read_le16, v

LEMMA WriteRead32 ==
    ASSUME NEW p, NEW at \in Nat, HasBytes(p, at, 4)
    PROVE  /\ read_le32(p, at) \in 0 .. U32 - 1
           /\ Holds(p, at, write_le32(read_le32(p, at)))
<1>1. HasBytes(p, at, 2)
  BY DEF HasBytes
<1>2. HasBytes(p, at + 2, 2)
  <2>1. SUFFICES ASSUME NEW k \in 1 .. 2 PROVE p[at + 2 + k] \in Bytes
    BY DEF HasBytes
  <2>2. 2 + k \in 1 .. 4 /\ at + 2 + k = at + (2 + k)
    OBVIOUS
  <2> QED
    BY <2>2 DEF HasBytes
<1> DEFINE lo == read_le16(p, at)  hi == read_le16(p, at + 2)
           v == lo + U16 * hi
<1>3. lo \in 0 .. U16 - 1 /\ Holds(p, at, write_le16(lo))
  BY <1>1, WriteRead16
<1>4. at + 2 \in Nat
  OBVIOUS
<1>5. hi \in 0 .. U16 - 1 /\ Holds(p, at + 2, write_le16(hi))
  BY <1>2, <1>4, WriteRead16, Zenon
<1> HIDE DEF lo, hi
<1>6. v \in 0 .. U32 - 1 /\ v % U16 = lo /\ v \div U16 = hi
  BY <1>3, <1>5, Widths, Join, Zenon DEF U32
<1>7. write_le16(lo) \in Seq(Bytes) /\ Len(write_le16(lo)) = 2
  BY <1>3, Write16
<1>8. write_le16(hi) \in Seq(Bytes)
  BY <1>5, Write16
<1>9. Holds(p, at, write_le16(lo) \o write_le16(hi))
  BY <1>3, <1>5, <1>7, <1>8, HoldsConcat, Zenon
<1> HIDE DEF v
<1>10. Holds(p, at, write_le32(v))
  BY <1>6, <1>9, Zenon DEF write_le32
<1>11. read_le32(p, at) = v
  BY Zenon DEF read_le32, lo, hi, v
<1> QED
  BY <1>6, <1>10, <1>11, Zenon

LEMMA WriteRead64 ==
    ASSUME NEW p, NEW at \in Nat, HasBytes(p, at, 8)
    PROVE  /\ read_le64(p, at) \in 0 .. U64 - 1
           /\ Holds(p, at, write_le64(read_le64(p, at)))
<1>1. HasBytes(p, at, 4)
  BY DEF HasBytes
<1>2. HasBytes(p, at + 4, 4)
  <2>1. SUFFICES ASSUME NEW k \in 1 .. 4 PROVE p[at + 4 + k] \in Bytes
    BY DEF HasBytes
  <2>2. 4 + k \in 1 .. 8 /\ at + 4 + k = at + (4 + k)
    OBVIOUS
  <2> QED
    BY <2>2 DEF HasBytes
<1> DEFINE lo == read_le32(p, at)  hi == read_le32(p, at + 4)
           v == lo + U32 * hi
<1>3. lo \in 0 .. U32 - 1 /\ Holds(p, at, write_le32(lo))
  BY <1>1, WriteRead32
<1>4. at + 4 \in Nat
  OBVIOUS
<1>5. hi \in 0 .. U32 - 1 /\ Holds(p, at + 4, write_le32(hi))
  BY <1>2, <1>4, WriteRead32, Zenon
<1> HIDE DEF lo, hi
<1>6. v \in 0 .. U64 - 1 /\ v % U32 = lo /\ v \div U32 = hi
  BY <1>3, <1>5, Widths, Join, Zenon DEF U64
<1>7. write_le32(lo) \in Seq(Bytes) /\ Len(write_le32(lo)) = 4
  BY <1>3, Write32
<1>8. write_le32(hi) \in Seq(Bytes)
  BY <1>5, Write32
<1>9. Holds(p, at, write_le32(lo) \o write_le32(hi))
  BY <1>3, <1>5, <1>7, <1>8, HoldsConcat, Zenon
<1> HIDE DEF v
<1>10. Holds(p, at, write_le64(v))
  BY <1>6, <1>9, Zenon DEF write_le64
<1>11. read_le64(p, at) = v
  BY Zenon DEF read_le64, lo, hi, v
<1> QED
  BY <1>6, <1>10, <1>11, Zenon

-----------------------------------------------------------------------------
(* The casts.                                                              *)

\* An even number of values has two halves.
LEMMA EvenProduct ==
    ASSUME NEW a \in Nat, NEW b \in Nat, a % 2 = 0
    PROVE  (a * b) % 2 = 0
<1>1. PICK h \in Nat : a = 2 * h
  BY Division
<1> DEFINE k == h * b
<1>2. a * b = 2 * k /\ k \in Nat
  BY <1>1
<1> HIDE DEF k
<1>3. (2 * k) % 2 = 0
  BY <1>2
<1> QED
  BY <1>2, <1>3, Zenon

LEMMA EvenWidths == U32 % 2 = 0 /\ U64 % 2 = 0
<1>1. U16 % 2 = 0
  BY ByteAssumption, EvenProduct DEF U16
<1>2. U32 % 2 = 0
  BY <1>1, Widths, EvenProduct DEF U32
<1>3. U64 % 2 = 0
  BY <1>2, Widths, EvenProduct DEF U64
<1> QED
  BY <1>2, <1>3

\* A signed value survives the cast to unsigned and back.
LEMMA CastThere ==
    ASSUME NEW range \in Nat, range > 0, range % 2 = 0, NEW v \in Signed(range)
    PROVE  /\ to_unsigned(v, range) \in Unsigned(range)
           /\ to_signed(to_unsigned(v, range), range) = v
<1>1. PICK h \in Nat : range = 2 * h /\ range \div 2 = h
  BY Division
<1>2. v \in -h .. h - 1
  BY <1>1 DEF Signed
<1>3. CASE v >= 0
  <2>1. v % range = v
    BY <1>1, <1>2, <1>3
  <2> QED
    BY <1>1, <1>2, <1>3, <2>1 DEF to_unsigned, to_signed, Unsigned
<1>4. CASE v < 0
  <2>1. v % range = v + range
    BY <1>1, <1>2, <1>4
  <2> QED
    BY <1>1, <1>2, <1>4, <2>1 DEF to_unsigned, to_signed, Unsigned
<1> QED
  BY <1>2, <1>3, <1>4

\* And an unsigned one the cast to signed and back.
LEMMA CastBack ==
    ASSUME NEW range \in Nat, range > 0, range % 2 = 0, NEW v \in Unsigned(range)
    PROVE  /\ to_signed(v, range) \in Signed(range)
           /\ to_unsigned(to_signed(v, range), range) = v
<1>1. PICK h \in Nat : range = 2 * h /\ range \div 2 = h
  BY Division
<1>2. v \in 0 .. 2 * h - 1
  BY <1>1 DEF Unsigned
<1>3. CASE v < h
  <2>1. v % range = v
    BY <1>1, <1>2, <1>3
  <2> QED
    BY <1>1, <1>2, <1>3, <2>1 DEF to_unsigned, to_signed, Signed
<1>4. CASE v >= h
  <2>1. (v - range) % range = v
    BY <1>1, <1>2, <1>4
  <2> QED
    BY <1>1, <1>2, <1>4, <2>1 DEF to_unsigned, to_signed, Signed
<1> QED
  BY <1>2, <1>3, <1>4

-----------------------------------------------------------------------------
(* Payloads.                                                               *)

Types == HELLO .. REGISTER_PROCESS

\* One of the types that have a payload, or none of them.
LEMMA TypeCases ==
    ASSUME NEW type \in Types
    PROVE  \/ type = SET_TIME
           \/ type = SET_SEED
           \/ type = REGISTER_PROCESS
           \/ type \notin {SET_TIME, SET_SEED, REGISTER_PROCESS}
  OBVIOUS

\* What the switches of sbp.c give for each of them.
LEMMA SwitchSetTime ==
    /\ sbp_payload_len_for_type(SET_TIME) = 12
    /\ Payloads(SET_TIME) = [tv_sec : Signed(U64), tv_nsec : Signed(U32)]
    /\ \A m : PayloadBytes(SET_TIME, m) = write_le64(to_unsigned(m.tv_sec, U64))
                                          \o write_le32(to_unsigned(m.tv_nsec, U32))
    /\ \A p : PayloadOf(SET_TIME, p) =
                [tv_sec |-> to_signed(read_le64(p, 8), U64),
                 tv_nsec |-> to_signed(read_le32(p, 16), U32)]
<1>1. SET_TIME # SET_SEED /\ SET_TIME # REGISTER_PROCESS
  BY DEF SET_TIME, SET_SEED, REGISTER_PROCESS
<1>2. SBP_HEADER_SIZE = 8 /\ SBP_HEADER_SIZE + 8 = 16
  BY DEF SBP_HEADER_SIZE
<1>3. sbp_payload_len_for_type(SET_TIME) = 12
  BY <1>1 DEF sbp_payload_len_for_type
<1>4. Payloads(SET_TIME) = [tv_sec : Signed(U64), tv_nsec : Signed(U32)]
  BY <1>1 DEF Payloads
<1>5. ASSUME NEW m
      PROVE  PayloadBytes(SET_TIME, m) = write_le64(to_unsigned(m.tv_sec, U64))
                                         \o write_le32(to_unsigned(m.tv_nsec, U32))
  BY <1>1 DEF PayloadBytes
<1>6. ASSUME NEW p
      PROVE  PayloadOf(SET_TIME, p) =
                [tv_sec |-> to_signed(read_le64(p, 8), U64),
                 tv_nsec |-> to_signed(read_le32(p, 16), U32)]
  BY <1>1, <1>2 DEF PayloadOf
<1> QED
  BY <1>3, <1>4, <1>5, <1>6, Zenon

LEMMA SwitchSetSeed ==
    /\ sbp_payload_len_for_type(SET_SEED) = 8
    /\ Payloads(SET_SEED) = [seed : Unsigned(U64)]
    /\ \A m : PayloadBytes(SET_SEED, m) = write_le64(m.seed)
    /\ \A p : PayloadOf(SET_SEED, p) = [seed |-> read_le64(p, 8)]
<1>1. SET_SEED # SET_TIME /\ SET_SEED # REGISTER_PROCESS
  BY DEF SET_TIME, SET_SEED, REGISTER_PROCESS
<1>2. sbp_payload_len_for_type(SET_SEED) = 8
  BY <1>1 DEF sbp_payload_len_for_type
<1>3. Payloads(SET_SEED) = [seed : Unsigned(U64)]
  BY <1>1 DEF Payloads
<1>4. ASSUME NEW m PROVE PayloadBytes(SET_SEED, m) = write_le64(m.seed)
  BY <1>1 DEF PayloadBytes
<1>5. ASSUME NEW p PROVE PayloadOf(SET_SEED, p) = [seed |-> read_le64(p, 8)]
  BY <1>1 DEF PayloadOf, SBP_HEADER_SIZE
<1> QED
  BY <1>2, <1>3, <1>4, <1>5, Zenon

LEMMA SwitchRegister ==
    /\ sbp_payload_len_for_type(REGISTER_PROCESS) = 8
    /\ Payloads(REGISTER_PROCESS) = [pid : Unsigned(U32), slot : Unsigned(U32)]
    /\ \A m : PayloadBytes(REGISTER_PROCESS, m) = write_le32(m.pid) \o write_le32(m.slot)
    /\ \A p : PayloadOf(REGISTER_PROCESS, p) = [pid |-> read_le32(p, 8), slot |-> read_le32(p, 12)]
<1>1. REGISTER_PROCESS # SET_TIME /\ REGISTER_PROCESS # SET_SEED
  BY DEF SET_TIME, SET_SEED, REGISTER_PROCESS
<1>2. SBP_HEADER_SIZE = 8 /\ SBP_HEADER_SIZE + 4 = 12
  BY DEF SBP_HEADER_SIZE
<1>3. sbp_payload_len_for_type(REGISTER_PROCESS) = 8
  BY <1>1 DEF sbp_payload_len_for_type
<1>4. Payloads(REGISTER_PROCESS) = [pid : Unsigned(U32), slot : Unsigned(U32)]
  BY <1>1 DEF Payloads
<1>5. ASSUME NEW m
      PROVE  PayloadBytes(REGISTER_PROCESS, m) = write_le32(m.pid) \o write_le32(m.slot)
  BY <1>1 DEF PayloadBytes
<1>6. ASSUME NEW p
      PROVE  PayloadOf(REGISTER_PROCESS, p) =
                [pid |-> read_le32(p, 8), slot |-> read_le32(p, 12)]
  BY <1>1, <1>2 DEF PayloadOf
<1> QED
  BY <1>3, <1>4, <1>5, <1>6, Zenon

LEMMA SwitchNone ==
    ASSUME NEW type, type \notin {SET_TIME, SET_SEED, REGISTER_PROCESS}
    PROVE  /\ sbp_payload_len_for_type(type) = 0
           /\ Payloads(type) = {<<>>}
           /\ \A m : PayloadBytes(type, m) = <<>>
           /\ \A p : PayloadOf(type, p) = <<>>
  BY DEF sbp_payload_len_for_type, Payloads, PayloadBytes, PayloadOf

\* A message's payload has the length of its type.
LEMMA PayloadLength ==
    ASSUME NEW type \in Types, NEW payload \in Payloads(type)
    PROVE  /\ PayloadBytes(type, payload) \in Seq(Bytes)
           /\ Len(PayloadBytes(type, payload)) = sbp_payload_len_for_type(type)
           /\ sbp_payload_len_for_type(type) \in {0, 8, 12}
<1>1. CASE type = SET_TIME
  <2>1. payload.tv_sec \in Signed(U64) /\ payload.tv_nsec \in Signed(U32)
    BY <1>1, SwitchSetTime
  <2> DEFINE s == to_unsigned(payload.tv_sec, U64)  n == to_unsigned(payload.tv_nsec, U32)
  <2>2. s \in 0 .. U64 - 1
    BY <2>1, Widths, EvenWidths, CastThere DEF Unsigned
  <2>3. n \in 0 .. U32 - 1
    BY <2>1, Widths, EvenWidths, CastThere DEF Unsigned
  <2> HIDE DEF s, n
  <2>4. write_le64(s) \o write_le32(n) \in Seq(Bytes)
        /\ Len(write_le64(s) \o write_le32(n)) = 12
    <3>1. write_le64(s) \in Seq(Bytes) /\ Len(write_le64(s)) = 8
      BY <2>2, Write64
    <3>2. write_le32(n) \in Seq(Bytes) /\ Len(write_le32(n)) = 4
      BY <2>3, Write32
    <3>3. /\ write_le64(s) \o write_le32(n) \in Seq(Bytes)
          /\ Len(write_le64(s) \o write_le32(n)) = Len(write_le64(s)) + Len(write_le32(n))
      BY <3>1, <3>2, ConcatProperties, Zenon
    <3> QED
      BY <3>1, <3>2, <3>3
  <2>5. PayloadBytes(type, payload) = write_le64(s) \o write_le32(n)
    BY <1>1, SwitchSetTime, Zenon DEF s, n
  <2>6. sbp_payload_len_for_type(type) = 12
    BY <1>1, SwitchSetTime
  <2> QED
    BY <2>4, <2>5, <2>6
<1>2. CASE type = SET_SEED
  <2>1. payload.seed \in 0 .. U64 - 1
    BY <1>2, SwitchSetSeed DEF Unsigned
  <2> QED
    BY <1>2, <2>1, SwitchSetSeed, Write64
<1>3. CASE type = REGISTER_PROCESS
  <2>1. payload.pid \in 0 .. U32 - 1 /\ payload.slot \in 0 .. U32 - 1
    BY <1>3, SwitchRegister DEF Unsigned
  <2> DEFINE q == write_le32(payload.pid)  r == write_le32(payload.slot)
  <2>2. q \in Seq(Bytes) /\ Len(q) = 4
    BY <2>1, Write32
  <2>3. r \in Seq(Bytes) /\ Len(r) = 4
    BY <2>1, Write32
  <2>4. PayloadBytes(type, payload) = q \o r /\ sbp_payload_len_for_type(type) = 8
    BY <1>3, SwitchRegister, Zenon
  <2> HIDE DEF q, r
  <2>5. q \o r \in Seq(Bytes) /\ Len(q \o r) = Len(q) + Len(r)
    BY <2>2, <2>3, ConcatProperties, Zenon
  <2> QED
    BY <2>2, <2>3, <2>4, <2>5
<1>4. CASE type \notin {SET_TIME, SET_SEED, REGISTER_PROCESS}
  <2>1. PayloadBytes(type, payload) = <<>> /\ sbp_payload_len_for_type(type) = 0
    BY <1>4, SwitchNone, Zenon
  <2> QED
    BY <2>1
<1> QED
  BY <1>1, <1>2, <1>3, <1>4, TypeCases

\* Where a message's payload stands, sbp_deserialize_message reads it.
LEMMA PayloadRead ==
    ASSUME NEW type \in Types, NEW payload \in Payloads(type), NEW p,
           Holds(p, 8, PayloadBytes(type, payload))
    PROVE  PayloadOf(type, p) = payload
<1>1. CASE type = SET_TIME
  <2>1. /\ payload.tv_sec \in Signed(U64)
        /\ payload.tv_nsec \in Signed(U32)
        /\ payload = [tv_sec |-> payload.tv_sec, tv_nsec |-> payload.tv_nsec]
    BY <1>1, SwitchSetTime
  <2> DEFINE s == to_unsigned(payload.tv_sec, U64)  n == to_unsigned(payload.tv_nsec, U32)
  <2>2. s \in 0 .. U64 - 1 /\ to_signed(s, U64) = payload.tv_sec
    BY <2>1, Widths, EvenWidths, CastThere DEF Unsigned
  <2>3. n \in 0 .. U32 - 1 /\ to_signed(n, U32) = payload.tv_nsec
    BY <2>1, Widths, EvenWidths, CastThere DEF Unsigned
  <2>4. Holds(p, 8, write_le64(s) \o write_le32(n))
    BY <1>1, SwitchSetTime, Zenon
  <2> HIDE DEF s, n
  <2>5. write_le64(s) \in Seq(Bytes) /\ Len(write_le64(s)) = 8 /\ write_le32(n) \in Seq(Bytes)
    BY <2>2, <2>3, Write64, Write32
  <2>6. Holds(p, 8, write_le64(s)) /\ Holds(p, 8 + Len(write_le64(s)), write_le32(n))
    BY <2>4, <2>5, HoldsConcat
  <2>7. Holds(p, 16, write_le32(n))
    BY <2>5, <2>6
  <2>8. read_le64(p, 8) = s /\ read_le32(p, 16) = n
    BY <2>2, <2>3, <2>6, <2>7, ReadWritten64, ReadWritten32
  <2> QED
    BY <1>1, <2>1, <2>2, <2>3, <2>8, SwitchSetTime
<1>2. CASE type = SET_SEED
  <2>1. payload.seed \in 0 .. U64 - 1 /\ payload = [seed |-> payload.seed]
    BY <1>2, SwitchSetSeed DEF Unsigned
  <2>2. Holds(p, 8, write_le64(payload.seed))
    BY <1>2, SwitchSetSeed
  <2>3. read_le64(p, 8) = payload.seed
    BY <2>1, <2>2, ReadWritten64
  <2> QED
    BY <1>2, <2>1, <2>3, SwitchSetSeed
<1>3. CASE type = REGISTER_PROCESS
  <2>1. /\ payload.pid \in 0 .. U32 - 1
        /\ payload.slot \in 0 .. U32 - 1
        /\ payload = [pid |-> payload.pid, slot |-> payload.slot]
    BY <1>3, SwitchRegister DEF Unsigned
  <2> DEFINE q == write_le32(payload.pid)  r == write_le32(payload.slot)
  <2>2. q \in Seq(Bytes) /\ Len(q) = 4 /\ r \in Seq(Bytes)
    BY <2>1, Write32
  <2>3. Holds(p, 8, q \o r)
    BY <1>3, SwitchRegister, Zenon
  <2> HIDE DEF q, r
  <2>4. Holds(p, 8, q) /\ Holds(p, 8 + Len(q), r)
    BY <2>2, <2>3, HoldsConcat
  <2>5. Holds(p, 12, r)
    BY <2>2, <2>4
  <2>6. read_le32(p, 8) = payload.pid /\ read_le32(p, 12) = payload.slot
    BY <2>1, <2>4, <2>5, ReadWritten32 DEF q, r
  <2> QED
    BY <1>3, <2>1, <2>6, SwitchRegister
<1>4. CASE type \notin {SET_TIME, SET_SEED, REGISTER_PROCESS}
  BY <1>4, SwitchNone
<1> QED
  BY <1>1, <1>2, <1>3, <1>4, TypeCases

\* Bytes of the payload's length are the payload of some message.
LEMMA PayloadBack ==
    ASSUME NEW type \in Types, NEW p, HasBytes(p, 8, sbp_payload_len_for_type(type))
    PROVE  /\ PayloadOf(type, p) \in Payloads(type)
           /\ Holds(p, 8, PayloadBytes(type, PayloadOf(type, p)))
<1>1. CASE type = SET_TIME
  <2>1. HasBytes(p, 8, 12)
    BY <1>1, SwitchSetTime
  <2>2. ASSUME NEW k \in 1 .. 4 PROVE p[16 + k] \in Bytes
    <3>1. 8 + k \in 1 .. 12 /\ 8 + (8 + k) = 16 + k
      OBVIOUS
    <3> QED
      BY <2>1, <3>1 DEF HasBytes
  <2>3. HasBytes(p, 8, 8) /\ HasBytes(p, 16, 4)
    BY <2>1, <2>2 DEF HasBytes
  <2> DEFINE s == read_le64(p, 8)  n == read_le32(p, 16)
             m == [tv_sec |-> to_signed(s, U64), tv_nsec |-> to_signed(n, U32)]
  <2>4. s \in 0 .. U64 - 1 /\ Holds(p, 8, write_le64(s))
    BY <2>3, WriteRead64
  <2>5. n \in 0 .. U32 - 1 /\ Holds(p, 16, write_le32(n))
    BY <2>3, WriteRead32
  <2>6. PayloadOf(type, p) = m
    BY <1>1, SwitchSetTime
  <2> HIDE DEF s, n
  <2>7. to_signed(s, U64) \in Signed(U64) /\ to_unsigned(to_signed(s, U64), U64) = s
    BY <2>4, Widths, EvenWidths, CastBack DEF Unsigned
  <2>8. to_signed(n, U32) \in Signed(U32) /\ to_unsigned(to_signed(n, U32), U32) = n
    BY <2>5, Widths, EvenWidths, CastBack DEF Unsigned
  <2>9. write_le64(s) \in Seq(Bytes) /\ Len(write_le64(s)) = 8 /\ write_le32(n) \in Seq(Bytes)
    BY <2>4, <2>5, Write64, Write32
  <2>10. Holds(p, 8 + Len(write_le64(s)), write_le32(n))
    BY <2>5, <2>9
  <2>11. Holds(p, 8, write_le64(s) \o write_le32(n))
    BY <2>4, <2>9, <2>10, HoldsConcat
  <2>12. PayloadBytes(SET_TIME, m) = write_le64(s) \o write_le32(n)
    <3>1. to_unsigned(m.tv_sec, U64) = s /\ to_unsigned(m.tv_nsec, U32) = n
      BY <2>7, <2>8
    <3> QED
      BY <3>1, SwitchSetTime, Zenon
  <2>13. m \in Payloads(SET_TIME)
    BY <2>7, <2>8, SwitchSetTime
  <2> QED
    BY <1>1, <2>6, <2>11, <2>12, <2>13, Zenon
<1>2. CASE type = SET_SEED
  <2>1. HasBytes(p, 8, 8)
    BY <1>2, SwitchSetSeed
  <2> DEFINE s == read_le64(p, 8)
  <2>2. s \in 0 .. U64 - 1 /\ Holds(p, 8, write_le64(s))
    BY <2>1, WriteRead64
  <2> QED
    BY <1>2, <2>2, SwitchSetSeed DEF Unsigned
<1>3. CASE type = REGISTER_PROCESS
  <2>1. HasBytes(p, 8, 8)
    BY <1>3, SwitchRegister
  <2>2. ASSUME NEW k \in 1 .. 4 PROVE p[12 + k] \in Bytes
    <3>1. 4 + k \in 1 .. 8 /\ 8 + (4 + k) = 12 + k
      OBVIOUS
    <3> QED
      BY <2>1, <3>1 DEF HasBytes
  <2>3. HasBytes(p, 8, 4) /\ HasBytes(p, 12, 4)
    BY <2>1, <2>2 DEF HasBytes
  <2> DEFINE i == read_le32(p, 8)  j == read_le32(p, 12)
             m == [pid |-> i, slot |-> j]
  <2>4. i \in 0 .. U32 - 1 /\ Holds(p, 8, write_le32(i))
    BY <2>3, WriteRead32
  <2>5. j \in 0 .. U32 - 1 /\ Holds(p, 12, write_le32(j))
    BY <2>3, WriteRead32
  <2>6. PayloadOf(type, p) = m
    BY <1>3, SwitchRegister
  <2> HIDE DEF i, j
  <2>7. write_le32(i) \in Seq(Bytes) /\ Len(write_le32(i)) = 4 /\ write_le32(j) \in Seq(Bytes)
    BY <2>4, <2>5, Write32
  <2>8. Holds(p, 8 + Len(write_le32(i)), write_le32(j))
    BY <2>5, <2>7
  <2>9. Holds(p, 8, write_le32(i) \o write_le32(j))
    BY <2>4, <2>7, <2>8, HoldsConcat
  <2>10. PayloadBytes(REGISTER_PROCESS, m) = write_le32(i) \o write_le32(j)
    <3>1. m.pid = i /\ m.slot = j
      OBVIOUS
    <3> QED
      BY <3>1, SwitchRegister, Zenon
  <2>11. m \in Payloads(REGISTER_PROCESS)
    BY <2>4, <2>5, SwitchRegister DEF Unsigned
  <2> QED
    BY <1>3, <2>6, <2>9, <2>10, <2>11, Zenon
<1>4. CASE type \notin {SET_TIME, SET_SEED, REGISTER_PROCESS}
  BY <1>4, SwitchNone DEF Holds
<1> QED
  BY <1>1, <1>2, <1>3, <1>4, TypeCases

-----------------------------------------------------------------------------
(* Frames.                                                                 *)

\* The eight bytes in front of a payload of len bytes.
Header(type, flags, len) == <<SBP_VERSION, type>> \o write_le16(flags) \o write_le32(len)

\* A header is eight bytes, and what stands where in it.
LEMMA HeaderShape ==
    ASSUME NEW type \in Types, NEW flags \in Unsigned(U16), NEW len \in 0 .. U32 - 1
    PROVE  /\ Header(type, flags, len) \in Seq(Bytes)
           /\ Len(Header(type, flags, len)) = 8
           /\ \A p : Holds(p, 0, Header(type, flags, len)) <=>
                        /\ p[1] = SBP_VERSION /\ p[2] = type
                        /\ Holds(p, 2, write_le16(flags))
                        /\ Holds(p, 4, write_le32(len))
<1> DEFINE a == <<SBP_VERSION, type>>  b == write_le16(flags)  c == write_le32(len)
<1>1. SBP_VERSION \in Bytes /\ type \in Bytes
  BY ByteAssumption DEF Bytes, Types, HELLO, REGISTER_PROCESS, SBP_VERSION
<1>2. a \in Seq(Bytes) /\ Len(a) = 2 /\ a[1] = SBP_VERSION /\ a[2] = type
  BY <1>1
<1>3. b \in Seq(Bytes) /\ Len(b) = 2
  BY Write16 DEF Unsigned
<1>4. c \in Seq(Bytes) /\ Len(c) = 4
  BY Write32
<1>5. Header(type, flags, len) = a \o b \o c
  BY DEF Header
<1> HIDE DEF a, b, c
<1>6. a \o b \in Seq(Bytes) /\ Len(a \o b) = Len(a) + Len(b)
  BY <1>2, <1>3, ConcatProperties, Zenon
<1>7. Len(a \o b) = 4
  BY <1>2, <1>3, <1>6
<1>8. a \o b \o c \in Seq(Bytes) /\ Len(a \o b \o c) = Len(a \o b) + Len(c)
  BY <1>4, <1>6, ConcatProperties, Zenon
<1>9. Len(a \o b \o c) = 8
  BY <1>4, <1>7, <1>8
<1>10. ASSUME NEW p
       PROVE  Holds(p, 0, a \o b \o c) <=>
                 /\ p[1] = SBP_VERSION /\ p[2] = type
                 /\ Holds(p, 2, b)
                 /\ Holds(p, 4, c)
  <2>1. 0 \in Nat /\ 0 + Len(a \o b) = 4 /\ 0 + Len(a) = 2
    BY <1>2, <1>7
  <2>2. Holds(p, 0, a \o b \o c) <=> (Holds(p, 0, a \o b) /\ Holds(p, 4, c))
    <3>1. Holds(p, 0, a \o b \o c)
            <=> (Holds(p, 0, a \o b) /\ Holds(p, 0 + Len(a \o b), c))
      BY <1>4, <1>6, <2>1, HoldsConcat, Zenon
    <3> QED
      BY <2>1, <3>1, Zenon
  <2>3. Holds(p, 0, a \o b) <=> (Holds(p, 0, a) /\ Holds(p, 2, b))
    BY <1>2, <1>3, <2>1, HoldsConcat
  <2>4. Holds(p, 0, a) <=> (p[1] = SBP_VERSION /\ p[2] = type)
    BY <1>2 DEF Holds
  <2> QED
    BY <2>2, <2>3, <2>4, Zenon
<1> QED
  BY <1>5, <1>8, <1>9, <1>10, Zenon DEF b, c

\* Every payload's length fits into its field.
LEMMA LengthField ==
    ASSUME NEW type \in Types
    PROVE  /\ sbp_payload_len_for_type(type) \in 0 .. SBP_MAX_PAYLOAD
           /\ sbp_payload_len_for_type(type) \in 0 .. U32 - 1
<1>1. sbp_payload_len_for_type(type) \in {0, 8, 12}
  BY TypeCases, SwitchSetTime, SwitchSetSeed, SwitchRegister, SwitchNone, Zenon
<1>2. U16 \in Nat /\ U16 >= 36
  BY ByteAssumption DEF U16
<1>3. U32 \in Nat /\ U32 >= U16
  BY <1>2 DEF U32
<1> QED
  BY <1>1, <1>2, <1>3 DEF SBP_MAX_PAYLOAD

\* A message is serialized: a header and its payload.
LEMMA FrameShape ==
    ASSUME NEW msg, Message(msg)
    PROVE  LET len == sbp_payload_len_for_type(msg.type)
               h == Header(msg.type, msg.flags, len)
               b == PayloadBytes(msg.type, msg.payload)
           IN  /\ sbp_serialize_message(msg, SBP_MAX_FRAME_SIZE).status = "OK"
               /\ FrameOf(msg) \in Seq(Bytes)
               /\ Len(FrameOf(msg)) = 8 + len
               /\ \A p : Holds(p, 0, FrameOf(msg)) <=> (Holds(p, 0, h) /\ Holds(p, 8, b))
<1> DEFINE len == sbp_payload_len_for_type(msg.type)
           h == Header(msg.type, msg.flags, len)
           b == PayloadBytes(msg.type, msg.payload)
<1>1. /\ msg.type \in Types /\ msg.version = SBP_VERSION
      /\ msg.flags \in Unsigned(U16) /\ msg.payload \in Payloads(msg.type)
  BY DEF Message, Types
<1>2. len \in 0 .. SBP_MAX_PAYLOAD /\ len \in 0 .. U32 - 1
  BY <1>1, LengthField
<1>3. b \in Seq(Bytes) /\ Len(b) = len
  BY <1>1, PayloadLength
<1>4. h \in Seq(Bytes) /\ Len(h) = 8
  BY <1>1, <1>2, HeaderShape
<1>5. sbp_serialize_message(msg, SBP_MAX_FRAME_SIZE) = [status |-> "OK", frame |-> h \o b]
  <2>1. sbp_serialize_message(msg, SBP_MAX_FRAME_SIZE)
          = sbp_encode_frame(SBP_VERSION, msg.type, msg.flags, b, SBP_MAX_FRAME_SIZE)
    BY <1>1 DEF sbp_serialize_message, Types
  <2>2. ~(Len(b) > SBP_MAX_PAYLOAD) /\ ~(SBP_MAX_FRAME_SIZE < SBP_HEADER_SIZE + Len(b))
    <3> HIDE DEF b, len
    <3>1. SBP_MAX_PAYLOAD \in Int
      BY Widths DEF SBP_MAX_PAYLOAD
    <3> QED
      BY <1>2, <1>3, <3>1 DEF SBP_MAX_FRAME_SIZE, SBP_HEADER_SIZE
  <2>3. sbp_encode_frame(SBP_VERSION, msg.type, msg.flags, b, SBP_MAX_FRAME_SIZE)
          = [status |-> "OK", frame |-> <<SBP_VERSION, msg.type>> \o write_le16(msg.flags)
                                        \o write_le32(Len(b)) \o b]
    <3> HIDE DEF b
    <3> QED
      BY <2>2 DEF sbp_encode_frame
  <2> QED
    BY <1>3, <2>1, <2>3, Zenon DEF Header
<1>6. FrameOf(msg) = h \o b
  BY <1>5 DEF FrameOf
<1> HIDE DEF h, b
<1>7. h \o b \in Seq(Bytes) /\ Len(h \o b) = Len(h) + Len(b)
  BY <1>3, <1>4, ConcatProperties, Zenon
<1>8. Len(h \o b) = 8 + len
  BY <1>3, <1>4, <1>7
<1>9. ASSUME NEW p
      PROVE  Holds(p, 0, h \o b) <=> (Holds(p, 0, h) /\ Holds(p, 8, b))
  <2>1. 0 \in Nat /\ 0 + Len(h) = 8
    BY <1>4
  <2>2. Holds(p, 0, h \o b) <=> (Holds(p, 0, h) /\ Holds(p, 0 + Len(h), b))
    BY <1>3, <1>4, <2>1, HoldsConcat, Zenon
  <2> QED
    BY <2>1, <2>2, Zenon
<1>10. sbp_serialize_message(msg, SBP_MAX_FRAME_SIZE).status = "OK"
  BY <1>5
<1> QED
  BY <1>6, <1>7, <1>8, <1>9, <1>10, Zenon DEF h, b

\* What sbp_decode_frame reads where a message's header stands.
LEMMA HeaderRead ==
    ASSUME NEW type \in Types, NEW flags \in Unsigned(U16), NEW len \in 0 .. U32 - 1,
           NEW p, Holds(p, 0, Header(type, flags, len))
    PROVE  /\ p[1] = SBP_VERSION /\ p[2] = type
           /\ read_le16(p, 2) = flags
           /\ read_le32(p, 4) = len
<1>1. /\ p[1] = SBP_VERSION /\ p[2] = type
      /\ Holds(p, 2, write_le16(flags))
      /\ Holds(p, 4, write_le32(len))
  BY HeaderShape, Zenon
<1>2. read_le16(p, 2) = flags
  BY <1>1, ReadWritten16 DEF Unsigned
<1>3. read_le32(p, 4) = len
  BY <1>1, ReadWritten32
<1> QED
  BY <1>1, <1>2, <1>3

\* One whole frame gives the message it was made from.
LEMMA ReadOne ==
    ASSUME NEW msg, Message(msg), NEW s \in Seq(Bytes),
           Len(s) = Len(FrameOf(msg)), Holds(s, 0, FrameOf(msg))
    PROVE  /\ sbp_deserialize_message(s).status = "OK"
           /\ sbp_deserialize_message(s).msg = msg
<1> DEFINE len == sbp_payload_len_for_type(msg.type)
<1>1. /\ msg.type \in Types /\ msg.version = SBP_VERSION
      /\ msg.flags \in Unsigned(U16) /\ msg.payload \in Payloads(msg.type)
  BY DEF Message, Types
<1>2. len \in 0 .. SBP_MAX_PAYLOAD /\ len \in 0 .. U32 - 1
  BY <1>1, LengthField
<1>3. /\ Len(s) = 8 + len
      /\ Holds(s, 0, Header(msg.type, msg.flags, len))
      /\ Holds(s, 8, PayloadBytes(msg.type, msg.payload))
  BY FrameShape, Zenon
<1>4. /\ s[1] = SBP_VERSION /\ s[2] = msg.type
      /\ read_le16(s, 2) = msg.flags
      /\ read_le32(s, 4) = len
  <2> HIDE DEF len
  <2> QED
    BY <1>1, <1>2, <1>3, HeaderRead
<1>5. PayloadOf(msg.type, s) = msg.payload
  BY <1>1, <1>3, PayloadRead, Zenon
<1> DEFINE h == [status |-> "OK", version |-> SBP_VERSION, type |-> msg.type,
                 flags |-> msg.flags, payload_len |-> len]
<1>6. sbp_decode_frame(s) = h
  <2> HIDE DEF len
  <2>1. SBP_HEADER_SIZE = 8 /\ SBP_MAX_PAYLOAD \in Int
    BY Widths DEF SBP_HEADER_SIZE, SBP_MAX_PAYLOAD
  <2>2. ~(Len(s) < SBP_HEADER_SIZE) /\ ~(len > SBP_MAX_PAYLOAD) /\ LengthFits(s, len)
    BY <1>2, <1>3, <2>1 DEF LengthFits
  <2> QED
    BY <1>4, <2>2, Zenon DEF sbp_decode_frame
<1>7. sbp_deserialize_message(s) =
        [status |-> "OK",
         msg |-> [type |-> msg.type, version |-> SBP_VERSION, flags |-> msg.flags,
                  payload |-> msg.payload]]
  <2>1. h.status = "OK" /\ h.version = SBP_VERSION /\ h.type = msg.type
        /\ h.flags = msg.flags /\ h.payload_len = len
    OBVIOUS
  <2> HIDE DEF h, len
  <2> QED
    BY <1>1, <1>5, <1>6, <2>1 DEF sbp_deserialize_message, len, Types
<1>8. msg = [type |-> msg.type, version |-> SBP_VERSION, flags |-> msg.flags,
             payload |-> msg.payload]
  BY <1>1 DEF Message
<1> QED
  BY <1>7, <1>8

\* A part of a frame, or a frame and more, is no frame.
LEMMA ReadOther ==
    ASSUME NEW msg, Message(msg), NEW s \in Seq(Bytes),
           Len(s) # Len(FrameOf(msg)),
           \A k \in 1 .. Len(s) : k <= Len(FrameOf(msg)) => s[k] = FrameOf(msg)[k]
    PROVE  sbp_deserialize_message(s).status # "OK"
<1> DEFINE len == sbp_payload_len_for_type(msg.type)
           h == Header(msg.type, msg.flags, len)
           f == FrameOf(msg)
<1>1. /\ msg.type \in Types /\ msg.version = SBP_VERSION
      /\ msg.flags \in Unsigned(U16) /\ msg.payload \in Payloads(msg.type)
  BY DEF Message, Types
<1>2. len \in 0 .. SBP_MAX_PAYLOAD /\ len \in 0 .. U32 - 1
  BY <1>1, LengthField
<1>3. Len(f) = 8 + len /\ f \in Seq(Bytes) /\ (Holds(f, 0, f) => Holds(f, 0, h))
  BY FrameShape, Zenon
<1>4. h \in Seq(Bytes) /\ Len(h) = 8
  BY <1>1, <1>2, HeaderShape
<1> HIDE DEF len, h, f
<1>5. Len(s) \in Nat /\ Len(s) # Len(f)
  BY LenProperties DEF f
<1>6. sbp_decode_frame(s) = Error("INVALID_LENGTH")
  <2>1. CASE Len(s) < 8
    BY <2>1 DEF sbp_decode_frame, SBP_HEADER_SIZE
  <2>2. CASE Len(s) >= 8
    <3>1. Holds(f, 0, h)
      BY <1>3 DEF Holds
    <3>2. Holds(s, 0, h)
      <4>1. SUFFICES ASSUME NEW k \in 1 .. 8 PROVE s[k] = h[k]
        BY <1>4 DEF Holds
      <4>2. f[k] = h[k]
        BY <1>4, <3>1 DEF Holds
      <4>3. k \in 1 .. Len(s) /\ k <= Len(f)
        BY <1>2, <1>3, <1>5, <2>2
      <4>4. s[k] = f[k]
        BY <4>3 DEF f
      <4> QED
        BY <4>2, <4>4
    <3>3. read_le32(s, 4) = len
      BY <1>1, <1>2, <3>2, HeaderRead DEF h
    <3>4. ~LengthFits(s, len)
      BY <1>3, <1>5 DEF LengthFits, SBP_HEADER_SIZE
    <3> QED
      BY <3>3, <3>4, Zenon DEF sbp_decode_frame
  <2> QED
    BY <1>5, <2>1, <2>2
<1> QED
  BY <1>6 DEF sbp_deserialize_message, Error

\* Bytes that deserialize are the frame of the message they give.
LEMMA Accepted ==
    ASSUME NEW s \in Seq(Bytes), sbp_deserialize_message(s).status = "OK"
    PROVE  /\ Message(sbp_deserialize_message(s).msg)
           /\ s = FrameOf(sbp_deserialize_message(s).msg)
<1> DEFINE len == read_le32(s, 4)
           msg == [type |-> s[2], version |-> s[1], flags |-> read_le16(s, 2),
                   payload |-> PayloadOf(s[2], s)]
<1>1. /\ Len(s) \in Nat
      /\ \A k \in 1 .. Len(s) : s[k] \in Bytes
  BY LenProperties
<1>2. sbp_decode_frame(s).status = "OK"
  BY Zenon DEF sbp_deserialize_message
<1>3. /\ ~(Len(s) < SBP_HEADER_SIZE)
      /\ LengthFits(s, len)
      /\ sbp_decode_frame(s) = [status |-> "OK", version |-> s[1], type |-> s[2],
                                flags |-> read_le16(s, 2), payload_len |-> len]
  BY <1>2 DEF sbp_decode_frame, Error
<1>4. /\ s[1] = SBP_VERSION
      /\ s[2] \in Types
      /\ len = sbp_payload_len_for_type(s[2])
      /\ sbp_deserialize_message(s) = [status |-> "OK", msg |-> msg]
  BY <1>3 DEF sbp_deserialize_message, Error, Types
<1>5. Len(s) = 8 + len /\ Len(s) >= 8
  BY <1>1, <1>3 DEF LengthFits, SBP_HEADER_SIZE
<1>6. HasBytes(s, 2, 2) /\ HasBytes(s, 4, 4)
  BY <1>1, <1>5 DEF HasBytes
<1>7. len \in Nat
  BY <1>4, LengthField
<1>8. HasBytes(s, 8, len)
  <2> HIDE DEF len
  <2>1. SUFFICES ASSUME NEW k \in 1 .. len PROVE s[8 + k] \in Bytes
    BY DEF HasBytes
  <2>2. 8 + k \in 1 .. Len(s)
    BY <1>5, <1>7
  <2> QED
    BY <1>1, <2>2
<1>9. read_le16(s, 2) \in Unsigned(U16) /\ Holds(s, 2, write_le16(read_le16(s, 2)))
  BY <1>6, WriteRead16 DEF Unsigned
<1>10. len \in 0 .. U32 - 1 /\ Holds(s, 4, write_le32(len))
  BY <1>6, WriteRead32
<1>11. /\ PayloadOf(s[2], s) \in Payloads(s[2])
       /\ Holds(s, 8, PayloadBytes(s[2], PayloadOf(s[2], s)))
  BY <1>4, <1>8, PayloadBack, Zenon
<1>12. Message(msg)
  BY <1>4, <1>9, <1>11 DEF Message, Types
<1>13. Holds(s, 0, Header(msg.type, msg.flags, len))
  <2>1. msg.type = s[2] /\ msg.flags = read_le16(s, 2)
    OBVIOUS
  <2> HIDE DEF msg, len
  <2> QED
    BY <1>4, <1>9, <1>10, <2>1, HeaderShape
<1>14. Holds(s, 0, FrameOf(msg)) /\ Len(FrameOf(msg)) = Len(s) /\ FrameOf(msg) \in Seq(Bytes)
  <2>1. msg.type = s[2] /\ msg.payload = PayloadOf(s[2], s)
    OBVIOUS
  <2> HIDE DEF msg, len
  <2> QED
    BY <1>4, <1>5, <1>11, <1>12, <1>13, <2>1, FrameShape, Zenon
<1> HIDE DEF msg
<1>15. s = FrameOf(msg)
  <2>1. \A k \in 1 .. Len(s) : s[k] = FrameOf(msg)[k]
    BY <1>14 DEF Holds
  <2> QED
    BY <1>14, <2>1, SeqEqual, Zenon
<1>16. sbp_deserialize_message(s).msg = msg
  BY <1>4
<1> QED
  BY <1>12, <1>15, <1>16

\* Two messages whose frames agree as far as both go are the same message: no
\* frame is the beginning of another, so that a stream of frames can be taken
\* apart in one way only (sbp.c:72-162).
THEOREM PrefixFree ==
    ASSUME NEW m1, NEW m2, Message(m1), Message(m2),
           \A k \in 1 .. Len(FrameOf(m1)) :
              k <= Len(FrameOf(m2)) => FrameOf(m1)[k] = FrameOf(m2)[k]
    PROVE  m1 = m2
<1> DEFINE f == FrameOf(m1)  g == FrameOf(m2)
<1>1. f \in Seq(Bytes) /\ g \in Seq(Bytes)
  BY FrameShape, Zenon
<1>2. Len(f) \in Nat /\ Len(g) \in Nat
  BY <1>1, LenProperties
<1>3. Holds(f, 0, f)
  BY <1>2 DEF Holds
<1>4. sbp_deserialize_message(f).status = "OK" /\ sbp_deserialize_message(f).msg = m1
  BY <1>1, <1>3, ReadOne, Zenon
<1>5. CASE Len(f) = Len(g)
  <2>1. Holds(f, 0, g)
    BY <1>2, <1>5 DEF Holds
  <2>2. sbp_deserialize_message(f).msg = m2
    BY <1>1, <1>5, <2>1, ReadOne, Zenon
  <2> QED
    BY <1>4, <2>2, Zenon
<1>6. CASE Len(f) # Len(g)
  <2>1. sbp_deserialize_message(f).status # "OK"
    BY <1>1, <1>6, ReadOther, Zenon
  <2> QED
    BY <1>4, <2>1, Zenon
<1> QED
  BY <1>5, <1>6

-----------------------------------------------------------------------------
(* The stream and its one read.                                            *)

\* Before the read the stream begins with the frame of the first message.
StreamStarts ==
    IF sent = <<>> THEN stream = <<>>
    ELSE Len(FrameOf(sent[1])) <= Len(stream) /\ Holds(stream, 0, FrameOf(sent[1]))

\* The inductive invariant.
SbpInv ==
    /\ sent \in Seq(Outgoing)
    /\ stream \in Seq(Bytes)
    /\ frame \in Seq(Bytes)
    /\ frame = <<>> => StreamStarts
    /\ got \in {Error("NOTHING"), sbp_deserialize_message(frame)}

\* A message that is sent has a frame.
LEMMA OutgoingFrame ==
    ASSUME NEW msg \in Outgoing
    PROVE  /\ Message(msg)
           /\ FrameOf(msg) \in Seq(Bytes)
           /\ Len(FrameOf(msg)) \in Nat
<1>1. Message(msg)
  BY OutgoingAssumption
<1>2. FrameOf(msg) \in Seq(Bytes)
  BY <1>1, FrameShape, Zenon
<1> QED
  BY <1>1, <1>2, LenProperties

LEMMA SendKeeps ==
    ASSUME SbpInv, NEW msg \in Outgoing, Send(msg)
    PROVE  SbpInv'
<1> DEFINE f == FrameOf(msg)
<1>1. f \in Seq(Bytes) /\ Len(f) \in Nat
  BY OutgoingFrame
<1>2. /\ sent \in Seq(Outgoing) /\ stream \in Seq(Bytes) /\ frame = <<>> /\ StreamStarts
      /\ sent' = Append(sent, msg) /\ stream' = stream \o f
      /\ frame' = frame /\ got' = got
  BY DEF SbpInv, Send
<1> HIDE DEF f
<1>3. /\ stream' \in Seq(Bytes)
      /\ Len(stream') = Len(stream) + Len(f)
      /\ Len(stream) \in Nat
      /\ \A i \in 1 .. Len(stream) + Len(f) :
            stream'[i] = IF i <= Len(stream) THEN stream[i] ELSE f[i - Len(stream)]
  BY <1>1, <1>2, ConcatProperties, LenProperties
<1>4. /\ sent' \in Seq(Outgoing) /\ sent' # <<>>
      /\ Len(sent) \in Nat
      /\ \A i \in 1 .. Len(sent) : sent'[i] = sent[i]
      /\ sent'[Len(sent) + 1] = msg
  <2> DEFINE a == Append(sent, msg)
  <2>1. /\ a \in Seq(Outgoing) /\ a # <<>>
        /\ \A i \in 1 .. Len(sent) : a[i] = sent[i]
        /\ a[Len(sent) + 1] = msg
    <3>1. sent \in Seq(Outgoing)
      BY <1>2
    <3> QED
      BY <3>1, AppendProperties
  <2> HIDE DEF a
  <2>2. sent' = a
    BY <1>2, Zenon DEF a
  <2>3. Len(sent) \in Nat
    BY <1>2, LenProperties, Zenon
  <2> QED
    BY <2>1, <2>2, <2>3, Zenon
<1>5. CASE sent = <<>>
  <2>1. sent'[1] = msg /\ stream = <<>>
    BY <1>2, <1>4, <1>5 DEF StreamStarts
  <2>2. Len(f) <= Len(stream') /\ Holds(stream', 0, f)
    BY <1>1, <1>3, <2>1 DEF Holds
  <2>3. FrameOf(sent'[1]) = f
    BY <2>1 DEF f
  <2> QED
    BY <1>2, <1>3, <1>4, <2>2, <2>3 DEF SbpInv, StreamStarts
<1>6. CASE sent # <<>>
  <2> DEFINE g == FrameOf(sent[1])
  <2>1. 1 \in 1 .. Len(sent) /\ sent'[1] = sent[1] /\ sent[1] \in Outgoing
    BY <1>2, <1>4, <1>6
  <2>2. g \in Seq(Bytes) /\ Len(g) \in Nat /\ Len(g) <= Len(stream) /\ Holds(stream, 0, g)
    BY <1>2, <1>6, <2>1, OutgoingFrame DEF StreamStarts
  <2>3. FrameOf(sent'[1]) = g
    BY <2>1
  <2> HIDE DEF g
  <2>4. Len(g) <= Len(stream')
    BY <1>1, <1>3, <2>2
  <2>5. Holds(stream', 0, g)
    <3>1. SUFFICES ASSUME NEW k \in 1 .. Len(g) PROVE stream'[0 + k] = g[k]
      BY DEF Holds
    <3>2. k \in 1 .. Len(stream) + Len(f) /\ k <= Len(stream) /\ 0 + k = k
      BY <1>1, <1>3, <2>2
    <3>3. stream'[k] = stream[k]
      BY <1>3, <3>2, Zenon
    <3>4. stream[0 + k] = g[k]
      BY <2>2, Zenon DEF Holds
    <3> QED
      BY <3>2, <3>3, <3>4, Zenon
  <2> QED
    BY <1>2, <1>3, <1>4, <2>3, <2>4, <2>5 DEF SbpInv, StreamStarts
<1> QED
  BY <1>5, <1>6

\* What a read takes off the stream, and what it leaves.
LEMMA ReadTakes ==
    ASSUME SbpInv, NEW n \in 1 .. Len(stream), Read(n)
    PROVE  /\ frame' \in Seq(Bytes)
           /\ Len(frame') = n
           /\ \A k \in 1 .. n : frame'[k] = stream[k]
           /\ stream' \in Seq(Bytes)
           /\ frame' # <<>>
<1>1. stream \in Seq(Bytes) /\ frame' = SubSeq(stream, 1, n)
      /\ stream' = SubSeq(stream, n + 1, Len(stream))
  BY DEF SbpInv, Read
<1>2. Len(stream) \in Nat /\ \A i \in 1 .. Len(stream) : stream[i] \in Bytes
  BY <1>1, LenProperties
<1>3. /\ frame' \in Seq(Bytes)
      /\ Len(frame') = n
      /\ \A k \in 1 .. n : frame'[k] = stream[k]
  BY <1>1, <1>2, SubSeqProperties
<1>4. stream' \in Seq(Bytes)
  BY <1>1, <1>2, SubSeqProperties
<1> QED
  BY <1>3, <1>4

LEMMA ReadKeeps ==
    ASSUME SbpInv, NEW n \in 1 .. Len(stream), Read(n)
    PROVE  SbpInv'
<1>1. frame' \in Seq(Bytes) /\ stream' \in Seq(Bytes) /\ frame' # <<>>
  BY ReadTakes
<1>2. sent' = sent /\ sent \in Seq(Outgoing) /\ got' = sbp_deserialize_message(frame')
  BY DEF SbpInv, Read
<1> QED
  BY <1>1, <1>2 DEF SbpInv

LEMMA GarbleKeeps ==
    ASSUME SbpInv, NEW k \in 1 .. Len(frame), NEW b \in 0 .. BYTE - 1, Garble(k, b)
    PROVE  SbpInv'
<1>1. /\ frame \in Seq(Bytes) /\ b \in Bytes
      /\ frame' = [frame EXCEPT ![k] = b]
      /\ sent' = sent /\ sent \in Seq(Outgoing)
      /\ stream' = stream /\ stream \in Seq(Bytes)
      /\ got' = sbp_deserialize_message(frame')
  BY DEF SbpInv, Garble, Bytes
<1>2. frame' \in Seq(Bytes) /\ Len(frame') = Len(frame)
  <2>1. /\ [frame EXCEPT ![k] = b] \in Seq(Bytes)
        /\ Len([frame EXCEPT ![k] = b]) = Len(frame)
    BY <1>1, ExceptSeq
  <2> QED
    BY <1>1, <2>1, Zenon
<1>3. frame' # <<>>
  BY <1>1, <1>2
<1> QED
  BY <1>1, <1>2, <1>3 DEF SbpInv

\* The invariant of the stream: its bytes are bytes, what is not read yet begins
\* with the first message's frame, and the result belongs to the bytes that were
\* read (sbp.c:100-217, main.c:108-119).
THEOREM Invariance == Spec => []SbpInv
<1>1. Init => SbpInv
  BY DEF Init, SbpInv, StreamStarts
<1>2. ASSUME SbpInv, [Next]_vars PROVE SbpInv'
  <2>1. CASE \E msg \in Outgoing : Send(msg)
    BY <1>2, <2>1, SendKeeps
  <2>2. CASE \E n \in 1 .. Len(stream) : Read(n)
    BY <1>2, <2>2, ReadKeeps
  <2>3. CASE \E k \in 1 .. Len(frame), b \in 0 .. BYTE - 1 : Garble(k, b)
    BY <1>2, <2>3, GarbleKeeps
  <2>4. CASE UNCHANGED vars
    BY <1>2, <2>4 DEF SbpInv, StreamStarts, vars
  <2> QED
    BY <1>2, <2>1, <2>2, <2>3, <2>4 DEF Next
<1> QED
  BY <1>1, <1>2, PTL DEF Spec

\* Whatever bytes a read took, garbled or not: if they deserialize, they are the
\* frame of the message they give, to the byte (sbp.c:132-217).
THEOREM CanonicalHolds == Spec => []Canonical
<1>1. ASSUME SbpInv PROVE Canonical
  <2>1. SUFFICES ASSUME got.status = "OK" PROVE frame = FrameOf(got.msg)
    BY DEF Canonical
  <2>2. got # Error("NOTHING")
    BY <2>1 DEF Error
  <2>3. frame \in Seq(Bytes) /\ got = sbp_deserialize_message(frame)
    BY <1>1, <2>2 DEF SbpInv
  <2> QED
    BY <2>1, <2>3, Accepted, Zenon
<1> QED
  BY <1>1, Invariance, PTL

\* A read is accepted exactly if it took one whole frame, and then gives the
\* message that was sent: for every message the structs of sbp.h can hold, every
\* stream of them and every length of the read (sbp.c:100-130, main.c:108-119).
THEOREM OneReadOneFrameHolds == Spec => OneReadOneFrame
<1> DEFINE Answer(n) ==
        IF n = Len(FrameOf(sent[1]))
        THEN got'.status = "OK" /\ got'.msg = sent[1]
        ELSE got'.status # "OK"
<1>1. ASSUME SbpInv, NEW n \in 1 .. Len(stream), Read(n) PROVE Answer(n)
  <2> DEFINE f == FrameOf(sent[1])
  <2>1. /\ frame' \in Seq(Bytes)
        /\ Len(frame') = n
        /\ \A k \in 1 .. n : frame'[k] = stream[k]
    BY <1>1, ReadTakes
  <2>2. got' = sbp_deserialize_message(frame')
    BY <1>1 DEF Read
  <2>3. sent # <<>> /\ sent \in Seq(Outgoing) /\ Len(f) <= Len(stream) /\ Holds(stream, 0, f)
    BY <1>1 DEF SbpInv, StreamStarts, Read
  <2>4. sent[1] \in Outgoing
    BY <2>3
  <2>5. Message(sent[1]) /\ f \in Seq(Bytes) /\ Len(f) \in Nat
    BY <2>4, OutgoingFrame
  <2>6. \A k \in 1 .. Len(f) : stream[k] = f[k]
    BY <2>3, <2>5 DEF Holds
  <2> HIDE DEF f
  <2>7. CASE n = Len(f)
    <3>1. Holds(frame', 0, f) /\ Len(frame') = Len(f)
      BY <2>1, <2>5, <2>6, <2>7 DEF Holds
    <3>2. /\ sbp_deserialize_message(frame').status = "OK"
          /\ sbp_deserialize_message(frame').msg = sent[1]
      BY <2>1, <2>5, <3>1, ReadOne, Zenon DEF f
    <3> QED
      BY <2>2, <2>7, <3>2, Zenon DEF f
  <2>8. CASE n # Len(f)
    <3>1. /\ Len(frame') # Len(f)
          /\ \A k \in 1 .. Len(frame') : k <= Len(f) => frame'[k] = f[k]
      BY <2>1, <2>5, <2>6, <2>8
    <3>2. sbp_deserialize_message(frame').status # "OK"
      BY <2>1, <2>5, <3>1, ReadOther, Zenon DEF f
    <3> QED
      BY <2>2, <2>8, <3>2, Zenon DEF f
  <2> QED
    BY <2>7, <2>8
<1>2. SbpInv /\ [Next]_vars => [\A n \in 1 .. Len(stream) : Read(n) => Answer(n)]_vars
  BY <1>1
<1> QED
  BY <1>2, Invariance, PTL DEF Spec, OneReadOneFrame
=============================================================================
