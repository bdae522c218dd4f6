--------------------------- MODULE SeqlockProofs ---------------------------
(***************************************************************************)
(* Proofs about Seqlock, for every number of readers, every width of       *)
(* time_seq and every set of times.                                        *)
(***************************************************************************)
EXTENDS Seqlock, TimespecProofs

-----------------------------------------------------------------------------
(* Arithmetic modulo the width of time_seq. *)

\* time_seq, truncated to its width, has the parity of the untruncated count:
\* the width is even.
LEMMA Parity ==
    ASSUME NEW n \in Nat
    PROVE  (n % SEQ_MOD) % 2 = n % 2
  <1> DEFINE q == n \div SEQ_MOD
             t == n % SEQ_MOD
             h == SEQ_MOD \div 2
  <1>1. /\ q \in Nat /\ t \in 0 .. SEQ_MOD - 1
        /\ n = SEQ_MOD * q + t
    BY Division, SeqAssumption
  <1>2. h \in Nat /\ SEQ_MOD = 2 * h
    BY SeqAssumption
  <1>3. t \div 2 \in Nat /\ t % 2 \in 0 .. 1 /\ t = 2 * (t \div 2) + (t % 2)
    BY <1>1, Division, SeqAssumption
  <1> DEFINE k == h * q + (t \div 2)
  <1>4. k \in Nat /\ n = 2 * k + (t % 2)
    <2> HIDE DEF q, t, h
    <2>1. h * q \in Nat /\ SEQ_MOD * q = 2 * (h * q)
      BY <1>1, <1>2
    <2> DEFINE a == h * q
               b == t \div 2
               c == t % 2
    <2>2. a \in Nat /\ b \in Nat /\ c \in Nat /\ n = 2 * a + t /\ t = 2 * b + c
      BY <1>1, <1>3, <2>1
    <2> HIDE DEF a, b, c
    <2>3. a + b \in Nat /\ n = 2 * (a + b) + c
      BY <2>2
    <2> QED BY <2>3 DEF a, b, c
  <1>5. (2 * k + (t % 2)) % 2 = t % 2
    BY <1>3, <1>4, RemainderUnique
  <1> QED BY <1>4, <1>5

\* Adding d to the truncated counter and truncating again is adding d to the
\* count.
LEMMA Advance ==
    ASSUME NEW n \in Nat, NEW d \in Nat
    PROVE  ((n % SEQ_MOD) + d) % SEQ_MOD = (n + d) % SEQ_MOD
  <1> DEFINE q == n \div SEQ_MOD
             t == n % SEQ_MOD
             p == (t + d) \div SEQ_MOD
             u == (t + d) % SEQ_MOD
  <1>1. q \in Nat /\ t \in Nat /\ n = SEQ_MOD * q + t
    BY Division, SeqAssumption
  <1>2. p \in Nat /\ u \in 0 .. SEQ_MOD - 1 /\ t + d = SEQ_MOD * p + u
    BY <1>1, Division, SeqAssumption
  <1>3. q + p \in Nat /\ n + d = SEQ_MOD * (q + p) + u
    BY <1>1, <1>2, SeqAssumption
  <1>4. (SEQ_MOD * (q + p) + u) % SEQ_MOD = u
    BY <1>2, <1>3, RemainderUnique, SeqAssumption
  <1> QED BY <1>3, <1>4

\* Two counts less than the width apart that truncate to the same value are
\* equal.
LEMMA SameCount ==
    ASSUME NEW a \in Nat, NEW b \in Nat, a <= b, b - a < SEQ_MOD,
           a % SEQ_MOD = b % SEQ_MOD
    PROVE  a = b
  <1> DEFINE qa == a \div SEQ_MOD
             qb == b \div SEQ_MOD
             t == a % SEQ_MOD
  <1>1. qa \in Nat /\ t \in 0 .. SEQ_MOD - 1 /\ a = SEQ_MOD * qa + t
    BY Division, SeqAssumption
  <1>2. qb \in Nat /\ b = SEQ_MOD * qb + t
    BY Division, SeqAssumption
  <1>3. CASE qa = qb
    BY <1>1, <1>2, <1>3
  <1>4. CASE qa + 1 <= qb
    <2>1. SEQ_MOD * (qa + 1) <= SEQ_MOD * qb
      BY <1>1, <1>2, <1>4, SeqAssumption
    <2> QED BY <2>1, <1>1, <1>2, SeqAssumption
  <1>5. CASE qb + 1 <= qa
    <2>1. SEQ_MOD * (qb + 1) <= SEQ_MOD * qa
      BY <1>1, <1>2, <1>5, SeqAssumption
    <2> QED BY <2>1, <1>1, <1>2, SeqAssumption
  <1> QED BY <1>1, <1>2, <1>3, <1>4, <1>5

-----------------------------------------------------------------------------
(* The inductive invariant. *)

\* The counter in shared memory is the count, truncated.
CounterInv == time_seq = stores % SEQ_MOD

\* Between two writes the words in shared memory are the published time; during
\* the copy the count is odd and the words already copied are the new ones.
WriterInv ==
    /\ wpc # "copy" => stores % 2 = 0 /\ virtual_time = published
    /\ wpc = "idle" => current = published
    /\ wpc = "odd" => wseq = stores % SEQ_MOD
    /\ wpc = "copy" =>
         /\ stores > 0
         /\ stores % 2 = 1
         /\ wseq = (stores - 1) % SEQ_MOD
         /\ \A w \in Words \ wleft : virtual_time[w] = current[w]

\* The time being written is the published one, ticked, or one that was set.
SourceInv ==
    wpc # "idle" => \/ \E d \in Deltas : current = ns_add(published, d)
                    \/ current \in SetTimes

\* A reader that is copying started at an even count; if no store happened
\* since, what it has copied so far is the published time.
ReaderInv ==
    \A r \in Readers : rpc[r] = "copy" =>
        /\ rstores[r] <= stores
        /\ rstores[r] % 2 = 0
        /\ seq1[r] = rstores[r] % SEQ_MOD
        /\ rstores[r] = stores =>
             \A w \in Words \ rleft[r] : snapshot[r][w] = published[w]

IInv == TypeOK /\ CounterInv /\ WriterInv /\ SourceInv /\ ReaderInv

\* The truncated count is a value of the counter.
LEMMA CounterType ==
    ASSUME NEW n \in Nat
    PROVE  n % SEQ_MOD \in 0 .. SEQ_MOD - 1
  BY Division, SeqAssumption

\* The initial states satisfy the invariant.
LEMMA InitIInv == Init => IInv
  <1> SUFFICES ASSUME Init PROVE IInv
    OBVIOUS
  <1>1. stores \in Nat /\ stores % 2 = 0
    BY SeqAssumption DEF Init
  <1>2. stores % SEQ_MOD \in 0 .. SEQ_MOD - 1
    BY <1>1, CounterType
  <1>3. 0 \in 0 .. SEQ_MOD - 1
    BY SeqAssumption
  <1>4. Epoch \in Timespec
    BY TimeAssumption DEF Epoch, Timespec
  <1>5. TypeOK
    BY <1>1, <1>2, <1>3, <1>4 DEF Init, TypeOK
  <1> QED BY <1>1, <1>5 DEF Init, IInv, CounterInv, WriterInv, SourceInv, ReaderInv

\* Writing a time that is a timespec and was ticked or set keeps the invariant.
LEMMA WriteTimeStep ==
    ASSUME IInv, NEW ts \in Timespec, write_time(ts),
           (\E d \in Deltas : ts = ns_add(current, d)) \/ ts \in SetTimes
    PROVE  IInv'
  <1>1. TypeOK'
    BY DEF IInv, TypeOK, write_time, shared, rvars
  <1>2. CounterInv' /\ WriterInv'
    BY DEF IInv, CounterInv, WriterInv, write_time, shared, rvars
  <1>3. SourceInv'
    BY DEF IInv, WriterInv, SourceInv, write_time
  <1>4. ReaderInv'
    BY DEF IInv, ReaderInv, write_time, shared, rvars
  <1> QED BY <1>1, <1>2, <1>3, <1>4 DEF IInv

\* The store that makes the counter odd keeps the invariant.
LEMMA StoreOddStep ==
    ASSUME IInv, StoreOdd
    PROVE  IInv'
  <1> USE DEF IInv
  <1>1. stores \in Nat /\ stores + 1 \in Nat /\ stores % 2 = 0
        /\ wseq = stores % SEQ_MOD
    BY DEF TypeOK, WriterInv, StoreOdd, OddSeq
  <1>2. time_seq' = (stores + 1) % SEQ_MOD
    BY <1>1, Advance DEF StoreOdd, OddSeq
  <1>3. time_seq' \in 0 .. SEQ_MOD - 1
    BY <1>1, <1>2, CounterType
  <1>4. (stores + 1) % 2 = 1
    BY <1>1
  <1>5. TypeOK'
    BY <1>1, <1>3 DEF TypeOK, StoreOdd, OddSeq, rvars
  <1>6. CounterInv'
    BY <1>2 DEF CounterInv, StoreOdd, OddSeq
  <1>7. WriterInv'
    BY <1>1, <1>4 DEF WriterInv, StoreOdd, OddSeq
  <1>8. SourceInv'
    BY DEF SourceInv, StoreOdd, OddSeq
  <1>9. ReaderInv'
    <2> SUFFICES ASSUME NEW r \in Readers, rpc[r] = "copy"
                 PROVE  /\ rstores[r] <= stores + 1
                        /\ rstores[r] % 2 = 0
                        /\ seq1[r] = rstores[r] % SEQ_MOD
                        /\ rstores[r] # stores + 1
      BY DEF ReaderInv, StoreOdd, OddSeq, rvars
    <2>1. rstores[r] \in Nat /\ rstores[r] <= stores /\ rstores[r] % 2 = 0
          /\ seq1[r] = rstores[r] % SEQ_MOD
      BY DEF ReaderInv, TypeOK
    <2> QED BY <1>1, <2>1
  <1> QED BY <1>5, <1>6, <1>7, <1>8, <1>9

\* Copying a word into shared memory keeps the invariant.
LEMMA CopyInStep ==
    ASSUME IInv, NEW w \in Words, CopyIn(w)
    PROVE  IInv'
  <1> USE DEF IInv
  <1>1. TypeOK'
    BY DEF TypeOK, CopyIn, rvars, Timespec, Words
  <1>2. CounterInv'
    BY DEF CounterInv, CopyIn
  <1>3. WriterInv'
    BY DEF WriterInv, CopyIn, TypeOK, Timespec, Words
  <1>4. SourceInv'
    BY DEF SourceInv, CopyIn
  <1>5. ReaderInv'
    BY DEF ReaderInv, CopyIn, rvars
  <1> QED BY <1>1, <1>2, <1>3, <1>4, <1>5

\* The store that makes the counter even keeps the invariant.
LEMMA StoreEvenStep ==
    ASSUME IInv, StoreEven
    PROVE  IInv'
  <1> USE DEF IInv
  <1>1. /\ stores - 1 \in Nat /\ stores + 1 \in Nat /\ stores \in Nat
        /\ stores % 2 = 1 /\ wseq = (stores - 1) % SEQ_MOD
        /\ virtual_time.sec = current.sec /\ virtual_time.nsec = current.nsec
    BY DEF TypeOK, WriterInv, StoreEven, EvenSeq, Copied, Words
  <1>2. time_seq' = (stores + 1) % SEQ_MOD
    <2>1. (((stores - 1) % SEQ_MOD) + 2) % SEQ_MOD = ((stores - 1) + 2) % SEQ_MOD
      BY <1>1, Advance
    <2>2. (stores - 1) + 2 = stores + 1
      BY <1>1
    <2> QED BY <1>1, <2>1, <2>2 DEF StoreEven, EvenSeq, Copied
  <1>3. time_seq' \in 0 .. SEQ_MOD - 1
    BY <1>1, <1>2, CounterType
  <1>4. (stores + 1) % 2 = 0
    BY <1>1
  <1>5. virtual_time = current
    BY <1>1 DEF TypeOK, Timespec
  <1>6. TypeOK'
    BY <1>1, <1>3 DEF TypeOK, StoreEven, EvenSeq, Copied, rvars
  <1>7. CounterInv'
    BY <1>2 DEF CounterInv, StoreEven, EvenSeq, Copied
  <1>8. WriterInv' /\ SourceInv'
    BY <1>4, <1>5 DEF WriterInv, SourceInv, StoreEven, EvenSeq, Copied
  <1>9. ReaderInv'
    <2> SUFFICES ASSUME NEW r \in Readers, rpc[r] = "copy"
                 PROVE  /\ rstores[r] <= stores + 1
                        /\ rstores[r] % 2 = 0
                        /\ seq1[r] = rstores[r] % SEQ_MOD
                        /\ rstores[r] # stores + 1
      BY DEF ReaderInv, StoreEven, EvenSeq, Copied, rvars
    <2>1. rstores[r] \in Nat /\ rstores[r] <= stores /\ rstores[r] % 2 = 0
          /\ seq1[r] = rstores[r] % SEQ_MOD
      BY DEF ReaderInv, TypeOK
    <2> QED BY <1>1, <2>1
  <1> QED BY <1>6, <1>7, <1>8, <1>9

\* Every step of a reader keeps the invariant.
LEMMA ReaderStepInv ==
    ASSUME IInv, NEW r \in Readers, Call(r) \/ ReaderStep(r)
    PROVE  IInv'
  <1> USE DEF IInv
  <1>1. CounterInv' /\ WriterInv' /\ SourceInv'
    BY DEF CounterInv, WriterInv, SourceInv, Call, ReaderStep, Yield, LoadSeq1,
           CopyOut, Return, Retry, shared, wvars
  <1>2. CASE Call(r) \/ Yield(r) \/ Return(r) \/ Retry(r)
    <2>1. TypeOK'
      BY <1>2 DEF TypeOK, Call, Yield, Return, Retry, shared, wvars
    <2>2. ReaderInv'
      BY <1>2 DEF ReaderInv, TypeOK, Call, Yield, Return, Retry, shared
    <2> QED BY <1>1, <2>1, <2>2
  <1>3. CASE LoadSeq1(r)
    <2>1. TypeOK'
      BY <1>3 DEF TypeOK, LoadSeq1, shared, wvars
    <2>2. stores % 2 = 0
      BY <1>3, Parity DEF LoadSeq1, CounterInv, TypeOK
    <2>3. ReaderInv'
      BY <1>3, <2>2 DEF ReaderInv, CounterInv, TypeOK, LoadSeq1
    <2> QED BY <1>1, <2>1, <2>3
  <1>4. ASSUME NEW w \in Words, CopyOut(r, w)
        PROVE  IInv'
    <2>1. virtual_time[w] \in Int
      BY DEF TypeOK, Timespec, Words
    <2>2. snapshot'[r] \in Timespec
      BY <1>4, <2>1 DEF CopyOut, TypeOK, Timespec, Words
    <2>3. TypeOK'
      BY <1>4, <2>2 DEF TypeOK, CopyOut, shared, wvars
    <2>4. ReaderInv'
      <3> SUFFICES ASSUME NEW q \in Readers, rpc[q] = "copy", rstores[q] = stores
                   PROVE  \A v \in Words \ rleft'[q] : snapshot'[q][v] = published[v]
        BY <1>4 DEF ReaderInv, CopyOut
      <3>1. CASE q # r
        BY <1>4, <3>1 DEF ReaderInv, CopyOut, TypeOK
      <3>2. CASE q = r
        <4>1. stores % 2 = 0
          BY <3>2, <1>4 DEF ReaderInv, CopyOut
        <4>2. virtual_time = published
          BY <4>1 DEF WriterInv, TypeOK
        <4>3. \A v \in Words \ rleft[r] : snapshot[r][v] = published[v]
          BY <3>2 DEF ReaderInv
        <4> QED BY <1>4, <3>2, <4>2, <4>3 DEF CopyOut, TypeOK, Timespec, Words
      <3> QED BY <3>1, <3>2
    <2> QED BY <1>1, <2>3, <2>4
  <1> QED BY <1>2, <1>3, <1>4 DEF ReaderStep

\* Every step keeps the invariant.
LEMMA NextIInv == IInv /\ [Next]_vars => IInv'
  <1> SUFFICES ASSUME IInv, [Next]_vars PROVE IInv'
    OBVIOUS
  <1>1. ASSUME NEW d \in Deltas, Tick(d) PROVE IInv'
    <2>1. ns_add(current, d) \in Timespec
      BY ns_addExact, TimeAssumption DEF IInv, TypeOK
    <2> QED BY <1>1, <2>1, WriteTimeStep DEF Tick
  <1>2. ASSUME NEW ts \in SetTimes, SetTime(ts) PROVE IInv'
    BY <1>2, WriteTimeStep, TimeAssumption DEF SetTime
  <1>3. CASE WriterStep
    BY <1>3, StoreOddStep, CopyInStep, StoreEvenStep DEF WriterStep
  <1>4. ASSUME NEW r \in Readers, Call(r) \/ ReaderStep(r) PROVE IInv'
    BY <1>4, ReaderStepInv
  <1>5. CASE UNCHANGED vars
    BY <1>5 DEF vars, shared, wvars, rvars, IInv, TypeOK, CounterInv, WriterInv,
                SourceInv, ReaderInv
  <1> QED BY <1>1, <1>2, <1>3, <1>4, <1>5 DEF Next

-----------------------------------------------------------------------------
(* The theorems. *)

\* The inductive invariant holds in every reachable state.
THEOREM Invariance == Spec => []IInv
  <1>1. Init => IInv
    BY InitIInv
  <1>2. IInv /\ [Next]_vars => IInv'
    BY NextIInv
  <1> QED BY <1>1, <1>2, PTL DEF Spec

\* Every variable of the clock, the counter's 32 bits included, keeps its type.
THEOREM TypeCorrect == Spec => []TypeOK
  <1>1. IInv => TypeOK
    BY DEF IInv
  <1> QED BY <1>1, Invariance, PTL

\* A read whose two loads of time_seq agree, and whose counter did not come
\* round in between, copied the published time.
LEMMA ReturnsPublished ==
    ASSUME IInv, NEW r \in Readers, rpc[r] = "copy", rleft[r] = {},
           SeqUnchanged(r), NotOvertaken(r)
    PROVE  snapshot[r] = published
  <1>1. /\ rstores[r] \in Nat /\ stores \in Nat /\ rstores[r] <= stores
        /\ rstores[r] % SEQ_MOD = stores % SEQ_MOD
        /\ stores - rstores[r] < SEQ_MOD
    BY DEF IInv, TypeOK, ReaderInv, CounterInv, SeqUnchanged, NotOvertaken
  <1>2. rstores[r] = stores
    BY <1>1, SameCount
  <1>3. snapshot[r].sec = published.sec /\ snapshot[r].nsec = published.nsec
    BY <1>2 DEF IInv, ReaderInv, Words
  <1> QED BY <1>3 DEF IInv, TypeOK, Timespec

\* No read returns a torn or replaced time, for any number of readers.
THEOREM NoTornReadHolds == Spec => []NoTornRead
  <1>1. IInv => NoTornRead
    BY ReturnsPublished DEF NoTornRead
  <1> QED BY <1>1, Invariance, PTL

\* With an even counter the words in shared memory are the published time.
THEOREM EvenMeansStableHolds == Spec => []EvenMeansStable
  <1>1. ASSUME IInv, time_seq % 2 = 0
        PROVE  virtual_time = published
    <2>1. stores % 2 = 0
      BY <1>1, Parity DEF IInv, TypeOK, CounterInv
    <2> QED BY <1>1, <2>1 DEF IInv, WriterInv
  <1>2. IInv => EvenMeansStable
    BY <1>1 DEF EvenMeansStable
  <1> QED BY <1>2, Invariance, PTL

\* Every tick adds its delta exactly and publishes a normalised timespec.
THEOREM TickAddsExactlyHolds == Spec => TickAddsExactly
  <1>1. ASSUME IInv, NEW d \in Deltas, Tick(d)
        PROVE  /\ Normalised(current')
               /\ TotalNs(current') = Int64(TotalNs(current) + d)
    <2>1. current \in Timespec /\ d \in Int
      BY <1>1, TimeAssumption DEF IInv, TypeOK
    <2>2. current' = ns_add(current, d)
      BY <1>1 DEF Tick, write_time
    <2> QED BY <2>1, <2>2, ns_addExact
  <1>2. IInv /\ [Next]_vars =>
          [\A d \in Deltas : Tick(d) =>
             /\ Normalised(current')
             /\ TotalNs(current') = Int64(TotalNs(current) + d)]_vars
    BY <1>1
  <1> QED BY <1>2, Invariance, PTL DEF Spec, TickAddsExactly

-----------------------------------------------------------------------------
(* The seqlock implements the atomic clock. *)

\* The invariant holds under the scheduling assumption as well, and so does the
\* assumption itself.
LEMMA TimelyInvariance == TimelySpec => [](IInv /\ NoWrap)
  <1>1. Init => IInv /\ NoWrap
    BY InitIInv DEF Init, NoWrap, NotOvertaken
  <1>2. IInv /\ NoWrap /\ [Next /\ NoWrap']_vars => IInv' /\ NoWrap'
    <2> SUFFICES ASSUME IInv, NoWrap, [Next /\ NoWrap']_vars
                 PROVE  IInv' /\ NoWrap'
      OBVIOUS
    <2>1. IInv'
      BY NextIInv
    <2>2. CASE UNCHANGED vars
      BY <2>1, <2>2 DEF NoWrap, NotOvertaken, vars, rvars
    <2> QED BY <2>1, <2>2
  <1> QED BY <1>1, <1>2, PTL DEF TimelySpec

\* Every step of the seqlock is a step of the atomic clock or leaves it alone.
LEMMA StepSimulation ==
    ASSUME IInv, NoWrap, [Next]_vars
    PROVE  [Atomic!Next]_(Atomic!vars)
  <1> USE DEF Atomic!Next, Atomic!vars
  <1>1. ASSUME NEW ts, write_time(ts)
        PROVE  UNCHANGED Atomic!vars
    BY <1>1 DEF write_time, rvars
  <1>2. CASE StoreOdd \/ \E w \in Words : CopyIn(w)
    BY <1>2 DEF StoreOdd, OddSeq, CopyIn, rvars
  <1>3. CASE StoreEven
    <2>1. UNCHANGED <<[r \in Readers |-> rpc[r] # "idle"], out>>
      BY <1>3 DEF StoreEven, EvenSeq, Copied, rvars
    <2>2. published' = current
      BY <1>3 DEF StoreEven, EvenSeq, Copied
    <2>3. CASE \E d \in Deltas : current = ns_add(published, d)
      BY <2>1, <2>2, <2>3 DEF Atomic!Advance, Atomic!ns_add, ns_add, Atomic!Int64,
         Int64, Atomic!CDiv, CDiv, Atomic!CMod, CMod
    <2>4. CASE current \in SetTimes
      BY <2>1, <2>2, <2>4 DEF Atomic!Set
    <2> QED BY <1>3, <2>3, <2>4 DEF IInv, SourceInv, StoreEven, EvenSeq, Copied
  <1>4. ASSUME NEW r \in Readers, Call(r) PROVE Atomic!Call(r)
    BY <1>4 DEF Call, Atomic!Call, IInv, TypeOK
  <1>5. ASSUME NEW r \in Readers,
               Yield(r) \/ LoadSeq1(r) \/ Retry(r) \/ \E w \in Words : CopyOut(r, w)
        PROVE  UNCHANGED Atomic!vars
    BY <1>5 DEF Yield, LoadSeq1, Retry, CopyOut, IInv, TypeOK
  <1>6. ASSUME NEW r \in Readers, Return(r) PROVE Atomic!Return(r)
    <2>1. snapshot[r] = published
      BY <1>6, ReturnsPublished DEF Return, NoWrap
    <2> QED BY <1>6, <2>1 DEF Return, Atomic!Return, IInv, TypeOK
  <1>7. CASE UNCHANGED vars
    BY <1>7 DEF vars, rvars
  <1> QED
    BY <1>1, <1>2, <1>3, <1>4, <1>5, <1>6, <1>7
    DEF Next, Tick, SetTime, WriterStep, ReaderStep

\* Readers of the shared clock cannot tell it from one that is written and read
\* in single steps.
THEOREM Refinement == TimelySpec => ImplementsAtomicClock
  <1>1. Init => Atomic!Init
    BY DEF Init, Atomic!Init, Epoch
  <1>2. IInv /\ NoWrap /\ [Next /\ NoWrap']_vars => [Atomic!Next]_(Atomic!vars)
    BY StepSimulation
  <1> QED BY <1>1, <1>2, TimelyInvariance, PTL
          DEF TimelySpec, ImplementsAtomicClock, Atomic!Spec

-----------------------------------------------------------------------------
(* Readers never see time go back. *)

\* The order of normalised times is the order of the nanoseconds they stand for.
LEMMA OrderOfTotals ==
    ASSUME NEW a \in Timespec, NEW b \in Timespec, Normalised(a), Normalised(b),
           TotalNs(a) <= TotalNs(b)
    PROVE  NotLater(a, b)
  <1> DEFINE x == a.sec
             y == b.sec
             u == a.nsec
             v == b.nsec
  <1>1. x \in Int /\ y \in Int /\ u \in 0 .. NSEC - 1 /\ v \in 0 .. NSEC - 1
        /\ x * NSEC + u <= y * NSEC + v
    BY DEF Timespec, Normalised, TotalNs
  <1> HIDE DEF x, y, u, v
  <1>2. CASE x = y
    BY <1>1, <1>2, NSECAssumption DEF NotLater, x, y, u, v
  <1>3. CASE x < y
    BY <1>3 DEF NotLater, x, y
  <1>4. CASE x > y
    <2>1. x * NSEC >= (y + 1) * NSEC /\ (y + 1) * NSEC = y * NSEC + NSEC
      BY <1>1, <1>4, NSECAssumption
    <2>2. x * NSEC \in Int /\ y * NSEC \in Int
      BY <1>1, NSECAssumption
    <2> QED BY <1>1, <2>1, <2>2, NSECAssumption
  <1> QED BY <1>1, <1>2, <1>3, <1>4

\* Nothing a reader has returned is ahead of the published time, and that is not
\* ahead of the time being written; all of them are normalised, and no write has
\* added more than D.
OrderInv(D) ==
    /\ Normalised(published) /\ Normalised(current)
    /\ TotalNs(published) <= TotalNs(current)
    /\ -I64_HALF <= TotalNs(published)
    /\ \A r \in Readers :
         Normalised(out[r]) /\ TotalNs(out[r]) <= TotalNs(published)
    /\ TotalNs(current) <= EPOCH_SEC * NSEC + D * stores + (IF wpc = "odd" THEN D ELSE 0)

\* Without SET_TIME and while the 64-bit sum does not overflow, every step keeps
\* the order.
LEMMA OrderStep ==
    ASSUME NEW D \in Nat, SetTimes = {}, Deltas \subseteq 0 .. D,
           EPOCH_SEC * NSEC + D * MAX_STORES < I64_HALF,
           IInv, NoWrap, OrderInv(D), [Next]_vars
    PROVE  OrderInv(D)'
  <1> DEFINE E == EPOCH_SEC * NSEC
             B == D * stores
             P == TotalNs(published)
             C == TotalNs(current)
  <1>1. /\ stores \in Nat /\ B \in Nat /\ E \in Int /\ P \in Int /\ C \in Int
        /\ D * (stores + 1) = B + D
    BY NSECAssumption, TimeAssumption DEF IInv, TypeOK, Timespec, TotalNs
  <1>2. ASSUME NEW d \in Deltas, Tick(d) PROVE OrderInv(D)'
    <2>1. /\ current' = ns_add(current, d) /\ wpc = "idle" /\ wpc' = "odd"
          /\ stores < MAX_STORES
          /\ UNCHANGED <<published, out, stores>>
      BY <1>2 DEF Tick, write_time, rvars
    <2>2. d \in Int /\ 0 <= d /\ d <= D
      OBVIOUS
    <2>3. D * (stores + 1) <= D * MAX_STORES
      <3>1. stores + 1 <= MAX_STORES /\ stores + 1 \in Nat /\ MAX_STORES \in Nat
        BY <1>1, <2>1, BoundAssumption
      <3> QED BY <3>1
    <2>4. P <= C /\ -I64_HALF <= P /\ C <= E + B
      BY <1>1, <2>1 DEF OrderInv
    <2>5. D * MAX_STORES \in Nat /\ E + D * MAX_STORES < I64_HALF
      BY BoundAssumption
    <2> DEFINE M == D * MAX_STORES
               F == D * (stores + 1)
    <2>6. C + d \in -I64_HALF .. I64_HALF - 1 /\ C + d <= E + B + D
      <3>1. F \in Nat /\ F = B + D /\ F <= M /\ M \in Nat /\ E + M < I64_HALF
        BY <1>1, <2>3, <2>5
      <3> HIDE DEF E, B, P, C, M, F
      <3> QED BY <1>1, <2>2, <2>4, <3>1, WidthAssumption
    <2>7. /\ current \in Timespec
          /\ Normalised(current') /\ TotalNs(current') = Int64(C + d)
      BY <2>1, <2>2, ns_addExact DEF IInv, TypeOK
    <2>8. TotalNs(current') = C + d
      BY <2>6, <2>7, FitsInt64
    <2>9. P <= C + d
      <3> HIDE DEF P, C
      <3> QED BY <1>1, <2>2, <2>4
    <2>10. \A r \in Readers : Normalised(out[r]) /\ TotalNs(out[r]) <= P
      BY DEF OrderInv
    <2>11. Normalised(published)
      BY DEF OrderInv
    <2> QED BY <2>1, <2>4, <2>6, <2>7, <2>8, <2>9, <2>10, <2>11 DEF OrderInv
  <1>3. CASE StoreOdd \/ StoreEven
    <2>1. /\ stores' = stores + 1 /\ wpc' # "odd"
          /\ UNCHANGED <<current, out>>
          /\ published' = published \/ published' = current
      BY <1>3 DEF StoreOdd, StoreEven, OddSeq, EvenSeq, Copied, rvars
    <2>2. C <= E + B + D
      BY <1>1 DEF OrderInv
    <2>3. C <= E + D * stores' + (IF wpc' = "odd" THEN D ELSE 0)
      BY <1>1, <2>1, <2>2
    <2>4. \A r \in Readers : Normalised(out[r]) /\ TotalNs(out[r]) <= P
      BY DEF OrderInv
    <2>5. P <= C /\ -I64_HALF <= P /\ Normalised(published) /\ Normalised(current)
      BY DEF OrderInv
    <2>6. CASE published' = published
      BY <2>1, <2>3, <2>4, <2>5, <2>6 DEF OrderInv
    <2>7. CASE published' = current
      <3>1. \A r \in Readers : TotalNs(out[r]) <= C
        <4> TAKE r \in Readers
        <4>1. TotalNs(out[r]) \in Int
          BY NSECAssumption DEF IInv, TypeOK, Timespec, TotalNs
        <4> QED BY <1>1, <2>4, <2>5, <4>1
      <3>2. -I64_HALF <= C
        BY <1>1, <2>5, WidthAssumption
      <3>3. C <= C
        BY <1>1
      <3> QED BY <2>1, <2>3, <2>4, <2>5, <2>7, <3>1, <3>2, <3>3 DEF OrderInv
    <2> QED BY <2>1, <2>6, <2>7
  <1>4. ASSUME NEW r \in Readers, Return(r) PROVE OrderInv(D)'
    <2>1. snapshot[r] = published
      BY <1>4, ReturnsPublished DEF Return, NoWrap
    <2>2. out' = [out EXCEPT ![r] = published] /\ out \in [Readers -> Timespec]
      BY <1>4, <2>1 DEF Return, IInv, TypeOK
    <2>3. UNCHANGED <<published, current, stores, wpc>>
      BY <1>4 DEF Return, wvars
    <2>4. P <= P
      BY <1>1
    <2> QED BY <2>2, <2>3, <2>4 DEF OrderInv
  <1>5. CASE UNCHANGED <<published, current, out, stores, wpc>>
    BY <1>5 DEF OrderInv
  <1>6. ASSUME NEW w \in Words, CopyIn(w) PROVE OrderInv(D)'
    BY <1>5, <1>6 DEF CopyIn, rvars
  <1>7. ASSUME NEW r \in Readers,
               \/ Call(r) \/ Yield(r) \/ LoadSeq1(r) \/ Retry(r)
               \/ \E w \in Words : CopyOut(r, w)
        PROVE  OrderInv(D)'
    BY <1>5, <1>7 DEF Call, Yield, LoadSeq1, Retry, CopyOut, wvars
  <1>8. CASE UNCHANGED vars
    BY <1>5, <1>8 DEF vars, wvars, rvars
  <1> QED
    BY <1>2, <1>3, <1>4, <1>6, <1>7, <1>8 DEF Next, WriterStep, ReaderStep

\* Once a process has read a time no later read, its own or another's, returns an
\* earlier one: for every number of readers and of writes, as long as nobody sets
\* the time, ticks do not go back, and the time fits in 64 bits.
THEOREM ReadsMonotoneHolds ==
    ASSUME NEW D \in Nat, SetTimes = {}, Deltas \subseteq 0 .. D,
           -I64_HALF <= EPOCH_SEC * NSEC,
           EPOCH_SEC * NSEC + D * MAX_STORES < I64_HALF
    PROVE  TimelySpec => ReadsMonotone
  <1>1. Init => OrderInv(D)
    <2> SUFFICES ASSUME Init PROVE OrderInv(D)
      OBVIOUS
    <2>1. stores \in Nat /\ D * stores \in Nat
      BY SeqAssumption DEF Init
    <2>2. /\ Normalised(Epoch) /\ TotalNs(Epoch) = EPOCH_SEC * NSEC
          /\ EPOCH_SEC * NSEC \in Int
      BY NSECAssumption, TimeAssumption DEF Epoch, Normalised, TotalNs
    <2>3. TotalNs(Epoch) <= EPOCH_SEC * NSEC + D * stores + 0
      <3> DEFINE E == EPOCH_SEC * NSEC
                 B == D * stores
      <3> HIDE DEF E, B
      <3>1. E \in Int /\ B \in Nat /\ TotalNs(Epoch) = E
        BY <2>1, <2>2 DEF E, B
      <3>2. TotalNs(Epoch) <= E + B + 0
        BY <3>1
      <3> QED BY <3>2 DEF E, B
    <2>4. TotalNs(Epoch) <= TotalNs(Epoch)
      BY <2>2
    <2>5. /\ published = Epoch /\ current = Epoch /\ wpc = "idle"
          /\ \A r \in Readers : out[r] = Epoch
      BY DEF Init
    <2> QED BY <2>2, <2>3, <2>4, <2>5 DEF OrderInv
  <1>2. IInv /\ NoWrap /\ OrderInv(D) /\ [Next /\ NoWrap']_vars => OrderInv(D)'
    BY OrderStep
  <1>3. ASSUME IInv, NoWrap, OrderInv(D), NEW r \in Readers, Return(r),
               NEW q \in Readers
        PROVE  NotLater(out[q], out'[r])
    <2>1. out'[r] = published
      BY <1>3, ReturnsPublished DEF Return, NoWrap, IInv, TypeOK
    <2>2. /\ out[q] \in Timespec /\ published \in Timespec
          /\ Normalised(out[q]) /\ Normalised(published)
          /\ TotalNs(out[q]) <= TotalNs(published)
      BY <1>3 DEF IInv, TypeOK, OrderInv
    <2> QED BY <2>1, <2>2, OrderOfTotals
  <1>4. IInv /\ NoWrap /\ OrderInv(D) /\ [Next /\ NoWrap']_vars =>
          [\A r \in Readers : Return(r) =>
             \A q \in Readers : NotLater(out[q], out'[r])]_vars
    BY <1>3
  <1> QED BY <1>1, <1>2, <1>4, TimelyInvariance, PTL DEF TimelySpec, ReadsMonotone
=============================================================================
