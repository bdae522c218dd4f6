------------------------------ MODULE Seqlock ------------------------------
(***************************************************************************)
(* The virtual clock in shared memory: linbox_shm_write_time and           *)
(* linbox_shm_read_time (src/common/shm.c) driven by one time manager      *)
(* (src/controller/time-manager.c) and read by any number of shims         *)
(* (linbox_virtual_now, src/shim/time.c).                                  *)
(*                                                                         *)
(* Every access to shared memory is a step of its own.  The two words of   *)
(* struct timespec are copied one at a time, in either order, on both      *)
(* sides.  The builds of the project (x86-64, gcc, -O0 to -O2) emit the    *)
(* sequence stores, the copy and the sequence loads in program order, and  *)
(* x86-64 keeps stores in order and loads in order, so interleaving these  *)
(* steps is what readers can see of a single writer.                       *)
(*                                                                         *)
(* The initial state is the one linbox_time_manager_open leaves behind:    *)
(* the epoch is published and time_seq is even.  The writer runs for ever  *)
(* here: a controller that is killed or restarted is ShmLifecycle's        *)
(* subject.  heartbeat_ns is left out: no code reads it to decide anything.*)
(***************************************************************************)
EXTENDS Timespec

CONSTANTS
    Readers,    \* the processes with the shim loaded
    SEQ_MOD,    \* 2^32: time_seq is a uint32_t
    InitSeqs,   \* the even values time_seq may start from
    EPOCH_SEC,  \* LINBOX_FAKE_EPOCH_SEC
    Deltas,     \* the elapsed times a tick may add
    SetTimes,   \* the times a SET_TIME message may carry
    MAX_STORES  \* bound: no write starts once this many stores were made

ASSUME SeqAssumption ==
    /\ SEQ_MOD \in Nat /\ SEQ_MOD > 0 /\ SEQ_MOD % 2 = 0
    /\ InitSeqs \subseteq Nat
    /\ \A s \in InitSeqs : s % 2 = 0
ASSUME TimeAssumption ==
    /\ EPOCH_SEC \in Int
    /\ Deltas \subseteq Int
    /\ SetTimes \subseteq Timespec
ASSUME BoundAssumption == MAX_STORES \in Nat

VARIABLES
    time_seq,      \* layout->time_seq
    virtual_time,  \* layout->virtual_time
    current,       \* tm->current
    wpc,           \* where the writer is: "idle", "odd" or "copy"
    wseq,          \* its local variable seq
    wleft,         \* the words of current it has still to copy
    rpc,           \* where each reader is: "idle", "load" or "copy"
    seq1,          \* its local variable seq1
    snapshot,      \* its local variable snapshot
    rleft,         \* the words it has still to copy
    out,           \* what its last finished read returned
    (* history variables, which no step depends on except for the bound *)
    published,     \* the time of the last finished write
    stores,        \* how often time_seq was stored to
    rstores        \* stores when the reader loaded seq1

wvars == <<current, wpc, wseq, wleft>>
rvars == <<rpc, seq1, snapshot, rleft, out, rstores>>
shared == <<time_seq, virtual_time>>
vars == <<shared, wvars, rvars, published, stores>>

Epoch == [sec |-> EPOCH_SEC, nsec |-> 0]

Init ==
    /\ stores \in InitSeqs
    /\ time_seq = stores % SEQ_MOD
    /\ virtual_time = Epoch
    /\ current = Epoch
    /\ published = Epoch
    /\ wpc = "idle" /\ wseq = 0 /\ wleft = {}
    /\ rpc = [r \in Readers |-> "idle"]
    /\ seq1 = [r \in Readers |-> 0]
    /\ rstores = [r \in Readers |-> 0]
    /\ snapshot = [r \in Readers |-> Epoch]
    /\ out = [r \in Readers |-> Epoch]
    /\ rleft = [r \in Readers |-> {}]

-----------------------------------------------------------------------------
(* The writer. *)

\* The first lines of linbox_shm_write_time: seq is loaded.  Nobody else stores
\* to time_seq, so the load needs no step of its own.
write_time(ts) ==
    /\ wpc = "idle"
    /\ stores < MAX_STORES
    /\ current' = ts
    /\ wseq' = time_seq
    /\ wpc' = "odd"
    /\ UNCHANGED <<shared, wleft, rvars, published, stores>>

Tick(delta_ns) == write_time(ns_add(current, delta_ns))

SetTime(ts) == write_time(ts)

\* Mutant: the first store to time_seq is forgotten.
OddSeqForgotten == time_seq

OddSeq == (wseq + 1) % SEQ_MOD

\* time_seq := seq + 1, which is odd.
StoreOdd ==
    /\ wpc = "odd"
    /\ time_seq' = OddSeq
    /\ stores' = stores + 1
    /\ wleft' = Words
    /\ wpc' = "copy"
    /\ UNCHANGED <<virtual_time, current, wseq, rvars, published>>

CopyIn(w) ==
    /\ wpc = "copy"
    /\ w \in wleft
    /\ virtual_time' = [virtual_time EXCEPT ![w] = current[w]]
    /\ wleft' = wleft \ {w}
    /\ UNCHANGED <<time_seq, current, wpc, wseq, rvars, published, stores>>

\* Mutant: the second store may overtake the copy.
CopyUnderWay == TRUE

Copied == wleft = {}

\* Mutant: the counter is wider than a uint32_t.
EvenSeqUnbounded == wseq + 2

\* Mutant: the second store repeats the first one.
EvenSeqStillOdd == (wseq + 1) % SEQ_MOD

EvenSeq == (wseq + 2) % SEQ_MOD

\* time_seq := seq + 2, which is even again: the write is finished.
StoreEven ==
    /\ wpc = "copy"
    /\ Copied
    /\ time_seq' = EvenSeq
    /\ stores' = stores + 1
    /\ published' = current
    /\ wpc' = "idle"
    /\ UNCHANGED <<virtual_time, current, wseq, wleft, rvars>>

-----------------------------------------------------------------------------
(* The readers. *)

\* A time function of the shim calls linbox_shm_read_time.
Call(r) ==
    /\ rpc[r] = "idle"
    /\ rpc' = [rpc EXCEPT ![r] = "load"]
    /\ UNCHANGED <<shared, wvars, seq1, snapshot, rleft, out, published, stores,
                   rstores>>

\* seq1 is odd: sched_yield and try again.
Yield(r) ==
    /\ rpc[r] = "load"
    /\ time_seq % 2 = 1
    /\ seq1' = [seq1 EXCEPT ![r] = time_seq]
    /\ UNCHANGED <<shared, wvars, rpc, snapshot, rleft, out, published, stores,
                   rstores>>

\* seq1 is even: go on to the copy.
LoadSeq1(r) ==
    /\ rpc[r] = "load"
    /\ time_seq % 2 = 0
    /\ seq1' = [seq1 EXCEPT ![r] = time_seq]
    /\ rstores' = [rstores EXCEPT ![r] = stores]
    /\ rleft' = [rleft EXCEPT ![r] = Words]
    /\ rpc' = [rpc EXCEPT ![r] = "copy"]
    /\ UNCHANGED <<shared, wvars, snapshot, out, published, stores>>

CopyOut(r, w) ==
    /\ rpc[r] = "copy"
    /\ w \in rleft[r]
    /\ snapshot' = [snapshot EXCEPT ![r][w] = virtual_time[w]]
    /\ rleft' = [rleft EXCEPT ![r] = @ \ {w}]
    /\ UNCHANGED <<shared, wvars, rpc, seq1, out, published, stores, rstores>>

\* Mutant: the second load is only tested for being even.
SeqEvenOnly(r) == time_seq % 2 = 0

\* The second load of time_seq finds the value of the first, and an even one.
SeqUnchanged(r) == seq1[r] = time_seq /\ time_seq % 2 = 0

Return(r) ==
    /\ rpc[r] = "copy"
    /\ rleft[r] = {}
    /\ SeqUnchanged(r)
    /\ out' = [out EXCEPT ![r] = snapshot[r]]
    /\ rpc' = [rpc EXCEPT ![r] = "idle"]
    /\ UNCHANGED <<shared, wvars, seq1, snapshot, rleft, published, stores,
                   rstores>>

Retry(r) ==
    /\ rpc[r] = "copy"
    /\ rleft[r] = {}
    /\ ~SeqUnchanged(r)
    /\ rpc' = [rpc EXCEPT ![r] = "load"]
    /\ UNCHANGED <<shared, wvars, seq1, snapshot, rleft, out, published, stores,
                   rstores>>

-----------------------------------------------------------------------------
WriterStep == StoreOdd \/ (\E w \in Words : CopyIn(w)) \/ StoreEven

ReaderStep(r) ==
    \/ Yield(r)
    \/ LoadSeq1(r)
    \/ \E w \in Words : CopyOut(r, w)
    \/ Return(r)
    \/ Retry(r)

Next ==
    \/ \E d \in Deltas : Tick(d)
    \/ \E ts \in SetTimes : SetTime(ts)
    \/ WriterStep
    \/ \E r \in Readers : Call(r) \/ ReaderStep(r)

Spec == Init /\ [][Next]_vars

\* A reader is not held up, between its two loads of time_seq, for so long that
\* the counter comes round to the same value: 2^31 writes, eight months of
\* 10 ms ticks.
NotOvertaken(r) == rpc[r] = "copy" => stores - rstores[r] < SEQ_MOD
NoWrap == \A r \in Readers : NotOvertaken(r)

\* The code, run by a scheduler that never holds a reader up for that long.
TimelySpec == Init /\ [][Next /\ NoWrap']_vars

\* The kernel runs every process that can run: a write that was started is
\* finished, and a reader takes its next step.  Whether and when the next write
\* starts is left open.
Fairness == WF_vars(WriterStep) /\ \A r \in Readers : WF_vars(ReaderStep(r))
FairSpec == Spec /\ Fairness

-----------------------------------------------------------------------------
TypeOK ==
    /\ stores \in Nat
    /\ time_seq \in 0 .. SEQ_MOD - 1
    /\ virtual_time \in Timespec
    /\ current \in Timespec
    /\ published \in Timespec
    /\ wpc \in {"idle", "odd", "copy"}
    /\ wseq \in 0 .. SEQ_MOD - 1
    /\ wleft \in SUBSET Words
    /\ rpc \in [Readers -> {"idle", "load", "copy"}]
    /\ seq1 \in [Readers -> 0 .. SEQ_MOD - 1]
    /\ rstores \in [Readers -> Nat]
    /\ snapshot \in [Readers -> Timespec]
    /\ out \in [Readers -> Timespec]
    /\ rleft \in [Readers -> SUBSET Words]

\* What a read is about to return (shm.c:163-165) is the time of the last
\* finished write, whole: never a mixture of two writes, never a time that was
\* already replaced when the read returns.  The exception is the read that the
\* 32-bit counter overtook completely.
NoTornRead ==
    \A r \in Readers :
        (rpc[r] = "copy" /\ rleft[r] = {} /\ SeqUnchanged(r) /\ NotOvertaken(r))
            => snapshot[r] = published

\* time_seq is odd exactly while the words in shared memory may be a mixture of
\* the old and the new time (shm.c:139-143): with an even counter they are the
\* published time.
EvenMeansStable == time_seq % 2 = 0 => virtual_time = published

\* A tick adds its delta to the time exactly and leaves a normalised timespec,
\* also when SET_TIME stored one with tv_nsec outside a second or before 1970
\* (ns_add, time-manager.c:8-18).
TickAddsExactly ==
    [][\A d \in Deltas : Tick(d) =>
          /\ Normalised(current')
          /\ TotalNs(current') = Int64(TotalNs(current) + d)]_vars

\* Once a process has read a time, no read that finishes later, in this process
\* or in another one, returns an earlier time (no SET_TIME in between).
ReadsMonotone ==
    [][\A r \in Readers : Return(r) =>
          \A q \in Readers : NotLater(out[q], out'[r])]_vars

\* A read returns unless one more write begins: the loop of shm.c:153-168 goes
\* round again only for a write made since, and at most the write under way when
\* it is looked at (two stores) may hold it up.  Under a writer that never
\* pauses a read may retry for ever; the controller pauses for 10 ms.
ReadsReturnUnlessWritten ==
    \A r \in Readers : \A n \in 0 .. MAX_STORES + 1 :
        (rpc[r] # "idle" /\ stores = n) ~> (rpc[r] = "idle" \/ stores > n + 2)

\* The seqlock implements the clock that is written and read atomically: a
\* write takes effect when time_seq becomes even, a read when it loads time_seq
\* for the second time.
Atomic == INSTANCE AtomicClock WITH
    clock <- published,
    reading <- [r \in Readers |-> rpc[r] # "idle"],
    result <- out
ImplementsAtomicClock == Atomic!Spec
=============================================================================
