---------------------------- MODULE AtomicClock ----------------------------
(***************************************************************************)
(* What the shared virtual clock promises to the processes in the box: one *)
(* clock, advanced or set in one indivisible step by the controller, and   *)
(* read in one indivisible step somewhere between the call and the return  *)
(* of a read.  ADR-002 states this promise; Seqlock implements it.         *)
(***************************************************************************)
EXTENDS Timespec

CONSTANTS
    Readers,    \* the processes with the shim loaded
    EPOCH_SEC,  \* LINBOX_FAKE_EPOCH_SEC, the time published first
    Deltas,     \* the elapsed times a tick may add
    SetTimes    \* the times a SET_TIME message may carry

VARIABLES
    clock,    \* the virtual time
    reading,  \* reading[r]: r is inside a read
    result    \* result[r]: what r's last finished read returned

vars == <<clock, reading, result>>

Init ==
    /\ clock = [sec |-> EPOCH_SEC, nsec |-> 0]
    /\ reading = [r \in Readers |-> FALSE]
    /\ result = [r \in Readers |-> clock]

Advance(d) ==
    /\ clock' = ns_add(clock, d)
    /\ UNCHANGED <<reading, result>>

Set(ts) ==
    /\ clock' = ts
    /\ UNCHANGED <<reading, result>>

Call(r) ==
    /\ ~reading[r]
    /\ reading' = [reading EXCEPT ![r] = TRUE]
    /\ UNCHANGED <<clock, result>>

Return(r) ==
    /\ reading[r]
    /\ reading' = [reading EXCEPT ![r] = FALSE]
    /\ result' = [result EXCEPT ![r] = clock]
    /\ UNCHANGED clock

Next ==
    \/ \E d \in Deltas : Advance(d)
    \/ \E ts \in SetTimes : Set(ts)
    \/ \E r \in Readers : Call(r) \/ Return(r)

Spec == Init /\ [][Next]_vars
=============================================================================
