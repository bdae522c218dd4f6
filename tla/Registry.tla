------------------------------ MODULE Registry ------------------------------
(***************************************************************************)
(* What the process slots promise: a set of registered processes, of       *)
(* limited size, that gains a process only by its registration and loses   *)
(* one only when it is dead.  Processes come and go at any moment, so that *)
(* a dead one may stay registered for a while.                             *)
(***************************************************************************)
EXTENDS Naturals, FiniteSets

CONSTANTS
    Pids,     \* process ids
    CAPACITY  \* how many can be registered

VARIABLES
    registered,
    alive  \* the processes there are

vars == <<registered, alive>>

Init == registered = {} /\ alive \subseteq Pids

Register(pid) ==
    /\ Cardinality(registered \cup {pid}) <= CAPACITY
    /\ registered' = registered \cup {pid}
    /\ UNCHANGED alive

Reap(pid) ==
    /\ pid \notin alive
    /\ registered' = registered \ {pid}
    /\ UNCHANGED alive

\* Processes come and go by themselves.
ComeOrGo == alive' \subseteq Pids /\ UNCHANGED registered

Next == ComeOrGo \/ \E pid \in Pids : Register(pid) \/ Reap(pid)

Spec == Init /\ [][Next]_vars
=============================================================================
