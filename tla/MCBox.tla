------------------------------- MODULE MCBox -------------------------------
(***************************************************************************)
(* Small instances of Box: two or three processes and a table of two slots *)
(* (64 in the code), so that the table fills up and entries move.          *)
(***************************************************************************)
EXTENDS Box, TLC

CONSTANTS p1, p2, p3, Pid0

MCTwo == {p1, p2}
MCThree == {p1, p2, p3}

\* Uninitialized memory that happens to be zero, or to look like POLLIN.  (Stale
\* POLLHUP comes up by itself.)
MCZeroed == {{}}
MCZeroOrReady == {{}, {"IN"}}

MCPrograms == [p \in Procs |-> {"program"}]
MCChildren == [p \in Procs |-> {"child"}]
MCOneTool == [p \in Procs |-> IF p = p1 THEN {"tool"} ELSE {"child"}]

\* What a tool sends after its HELLO.  A frame the controller rejects is left out
\* of MCCommands: the entry of its sender passes to the last client, POLLIN
\* included, and the controller then waits for that client, however long it is
\* silent.
MCNoFrames == {}
MCCommands == {[type |-> "SET_TIME", arg |-> 7], [type |-> "SET_SEED", arg |-> 1]}
MCRejected ==
    {[type |-> "REGISTER", arg |-> p1], [type |-> "REGISTER", arg |-> NoPid],
     [type |-> "INVALID"]}

MCForeign == {p1}
MCNobody == {}

ProcSymmetry == Permutations(Procs \ Foreign)
=============================================================================
