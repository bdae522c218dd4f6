------------------------------ MODULE Sockets ------------------------------
(***************************************************************************)
(* The AF_UNIX stream connections between the processes in the box and the *)
(* controller, as the code in src/controller/main.c and src/shim uses      *)
(* them.  The kernel is not part of the repository: this module states     *)
(* what the code relies on.  A frame travels whole, since a write of a few *)
(* bytes to such a socket is one buffer in the kernel.  A process has at   *)
(* most one connection, named after the process.  (The shim opens its      *)
(* socket without SOCK_CLOEXEC, linbox.c:94: after an exec the old         *)
(* connection stays open, silent, beside the one the new program makes.    *)
(* The model has one; the silent one would only take a client's entry.)    *)
(***************************************************************************)
EXTENDS Sequences

CONSTANT Procs  \* the processes (and pids) in the box

VARIABLES
    listening,  \* the controller's socket accepts connections
    backlog,    \* the connections it has not accepted yet
    srv,        \* the controller's end: "none", "queued", "open" or "closed"
    cli,        \* cli[p]: p's end is open
    c2s,        \* frames p has written and the controller has not read
    s2c         \* frames the controller has written and p has not read

netvars == <<listening, backlog, srv, cli, c2s, s2c>>

NetInit ==
    /\ listening = TRUE
    /\ backlog = <<>>
    /\ srv = [p \in Procs |-> "none"]
    /\ cli = [p \in Procs |-> FALSE]
    /\ c2s = [p \in Procs |-> <<>>]
    /\ s2c = [p \in Procs |-> <<>>]

\* What poll reports for the controller's end of p's connection.
Revents(p) ==
    {e \in {"IN", "HUP"} : \/ e = "HUP" /\ ~cli[p]
                           \/ e = "IN" /\ (c2s[p] # <<>> \/ ~cli[p])}

\* connect: the connection waits in the backlog, and may be written to.
NetConnect(p) ==
    /\ listening
    /\ backlog' = Append(backlog, p)
    /\ srv' = [srv EXCEPT ![p] = "queued"]
    /\ cli' = [cli EXCEPT ![p] = TRUE]
    /\ c2s' = [c2s EXCEPT ![p] = <<>>]
    /\ s2c' = [s2c EXCEPT ![p] = <<>>]
    /\ UNCHANGED listening

\* A write of p succeeds; it raises SIGPIPE when the other end is closed.
NetClientWrite(p, frame) ==
    /\ srv[p] \in {"queued", "open"}
    /\ c2s' = [c2s EXCEPT ![p] = Append(@, frame)]
    /\ UNCHANGED <<listening, backlog, srv, cli, s2c>>

NetClientWriteFails(p) == srv[p] = "closed"

\* A read of p returns everything that is there.
NetClientRead(p) ==
    /\ s2c[p] # <<>>
    /\ s2c' = [s2c EXCEPT ![p] = <<>>]
    /\ UNCHANGED <<listening, backlog, srv, cli, c2s>>

\* A read of p returns 0 or an error: nothing is there and nothing will come.
NetClientEOF(p) == s2c[p] = <<>> /\ srv[p] = "closed"

NetClientClose(p) ==
    /\ cli' = [cli EXCEPT ![p] = FALSE]
    /\ UNCHANGED <<listening, backlog, srv, c2s, s2c>>

\* The controller takes the first connection of the backlog; it keeps it or
\* closes it at once.
NetAccept(fate) ==
    /\ backlog # <<>>
    /\ srv' = [srv EXCEPT ![Head(backlog)] = fate]
    /\ backlog' = Tail(backlog)
    /\ UNCHANGED <<listening, cli, c2s, s2c>>

\* The controller closes its end of p's connection.
NetServerClose(p) ==
    /\ srv' = [srv EXCEPT ![p] = "closed"]
    /\ c2s' = [c2s EXCEPT ![p] = <<>>]
    /\ UNCHANGED <<listening, backlog, cli, s2c>>

\* A read of the controller returns everything that is there.
NetServerRead(p) ==
    /\ c2s' = [c2s EXCEPT ![p] = <<>>]
    /\ UNCHANGED <<listening, backlog, srv, cli, s2c>>

NetServerWrite(p, frame) ==
    /\ s2c' = [s2c EXCEPT ![p] = Append(@, frame)]
    /\ UNCHANGED <<listening, backlog, srv, cli, c2s>>

\* The controller's process ends: the kernel closes all its sockets.
NetServerGone ==
    /\ listening' = FALSE
    /\ backlog' = <<>>
    /\ srv' = [p \in Procs |-> IF srv[p] = "none" THEN "none" ELSE "closed"]
    /\ UNCHANGED <<cli, c2s, s2c>>
=============================================================================
