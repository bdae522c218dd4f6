-------------------------------- MODULE Box --------------------------------
(***************************************************************************)
(* The controller's event loop and the processes that join and leave the   *)
(* box, connected by their sockets.                                        *)
(***************************************************************************)
EXTENDS Controller, ShimConnection

\* The frames of the protocol, as the controller tells them apart.
Frames ==
    [type : {"HELLO", "ACK", "INVALID"}]
        \cup [type : {"SET_TIME", "SET_SEED"}, arg : Int]
        \cup [type : {"REGISTER"}, arg : Procs \cup {NoPid}]

ASSUME FramesAssumption == ToolFrames \subseteq Frames

vars == <<netvars, ctlvars, shimvars>>

Init == NetInit /\ ControllerInit /\ ShimInit

Next ==
    \/ ControllerStep(Alive) /\ UNCHANGED shimvars
    \/ ControllerEnv /\ UNCHANGED shimvars
    \/ \E p \in Procs : (ShimStep(p) \/ ProgramStep(p)) /\ UNCHANGED ctlvars

Spec == Init /\ [][Next]_vars

\* The kernel runs the controller and the processes, poll returns after 10 ms,
\* and time passes.  Nothing makes a program start, send or exit.
Fairness ==
    /\ WF_vars(ControllerStep(Alive) /\ UNCHANGED shimvars)
    /\ \A p \in Procs : WF_vars(ShimStep(p) /\ UNCHANGED ctlvars)
FairSpec == Spec /\ Fairness

-----------------------------------------------------------------------------
TypeOK ==
    /\ up \in {"run", "stopped", "killed"}
    /\ pc \in {"top", "poll", "accept", "scan", "ack", "tick", "reap"}
    /\ g_stop \in BOOLEAN /\ lready \in BOOLEAN /\ listening \in BOOLEAN
    /\ client_fds \in Seq(Procs) /\ Count <= SLOT_COUNT
    /\ backlog \in Seq(Procs)
    /\ revents \in [Slots -> SUBSET {"IN", "HUP"}]
    /\ i \in 1 .. SLOT_COUNT + 1
    /\ slots \in [Slots -> Procs \cup {NoPid}]
    /\ now \in 0 .. MAX_NOW /\ last_tick \in 0 .. now
    /\ vtime \in Int /\ base \in Int
    /\ srv \in [Procs -> {"none", "queued", "open", "closed"}]
    /\ cli \in [Procs -> BOOLEAN]
    /\ cpc \in [Procs -> ShimPCs]
    /\ connected \in [Procs -> BOOLEAN]
    /\ acked \subseteq Procs
    /\ refused \subseteq Procs
    /\ spawns \in 0 .. MAX_SPAWNS

InTable(p) == \E j \in 1 .. Count : client_fds[j] = p
InSlots(p) == \E s \in Slots : slots[s] = p

\* The client table and the open descriptors agree (main.c:201-225): no
\* connection appears twice, none that was closed is still there, and none that
\* is open was forgotten.
ClientTableSound ==
    up = "run" =>
        /\ \A j, k \in 1 .. Count : client_fds[j] = client_fds[k] => j = k
        /\ \A p \in Procs : InTable(p) <=> srv[p] = "open"

\* No process occupies two slots (register_process, main.c:65-89), in whatever
\* order processes register, die and register again.
SlotsUnique ==
    \A s, t \in Slots : slots[s] = slots[t] /\ slots[s] # NoPid => s = t

\* A child whose registration was acknowledged is in a slot for as long as it
\* lives, unless every slot was taken when it registered: reaping and later
\* registrations do not lose it (main.c:65-106).
RegisteredOrFull ==
    up = "run" => \A p \in acked : InSlots(p) \/ p \in refused

\* The slots, however they are filled, refreshed and emptied, behave like a set
\* of registered processes (main.c:65-106): a process gets in by registering only,
\* nobody who lives is removed although others end while the slots are searched,
\* and the set is never larger than the slots.
Slotted == INSTANCE Registry WITH
    Pids <- Procs, CAPACITY <- SLOT_COUNT,
    registered <- {slots[s] : s \in Slots} \ {NoPid}, alive <- Alive
ImplementsRegistry == Slotted!Spec

\* A client that waits for an answer is owed one: its frame is unread, or the
\* answer is being written or on its way, or the connection is closed.  There is
\* never more than one frame in flight on a connection.
AnswerOwed ==
    \A p \in Procs :
        cpc[p] \in {"hello_ack", "register_ack", "send_ack"} =>
            \/ srv[p] = "closed"
            \/ Len(c2s[p]) + Len(s2c[p]) + (IF pc = "ack" /\ Client = p THEN 1 ELSE 0) = 1

\* Virtual time is the time it was last set to plus all the monotonic time that
\* passed since the tick before: no interval is lost or counted twice
\* (main.c:227-235).
TimeAccounted == vtime = base + last_tick

\* A client that waits for an answer gets it or is disconnected: the controller
\* does not wait for a silent client while another one waits for it, as long as
\* nobody sends a frame that it rejects (main.c:215-220: the entry of a rejected
\* client passes to the last one, POLLIN included, and the read then blocks).
ClientsAnswered ==
    \A p \in Procs :
        cpc[p] \in {"hello_ack", "register_ack", "send_ack"}
            ~> cpc[p] \notin {"hello_ack", "register_ack", "send_ack"}

\* After SIGINT or SIGTERM the controller ends, wherever in its loop the signal
\* finds it (main.c:180, 195-197), as long as nobody sends a frame that it rejects.
StopsOnSignal == g_stop ~> up # "run"

\* The controller disconnects a client only if the client closed its end or the
\* table is full.  ADR-006 says "Controller must handle multiple concurrent shim
\* connections (one per process)".
ClientsKept ==
    [][\A p \in Procs :
          (srv[p] \in {"queued", "open"} /\ srv'[p] = "closed" /\ up' = "run")
              => ~cli[p] \/ Count = SLOT_COUNT]_vars

=============================================================================
