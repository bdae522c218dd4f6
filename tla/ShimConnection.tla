--------------------------- MODULE ShimConnection ---------------------------
(***************************************************************************)
(* How a process joins the box.  The shim's constructor, in a program that *)
(* was started or exec'ed, connects, says HELLO and waits for the          *)
(* acknowledgement (linbox_init_state, linbox_connect_controller in        *)
(* src/shim/linbox.c).  A forked child does the same and then registers    *)
(* (linbox_after_fork_in_child, linbox_send_register_process in            *)
(* src/shim/process.c).  A tool is any other program that speaks the       *)
(* protocol: the repository has none, but the controller serves them.      *)
(*                                                                         *)
(* linbox_shm_attach succeeds here whenever the handshake did: shared      *)
(* memory's own life is the subject of ShmLifecycle.                       *)
(***************************************************************************)
EXTENDS Sockets, Naturals

CONSTANTS
    Roles,       \* what each process may be: a "program", a "child" or a "tool"
    ToolFrames,  \* the frames a tool may send
    MAX_SPAWNS   \* bound: how many processes are started

ASSUME RoleAssumption == Roles \in [Procs -> SUBSET {"program", "child", "tool"}]
ASSUME SpawnAssumption == MAX_SPAWNS \in Nat

VARIABLES
    cpc,        \* where each process is
    role,
    connected,  \* controller_connected
    acked,      \* history: the children whose REGISTER was acknowledged
    spawns      \* history: how many processes were started

shimvars == <<cpc, role, connected, acked, spawns>>

ShimPCs == {"off", "connect", "hello", "hello_ack", "register", "register_ack",
            "send", "send_ack", "run"}

\* The processes that exist, as kill(pid, 0) sees them.
Alive == {p \in Procs : cpc[p] # "off"}

ShimInit ==
    /\ cpc = [p \in Procs |-> "off"]
    /\ role = [p \in Procs |-> "program"]
    /\ connected = [p \in Procs |-> FALSE]
    /\ acked = {}
    /\ spawns = 0

Hello == [type |-> "HELLO"]
Register(pid) == [type |-> "REGISTER", arg |-> pid]

Goto(p, label) == cpc' = [cpc EXCEPT ![p] = label]

\* A process starts, with a pid that is free.  (A pid is not used again before
\* the controller has closed the connection of its last owner.)
Spawn(p, kind) ==
    /\ cpc[p] = "off" /\ srv[p] \in {"none", "closed"}
    /\ spawns < MAX_SPAWNS
    /\ spawns' = spawns + 1
    /\ Goto(p, "connect")
    /\ role' = [role EXCEPT ![p] = kind]
    /\ acked' = acked \ {p}
    /\ UNCHANGED <<netvars, connected>>

\* socket and connect.
Connect(p) ==
    /\ cpc[p] = "connect"
    /\ NetConnect(p)
    /\ Goto(p, "hello")
    /\ UNCHANGED <<role, connected, acked, spawns>>

\* Nobody listens: the shim falls back to real time.
ConnectFails(p) ==
    /\ cpc[p] = "connect"
    /\ ~listening
    /\ Goto(p, "run")
    /\ UNCHANGED <<netvars, role, connected, acked, spawns>>

\* A write, and the read that waits for the answer.
Request(p, from, frame, to) ==
    /\ cpc[p] = from
    /\ NetClientWrite(p, frame)
    /\ Goto(p, to)
    /\ UNCHANGED <<role, connected, acked, spawns>>

\* The controller has closed the connection: the write raises SIGPIPE in the
\* process the shim was loaded into, and its default action ends the process.
RequestBroken(p) ==
    /\ cpc[p] \in {"hello", "register"}
    /\ NetClientWriteFails(p)
    /\ Goto(p, "off")
    /\ NetClientClose(p)
    /\ connected' = [connected EXCEPT ![p] = FALSE]
    /\ acked' = acked \ {p}
    /\ UNCHANGED <<role, spawns>>

SendHello(p) == Request(p, "hello", Hello, "hello_ack")

\* The handshake succeeded: the process uses virtual time from here on.
HelloAcked(p) ==
    /\ cpc[p] = "hello_ack"
    /\ NetClientRead(p)
    /\ connected' = [connected EXCEPT ![p] = TRUE]
    /\ Goto(p, CASE role[p] = "child" -> "register"
                 [] role[p] = "tool" -> "send"
                 [] OTHER -> "run")
    /\ UNCHANGED <<role, acked, spawns>>

\* read returns 0: the shim closes its end and falls back to real time.
HelloFails(p) ==
    /\ cpc[p] = "hello_ack"
    /\ NetClientEOF(p)
    /\ NetClientClose(p)
    /\ Goto(p, "run")
    /\ UNCHANGED <<role, connected, acked, spawns>>

SendRegister(p) == Request(p, "register", Register(p), "register_ack")

RegisterAcked(p) ==
    /\ cpc[p] = "register_ack"
    /\ NetClientRead(p)
    /\ acked' = acked \cup {p}
    /\ Goto(p, "run")
    /\ UNCHANGED <<role, connected, spawns>>

\* read returns 0: the result of linbox_send_register_process is ignored.
RegisterFails(p) ==
    /\ cpc[p] = "register_ack"
    /\ NetClientEOF(p)
    /\ Goto(p, "run")
    /\ UNCHANGED <<netvars, role, connected, acked, spawns>>

SendFrame(p) == \E frame \in ToolFrames : Request(p, "send", frame, "send_ack")

\* After the answer a tool may send again; disconnected, it stops.
FrameAnswered(p) ==
    /\ cpc[p] = "send_ack"
    /\ \/ NetClientRead(p) /\ Goto(p, "send")
       \/ NetClientEOF(p) /\ NetClientClose(p) /\ Goto(p, "run")
    /\ UNCHANGED <<role, connected, acked, spawns>>

\* The process exits or is killed, wherever it is, and its parent waits for it.
Exit(p) ==
    /\ cpc[p] # "off"
    /\ Goto(p, "off")
    /\ NetClientClose(p)
    /\ connected' = [connected EXCEPT ![p] = FALSE]
    /\ acked' = acked \ {p}
    /\ UNCHANGED <<role, spawns>>

\* The steps of the shim: they follow one another without the program's help.
ShimStep(p) ==
    \/ Connect(p) \/ ConnectFails(p)
    \/ SendHello(p) \/ RequestBroken(p) \/ HelloAcked(p) \/ HelloFails(p)
    \/ SendRegister(p) \/ RegisterAcked(p) \/ RegisterFails(p)
    \/ FrameAnswered(p)

ProgramStep(p) ==
    \/ \E kind \in Roles[p] : Spawn(p, kind)
    \/ SendFrame(p)
    \/ Exit(p)
=============================================================================
