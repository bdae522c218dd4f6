----------------------------- MODULE BoxProofs -----------------------------
(***************************************************************************)
(* Proofs about Box: the client table and the process slots, for every     *)
(* number of processes and of slots.                                       *)
(***************************************************************************)
EXTENDS Box, FiniteSetTheorems, SequenceTheorems, TLAPS

-----------------------------------------------------------------------------
(* The inductive invariant. *)

Waiting == {"hello_ack", "register_ack", "send_ack"}

\* The controller has read a frame of p and has not answered it yet.
Busy(p) == pc = "ack" /\ Client = p

NetTypes ==
    /\ listening \in BOOLEAN /\ backlog \in Seq(Procs)
    /\ srv \in [Procs -> {"none", "queued", "open", "closed"}]
    /\ cli \in [Procs -> BOOLEAN]
    /\ c2s \in [Procs -> Seq(Frames)] /\ s2c \in [Procs -> Seq({Ack})]

LoopTypes ==
    /\ up \in {"run", "stopped", "killed"}
    /\ pc \in {"top", "poll", "accept", "scan", "ack", "tick", "reap"}
    /\ client_fds \in Seq(Procs) /\ Count <= SLOT_COUNT
    /\ revents \in [Slots -> SUBSET {"IN", "HUP"}] /\ lready \in BOOLEAN
    /\ i \in 1 .. SLOT_COUNT + 1
    /\ pc = "ack" => up = "run" /\ i <= Count
    /\ pc = "tick" => i = 1
    /\ pc = "reap" => i \in Slots

RestTypes ==
    /\ g_stop \in BOOLEAN
    /\ slots \in [Slots -> Procs \cup {NoPid}]
    /\ now \in 0 .. MAX_NOW /\ last_tick \in 0 .. now
    /\ vtime \in Int /\ base \in Int
    /\ refused \subseteq Procs

ShimTypes ==
    /\ cpc \in [Procs -> ShimPCs]
    /\ role \in [Procs -> {"program", "child", "tool"}]
    /\ connected \in [Procs -> BOOLEAN]
    /\ acked \subseteq Procs
    /\ spawns \in 0 .. MAX_SPAWNS

Types == NetTypes /\ LoopTypes /\ RestTypes /\ ShimTypes

\* No connection waits twice, and those that wait are those in the backlog.
BacklogSound ==
    up = "run" =>
        /\ \A j, k \in 1 .. Len(backlog) : backlog[j] = backlog[k] => j = k
        /\ \A p \in Procs : (\E j \in 1 .. Len(backlog) : backlog[j] = p) <=> srv[p] = "queued"

\* Where the one frame of a connection is.
Conn(p) ==
    /\ cpc[p] = "connect" => srv[p] \in {"none", "closed"}
    /\ cpc[p] \in {"hello", "register", "send"} =>
          c2s[p] = <<>> /\ s2c[p] = <<>> /\ ~Busy(p)
    /\ cpc[p] \in Waiting =>
          \/ Len(c2s[p]) = 1 /\ s2c[p] = <<>> /\ ~Busy(p)
          \/ c2s[p] = <<>> /\ s2c[p] = <<Ack>> /\ ~Busy(p)
          \/ c2s[p] = <<>> /\ s2c[p] = <<>> /\ (Busy(p) \/ srv[p] = "closed")
    /\ cpc[p] = "register_ack" /\ c2s[p] # <<>> => c2s[p] = <<Register(p)>>

ConnInv == \A p \in Procs : Conn(p)

\* A child is registered from the moment its registration was handled, while the
\* answer is under way and after it has arrived.
Due(p) ==
    p \in acked \/ (cpc[p] = "register_ack" /\ (s2c[p] # <<>> \/ Busy(p)))

RegInv ==
    /\ \A p \in acked : cpc[p] = "run"
    /\ up = "run" => \A p \in Procs : Due(p) => InSlots(p) \/ p \in refused

IInv ==
    /\ Types /\ ClientTableSound /\ BacklogSound /\ ConnInv
    /\ SlotsUnique /\ RegInv /\ TimeAccounted

-----------------------------------------------------------------------------
(* The operators of the model. *)

\* A set of natural numbers that is not empty has a least element.
LEMMA LessThan ==
    \E R : IsWellFoundedOn(R, Nat) /\ \A x, y \in Nat : y < x => <<y, x>> \in R
  <1>1. IsWellFoundedOn(OpToRel(<, Nat), Nat)
    BY NatLessThanWellFounded
  <1>2. \A x, y \in Nat : y < x => <<y, x>> \in OpToRel(<, Nat)
    BY DEF OpToRel
  <1> QED BY <1>1, <1>2, Zenon

LEMMA Least ==
    ASSUME NEW T, T \subseteq Nat, T # {}
    PROVE  \E x \in T : \A y \in T : x <= y
  <1>1. PICK R : IsWellFoundedOn(R, Nat) /\ \A x, y \in Nat : y < x => <<y, x>> \in R
    BY LessThan
  <1>2. PICK x \in T : \A y \in T : ~(<<y, x>> \in R)
    BY <1>1, WFMin
  <1>3. ASSUME NEW y \in T PROVE x <= y
    <2>1. x \in Nat /\ y \in Nat
      OBVIOUS
    <2>2. ~(y < x)
      BY <1>1, <1>2, <2>1, Zenon
    <2> QED BY <2>1, <2>2
  <1> QED BY <1>3

\* register_process changes at most one slot, an empty one.
LEMMA Registration ==
    ASSUME NEW pid
    PROVE  \/ /\ register_process(pid) = slots
              /\ pid = NoPid \/ HasSlot(pid) \/ EmptySlots = {}
           \/ /\ pid # NoPid /\ ~HasSlot(pid)
              /\ \E e \in EmptySlots : register_process(pid) = [slots EXCEPT ![e] = pid]
  <1> SUFFICES ASSUME pid # NoPid, ~HasSlot(pid), EmptySlots # {}
               PROVE  \E e \in EmptySlots : register_process(pid) = [slots EXCEPT ![e] = pid]
    BY DEF register_process
  <1> DEFINE e == CHOOSE s \in EmptySlots : \A t \in EmptySlots : s <= t
  <1>1. EmptySlots \subseteq Nat
    BY DEF EmptySlots, Slots
  <1>2. e \in EmptySlots
    BY <1>1, Least
  <1>3. register_process(pid) = [slots EXCEPT ![e] = pid]
    BY DEF register_process
  <1> QED BY <1>2, <1>3

\* One round of reap_dead_processes empties at most the slot it looks at, and only
\* if its process is dead.
LEMMA Reaped ==
    ASSUME LoopTypes, RestTypes, reap_dead_processes(Alive)
    PROVE  /\ i \in Slots /\ slots' \in [Slots -> Procs \cup {NoPid}]
           /\ \/ slots' = slots
              \/ slots[i] \notin Alive /\ slots' = [slots EXCEPT ![i] = NoPid]
  <1>1. i \in Slots /\ slots \in [Slots -> Procs \cup {NoPid}]
    BY DEF reap_dead_processes, LoopTypes, RestTypes
  <1>2. slots' = slots \/ (~exists(slots[i], Alive) /\ slots' = [slots EXCEPT ![i] = NoPid])
    BY DEF reap_dead_processes
  <1>3. ~exists(slots[i], Alive) => slots[i] \notin Alive
    BY DEF exists, kill0
  <1> QED BY <1>1, <1>2, <1>3

\* The client the loop works on.
LEMMA InLoop ==
    ASSUME NetTypes, LoopTypes, i <= Count
    PROVE  /\ i \in 1 .. Count /\ Client \in Procs /\ Count \in Nat
           /\ i \in Slots
           /\ c2s[Client] \in Seq(Frames)
  <1>1. Count \in Nat /\ i \in 1 .. Count
    BY SlotAssumption DEF LoopTypes, Count
  <1>2. Client \in Procs
    BY <1>1 DEF LoopTypes, Client, Count
  <1>3. i \in Slots
    BY <1>1, SlotAssumption DEF LoopTypes, Slots
  <1> QED BY <1>1, <1>2, <1>3 DEF NetTypes

\* A table without its entry i: the last one takes its place.
LEMMA Removed ==
    ASSUME NetTypes, LoopTypes, i <= Count
    PROVE  /\ WithoutClient \in Seq(Procs) /\ Len(WithoutClient) = Count - 1
           /\ \A j \in 1 .. Count - 1 :
                 WithoutClient[j] = IF j = i THEN client_fds[Count] ELSE client_fds[j]
  <1> DEFINE t == [client_fds EXCEPT ![i] = client_fds[Count]]
  <1>1. i \in 1 .. Count /\ Count \in Nat /\ client_fds \in Seq(Procs)
    BY InLoop DEF LoopTypes
  <1>2. /\ t \in Seq(Procs) /\ Len(t) = Count
        /\ \A j \in 1 .. Count : t[j] = IF j = i THEN client_fds[Count] ELSE client_fds[j]
    BY <1>1 DEF Count
  <1> HIDE DEF t
  <1>3. /\ SubSeq(t, 1, Count - 1) \in Seq(Procs)
        /\ Len(SubSeq(t, 1, Count - 1)) = Count - 1
        /\ \A j \in 1 .. Count - 1 : SubSeq(t, 1, Count - 1)[j] = t[j]
    BY <1>1, <1>2
  <1>4. WithoutClient = SubSeq(t, 1, Count - 1)
    BY DEF WithoutClient, t
  <1> HIDE DEF Count
  <1> QED BY <1>1, <1>2, <1>3, <1>4

\* What the parts of the protocol are made of.
LEMMA FrameTypes ==
    /\ Hello \in Frames /\ \A p \in Procs : Register(p) \in Frames
    /\ \A f \in Frames :
          /\ f.type \in {"SET_TIME", "SET_SEED"} => f.arg \in Int
          /\ f.type = "REGISTER" => f.arg \in Procs \cup {NoPid}
    /\ \A p \in Procs : Register(p).type = "REGISTER" /\ Register(p).arg = p
  BY DEF Frames, Hello, Register

-----------------------------------------------------------------------------
(* The kinds of steps. *)

\* The controller goes on without touching a connection.
Still ==
    /\ UNCHANGED <<netvars, up, client_fds>>
    /\ (pc # "ack" /\ pc' # "ack") \/ UNCHANGED <<pc, i>>

\* It takes a connection of the backlog, with room for it or without.
Takes ==
    /\ up = "run" /\ up' = up /\ pc # "ack" /\ pc' # "ack"
    /\ \/ NetAccept("open") /\ client_fds' = Append(client_fds, Head(backlog)) /\ Room
       \/ NetAccept("closed") /\ client_fds' = client_fds

Drops == Scanning /\ Drop

Reads == \E type \in {"HELLO", "SET_TIME", "SET_SEED", "REGISTER"} : Received(type)

Ends == \E how \in {"stopped", "killed"} : Ended(how)

\* p starts to ask, and waits for the answer.
Asks(p) ==
    \E f \in Frames, from \in {"hello", "register", "send"}, to \in Waiting :
        Request(p, from, f, to) /\ (to = "register_ack" => f = Register(p))

\* p reads the answer.
Learns(p) ==
    /\ cpc[p] \in Waiting /\ NetClientRead(p)
    /\ \/ acked' = acked /\ cpc[p] # "register_ack"
          /\ \E label \in {"register", "send", "run"} : Goto(p, label)
       \/ acked' = acked \cup {p} /\ cpc[p] = "register_ack" /\ Goto(p, "run")
    /\ UNCHANGED <<role, spawns>>
    /\ connected' \in {connected, [connected EXCEPT ![p] = TRUE]}

\* p gives up or ends.
Leaves(p) ==
    /\ NetClientClose(p) \/ UNCHANGED netvars
    /\ \/ acked' = acked \ {p} /\ Goto(p, "off")
       \/ acked' = acked /\ cpc[p] # "off" /\ Goto(p, "run")
    /\ UNCHANGED <<role, spawns>>
    /\ connected' \in {connected, [connected EXCEPT ![p] = FALSE]}

LEMMA ControllerKinds ==
    ASSUME ControllerStep(Alive) \/ ControllerEnv
    PROVE  Still \/ Takes \/ Drops \/ Reads \/ SendAck \/ Ends
  <1>1. CASE Top \/ Poll \/ NothingToAccept \/ NotReady \/ ScanDone \/ Tick
             \/ reap_dead_processes(Alive)
    BY <1>1 DEF Still, Top, Poll, NothingToAccept, NotReady, ScanDone, Tick, Scanning,
                reap_dead_processes
  <1>2. CASE Accept \/ Refuse
    BY <1>2 DEF Takes, Accept, Refuse
  <1>3. CASE HangUp \/ BadMessage \/ SignalInRead
    BY <1>3 DEF Drops, HangUp, BadMessage, SignalInRead, Handling
  <1>4. CASE HandleHello \/ HandleSetTime \/ HandleSetSeed \/ HandleRegister
    BY <1>4 DEF Reads, HandleHello, HandleSetTime, HandleSetSeed, HandleRegister
  <1>5. CASE SendAckBroken \/ Shutdown
    BY <1>5 DEF Ends, SendAckBroken, Shutdown
  <1>6. CASE Signal \/ SignalInPoll \/ Elapse
    BY <1>6 DEF Still, Signal, SignalInPoll, Elapse, loopvars
  <1> QED BY <1>1, <1>2, <1>3, <1>4, <1>5, <1>6 DEF ControllerStep, ControllerEnv

LEMMA ShimKinds ==
    ASSUME NEW p \in Procs, ShimStep(p) \/ ProgramStep(p)
    PROVE  (\E kind \in Roles[p] : Spawn(p, kind)) \/ Connect(p) \/ Asks(p) \/ Learns(p)
           \/ Leaves(p)
  <1>1. CASE ConnectFails(p) \/ RegisterFails(p) \/ HelloFails(p) \/ RequestBroken(p) \/ Exit(p)
    BY <1>1 DEF Leaves, ConnectFails, RegisterFails, HelloFails, RequestBroken, Exit
  <1>2. CASE SendHello(p) \/ SendRegister(p) \/ SendFrame(p)
    BY <1>2, FrameTypes, FramesAssumption
       DEF Asks, SendHello, SendRegister, SendFrame, Waiting
  <1>3. CASE HelloAcked(p)
    <2>1. \E label \in {"register", "send", "run"} : Goto(p, label)
      BY <1>3 DEF HelloAcked
    <2> QED BY <1>3, <2>1 DEF HelloAcked, Learns, Waiting
  <1>4. CASE RegisterAcked(p)
    BY <1>4 DEF RegisterAcked, Learns, Waiting
  <1>5. CASE FrameAnswered(p)
    BY <1>5 DEF FrameAnswered, Learns, Leaves, Waiting
  <1> QED BY <1>1, <1>2, <1>3, <1>4, <1>5 DEF ShimStep, ProgramStep

-----------------------------------------------------------------------------
(* Types. *)

LEMMA ShimTypesNext ==
    ASSUME ShimTypes, [Next]_vars
    PROVE  ShimTypes'
  <1>1. CASE UNCHANGED shimvars
    BY <1>1 DEF shimvars, ShimTypes
  <1>2. ASSUME NEW p \in Procs, ShimStep(p) \/ ProgramStep(p)
        PROVE  ShimTypes'
    <2>1. ASSUME NEW label \in ShimPCs, Goto(p, label),
                 role' \in [Procs -> {"program", "child", "tool"}],
                 connected' \in [Procs -> BOOLEAN],
                 acked' \subseteq Procs,
                 spawns' \in 0 .. MAX_SPAWNS
          PROVE  ShimTypes'
      BY <2>1 DEF ShimTypes, Goto
    <2>2. CASE \E kind \in Roles[p] : Spawn(p, kind)
      <3>1. PICK kind \in Roles[p] : Spawn(p, kind)
        BY <2>2
      <3>2. kind \in {"program", "child", "tool"}
        BY RoleAssumption
      <3>3. spawns' \in 0 .. MAX_SPAWNS
        BY <3>1, SpawnAssumption DEF Spawn, ShimTypes
      <3>4. "connect" \in ShimPCs /\ Goto(p, "connect")
        BY <3>1 DEF Spawn, ShimPCs
      <3>5. /\ role' \in [Procs -> {"program", "child", "tool"}]
            /\ connected' = connected /\ acked' \subseteq acked
        BY <3>1, <3>2 DEF Spawn, ShimTypes
      <3> QED BY <2>1, <3>3, <3>4, <3>5 DEF ShimTypes
    <2>3. CASE Connect(p)
      BY <2>1, <2>3 DEF Connect, ShimTypes, ShimPCs
    <2>4. CASE Asks(p)
      <3>1. PICK to \in Waiting : Goto(p, to)
        BY <2>4 DEF Asks, Request
      <3>2. to \in ShimPCs /\ UNCHANGED <<role, connected, acked, spawns>>
        BY <2>4, <3>1 DEF Asks, Request, Waiting, ShimPCs
      <3> QED BY <2>1, <3>1, <3>2 DEF ShimTypes
    <2>5. CASE Learns(p) \/ Leaves(p)
      <3>1. PICK label \in {"register", "send", "run", "off"} : Goto(p, label)
        BY <2>5 DEF Learns, Leaves
      <3>2. label \in ShimPCs
        BY <3>1 DEF ShimPCs
      <3>3. /\ connected' \in [Procs -> BOOLEAN] /\ acked' \subseteq Procs
            /\ UNCHANGED <<role, spawns>>
        BY <2>5 DEF Learns, Leaves, ShimTypes
      <3> QED BY <2>1, <3>1, <3>2, <3>3 DEF ShimTypes
    <2> QED BY <1>2, <2>2, <2>3, <2>4, <2>5, ShimKinds
  <1> QED BY <1>1, <1>2 DEF Next, vars

LEMMA NetTypesNext ==
    ASSUME NetTypes, LoopTypes, [Next]_vars
    PROVE  NetTypes'
  <1> USE DEF NetTypes
  <1>1. CASE UNCHANGED netvars
    BY <1>1 DEF netvars
  <1>2. CASE ControllerStep(Alive) \/ ControllerEnv
    <2>1. CASE Still
      BY <1>1, <2>1 DEF Still
    <2>2. CASE Takes
      <3>1. backlog # <<>> /\ backlog' = Tail(backlog) /\ UNCHANGED <<listening, cli, c2s, s2c>>
        BY <2>2 DEF Takes, NetAccept
      <3>2. Head(backlog) \in Procs /\ Tail(backlog) \in Seq(Procs)
        BY <3>1
      <3>3. srv' \in [Procs -> {"none", "queued", "open", "closed"}]
        BY <2>2, <3>2 DEF Takes, NetAccept
      <3> QED BY <3>1, <3>2, <3>3
    <2>3. CASE Drops
      <3>1. Client \in Procs
        BY <2>3, InLoop DEF Drops, Scanning
      <3> QED BY <2>3, <3>1 DEF Drops, Drop, NetServerClose
    <2>4. CASE Reads
      <3>1. Client \in Procs
        BY <2>4, InLoop DEF Reads, Received, Handling, Scanning
      <3> QED BY <2>4, <3>1 DEF Reads, Received, NetServerRead
    <2>5. CASE SendAck
      <3>1. Client \in Procs
        BY <2>5, InLoop DEF SendAck, LoopTypes
      <3> QED BY <2>5, <3>1 DEF SendAck, NetServerWrite
    <2>6. CASE Ends
      <3>1. listening' = FALSE /\ backlog' = <<>> /\ UNCHANGED <<cli, c2s, s2c>>
            /\ srv' = [p \in Procs |-> IF srv[p] = "none" THEN "none" ELSE "closed"]
        BY <2>6 DEF Ends, Ended, NetServerGone
      <3>2. srv' \in [Procs -> {"none", "queued", "open", "closed"}] /\ backlog' \in Seq(Procs)
        BY <3>1
      <3> QED BY <3>1, <3>2
    <2> QED BY <1>2, <2>1, <2>2, <2>3, <2>4, <2>5, <2>6, ControllerKinds
  <1>3. ASSUME NEW p \in Procs, ShimStep(p) \/ ProgramStep(p)
        PROVE  NetTypes'
    <2>1. CASE \E kind \in Roles[p] : Spawn(p, kind)
      BY <1>1, <2>1 DEF Spawn
    <2>2. CASE Connect(p)
      BY <2>2 DEF Connect, NetConnect
    <2>3. CASE Asks(p)
      BY <2>3 DEF Asks, Request, NetClientWrite
    <2>4. CASE Learns(p)
      BY <2>4 DEF Learns, NetClientRead
    <2>5. CASE Leaves(p)
      BY <1>1, <2>5 DEF Leaves, NetClientClose
    <2> QED BY <1>3, <2>1, <2>2, <2>3, <2>4, <2>5, ShimKinds
  <1> QED BY <1>1, <1>2, <1>3 DEF Next, vars

LEMMA LoopTypesNext ==
    ASSUME NetTypes, LoopTypes, [Next]_vars
    PROVE  LoopTypes'
  <1> USE DEF Count
  <1>0. Count \in Nat /\ SLOT_COUNT \in Nat /\ i \in Nat /\ 1 \in 1 .. SLOT_COUNT + 1
    BY SlotAssumption DEF LoopTypes
  <1>1. ASSUME up' = up, client_fds' = client_fds, i' = i \/ i' = 1,
               pc' \in {"top", "poll", "accept", "scan"},
               revents' \in [Slots -> SUBSET {"IN", "HUP"}], lready' \in BOOLEAN
        PROVE  LoopTypes'
    BY <1>0, <1>1 DEF LoopTypes
  <1>2. CASE UNCHANGED loopvars
    BY <1>2 DEF loopvars, LoopTypes
  <1>3. CASE Top \/ NothingToAccept \/ SignalInPoll \/ Refuse
    <2>1. revents' = revents /\ lready' \in {lready, FALSE}
      BY <1>3 DEF Top, NothingToAccept, SignalInPoll, Refuse
    <2>2. pc' \in {"top", "poll", "accept", "scan"}
      BY <1>3 DEF Top, NothingToAccept, SignalInPoll, Refuse
    <2>3. up' = up /\ client_fds' = client_fds /\ (i' = i \/ i' = 1)
      BY <1>3 DEF Top, NothingToAccept, SignalInPoll, Refuse
    <2> QED BY <1>1, <2>1, <2>2, <2>3 DEF LoopTypes
  <1>4. CASE Poll
    <2>1. revents' \in [Slots -> SUBSET {"IN", "HUP"}]
      BY <1>4 DEF Poll, LoopTypes, Revents
    <2>2. lready' \in BOOLEAN
      BY <1>4 DEF Poll
    <2> QED BY <1>1, <1>4, <2>1, <2>2 DEF Poll
  <1>5. CASE Accept
    <2>1. Head(backlog) \in Procs
      BY <1>5 DEF Accept, NetAccept, NetTypes
    <2>2. client_fds' \in Seq(Procs) /\ Count' = Count + 1
      BY <1>5, <2>1 DEF Accept, LoopTypes
    <2>3. Count' <= SLOT_COUNT
      BY <1>0, <1>5, <2>2 DEF Accept, Room
    <2> QED BY <1>0, <1>5, <2>2, <2>3 DEF Accept, LoopTypes
  <1>6. CASE Drops
    <2>1. i <= Count /\ client_fds' = WithoutClient /\ UNCHANGED <<up, revents, lready, i>>
          /\ pc' = "scan"
      BY <1>6 DEF Drops, Scanning, Drop
    <2>2. client_fds' \in Seq(Procs) /\ Count' = Count - 1
      BY <2>1, Removed
    <2>3. Count' <= SLOT_COUNT
      BY <1>0, <2>2 DEF LoopTypes
    <2> QED BY <2>1, <2>2, <2>3 DEF LoopTypes
  <1>7. CASE NotReady
    <2>1. i <= Count /\ i' = i + 1 /\ UNCHANGED <<up, pc, client_fds, revents, lready>>
          /\ pc = "scan"
      BY <1>7 DEF NotReady, Scanning
    <2>2. i' \in 1 .. SLOT_COUNT + 1
      BY <1>0, <2>1 DEF LoopTypes
    <2> QED BY <2>1, <2>2 DEF LoopTypes
  <1>8. CASE Reads
    <2>1. /\ UNCHANGED <<up, client_fds, revents, lready, i>> /\ pc' = "ack"
          /\ up = "run" /\ i <= Count
      BY <1>8 DEF Reads, Received, Acknowledge, Handling, Scanning
    <2> QED BY <2>1 DEF LoopTypes
  <1>9. CASE SendAck
    <2>1. /\ UNCHANGED <<up, client_fds, revents, lready>> /\ pc' = "scan" /\ i' = i + 1
          /\ i <= Count
      BY <1>9 DEF SendAck, LoopTypes
    <2>2. i' \in 1 .. SLOT_COUNT + 1
      BY <1>0, <2>1 DEF LoopTypes
    <2> QED BY <2>1, <2>2 DEF LoopTypes
  <1>10. CASE Ends
    <2>1. /\ up' \in {"stopped", "killed"} /\ pc' = "top" /\ client_fds' = <<>>
          /\ revents' = [s \in Slots |-> {}] /\ lready' = FALSE /\ i' = 1
      BY <1>10 DEF Ends, Ended
    <2>2. client_fds' \in Seq(Procs) /\ Count' <= SLOT_COUNT
      BY <1>0, <2>1
    <2>3. revents' \in [Slots -> SUBSET {"IN", "HUP"}] /\ lready' \in BOOLEAN
      BY <2>1
    <2> QED BY <1>0, <2>1, <2>2, <2>3 DEF LoopTypes
  <1>11. CASE ScanDone \/ Tick
    <2>1. /\ UNCHANGED <<up, client_fds, revents, lready>> /\ i' = 1
          /\ pc' \in {"tick", "reap", "top"}
      BY <1>11 DEF ScanDone, Tick, LoopTypes
    <2>2. 1 \in Slots
      BY SlotAssumption DEF Slots
    <2> QED BY <1>0, <2>1, <2>2 DEF LoopTypes
  <1>12. CASE reap_dead_processes(Alive)
    <2>1. /\ UNCHANGED <<up, client_fds, revents, lready>>
          /\ \/ i < SLOT_COUNT /\ i' = i + 1 /\ pc' = "reap"
             \/ i' = 1 /\ pc' = "top"
      BY <1>12 DEF reap_dead_processes
    <2>2. i < SLOT_COUNT => i + 1 \in Slots /\ i + 1 \in 1 .. SLOT_COUNT + 1
      BY <1>0 DEF Slots
    <2> QED BY <1>0, <2>1, <2>2 DEF LoopTypes
  <1>13. CASE ControllerStep(Alive) \/ ControllerEnv
    <2>1. UNCHANGED loopvars \/ Top \/ Poll \/ NothingToAccept \/ Accept \/ Refuse \/ NotReady
          \/ ScanDone \/ Tick \/ reap_dead_processes(Alive) \/ SignalInPoll \/ Drops \/ Reads
          \/ SendAck \/ Ends
      BY <1>13 DEF ControllerStep, ControllerEnv, Drops, HangUp, BadMessage, SignalInRead,
                   Handling, Reads, HandleHello, HandleSetTime, HandleSetSeed,
                   HandleRegister, Ends, SendAckBroken, Shutdown, Signal, Elapse
    <2> QED BY <1>2, <1>3, <1>4, <1>5, <1>6, <1>7, <1>8, <1>9, <1>10, <1>11, <1>12, <2>1
  <1> QED BY <1>2, <1>13 DEF Next, vars, ctlvars

\* The slots, the time and the history of registrations.
LEMMA RestNext ==
    ASSUME NetTypes, LoopTypes, RestTypes, SlotsUnique, TimeAccounted, [Next]_vars
    PROVE  RestTypes' /\ SlotsUnique' /\ TimeAccounted'
  <1>1. ASSUME UNCHANGED <<slots, now, last_tick, vtime, base, refused>>, g_stop' \in BOOLEAN
        PROVE  RestTypes' /\ SlotsUnique' /\ TimeAccounted'
    BY <1>1 DEF RestTypes, SlotsUnique, TimeAccounted
  <1>2. CASE HandleRegister
    <2> DEFINE pid == Argument
    <2>1. pid \in Procs \cup {NoPid} /\ slots' = register_process(pid)
      <3>1. /\ i <= Count /\ Len(c2s[Client]) = 1 /\ c2s[Client][1].type = "REGISTER"
            /\ slots' = register_process(pid)
        BY <1>2 DEF HandleRegister, Received, Handling, Scanning
      <3>2. c2s[Client] \in Seq(Frames)
        BY <3>1, InLoop
      <3>3. c2s[Client][1] \in Frames
        BY <3>1, <3>2
      <3> QED BY <3>1, <3>3, FrameTypes DEF Argument
    <2> HIDE DEF pid
    <2>2. \/ slots' = slots
          \/ /\ \A s \in Slots : slots[s] # pid
             /\ \E e \in Slots : slots[e] = NoPid /\ slots' = [slots EXCEPT ![e] = pid]
      BY <2>1, Registration DEF HasSlot, EmptySlots
    <2>3. slots' \in [Slots -> Procs \cup {NoPid}]
      BY <2>1, <2>2 DEF RestTypes
    <2>4. SlotsUnique'
      BY <2>1, <2>2 DEF SlotsUnique, RestTypes
    <2>5. refused' \subseteq Procs
      BY <1>2, <2>1 DEF HandleRegister, RestTypes, pid
    <2>6. UNCHANGED <<g_stop, now, last_tick, vtime, base>>
      BY <1>2 DEF HandleRegister, Received, timevars
    <2> QED BY <2>3, <2>4, <2>5, <2>6 DEF RestTypes, TimeAccounted
  <1>3. CASE HandleSetTime
    <2>1. Argument \in Int
      <3>1. /\ i <= Count /\ Len(c2s[Client]) = 1 /\ c2s[Client][1].type = "SET_TIME"
        BY <1>3 DEF HandleSetTime, Received, Handling, Scanning
      <3>2. c2s[Client] \in Seq(Frames)
        BY <3>1, InLoop
      <3>3. c2s[Client][1] \in Frames
        BY <3>1, <3>2
      <3> QED BY <3>1, <3>3, FrameTypes DEF Argument
    <2>2. /\ vtime' = Argument /\ base' = Argument - last_tick
          /\ UNCHANGED <<g_stop, slots, now, last_tick, refused>>
      BY <1>3 DEF HandleSetTime, Received
    <2>3. last_tick \in Int /\ base' \in Int /\ vtime' = base' + last_tick
      BY <2>1, <2>2 DEF RestTypes
    <2> QED BY <2>1, <2>2, <2>3 DEF RestTypes, SlotsUnique, TimeAccounted
  <1>4. CASE Tick
    <2>1. UNCHANGED <<g_stop, slots, now, base, refused>>
      BY <1>4 DEF Tick
    <2>2. \/ UNCHANGED <<vtime, last_tick>>
          \/ now > last_tick /\ vtime' = vtime + (now - last_tick) /\ last_tick' = now
      BY <1>4 DEF Tick, LastTickMoved
    <2>3. now \in 0 .. MAX_NOW /\ last_tick \in 0 .. now /\ vtime \in Int /\ base \in Int
          /\ vtime = base + last_tick
      BY DEF RestTypes, TimeAccounted
    <2>4. last_tick' \in 0 .. now /\ vtime' \in Int /\ vtime' = base + last_tick'
      BY <2>2, <2>3, NowAssumption
    <2> QED BY <2>1, <2>4 DEF RestTypes, SlotsUnique, TimeAccounted
  <1>5. CASE Elapse
    <2>1. now' = now + 1 /\ now < MAX_NOW
          /\ UNCHANGED <<g_stop, slots, last_tick, vtime, base, refused>>
      BY <1>5 DEF Elapse, timevars
    <2>2. now' \in 0 .. MAX_NOW /\ last_tick \in 0 .. now'
      BY <2>1, NowAssumption DEF RestTypes
    <2> QED BY <2>1, <2>2 DEF RestTypes, SlotsUnique, TimeAccounted
  <1>6. CASE UNCHANGED restvars
    BY <1>1, <1>6 DEF restvars, timevars, RestTypes
  <1>7. CASE HandleHello \/ HandleSetSeed
    BY <1>1, <1>7 DEF HandleHello, HandleSetSeed, Received, timevars, RestTypes
  <1>8. CASE Signal \/ SignalInPoll \/ SignalInRead
    BY <1>1, <1>8 DEF Signal, SignalInPoll, SignalInRead, timevars
  <1>9. CASE reap_dead_processes(Alive)
    <2>1. UNCHANGED <<g_stop, now, last_tick, vtime, base, refused>>
      BY <1>9 DEF reap_dead_processes, timevars
    <2>2. /\ slots' \in [Slots -> Procs \cup {NoPid}]
          /\ \A s \in Slots : slots'[s] \in {slots[s], NoPid}
      BY <1>9, Reaped DEF RestTypes
    <2>3. SlotsUnique'
      BY <2>2 DEF SlotsUnique
    <2> QED BY <2>1, <2>2, <2>3 DEF RestTypes, TimeAccounted
  <1>10. CASE ControllerStep(Alive) \/ ControllerEnv
    <2>1. UNCHANGED restvars \/ HandleHello \/ HandleSetTime \/ HandleSetSeed \/ HandleRegister
          \/ Tick \/ reap_dead_processes(Alive) \/ Signal \/ SignalInPoll \/ SignalInRead
          \/ Elapse
      BY <1>10 DEF ControllerStep, ControllerEnv, Top, Poll, NothingToAccept, Accept, Refuse,
                  HangUp, NotReady, BadMessage, SendAck, SendAckBroken, ScanDone, Shutdown,
                  Ended
    <2> QED BY <1>2, <1>3, <1>4, <1>5, <1>6, <1>7, <1>8, <1>9, <2>1
  <1> QED BY <1>6, <1>10 DEF Next, vars, ctlvars

-----------------------------------------------------------------------------
(* The client table and the backlog. *)

\* No entry appears twice.
Distinct(s) == \A j, k \in 1 .. Len(s) : s[j] = s[k] => j = k
\* p is an entry.
Holds(s, p) == \E j \in 1 .. Len(s) : s[j] = p

LEMMA TableMeans ==
    ASSUME up = "run"
    PROVE  /\ ClientTableSound <=>
                 /\ Distinct(client_fds)
                 /\ \A p \in Procs : Holds(client_fds, p) <=> srv[p] = "open"
           /\ BacklogSound <=>
                 /\ Distinct(backlog)
                 /\ \A p \in Procs : Holds(backlog, p) <=> srv[p] = "queued"
  BY DEF ClientTableSound, BacklogSound, InTable, Count, Distinct, Holds

\* An entry is added at the end.
LEMMA Appended ==
    ASSUME NEW s \in Seq(Procs), NEW q \in Procs, Distinct(s), ~Holds(s, q)
    PROVE  /\ Distinct(Append(s, q))
           /\ \A p \in Procs : Holds(Append(s, q), p) <=> Holds(s, p) \/ p = q
  <1> DEFINE t == Append(s, q)
             n == Len(s)
  <1>1. n \in Nat /\ Len(t) = n + 1 /\ t[n + 1] = q /\ \A j \in 1 .. n : t[j] = s[j]
    OBVIOUS
  <1> HIDE DEF t
  <1>2. Distinct(t)
    <2> SUFFICES ASSUME NEW j \in 1 .. n + 1, NEW k \in 1 .. n + 1, t[j] = t[k]
                 PROVE  j = k
      BY <1>1 DEF Distinct
    <2>1. \A m \in 1 .. n : s[m] # q
      BY DEF Holds
    <2>2. (j \in 1 .. n \/ j = n + 1) /\ (k \in 1 .. n \/ k = n + 1)
      BY <1>1
    <2> QED BY <1>1, <2>1, <2>2 DEF Distinct
  <1>3. ASSUME NEW p \in Procs PROVE Holds(t, p) <=> Holds(s, p) \/ p = q
    <2>1. ASSUME Holds(t, p) PROVE Holds(s, p) \/ p = q
      <3>1. PICK j \in 1 .. n + 1 : t[j] = p
        BY <1>1, <2>1 DEF Holds
      <3>2. j \in 1 .. n \/ j = n + 1
        BY <1>1
      <3> QED BY <1>1, <3>1, <3>2 DEF Holds
    <2>2. ASSUME Holds(s, p) PROVE Holds(t, p)
      <3>1. PICK j \in 1 .. n : s[j] = p
        BY <2>2 DEF Holds
      <3>2. j \in 1 .. n + 1
        BY <1>1
      <3> QED BY <1>1, <3>1, <3>2 DEF Holds
    <2>3. Holds(t, q)
      <3>1. n + 1 \in 1 .. Len(t)
        BY <1>1
      <3> QED BY <1>1, <3>1 DEF Holds
    <2> QED BY <2>1, <2>2, <2>3
  <1> QED BY <1>2, <1>3 DEF t

\* The first entry is taken.
LEMMA Taken ==
    ASSUME NEW s \in Seq(Procs), s # <<>>, Distinct(s)
    PROVE  /\ Head(s) \in Procs /\ Holds(s, Head(s)) /\ Distinct(Tail(s))
           /\ \A p \in Procs : Holds(Tail(s), p) <=> Holds(s, p) /\ p # Head(s)
  <1> DEFINE t == Tail(s)
             n == Len(s)
  <1>1. /\ n \in Nat /\ n > 0 /\ Len(t) = n - 1 /\ \A j \in 1 .. n - 1 : t[j] = s[j + 1]
        /\ Head(s) = s[1] /\ Head(s) \in Procs
    BY EmptySeq
  <1> HIDE DEF t
  <1>2. Holds(s, Head(s))
    BY <1>1 DEF Holds
  <1>3. Distinct(t)
    <2> SUFFICES ASSUME NEW j \in 1 .. n - 1, NEW k \in 1 .. n - 1, t[j] = t[k]
                 PROVE  j = k
      BY <1>1 DEF Distinct
    <2>1. s[j + 1] = s[k + 1] /\ j + 1 \in 1 .. n /\ k + 1 \in 1 .. n
      BY <1>1
    <2>2. j + 1 = k + 1
      BY <2>1 DEF Distinct
    <2> QED BY <2>2
  <1>4. ASSUME NEW p \in Procs PROVE Holds(t, p) <=> Holds(s, p) /\ p # Head(s)
    <2>1. ASSUME Holds(t, p) PROVE Holds(s, p) /\ p # Head(s)
      <3>1. PICK j \in 1 .. n - 1 : t[j] = p
        BY <1>1, <2>1 DEF Holds
      <3>2. j + 1 \in 1 .. n /\ s[j + 1] = p /\ 1 \in 1 .. n /\ j + 1 # 1
        BY <1>1, <3>1
      <3> QED BY <1>1, <3>2 DEF Holds, Distinct
    <2>2. ASSUME Holds(s, p), p # Head(s) PROVE Holds(t, p)
      <3>1. PICK j \in 1 .. n : s[j] = p
        BY <2>2 DEF Holds
      <3>2. j - 1 \in 1 .. n - 1 /\ (j - 1) + 1 = j
        BY <1>1, <2>2, <3>1
      <3>3. t[j - 1] = p
        BY <1>1, <3>1, <3>2
      <3> QED BY <1>1, <3>2, <3>3 DEF Holds
    <2> QED BY <2>1, <2>2
  <1> QED BY <1>1, <1>2, <1>3, <1>4 DEF t

\* The client of the loop is dropped.
LEMMA Dropped ==
    ASSUME NetTypes, LoopTypes, i <= Count, Distinct(client_fds)
    PROVE  /\ Distinct(WithoutClient) /\ Holds(client_fds, Client)
           /\ \A p \in Procs :
                 Holds(WithoutClient, p) <=> Holds(client_fds, p) /\ p # Client
  <1> DEFINE s == client_fds
             t == WithoutClient
             n == Len(s)
  <1>1. /\ n \in Nat /\ i \in 1 .. n /\ Len(t) = n - 1 /\ Client = s[i]
        /\ \A j \in 1 .. n - 1 : t[j] = IF j = i THEN s[n] ELSE s[j]
    BY InLoop, Removed DEF Count, Client
  <1>2. \A j, k \in 1 .. n : s[j] = s[k] => j = k
    BY DEF Distinct
  <1> HIDE DEF t, s
  <1>3. Distinct(t)
    <2> SUFFICES ASSUME NEW j \in 1 .. n - 1, NEW k \in 1 .. n - 1, t[j] = t[k]
                 PROVE  j = k
      BY <1>1 DEF Distinct
    <2>1. j \in 1 .. n /\ k \in 1 .. n /\ n \in 1 .. n /\ j # n /\ k # n
      BY <1>1
    <2> HIDE DEF n
    <2> QED BY <1>1, <1>2, <2>1
  <1>4. Holds(s, Client)
    BY <1>1 DEF Holds
  <1>5. ASSUME NEW p \in Procs PROVE Holds(t, p) <=> Holds(s, p) /\ p # Client
    <2>1. ASSUME Holds(t, p) PROVE Holds(s, p) /\ p # Client
      <3>1. PICK j \in 1 .. n - 1 : t[j] = p
        BY <1>1, <2>1 DEF Holds
      <3>2. j \in 1 .. n /\ n \in 1 .. n /\ j # n
        BY <1>1
      <3> QED BY <1>1, <1>2, <3>1, <3>2 DEF Holds
    <2>2. ASSUME Holds(s, p), p # Client PROVE Holds(t, p)
      <3>1. PICK j \in 1 .. n : s[j] = p
        BY <2>2 DEF Holds
      <3>2. j # i
        BY <1>1, <2>2, <3>1
      <3>3. CASE j = n
        <4>1. i \in 1 .. n - 1
          BY <1>1, <3>2, <3>3
        <4>2. t[i] = p
          BY <1>1, <3>1, <3>3, <4>1
        <4> QED BY <1>1, <4>1, <4>2 DEF Holds
      <3>4. CASE j # n
        <4>1. j \in 1 .. n - 1
          BY <1>1, <3>4
        <4>2. t[j] = p
          BY <1>1, <3>1, <3>2, <4>1
        <4> QED BY <1>1, <4>1, <4>2 DEF Holds
      <3> QED BY <3>3, <3>4
    <2> QED BY <2>1, <2>2
  <1> QED BY <1>3, <1>4, <1>5 DEF t, s

LEMMA TablesNext ==
    ASSUME NetTypes, LoopTypes, ClientTableSound, BacklogSound, ConnInv, [Next]_vars
    PROVE  ClientTableSound' /\ BacklogSound'
  <1>1. ASSUME Distinct(client_fds'), Distinct(backlog'),
               \A p \in Procs : Holds(client_fds', p) <=> srv'[p] = "open",
               \A p \in Procs : Holds(backlog', p) <=> srv'[p] = "queued"
        PROVE  ClientTableSound' /\ BacklogSound'
    BY <1>1 DEF ClientTableSound, BacklogSound, InTable, Count, Distinct, Holds
  <1>2. CASE up' # "run"
    BY <1>2 DEF ClientTableSound, BacklogSound
  <1>3. CASE UNCHANGED <<up, client_fds, backlog, srv>>
    BY <1>3 DEF ClientTableSound, BacklogSound, InTable, Count
  <1>4. ASSUME up = "run"
        PROVE  /\ Distinct(client_fds) /\ Distinct(backlog)
               /\ \A p \in Procs : Holds(client_fds, p) <=> srv[p] = "open"
               /\ \A p \in Procs : Holds(backlog, p) <=> srv[p] = "queued"
               /\ client_fds \in Seq(Procs) /\ backlog \in Seq(Procs)
               /\ srv \in [Procs -> {"none", "queued", "open", "closed"}]
    BY <1>4, TableMeans DEF NetTypes, LoopTypes
  <1>5. CASE ControllerStep(Alive) \/ ControllerEnv
    <2>1. CASE Still
      BY <1>3, <2>1 DEF Still, netvars
    <2>2. CASE Takes
      <3> DEFINE q == Head(backlog)
      <3>1. CASE up = "run"
        <4>1. backlog # <<>> /\ backlog' = Tail(backlog)
          BY <2>2 DEF Takes, NetAccept
        <4>2. /\ q \in Procs /\ srv[q] = "queued" /\ Distinct(backlog')
              /\ \A p \in Procs : Holds(backlog', p) <=> srv[p] = "queued" /\ p # q
          BY <1>4, <3>1, <4>1, Taken
        <4>3. CASE NetAccept("open") /\ client_fds' = Append(client_fds, q)
          <5>1. srv' = [srv EXCEPT ![q] = "open"] /\ ~Holds(client_fds, q)
            BY <1>4, <3>1, <4>2, <4>3 DEF NetAccept
          <5>2. /\ Distinct(client_fds')
                /\ \A p \in Procs : Holds(client_fds', p) <=> srv[p] = "open" \/ p = q
            BY <1>4, <3>1, <4>2, <4>3, <5>1, Appended
          <5> HIDE DEF q
          <5> QED BY <1>1, <1>4, <3>1, <4>2, <5>1, <5>2
        <4>4. CASE NetAccept("closed") /\ client_fds' = client_fds
          <5>1. srv' = [srv EXCEPT ![q] = "closed"]
            BY <4>4 DEF NetAccept
          <5> HIDE DEF q
          <5> QED BY <1>1, <1>4, <3>1, <4>2, <4>4, <5>1
        <4> QED BY <2>2, <4>3, <4>4 DEF Takes
      <3> QED BY <1>2, <2>2, <3>1 DEF Takes
    <2>3. CASE Drops
      <3>1. /\ up = "run" /\ i <= Count /\ client_fds' = WithoutClient /\ backlog' = backlog
            /\ srv' = [srv EXCEPT ![Client] = "closed"]
        BY <2>3 DEF Drops, Drop, Scanning, NetServerClose
      <3>2. /\ Distinct(client_fds') /\ Client \in Procs /\ srv[Client] = "open"
            /\ \A p \in Procs : Holds(client_fds', p) <=> srv[p] = "open" /\ p # Client
        BY <1>4, <3>1, Dropped, InLoop
      <3> QED BY <1>1, <1>4, <3>1, <3>2
    <2>4. CASE Reads
      BY <1>3, <2>4 DEF Reads, Received, NetServerRead
    <2>5. CASE SendAck
      BY <1>3, <2>5 DEF SendAck, NetServerWrite
    <2>6. CASE Ends
      BY <1>2, <2>6 DEF Ends, Ended
    <2> QED BY <1>5, <2>1, <2>2, <2>3, <2>4, <2>5, <2>6, ControllerKinds
  <1>6. ASSUME NEW p \in Procs, ShimStep(p) \/ ProgramStep(p), UNCHANGED ctlvars
        PROVE  ClientTableSound' /\ BacklogSound'
    <2>0. UNCHANGED <<up, client_fds>>
      BY <1>6 DEF ctlvars, loopvars
    <2>1. CASE Connect(p)
      <3>1. CASE up = "run"
        <4>1. /\ backlog' = Append(backlog, p) /\ srv' = [srv EXCEPT ![p] = "queued"]
              /\ srv[p] \in {"none", "closed"}
          BY <2>1 DEF Connect, NetConnect, ConnInv, Conn
        <4>2. ~Holds(backlog, p)
          BY <1>4, <3>1, <4>1
        <4>3. /\ Distinct(backlog')
              /\ \A q \in Procs : Holds(backlog', q) <=> srv[q] = "queued" \/ q = p
          BY <1>4, <3>1, <4>1, <4>2, Appended
        <4>4. \A q \in Procs : Holds(client_fds', q) <=> srv'[q] = "open"
          BY <1>4, <2>0, <3>1, <4>1
        <4>5. \A q \in Procs : Holds(backlog', q) <=> srv'[q] = "queued"
          BY <1>4, <3>1, <4>1, <4>3
        <4> QED BY <1>1, <1>4, <2>0, <3>1, <4>3, <4>4, <4>5
      <3> QED BY <1>2, <2>0, <3>1
    <2>2. CASE UNCHANGED <<srv, backlog>>
      BY <1>3, <2>0, <2>2
    <2>3. Connect(p) \/ UNCHANGED <<srv, backlog>>
      BY <1>6, ShimKinds DEF Spawn, Asks, Request, Learns, Leaves, netvars, NetClientWrite,
                             NetClientRead, NetClientClose
    <2> QED BY <2>1, <2>2, <2>3
  <1>7. CASE UNCHANGED vars
    BY <1>3, <1>7 DEF vars, ctlvars, loopvars, netvars
  <1> QED BY <1>5, <1>6, <1>7 DEF Next

\* The answer the controller is about to write goes to a client it knows.
LEMMA BusyIsOpen ==
    ASSUME NetTypes, LoopTypes, ClientTableSound, NEW p \in Procs, Busy(p)
    PROVE  srv[p] = "open"
  <1>1. up = "run" /\ i <= Count /\ Client = p
    BY DEF LoopTypes, Busy
  <1>2. i \in 1 .. Count
    BY <1>1, InLoop
  <1> QED BY <1>1, <1>2 DEF ClientTableSound, InTable, Client

-----------------------------------------------------------------------------
(* The frames in flight. *)

LEMMA ConnNext ==
    ASSUME NetTypes, LoopTypes, ShimTypes, ClientTableSound, BacklogSound, ConnInv, [Next]_vars
    PROVE  ConnInv'
  <1>1. ASSUME NEW p \in Procs, cpc'[p] = cpc[p], c2s'[p] = c2s[p], s2c'[p] = s2c[p],
               srv'[p] \in {srv[p], "closed"}, Busy(p)' <=> Busy(p)
        PROVE  Conn(p)'
    BY <1>1 DEF ConnInv, Conn
  <1>2. CASE (ControllerStep(Alive) \/ ControllerEnv) /\ UNCHANGED shimvars
    <2>0. cpc' = cpc
      BY <1>2 DEF shimvars
    <2>1. CASE Still
      <3>1. UNCHANGED <<srv, c2s, s2c>> /\ \A p \in Procs : Busy(p)' <=> Busy(p)
        BY <2>1 DEF Still, netvars, Busy, Client
      <3> QED BY <1>1, <2>0, <3>1 DEF ConnInv
    <2>2. CASE Takes
      <3> DEFINE q == Head(backlog)
      <3>1. /\ UNCHANGED <<c2s, s2c>> /\ \A p \in Procs : ~Busy(p)' /\ ~Busy(p)
            /\ up = "run" /\ backlog # <<>>
        BY <2>2 DEF Takes, NetAccept, Busy
      <3>2. q \in Procs /\ srv[q] = "queued"
        <4>1. Distinct(backlog) /\ backlog \in Seq(Procs)
          BY <3>1, TableMeans DEF NetTypes
        <4>2. Holds(backlog, q) /\ q \in Procs
          BY <3>1, <4>1, Taken
        <4> QED BY <3>1, <4>2, TableMeans
      <3>3. srv' = [srv EXCEPT ![q] = "open"] \/ srv' = [srv EXCEPT ![q] = "closed"]
        BY <2>2 DEF Takes, NetAccept
      <3> HIDE DEF q
      <3>4. \A p \in Procs \ {q} : srv'[p] = srv[p]
        BY <3>3 DEF NetTypes
      <3>5. Conn(q) /\ srv[q] # "closed"
        BY <3>2 DEF ConnInv
      <3>6. ASSUME NEW p \in Procs, p = q PROVE Conn(p)'
        BY <2>0, <3>1, <3>2, <3>5, <3>6 DEF Conn
      <3> QED BY <1>1, <2>0, <3>1, <3>4, <3>6 DEF ConnInv
    <2>3. CASE Drops
      <3>1. /\ i <= Count /\ s2c' = s2c /\ \A p \in Procs : ~Busy(p)' /\ ~Busy(p)
            /\ srv' = [srv EXCEPT ![Client] = "closed"]
            /\ c2s' = [c2s EXCEPT ![Client] = <<>>]
        BY <2>3 DEF Drops, Drop, Scanning, NetServerClose, Busy
      <3>2. Client \in Procs
        BY <3>1, InLoop
      <3>3. srv'[Client] = "closed" /\ c2s'[Client] = <<>>
            /\ \A p \in Procs \ {Client} : srv'[p] = srv[p] /\ c2s'[p] = c2s[p]
        BY <3>1, <3>2 DEF NetTypes
      <3>4. Conn(Client)
        BY <3>2 DEF ConnInv
      <3>5. ASSUME NEW p \in Procs, p = Client PROVE Conn(p)'
        BY <2>0, <3>1, <3>3, <3>4, <3>5 DEF Conn
      <3> QED BY <1>1, <2>0, <3>1, <3>3, <3>5 DEF ConnInv
    <2>4. CASE Reads
      <3>1. /\ up = "run" /\ i <= Count /\ Len(c2s[Client]) = 1 /\ UNCHANGED <<srv, s2c>>
            /\ c2s' = [c2s EXCEPT ![Client] = <<>>]
            /\ pc # "ack" /\ pc' = "ack" /\ UNCHANGED <<client_fds, i>>
        BY <2>4 DEF Reads, Received, Handling, Scanning, NetServerRead, Acknowledge
      <3>2. i \in 1 .. Count /\ Client \in Procs /\ Client' = Client
        BY <3>1, InLoop DEF Client
      <3>3. srv[Client] = "open"
        BY <3>1, <3>2 DEF ClientTableSound, InTable, Client
      <3>4. /\ \A p \in Procs : ~Busy(p) /\ (Busy(p)' <=> p = Client)
            /\ c2s'[Client] = <<>> /\ \A p \in Procs \ {Client} : c2s'[p] = c2s[p]
        BY <3>1, <3>2 DEF Busy, NetTypes
      <3>5. Conn(Client) /\ c2s[Client] # <<>>
        BY <3>1, <3>2 DEF ConnInv
      <3>6. ASSUME NEW p \in Procs, p = Client PROVE Conn(p)'
        BY <2>0, <3>1, <3>3, <3>4, <3>5, <3>6 DEF Conn
      <3> QED BY <1>1, <2>0, <3>1, <3>4, <3>6 DEF ConnInv
    <2>5. CASE SendAck
      <3>1. /\ pc = "ack" /\ pc' = "scan" /\ UNCHANGED <<srv, c2s>>
            /\ s2c' = [s2c EXCEPT ![Client] = Append(@, Ack)]
        BY <2>5 DEF SendAck, NetServerWrite
      <3>2. Client \in Procs
        BY <3>1, InLoop DEF LoopTypes
      <3>3. /\ \A p \in Procs : ~Busy(p)' /\ (Busy(p) <=> p = Client)
            /\ s2c'[Client] = Append(s2c[Client], Ack)
            /\ \A p \in Procs \ {Client} : s2c'[p] = s2c[p]
        BY <3>1, <3>2 DEF Busy, NetTypes
      <3>4. Conn(Client) /\ Append(<<>>, Ack) = <<Ack>>
        BY <3>2 DEF ConnInv
      <3>5. ASSUME NEW p \in Procs, p = Client PROVE Conn(p)'
        BY <2>0, <3>1, <3>3, <3>4, <3>5 DEF Conn
      <3> QED BY <1>1, <2>0, <3>1, <3>3, <3>5 DEF ConnInv
    <2>6. CASE Ends
      <3>1. /\ UNCHANGED <<c2s, s2c>> /\ \A p \in Procs : ~Busy(p)'
            /\ \A p \in Procs : srv'[p] = IF srv[p] = "none" THEN "none" ELSE "closed"
        BY <2>6 DEF Ends, Ended, NetServerGone, Busy
      <3>2. ASSUME NEW p \in Procs PROVE Conn(p)'
        <4>1. Conn(p) /\ (Busy(p) => srv[p] = "open")
          BY BusyIsOpen DEF ConnInv
        <4> QED BY <2>0, <3>1, <4>1 DEF Conn
      <3> QED BY <3>2 DEF ConnInv
    <2> QED BY <1>2, <2>1, <2>2, <2>3, <2>4, <2>5, <2>6, ControllerKinds
  <1>3. ASSUME NEW p \in Procs, ShimStep(p) \/ ProgramStep(p), UNCHANGED ctlvars
        PROVE  ConnInv'
    <2>0. Conn(p) /\ \A q \in Procs : Busy(q)' <=> Busy(q)
      BY <1>3 DEF ConnInv, Busy, Client, ctlvars, loopvars
    <2>1. ASSUME Conn(p)', \A q \in Procs \ {p} : /\ cpc'[q] = cpc[q] /\ c2s'[q] = c2s[q]
                                                  /\ s2c'[q] = s2c[q] /\ srv'[q] = srv[q]
          PROVE  ConnInv'
      BY <1>1, <2>0, <2>1 DEF ConnInv
    <2>2. CASE \E kind \in Roles[p] : Spawn(p, kind)
      <3>1. /\ UNCHANGED <<srv, c2s, s2c>> /\ srv[p] \in {"none", "closed"}
            /\ cpc' = [cpc EXCEPT ![p] = "connect"]
        BY <2>2 DEF Spawn, netvars, Goto
      <3>2. cpc'[p] = "connect" /\ \A q \in Procs \ {p} : cpc'[q] = cpc[q]
        BY <3>1 DEF ShimTypes
      <3>3. Conn(p)'
        BY <3>1, <3>2 DEF Conn, Waiting
      <3> QED BY <2>1, <3>1, <3>2, <3>3
    <2>3. CASE Connect(p)
      <3>1. /\ cpc[p] = "connect" /\ cpc' = [cpc EXCEPT ![p] = "hello"]
            /\ srv' = [srv EXCEPT ![p] = "queued"]
            /\ c2s' = [c2s EXCEPT ![p] = <<>>] /\ s2c' = [s2c EXCEPT ![p] = <<>>]
        BY <2>3 DEF Connect, NetConnect, Goto
      <3>2. ~Busy(p)
        BY <2>0, <3>1, BusyIsOpen DEF Conn
      <3>3. /\ cpc'[p] = "hello" /\ c2s'[p] = <<>> /\ s2c'[p] = <<>>
            /\ \A q \in Procs \ {p} : /\ cpc'[q] = cpc[q] /\ c2s'[q] = c2s[q]
                                      /\ s2c'[q] = s2c[q] /\ srv'[q] = srv[q]
        BY <3>1 DEF ShimTypes, NetTypes
      <3>4. Conn(p)'
        BY <2>0, <3>2, <3>3 DEF Conn, Waiting
      <3> QED BY <2>1, <3>3, <3>4
    <2>4. CASE Asks(p)
      <3>1. PICK f \in Frames, from \in {"hello", "register", "send"}, to \in Waiting :
                Request(p, from, f, to) /\ (to = "register_ack" => f = Register(p))
        BY <2>4 DEF Asks
      <3>2. /\ cpc[p] = from /\ cpc' = [cpc EXCEPT ![p] = to]
            /\ c2s' = [c2s EXCEPT ![p] = Append(@, f)] /\ UNCHANGED <<srv, s2c>>
        BY <3>1 DEF Request, NetClientWrite, Goto
      <3>3. c2s[p] = <<>> /\ s2c[p] = <<>> /\ ~Busy(p) /\ Append(<<>>, f) = <<f>> /\ Len(<<f>>) = 1
        BY <2>0, <3>2 DEF Conn
      <3>4. /\ cpc'[p] = to /\ c2s'[p] = <<f>>
            /\ \A q \in Procs \ {p} : cpc'[q] = cpc[q] /\ c2s'[q] = c2s[q]
        BY <3>2, <3>3 DEF ShimTypes, NetTypes
      <3>5. Conn(p)'
        BY <2>0, <3>1, <3>2, <3>3, <3>4 DEF Conn, Waiting
      <3> QED BY <2>1, <3>2, <3>4, <3>5
    <2>5. CASE Learns(p)
      <3>1. PICK to \in {"register", "send", "run"} : cpc' = [cpc EXCEPT ![p] = to]
        BY <2>5 DEF Learns, Goto
      <3>2. /\ cpc[p] \in Waiting /\ s2c[p] # <<>> /\ UNCHANGED <<srv, c2s>>
            /\ s2c' = [s2c EXCEPT ![p] = <<>>]
        BY <2>5 DEF Learns, NetClientRead
      <3>3. c2s[p] = <<>> /\ ~Busy(p)
        BY <2>0, <3>2 DEF Conn
      <3>4. /\ cpc'[p] = to /\ s2c'[p] = <<>>
            /\ \A q \in Procs \ {p} : cpc'[q] = cpc[q] /\ s2c'[q] = s2c[q]
        BY <3>1, <3>2 DEF ShimTypes, NetTypes
      <3>5. Conn(p)'
        BY <2>0, <3>2, <3>3, <3>4 DEF Conn, Waiting
      <3> QED BY <2>1, <3>2, <3>4, <3>5
    <2>6. CASE Leaves(p)
      <3>1. PICK to \in {"off", "run"} : cpc' = [cpc EXCEPT ![p] = to]
        BY <2>6 DEF Leaves, Goto
      <3>2. UNCHANGED <<srv, c2s, s2c>>
        BY <2>6 DEF Leaves, NetClientClose, netvars
      <3>3. cpc'[p] = to /\ \A q \in Procs \ {p} : cpc'[q] = cpc[q]
        BY <3>1 DEF ShimTypes
      <3>4. Conn(p)'
        BY <3>3 DEF Conn, Waiting
      <3> QED BY <2>1, <3>2, <3>3, <3>4
    <2> QED BY <1>3, <2>2, <2>3, <2>4, <2>5, <2>6, ShimKinds
  <1>4. CASE UNCHANGED vars
    <2>1. /\ UNCHANGED <<cpc, srv, c2s, s2c>>
          /\ \A p \in Procs : Busy(p)' <=> Busy(p)
      BY <1>4 DEF vars, netvars, shimvars, ctlvars, loopvars, Busy, Client
    <2> QED BY <1>1, <2>1 DEF ConnInv
  <1> QED BY <1>2, <1>3, <1>4 DEF Next

-----------------------------------------------------------------------------
(* Registration. *)

\* register_process keeps those who are registered, and registers pid or says so.
LEMMA RegistersStep ==
    ASSUME RestTypes, HandleRegister, Argument \in Procs \cup {NoPid}
    PROVE  /\ \A p \in Procs : InSlots(p) \/ p \in refused => InSlots(p)' \/ p \in refused'
           /\ \A p \in Procs : p = Argument => InSlots(p)' \/ p \in refused'
  <1> DEFINE pid == Argument
  <1>1. /\ slots' = register_process(pid)
        /\ refused' = IF pid # NoPid /\ \A s \in Slots : slots[s] \notin {NoPid, pid}
                      THEN refused \cup {pid} ELSE refused \ {pid}
    BY DEF HandleRegister
  <1> HIDE DEF pid
  <1>2. slots \in [Slots -> Procs \cup {NoPid}] /\ NoPid \notin Procs
    BY SlotAssumption DEF RestTypes
  <1>3. \/ /\ slots' = slots
           /\ pid = NoPid \/ (\E s \in Slots : slots[s] = pid)
              \/ \A s \in Slots : slots[s] # NoPid
        \/ \E e \in Slots : slots[e] = NoPid /\ slots' = [slots EXCEPT ![e] = pid]
    BY <1>1, Registration DEF HasSlot, EmptySlots
  <1>4. ASSUME NEW p \in Procs, InSlots(p) PROVE InSlots(p)'
    <2>1. PICK s \in Slots : slots[s] = p
      BY <1>4 DEF InSlots
    <2>2. slots'[s] = p
      BY <1>2, <1>3, <2>1
    <2> QED BY <2>2 DEF InSlots
  <1>5. ASSUME NEW p \in Procs, p = pid PROVE InSlots(p)' \/ p \in refused'
    <2>1. CASE \E s \in Slots : slots[s] = pid
      BY <1>4, <1>5, <2>1 DEF InSlots
    <2>2. CASE \A s \in Slots : slots[s] \notin {NoPid, pid}
      BY <1>1, <1>2, <1>5, <2>2
    <2>3. CASE \E e \in Slots : slots[e] = NoPid /\ slots' = [slots EXCEPT ![e] = pid]
      BY <1>2, <1>5, <2>3 DEF InSlots
    <2> QED BY <1>2, <1>3, <1>5, <2>1, <2>2, <2>3
  <1>6. \A p \in Procs \ {pid} : p \in refused => p \in refused'
    BY <1>1
  <1> QED BY <1>4, <1>5, <1>6 DEF pid

LEMMA RegNext ==
    ASSUME Types, ClientTableSound, ConnInv, RegInv, [Next]_vars
    PROVE  RegInv'
  <1> USE DEF Types
  <1>0. CASE (ControllerStep(Alive) \/ ControllerEnv) /\ UNCHANGED shimvars
    <2>0. UNCHANGED <<cpc, acked>> /\ \A p \in acked' : cpc'[p] = "run"
      BY <1>0 DEF shimvars, RegInv
    <2>1. ASSUME up' = "run" => up = "run",
                 \A p \in Procs : Due(p)' => Due(p),
                 \A p \in Procs : Due(p) => (InSlots(p) \/ p \in refused => InSlots(p)' \/ p \in refused')
          PROVE  RegInv'
      BY <2>0, <2>1 DEF RegInv
    <2>2. ASSUME UNCHANGED <<slots, refused>>
          PROVE  \A p \in Procs : InSlots(p) \/ p \in refused => InSlots(p)' \/ p \in refused'
      BY <2>2 DEF InSlots
    <2>3. ASSUME Still PROVE up' = up /\ \A p \in Procs : Due(p)' => Due(p)
      BY <2>0, <2>3 DEF Still, netvars, Due, Busy, Client
    <2>4. CASE Still /\ UNCHANGED <<slots, refused>>
      BY <2>1, <2>2, <2>3, <2>4
    <2>5. CASE reap_dead_processes(Alive)
      <3>1. Still /\ refused' = refused
        BY <2>5 DEF reap_dead_processes, Still
      <3>2. ASSUME NEW p \in Procs, Due(p), InSlots(p) PROVE InSlots(p)'
        <4>1. p \in Alive
          BY <3>2 DEF Due, Alive, RegInv
        <4>2. PICK s \in Slots : slots[s] = p
          BY <3>2 DEF InSlots
        <4>3. slots'[s] = p
          BY <2>5, <4>1, <4>2, Reaped DEF RestTypes
        <4> QED BY <4>3 DEF InSlots
      <3> QED BY <2>1, <2>3, <3>1, <3>2
    <2>6. CASE (Takes \/ Drops) /\ UNCHANGED <<slots, refused>>
      <3>1. up' = up /\ s2c' = s2c /\ pc' # "ack"
        BY <2>6 DEF Takes, NetAccept, Drops, Drop, NetServerClose
      <3>2. \A p \in Procs : Due(p)' => Due(p)
        BY <2>0, <3>1 DEF Due, Busy
      <3> QED BY <2>1, <2>2, <2>6, <3>1, <3>2
    <2>7. CASE SendAck
      <3>1. /\ UNCHANGED <<up, slots, refused>> /\ pc = "ack" /\ pc' # "ack"
            /\ s2c' = [s2c EXCEPT ![Client] = Append(@, Ack)]
        BY <2>7 DEF SendAck, NetServerWrite, restvars
      <3>2. \A p \in Procs : p # Client => s2c'[p] = s2c[p]
        BY <3>1 DEF NetTypes
      <3>3. \A p \in Procs : Due(p)' => Due(p)
        BY <2>0, <3>1, <3>2 DEF Due, Busy
      <3> QED BY <2>1, <2>2, <3>1, <3>3
    <2>8. CASE Ends
      BY <2>0, <2>8 DEF Ends, Ended, RegInv
    <2>9. ASSUME NEW type, Received(type)
          PROVE  /\ up = "run" /\ up' = up /\ Client \in Procs /\ c2s[Client][1] \in Frames
                 /\ c2s[Client][1].type = type
                 /\ \A p \in Procs : Due(p)' => Due(p) \/ (p = Client /\ cpc[p] = "register_ack")
                 /\ cpc[Client] = "register_ack" => c2s[Client][1] = Register(Client)
      <3>1. /\ up = "run" /\ up' = up /\ i <= Count /\ Len(c2s[Client]) = 1
            /\ c2s[Client][1].type = type
            /\ s2c' = s2c /\ UNCHANGED <<client_fds, i>>
        BY <2>9 DEF Received, Handling, Scanning, NetServerRead, Acknowledge
      <3>2. Client \in Procs /\ c2s[Client] \in Seq(Frames) /\ Client' = Client
        BY <3>1, InLoop DEF Client
      <3>3. c2s[Client] # <<>> /\ c2s[Client][1] \in Frames
        BY <3>1, <3>2
      <3>4. cpc[Client] = "register_ack" => c2s[Client] = <<Register(Client)>>
        BY <3>2, <3>3 DEF ConnInv, Conn
      <3>5. cpc[Client] = "register_ack" => c2s[Client][1] = Register(Client)
        BY <3>4
      <3>6. \A p \in Procs : Due(p)' => Due(p) \/ (p = Client /\ cpc[p] = "register_ack")
        BY <2>0, <3>1, <3>2 DEF Due, Busy
      <3> QED BY <3>1, <3>2, <3>3, <3>5, <3>6
    <2>10. CASE HandleRegister
      <3>1. Received("REGISTER")
        BY <2>10 DEF HandleRegister
      <3>2. Argument \in Procs \cup {NoPid} /\ (cpc[Client] = "register_ack" => Argument = Client)
        BY <2>9, <3>1, FrameTypes DEF Argument
      <3>3. /\ \A p \in Procs : InSlots(p) \/ p \in refused => InSlots(p)' \/ p \in refused'
            /\ \A p \in Procs : p = Argument => InSlots(p)' \/ p \in refused'
        BY <2>10, <3>2, RegistersStep
      <3>4. \A p \in Procs : Due(p)' => InSlots(p)' \/ p \in refused'
        BY <2>9, <3>1, <3>2, <3>3 DEF RegInv
      <3> QED BY <2>0, <3>4 DEF RegInv
    <2>11. CASE HandleHello \/ HandleSetTime \/ HandleSetSeed
      <3>1. PICK type \in {"HELLO", "SET_TIME", "SET_SEED"} : Received(type)
        BY <2>11 DEF HandleHello, HandleSetTime, HandleSetSeed
      <3>2. cpc[Client] # "register_ack"
        BY <2>9, <3>1, FrameTypes
      <3>3. UNCHANGED <<slots, refused>>
        BY <2>11 DEF HandleHello, HandleSetTime, HandleSetSeed
      <3>4. up' = up /\ \A p \in Procs : Due(p)' => Due(p)
        BY <2>9, <3>1, <3>2
      <3> QED BY <2>1, <2>2, <3>3, <3>4
    <2>12. \/ (Still \/ Takes \/ Drops) /\ UNCHANGED <<slots, refused>>
           \/ reap_dead_processes(Alive) \/ SendAck \/ Ends
           \/ HandleHello \/ HandleSetTime \/ HandleSetSeed \/ HandleRegister
      <3>1. CASE Top \/ Poll \/ NothingToAccept \/ NotReady \/ ScanDone \/ Tick
        BY <3>1 DEF Still, Top, Poll, NothingToAccept, NotReady, ScanDone, Scanning, Tick,
                    restvars
      <3>2. CASE Signal \/ SignalInPoll \/ Elapse
        BY <3>2 DEF Still, Signal, SignalInPoll, Elapse, loopvars
      <3>3. CASE Accept \/ Refuse
        BY <3>3 DEF Takes, Accept, Refuse, restvars
      <3>4. CASE HangUp \/ BadMessage \/ SignalInRead
        BY <3>4 DEF Drops, HangUp, BadMessage, SignalInRead, Handling, restvars
      <3>5. CASE SendAckBroken \/ Shutdown
        BY <3>5 DEF Ends, SendAckBroken, Shutdown
      <3> QED BY <1>0, <3>1, <3>2, <3>3, <3>4, <3>5 DEF ControllerStep, ControllerEnv
    <2> QED BY <2>4, <2>5, <2>6, <2>7, <2>8, <2>10, <2>11, <2>12
  <1>1. ASSUME NEW p \in Procs, ShimStep(p) \/ ProgramStep(p), UNCHANGED ctlvars
        PROVE  RegInv'
    <2>0. /\ UNCHANGED <<up, slots, refused>> /\ Conn(p)
          /\ \A q \in Procs : (Busy(q)' <=> Busy(q)) /\ (InSlots(q)' <=> InSlots(q))
      BY <1>1 DEF ConnInv, Busy, Client, InSlots, ctlvars, loopvars, restvars
    <2>1. ASSUME \A q \in Procs \ {p} : /\ cpc'[q] = cpc[q] /\ s2c'[q] = s2c[q]
                                        /\ q \in acked' <=> q \in acked,
                 acked' \subseteq Procs,
                 p \in acked' => cpc'[p] = "run",
                 Due(p)' => Due(p)
          PROVE  RegInv'
      <3>1. \A q \in acked' : cpc'[q] = "run"
        BY <2>1 DEF RegInv
      <3>2. \A q \in Procs : Due(q)' => Due(q)
        BY <2>0, <2>1 DEF Due
      <3> QED BY <2>0, <3>1, <3>2 DEF RegInv
    <2>2. ASSUME NEW to, Goto(p, to) PROVE cpc'[p] = to /\ \A q \in Procs \ {p} : cpc'[q] = cpc[q]
      BY <2>2 DEF Goto, ShimTypes
    <2>3. acked \subseteq Procs /\ (p \in acked => cpc[p] = "run")
      BY DEF ShimTypes, RegInv
    <2>4. CASE \E kind \in Roles[p] : Spawn(p, kind)
      <3>1. Goto(p, "connect") /\ s2c' = s2c /\ acked' = acked \ {p}
        BY <2>4 DEF Spawn, netvars
      <3> QED BY <2>1, <2>2, <2>3, <3>1 DEF Due
    <2>5. CASE Connect(p)
      <3>1. /\ cpc[p] = "connect" /\ Goto(p, "hello") /\ acked' = acked
            /\ s2c' = [s2c EXCEPT ![p] = <<>>]
        BY <2>5 DEF Connect, NetConnect
      <3>2. \A q \in Procs \ {p} : s2c'[q] = s2c[q]
        BY <3>1 DEF NetTypes
      <3> QED BY <2>1, <2>2, <2>3, <3>1, <3>2 DEF Due
    <2>6. CASE Asks(p)
      <3>1. PICK to \in Waiting : Goto(p, to)
        BY <2>6 DEF Asks, Request
      <3>2. cpc[p] \in {"hello", "register", "send"} /\ acked' = acked /\ s2c' = s2c
        BY <2>6 DEF Asks, Request, NetClientWrite
      <3>3. s2c[p] = <<>> /\ ~Busy(p) /\ p \notin acked
        BY <2>0, <2>3, <3>2 DEF Conn
      <3>4. ~Due(p)'
        BY <2>0, <3>2, <3>3 DEF Due
      <3> QED BY <2>1, <2>2, <2>3, <3>1, <3>2, <3>3, <3>4
    <2>7. CASE Learns(p)
      <3>1. /\ cpc[p] \in Waiting /\ s2c[p] # <<>> /\ s2c' = [s2c EXCEPT ![p] = <<>>]
        BY <2>7 DEF Learns, NetClientRead
      <3>2. p \notin acked /\ \A q \in Procs \ {p} : s2c'[q] = s2c[q]
        BY <2>3, <3>1 DEF NetTypes, Waiting
      <3>3. CASE acked' = acked /\ \E to \in {"register", "send", "run"} : Goto(p, to)
        <4>1. cpc'[p] # "register_ack" /\ \A q \in Procs \ {p} : cpc'[q] = cpc[q]
          BY <2>2, <3>3
        <4> QED BY <2>1, <2>3, <3>2, <3>3, <4>1 DEF Due
      <3>4. CASE acked' = acked \cup {p} /\ cpc[p] = "register_ack" /\ Goto(p, "run")
        <4>1. cpc'[p] = "run" /\ \A q \in Procs \ {p} : cpc'[q] = cpc[q]
          BY <2>2, <3>4
        <4>2. Due(p)
          BY <3>1, <3>4 DEF Due
        <4> QED BY <2>1, <2>3, <3>2, <3>4, <4>1, <4>2
      <3> QED BY <2>7, <3>3, <3>4 DEF Learns
    <2>8. CASE Leaves(p)
      <3>1. s2c' = s2c
        BY <2>8 DEF Leaves, NetClientClose, netvars
      <3>2. PICK to \in {"off", "run"} : /\ Goto(p, to) /\ acked' \subseteq acked
                                         /\ to = "off" => p \notin acked'
                                         /\ acked \subseteq acked' \cup {p}
        BY <2>8 DEF Leaves
      <3>3. cpc'[p] = to /\ \A q \in Procs \ {p} : cpc'[q] = cpc[q]
        BY <2>2, <3>2
      <3>4. Due(p)' => Due(p)
        BY <3>2, <3>3 DEF Due
      <3> QED BY <2>1, <2>3, <3>1, <3>2, <3>3, <3>4
    <2> QED BY <1>1, <2>4, <2>5, <2>6, <2>7, <2>8, ShimKinds
  <1>2. CASE UNCHANGED vars
    BY <1>2 DEF vars, netvars, shimvars, ctlvars, loopvars, restvars, RegInv, Due, Busy, Client,
                InSlots
  <1> QED BY <1>0, <1>1, <1>2 DEF Next

-----------------------------------------------------------------------------
(* The theorems. *)

\* The invariant of the box: the table, the backlog, the frames in flight and the
\* slots, together (main.c:65-235, linbox.c:93-180, process.c:148-197).
THEOREM Invariance == Spec => []IInv
  <1>1. ASSUME Init PROVE IInv
    <2> USE <1>1 DEF Init, NetInit, ControllerInit, ShimInit
    <2>0. <<>> \in Seq(Procs) /\ Len(<<>>) = 0 /\ <<>> \in Seq(Frames) /\ <<>> \in Seq({Ack})
      OBVIOUS
    <2>1. NetTypes
      BY <2>0 DEF NetTypes
    <2>2. LoopTypes
      <3>1. revents \in [Slots -> SUBSET {"IN", "HUP"}]
        BY GarbageAssumption
      <3>2. Count <= SLOT_COUNT /\ i \in 1 .. SLOT_COUNT + 1
        BY <2>0, SlotAssumption DEF Count
      <3> QED BY <2>0, <3>1, <3>2 DEF LoopTypes
    <2>3. RestTypes
      <3>1. now \in 0 .. MAX_NOW /\ last_tick \in 0 .. now /\ vtime \in Int /\ base \in Int
        BY NowAssumption
      <3>2. slots \in [Slots -> Procs \cup {NoPid}]
        OBVIOUS
      <3> QED BY <3>1, <3>2 DEF RestTypes
    <2>4. ShimTypes
      BY SpawnAssumption DEF ShimTypes, ShimPCs
    <2>5. ClientTableSound /\ BacklogSound
      <3>1. \A p \in Procs : srv[p] = "none"
        OBVIOUS
      <3>2. ClientTableSound
        BY <2>0, <3>1 DEF ClientTableSound, InTable, Count
      <3>3. BacklogSound
        BY <2>0, <3>1 DEF BacklogSound
      <3> QED BY <3>2, <3>3
    <2>6. ConnInv
      BY DEF ConnInv, Conn, Waiting
    <2>7. SlotsUnique /\ TimeAccounted
      BY DEF SlotsUnique, TimeAccounted
    <2>8. RegInv
      BY DEF RegInv, Due
    <2> QED BY <2>1, <2>2, <2>3, <2>4, <2>5, <2>6, <2>7, <2>8 DEF IInv, Types
  <1>2. IInv /\ [Next]_vars => IInv'
    BY ShimTypesNext, NetTypesNext, LoopTypesNext, RestNext, TablesNext, ConnNext, RegNext
       DEF IInv, Types
  <1> QED BY <1>1, <1>2, PTL DEF Spec

\* Every variable of the box keeps its type; the client table never has more
\* entries than its array (main.c:201-205).
THEOREM TypeCorrect == Spec => []TypeOK
  <1>1. IInv => TypeOK
    BY DEF IInv, Types, NetTypes, LoopTypes, RestTypes, ShimTypes, TypeOK
  <1> QED BY <1>1, Invariance, PTL

\* The client table and the open descriptors agree, with stale and uninitialised
\* revents, whoever connects, sends and hangs up (main.c:201-225).
THEOREM ClientTableSoundHolds == Spec => []ClientTableSound
  <1>1. IInv => ClientTableSound
    BY DEF IInv
  <1> QED BY <1>1, Invariance, PTL

\* No process occupies two slots, for any number of slots (main.c:65-89).
THEOREM SlotsUniqueHolds == Spec => []SlotsUnique
  <1>1. IInv => SlotsUnique
    BY DEF IInv
  <1> QED BY <1>1, Invariance, PTL

\* A child that was told it is registered is in a slot, unless all were taken,
\* until it ends (main.c:65-106, process.c:148-197).
THEOREM RegisteredOrFullHolds == Spec => []RegisteredOrFull
  <1>1. IInv => RegisteredOrFull
    BY DEF IInv, Types, ShimTypes, RegInv, Due, RegisteredOrFull
  <1> QED BY <1>1, Invariance, PTL

\* Whoever waits for the controller is owed exactly one frame, or is disconnected
\* (main.c:51-141, linbox.c:93-139).
THEOREM AnswerOwedHolds == Spec => []AnswerOwed
  <1>1. ASSUME IInv PROVE AnswerOwed
    <2> SUFFICES ASSUME NEW p \in Procs, cpc[p] \in Waiting, srv[p] # "closed"
                 PROVE  Len(c2s[p]) + Len(s2c[p]) + (IF Busy(p) THEN 1 ELSE 0) = 1
      BY DEF AnswerOwed, Waiting, Busy
    <2>1. Conn(p)
      BY <1>1 DEF IInv, ConnInv
    <2>2. Len(<<>>) = 0 /\ Len(<<Ack>>) = 1
      OBVIOUS
    <2> DEFINE b == IF Busy(p) THEN 1 ELSE 0
               m == Len(c2s[p])
               n == Len(s2c[p])
    <2>3. \/ m = 1 /\ n = 0 /\ b = 0
          \/ m = 0 /\ n = 1 /\ b = 0
          \/ m = 0 /\ n = 0 /\ b = 1
      BY <2>1, <2>2 DEF Conn
    <2> HIDE DEF b, m, n
    <2>4. m + n + b = 1
      BY <2>3
    <2> QED BY <2>4 DEF b, m, n
  <1> QED BY <1>1, Invariance, PTL

\* No interval of monotonic time is lost or counted twice (main.c:227-235).
THEOREM TimeAccountedHolds == Spec => []TimeAccounted
  <1>1. IInv => TimeAccounted
    BY DEF IInv
  <1> QED BY <1>1, Invariance, PTL

-----------------------------------------------------------------------------
(* The slots implement the registry. *)

Registered == {slots[s] : s \in Slots} \ {NoPid}

\* There are no more pids in the slots than slots.
LEMMA RegisteredBound ==
    ASSUME NEW f \in [Slots -> Procs \cup {NoPid}]
    PROVE  Cardinality({f[s] : s \in Slots} \ {NoPid}) <= SLOT_COUNT
  <1> DEFINE T == {f[s] : s \in Slots}
  <1>1. IsFiniteSet(Slots) /\ Cardinality(Slots) = SLOT_COUNT
    BY FS_Interval, SlotAssumption DEF Slots
  <1>2. f \in Surjection(Slots, T)
    BY DEF Surjection
  <1>3. IsFiniteSet(T) /\ Cardinality(T) <= SLOT_COUNT
    BY <1>1, <1>2, FS_Surjection
  <1> HIDE DEF T
  <1>4. IsFiniteSet(T \ {NoPid}) /\ Cardinality(T \ {NoPid}) <= Cardinality(T)
    BY <1>3, FS_Subset
  <1>5. Cardinality(T) \in Nat /\ Cardinality(T \ {NoPid}) \in Nat
    BY <1>3, <1>4, FS_CardinalityType
  <1> QED BY <1>3, <1>4, <1>5, SlotAssumption DEF T

LEMMA StepSimulation ==
    ASSUME IInv, [Next]_vars
    PROVE  [Slotted!Next]_(Slotted!vars)
  <1>1. /\ \A p : Slotted!Register(p) <=>
                 /\ Cardinality(Registered \cup {p}) <= SLOT_COUNT
                 /\ Registered' = Registered \cup {p} /\ Alive' = Alive
        /\ \A p : Slotted!Reap(p) <=>
                 /\ p \notin Alive /\ Registered' = Registered \ {p} /\ Alive' = Alive
        /\ Slotted!ComeOrGo <=> Alive' \subseteq Procs /\ Registered' = Registered
    BY DEF Slotted!Register, Slotted!Reap, Slotted!ComeOrGo, Registered, Slotted!Cardinality,
           Cardinality
  <1>2. /\ (\E p \in Procs : Slotted!Register(p)) => Slotted!Next
        /\ (\E p \in Procs : Slotted!Reap(p)) => Slotted!Next
        /\ Slotted!ComeOrGo => Slotted!Next
    BY DEF Slotted!Next
  <1>3. CASE slots' = slots
    <2>1. Alive' \subseteq Procs /\ Registered' = Registered
      BY <1>3 DEF Alive, Registered
    <2> QED BY <1>1, <1>2, <2>1
  <1>4. CASE HandleRegister /\ UNCHANGED shimvars
    <2> DEFINE pid == Argument
    <2>1. /\ slots' = register_process(pid) /\ Alive' = Alive
          /\ slots \in [Slots -> Procs \cup {NoPid}] /\ slots' \in [Slots -> Procs \cup {NoPid}]
      BY <1>4, RestNext DEF HandleRegister, shimvars, Alive, IInv, Types, RestTypes
    <2> HIDE DEF pid
    <2>2. CASE slots' # slots
      <3>1. PICK e \in Slots : /\ slots[e] = NoPid /\ slots' = [slots EXCEPT ![e] = pid]
                               /\ pid # NoPid
        BY <2>1, <2>2, Registration DEF EmptySlots
      <3>2. pid \in Procs /\ slots'[e] = pid
        BY <2>1, <3>1
      <3>3. Registered' = Registered \cup {pid}
        <4> USE DEF Registered
        <4>1. ASSUME NEW x \in Registered' PROVE x \in Registered \cup {pid}
          BY <2>1, <3>1, <4>1
        <4>2. ASSUME NEW x \in Registered PROVE x \in Registered'
          <5>1. PICK s \in Slots : slots[s] = x /\ x # NoPid
            BY <4>2
          <5>2. slots'[s] = x
            BY <2>1, <3>1, <5>1
          <5> QED BY <5>1, <5>2
        <4>3. pid \in Registered'
          BY <3>1, <3>2
        <4> QED BY <4>1, <4>2, <4>3
      <3>4. Cardinality(Registered') <= SLOT_COUNT
        BY <2>1, RegisteredBound DEF Registered
      <3>5. PICK p \in Procs : p = pid
        BY <3>2
      <3>6. Slotted!Register(p)
        BY <1>1, <2>1, <3>3, <3>4, <3>5
      <3> QED BY <1>2, <3>6
    <2> QED BY <1>3, <2>2
  <1>5. CASE reap_dead_processes(Alive) /\ UNCHANGED shimvars
    <2>1. Alive' = Alive
      BY <1>5 DEF shimvars, Alive
    <2>2. slots \in [Slots -> Procs \cup {NoPid}] /\ SlotsUnique
      BY DEF IInv, Types, RestTypes
    <2>3. CASE slots' # slots
      <3>1. i \in Slots /\ slots[i] \notin Alive /\ slots' = [slots EXCEPT ![i] = NoPid]
        BY <1>5, <2>3, Reaped DEF IInv, Types
      <3>2. PICK p \in Procs : p = slots[i]
        BY <2>2, <2>3, <3>1
      <3>3. Registered' = Registered \ {p}
        <4> USE DEF Registered
        <4>1. p # NoPid /\ \A s \in Slots : slots[s] = p => s = i
          BY <2>2, <3>1, <3>2, SlotAssumption DEF SlotsUnique
        <4>2. \A s \in Slots : slots'[s] = IF s = i THEN NoPid ELSE slots[s]
          BY <2>2, <3>1
        <4>3. ASSUME NEW x \in Registered' PROVE x \in Registered \ {p}
          BY <4>1, <4>2, <4>3
        <4>4. ASSUME NEW x \in Registered \ {p} PROVE x \in Registered'
          <5>1. PICK s \in Slots : slots[s] = x /\ x # NoPid
            BY <4>4
          <5>2. slots'[s] = x
            BY <3>2, <4>2, <4>4, <5>1
          <5> QED BY <5>1, <5>2
        <4> QED BY <4>3, <4>4
      <3>4. Slotted!Reap(p)
        BY <1>1, <2>1, <3>1, <3>2, <3>3
      <3> QED BY <1>2, <3>4
    <2> QED BY <1>3, <2>3
  <1>6. \/ slots' = slots
        \/ HandleRegister /\ UNCHANGED shimvars
        \/ reap_dead_processes(Alive) /\ UNCHANGED shimvars
    <2>1. CASE (ControllerStep(Alive) \/ ControllerEnv) /\ UNCHANGED shimvars
      BY <2>1 DEF ControllerStep, ControllerEnv, Top, Poll, NothingToAccept, Accept, Refuse,
                  HangUp, NotReady, BadMessage, HandleHello, HandleSetTime, HandleSetSeed,
                  SendAck, SendAckBroken, ScanDone, Tick, Shutdown, Ended, Signal,
                  SignalInPoll, SignalInRead, Elapse, restvars
    <2>2. CASE UNCHANGED ctlvars
      BY <2>2 DEF ctlvars, restvars
    <2> QED BY <2>1, <2>2 DEF Next, vars
  <1> QED BY <1>3, <1>4, <1>5, <1>6

\* The slots behave like a set of registered processes that a process enters by
\* registering only, that loses nobody who is alive, and that never outgrows the
\* slots, however processes start and end during the loop of kill calls
\* (main.c:65-106).
THEOREM Refinement == Spec => ImplementsRegistry
  <1>1. Init => Slotted!Init
    <2> SUFFICES ASSUME Init PROVE Registered = {} /\ Alive \subseteq Procs
      BY DEF Slotted!Init, Registered
    <2> QED BY DEF Init, ControllerInit, Registered, Alive
  <1>2. IInv /\ [Next]_vars => [Slotted!Next]_(Slotted!vars)
    BY StepSimulation
  <1> QED BY <1>1, <1>2, Invariance, PTL DEF Spec, ImplementsRegistry, Slotted!Spec
=============================================================================
