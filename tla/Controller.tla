----------------------------- MODULE Controller -----------------------------
(***************************************************************************)
(* The controller's event loop (src/controller/main.c): poll, accept, one  *)
(* pass over the clients, tick, one pass over the process slots.  The      *)
(* processes of the box go on, start and end between any two of its steps. *)
(*                                                                         *)
(* pfds is a local array of the loop that is never cleared.  poll writes   *)
(* revents of the entries it was given, and the loop over the clients      *)
(* reads the entry at a client's present index, which need not be the      *)
(* entry poll wrote for that client.  An entry poll never wrote is         *)
(* uninitialized: it holds anything at first, and then what an earlier     *)
(* iteration left, since the array stays in main's frame in every build.   *)
(*                                                                         *)
(* write_time is one step here: Seqlock shows that this is what readers    *)
(* see.  The fields of a slot other than pid are left out: nothing reads   *)
(* them.  A variable is back at its first value once nothing can read it.  *)
(***************************************************************************)
EXTENDS Sockets, Integers, FiniteSets

CONSTANTS
    NoPid,       \* pid 0: an empty slot
    SLOT_COUNT,  \* LINBOX_PROCESS_SLOT_COUNT: slots, and also client_fds
    Foreign,     \* the processes of another user, for which kill fails with EPERM
    Garbage,     \* what the uninitialized revents may hold at first
    MAX_NOW      \* bound: the monotonic clock stops here

ASSUME SlotAssumption == SLOT_COUNT \in Nat /\ SLOT_COUNT > 0 /\ NoPid \notin Procs
ASSUME GarbageAssumption == Garbage \subseteq SUBSET {"IN", "HUP"} /\ Garbage # {}
ASSUME NowAssumption == MAX_NOW \in Nat

Slots == 1 .. SLOT_COUNT

VARIABLES
    up,          \* "run", "stopped" (it shut down) or "killed" (by SIGPIPE)
    pc,          \* where the loop is: "top", "poll", "accept", "scan", "ack", "tick", "reap"
    g_stop,      \* set by SIGINT and SIGTERM
    client_fds,  \* the connections in the client table, in order
    revents,     \* pfds[1 ..].revents
    lready,      \* pfds[0].revents & POLLIN
    i,           \* the index of the loop over clients or slots, counted from 1
    slots,       \* the pids in the process slots of shared memory
    now,         \* CLOCK_MONOTONIC, an environment variable
    last_tick,
    vtime,       \* the virtual time the time manager publishes
    seed,        \* the seed it publishes
    base,        \* history: the virtual time at monotonic time 0
    refused      \* history: the pids that were not registered, all slots taken

loopvars == <<up, pc, client_fds, revents, lready, i>>
timevars == <<last_tick, vtime, seed, base>>
restvars == <<g_stop, slots, now, timevars, refused>>
ctlvars == <<loopvars, restvars>>

Count == Len(client_fds)
Client == client_fds[i]

ControllerInit ==
    /\ up = "run" /\ pc = "top" /\ g_stop = FALSE
    /\ client_fds = <<>>
    /\ revents \in [Slots -> Garbage]
    /\ lready = FALSE
    /\ i = 1
    /\ slots = [s \in Slots |-> NoPid]
    /\ now = 0 /\ last_tick = 0
    /\ vtime = 0 /\ seed = 0 /\ base = 0
    /\ refused = {}

-----------------------------------------------------------------------------
(* Helpers. *)

\* Mutant: the search for an empty slot ends one slot early.
EmptySlotsButLast == {s \in 1 .. SLOT_COUNT - 1 : slots[s] = NoPid}

EmptySlots == {s \in Slots : slots[s] = NoPid}

\* Mutant: the search for the pid ends at the first empty slot.
HasEarlySlot(pid) == \E s \in Slots : slots[s] = pid /\ \A e \in EmptySlots : s < e

HasSlot(pid) == \E s \in Slots : slots[s] = pid

\* register_process: refresh the slot of a known pid, else take the first empty
\* slot, else drop the request.
register_process(pid) ==
    IF pid = NoPid \/ HasSlot(pid) \/ EmptySlots = {}
    THEN slots
    ELSE [slots EXCEPT ![CHOOSE s \in EmptySlots : \A t \in EmptySlots : s <= t] = pid]

\* kill(pid, 0), which only tests for the process.
kill0(pid, alive) ==
    CASE pid \notin alive -> "ESRCH"
      [] pid \in alive \cap Foreign -> "EPERM"
      [] OTHER -> "ok"

\* Mutant: a process that may not be signalled is taken for dead.
exists_without_eperm(pid, alive) == kill0(pid, alive) = "ok"

exists(pid, alive) == kill0(pid, alive) \in {"ok", "EPERM"}

\* Mutant: the last entry is cut off without being moved.
WithoutLast == SubSeq(client_fds, 1, Count - 1)

WithoutClient == SubSeq([client_fds EXCEPT ![i] = client_fds[Count]], 1, Count - 1)

\* close(client_fds[i]); client_fds[i] = client_fds[client_count - 1];
\* client_count--.  The scan stays at i.
Drop ==
    /\ NetServerClose(Client)
    /\ client_fds' = WithoutClient
    /\ pc' = "scan"
    /\ UNCHANGED <<up, revents, lready, i>>

-----------------------------------------------------------------------------
(* The loop. *)

Top ==
    /\ up = "run" /\ pc = "top" /\ ~g_stop
    /\ pc' = "poll"
    /\ UNCHANGED <<netvars, up, client_fds, revents, lready, i, restvars>>

\* Mutant: poll without a timeout.
PollHasEvent == backlog # <<>> \/ \E s \in 1 .. Count : Revents(client_fds[s]) # {}

\* The timeout is 10 ms.
PollReturns == TRUE

\* poll returns, after an event or after 10 ms, with the state of every
\* connection it was given.
Poll ==
    /\ up = "run" /\ pc = "poll" /\ PollReturns
    /\ revents' = [s \in Slots |-> IF s <= Count THEN Revents(client_fds[s])
                                                 ELSE revents[s]]
    /\ lready' = (backlog # <<>>)
    /\ pc' = "accept"
    /\ UNCHANGED <<netvars, up, client_fds, i, restvars>>

NothingToAccept ==
    /\ up = "run" /\ pc = "accept" /\ ~lready
    /\ pc' = "scan" /\ i' = 1
    /\ UNCHANGED <<netvars, up, client_fds, revents, lready, restvars>>

\* Mutant: one client too many is accepted.
RoomForOneMore == Count <= SLOT_COUNT

Room == Count < SLOT_COUNT

Accept ==
    /\ up = "run" /\ pc = "accept" /\ lready
    /\ Room
    /\ NetAccept("open")
    /\ client_fds' = Append(client_fds, Head(backlog))
    /\ pc' = "scan" /\ i' = 1 /\ lready' = FALSE
    /\ UNCHANGED <<up, revents, restvars>>

\* The client table is full: the new connection is closed.
Refuse ==
    /\ up = "run" /\ pc = "accept" /\ lready
    /\ ~Room
    /\ NetAccept("closed")
    /\ pc' = "scan" /\ i' = 1 /\ lready' = FALSE
    /\ UNCHANGED <<up, client_fds, revents, restvars>>

Scanning == up = "run" /\ pc = "scan" /\ i <= Count

HangUp ==
    /\ Scanning
    /\ "HUP" \in revents[i]
    /\ Drop
    /\ UNCHANGED restvars

NotReady ==
    /\ Scanning
    /\ revents[i] = {}
    /\ i' = i + 1
    /\ UNCHANGED <<netvars, up, pc, client_fds, revents, lready, restvars>>

\* handle_client_message is called; its read returns when the client has
\* written or closed, and blocks until then.
Handling == Scanning /\ revents[i] = {"IN"}

\* read returns 0, or what it returns is not one frame the controller handles.
BadMessage ==
    /\ Handling
    /\ \/ c2s[Client] = <<>> /\ ~cli[Client]
       \/ Len(c2s[Client]) > 1
       \/ Len(c2s[Client]) = 1 /\ c2s[Client][1].type \in {"ACK", "INVALID"}
    /\ Drop
    /\ UNCHANGED restvars

\* Mutant: the frame is not acknowledged.
GoOn == i' = i + 1 /\ UNCHANGED pc

Acknowledge == pc' = "ack" /\ UNCHANGED i

\* One valid frame of this type was read; the acknowledgement comes next.
Received(type) ==
    /\ Handling
    /\ Len(c2s[Client]) = 1
    /\ c2s[Client][1].type = type
    /\ NetServerRead(Client)
    /\ Acknowledge
    /\ UNCHANGED <<up, client_fds, revents, lready, g_stop, now>>

Argument == c2s[Client][1].arg

HandleHello == Received("HELLO") /\ UNCHANGED <<slots, timevars, refused>>

HandleSetTime ==
    /\ Received("SET_TIME")
    /\ vtime' = Argument
    /\ base' = Argument - last_tick
    /\ UNCHANGED <<slots, last_tick, seed, refused>>

HandleSetSeed ==
    /\ Received("SET_SEED")
    /\ seed' = Argument
    /\ UNCHANGED <<slots, last_tick, vtime, base, refused>>

HandleRegister ==
    /\ Received("REGISTER")
    /\ slots' = register_process(Argument)
    /\ refused' = IF Argument # NoPid /\ \A s \in Slots : slots[s] \notin {NoPid, Argument}
                  THEN refused \cup {Argument}
                  ELSE refused \ {Argument}
    /\ UNCHANGED timevars

\* The controller's process is gone; shared memory stays with those who mapped it.
Ended(how) ==
    /\ NetServerGone
    /\ up' = how /\ pc' = "top"
    /\ client_fds' = <<>> /\ revents' = [s \in Slots |-> {}]
    /\ lready' = FALSE /\ i' = 1
    /\ UNCHANGED restvars

Ack == [type |-> "ACK"]

SendAck ==
    /\ up = "run" /\ pc = "ack"
    /\ cli[Client]
    /\ NetServerWrite(Client, Ack)
    /\ pc' = "scan" /\ i' = i + 1
    /\ UNCHANGED <<up, client_fds, revents, lready, restvars>>

\* The client closed its end since it wrote the frame: the write raises SIGPIPE,
\* which the controller neither handles nor ignores.
SendAckBroken ==
    /\ up = "run" /\ pc = "ack"
    /\ ~cli[Client]
    /\ Ended("killed")

ScanDone ==
    /\ up = "run" /\ pc = "scan" /\ i > Count
    /\ pc' = "tick" /\ i' = 1
    /\ UNCHANGED <<netvars, up, client_fds, revents, lready, restvars>>

\* Mutant: last_tick is not moved on.
LastTickKept == last_tick

LastTickMoved == now

\* The end of an iteration: add the time that passed since the last tick, and
\* look for dead processes, unless no time passed.  last_tick is stored after
\* that; nothing reads it in between.
Tick ==
    /\ up = "run" /\ pc = "tick"
    /\ IF now > last_tick
       THEN /\ vtime' = vtime + (now - last_tick)
            /\ last_tick' = LastTickMoved
            /\ pc' = "reap"
       ELSE UNCHANGED <<vtime, last_tick>> /\ pc' = "top"
    /\ UNCHANGED <<netvars, up, client_fds, revents, lready, i, g_stop, slots, now, seed,
                   base, refused>>

\* One round of the loop in reap_dead_processes: the slot is emptied if its
\* process does not exist at this moment.  Who ends later in the loop stays until
\* the next one.  (Only the controller reads the slots, so the memset is one
\* step with the kill.)
reap_dead_processes(alive) ==
    /\ up = "run" /\ pc = "reap"
    /\ slots' = IF exists(slots[i], alive) THEN slots ELSE [slots EXCEPT ![i] = NoPid]
    /\ IF i < SLOT_COUNT THEN i' = i + 1 /\ UNCHANGED pc
                         ELSE i' = 1 /\ pc' = "top"
    /\ UNCHANGED <<netvars, up, client_fds, revents, lready, g_stop, now, timevars, refused>>

\* The lines after the loop: every socket is closed and unlinked, and shared
\* memory is removed.
Shutdown ==
    /\ up = "run" /\ pc = "top" /\ g_stop
    /\ Ended("stopped")

-----------------------------------------------------------------------------
(* The environment. *)

\* SIGINT or SIGTERM arrives, and interrupts nothing.
Signal ==
    /\ up = "run" /\ ~g_stop
    /\ g_stop' = TRUE
    /\ UNCHANGED <<netvars, loopvars, slots, now, timevars, refused>>

\* It arrives while the controller is blocked in poll, which fails with EINTR:
\* continue.
SignalInPoll ==
    /\ up = "run" /\ pc = "poll" /\ ~g_stop
    /\ g_stop' = TRUE
    /\ pc' = "top"
    /\ UNCHANGED <<netvars, up, client_fds, revents, lready, i, slots, now, timevars,
                   refused>>

\* It arrives while the controller is blocked in read: the read fails with EINTR.
SignalInRead ==
    /\ ~g_stop
    /\ Handling /\ c2s[Client] = <<>> /\ cli[Client]
    /\ g_stop' = TRUE
    /\ Drop
    /\ UNCHANGED <<slots, now, timevars, refused>>

Elapse ==
    /\ now < MAX_NOW
    /\ now' = now + 1
    /\ UNCHANGED <<netvars, loopvars, g_stop, slots, timevars, refused>>

ControllerStep(alive) ==
    \/ Top \/ Poll
    \/ NothingToAccept \/ Accept \/ Refuse
    \/ HangUp \/ NotReady \/ BadMessage
    \/ HandleHello \/ HandleSetTime \/ HandleSetSeed \/ HandleRegister
    \/ SendAck \/ SendAckBroken
    \/ ScanDone \/ Tick \/ reap_dead_processes(alive) \/ Shutdown

ControllerEnv == Signal \/ SignalInPoll \/ SignalInRead \/ Elapse
=============================================================================
