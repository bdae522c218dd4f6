---------------------------- MODULE ShmLifecycle ----------------------------
(***************************************************************************)
(* The life of the shared memory object across controller processes that   *)
(* start, stop and are killed: linbox_shm_create, _attach, _destroy and    *)
(* _write_time (src/common/shm.c), linbox_time_manager_open and _close     *)
(* (src/controller/time-manager.c), the start and the end of main          *)
(* (src/controller/main.c), and the shims that map the object.             *)
(*                                                                         *)
(* A local variable is back at its first value once it is out of scope.    *)
(*                                                                         *)
(* A name in the file system (the shm name, the socket path) and what it   *)
(* names are two things: unlinking the name leaves the object to those who *)
(* have it mapped, and any controller can unlink another one's name.  A    *)
(* crash is SIGKILL: it ends a controller between any two stores.          *)
(*                                                                         *)
(* The two words of a timespec are the numbers of the write they come      *)
(* from: 0 is memory nobody wrote a time to, 1 the epoch, and each tick    *)
(* adds one.  Words of different numbers are a torn time.                  *)
(***************************************************************************)
EXTENDS Naturals, FiniteSets

CONSTANTS
    Controllers,  \* controller processes
    Shims,        \* processes with the shim loaded
    Overlap,      \* whether a controller may start while another one runs
    MAX_STARTS,   \* bound: controllers started
    MAX_CRASHES,  \* bound: controllers killed
    MAX_TIME      \* bound: ticks stop at this time

ASSUME OverlapAssumption == Overlap \in BOOLEAN
ASSUME BoundsAssumption ==
    MAX_STARTS \in Nat /\ MAX_CRASHES \in Nat /\ MAX_TIME \in Nat \ {0}

None == 0
ASSUME ControllersAssumption == None \notin Controllers

Objects == 1 .. MAX_STARTS  \* each start creates at most one object
Words == {"sec", "nsec"}
Time(n) == [w \in Words |-> n]

VARIABLES
    name,     \* the object the shm name stands for, or None
    sock,     \* the controller whose socket the path stands for, or None
    objs,     \* objs[o]: the memory of object o
    cpc,      \* where each controller is
    map,      \* the object it has mapped
    cur,      \* tm->current
    wseq,     \* the local variable seq of write_time
    wleft,    \* the words it has still to copy
    spc,      \* where each shim is
    smap,     \* the object it has mapped
    seq1, snap, sleft,  \* the local variables of read_time
    got,      \* what its last read returned
    host,     \* history: the controller that answered it, while that one runs
    created, starts, crashes,  \* history: how often
    overlapped,  \* history: two controllers ran at the same time
    cut       \* history: one was killed between the two stores of a write

ctlvars == <<cpc, map, cur, wseq, wleft>>
shimvars == <<spc, smap, seq1, snap, sleft, got, host>>
past == <<created, starts, crashes, overlapped, cut>>
vars == <<name, sock, objs, ctlvars, shimvars, past>>

Blank == [size |-> FALSE, magic |-> FALSE, seq |-> 0, time |-> Time(0)]

Init ==
    /\ name = None /\ sock = None
    /\ objs = [o \in Objects |-> Blank]
    /\ cpc = [c \in Controllers |-> "off"]
    /\ map = [c \in Controllers |-> None]
    /\ cur = [c \in Controllers |-> 0]
    /\ wseq = [c \in Controllers |-> 0]
    /\ wleft = [c \in Controllers |-> {}]
    /\ spc = [s \in Shims |-> "off"]
    /\ smap = [s \in Shims |-> None]
    /\ seq1 = [s \in Shims |-> 0]
    /\ snap = [s \in Shims |-> Time(0)]
    /\ sleft = [s \in Shims |-> {}]
    /\ got = [s \in Shims |-> Time(1)]
    /\ host = [s \in Shims |-> None]
    /\ created = 0 /\ starts = 0 /\ crashes = 0 /\ overlapped = FALSE /\ cut = FALSE

Goto(c, label) == cpc' = [cpc EXCEPT ![c] = label]
SGoto(s, label) == spc' = [spc EXCEPT ![s] = label]
Running(c) == cpc[c] # "off"

\* Controller c ends, and its memory is gone.
End(c) ==
    /\ map' = [map EXCEPT ![c] = None]
    /\ cur' = [cur EXCEPT ![c] = 0]
    /\ wseq' = [wseq EXCEPT ![c] = 0]
    /\ wleft' = [wleft EXCEPT ![c] = {}]
    /\ Goto(c, "off")
    /\ host' = [s \in Shims |-> IF host[s] = c THEN None ELSE host[s]]

Seq(c) == objs[map[c]].seq

\* What linbox_shm_attach finds under the name.
Sizeless(o) == o # None /\ ~objs[o].size

Initialised(o) == o # None /\ objs[o].size /\ objs[o].magic

-----------------------------------------------------------------------------
(* A controller starts. *)

Start(c) ==
    /\ cpc[c] = "off"
    /\ starts < MAX_STARTS
    /\ Overlap \/ \A d \in Controllers : ~Running(d)
    /\ starts' = starts + 1
    /\ overlapped' = (overlapped \/ \E d \in Controllers : Running(d))
    /\ Goto(c, "create")
    /\ UNCHANGED <<name, sock, objs, map, cur, wseq, wleft, shimvars, created, crashes, cut>>

\* shm_open with O_CREAT and O_EXCL makes an object of size 0.
Create(c) ==
    /\ cpc[c] = "create" /\ name = None
    /\ created' = created + 1
    /\ name' = created'
    /\ map' = [map EXCEPT ![c] = created']
    /\ Goto(c, "truncate")
    /\ UNCHANGED <<sock, objs, cur, wseq, wleft, shimvars, starts, crashes, overlapped, cut>>

\* EEXIST: attach instead.
CreateFails(c) ==
    /\ cpc[c] = "create" /\ name # None
    /\ Goto(c, "attach")
    /\ UNCHANGED <<name, sock, objs, map, cur, wseq, wleft, shimvars, past>>

\* ftruncate gives it its size; its bytes are zero.
Truncate(c) ==
    /\ cpc[c] = "truncate"
    /\ objs' = [objs EXCEPT ![map[c]].size = TRUE]
    /\ Goto(c, "magic")
    /\ UNCHANGED <<name, sock, map, cur, wseq, wleft, shimvars, past>>

\* linbox_shm_init_layout: the magic number comes first, time_seq and
\* virtual_time later.
InitMagic(c) ==
    /\ cpc[c] = "magic"
    /\ objs' = [objs EXCEPT ![map[c]].magic = TRUE]
    /\ Goto(c, "layout")
    /\ UNCHANGED <<name, sock, map, cur, wseq, wleft, shimvars, past>>

\* Mutant: the first thing a controller does after mapping is to listen.
PublishLater(c) ==
    /\ cur' = [cur EXCEPT ![c] = 1]
    /\ Goto(c, "listen")

\* The time manager's first write follows: the epoch.
Publish(c) ==
    /\ cur' = [cur EXCEPT ![c] = 1]
    /\ Goto(c, "load")

InitLayout(c) ==
    /\ cpc[c] = "layout"
    /\ objs' = [objs EXCEPT ![map[c]] = [@ EXCEPT !.seq = 0, !.time = Time(0)]]
    /\ Publish(c)
    /\ UNCHANGED <<name, sock, map, wseq, wleft, shimvars, past>>

\* linbox_shm_attach: an object with the magic number is taken as it is.
Attach(c) ==
    /\ cpc[c] = "attach"
    /\ Initialised(name)
    /\ map' = [map EXCEPT ![c] = name]
    /\ Publish(c)
    /\ UNCHANGED <<name, sock, objs, wseq, wleft, shimvars, past>>

\* The name is gone, or the memory has no size yet (reading it is SIGBUS), or no
\* magic number: the controller ends.
AttachFails(c) ==
    /\ cpc[c] = "attach"
    /\ ~Initialised(name)
    /\ Goto(c, "off")
    /\ UNCHANGED <<name, sock, objs, map, cur, wseq, wleft, shimvars, past>>

\* setup_server_socket unlinks the path, whoever it belongs to, and binds it.
Listen(c) ==
    /\ cpc[c] = "listen"
    /\ sock' = c
    /\ Goto(c, "run")
    /\ UNCHANGED <<name, objs, map, cur, wseq, wleft, shimvars, past>>

-----------------------------------------------------------------------------
(* A controller runs: linbox_shm_write_time, store by store. *)

\* Mutant: the same tick is added twice.
AddedTwice(t) == t + 2

Added(t) == t + 1

Tick(c) ==
    /\ cpc[c] = "run"
    /\ cur[c] < MAX_TIME
    /\ cur' = [cur EXCEPT ![c] = Added(@)]
    /\ Goto(c, "load")
    /\ UNCHANGED <<name, sock, objs, map, wseq, wleft, shimvars, past>>

LoadSeq(c) ==
    /\ cpc[c] = "load"
    /\ wseq' = [wseq EXCEPT ![c] = Seq(c)]
    /\ Goto(c, "odd")
    /\ UNCHANGED <<name, sock, objs, map, cur, wleft, shimvars, past>>

StoreOdd(c) ==
    /\ cpc[c] = "odd"
    /\ objs' = [objs EXCEPT ![map[c]].seq = wseq[c] + 1]
    /\ wleft' = [wleft EXCEPT ![c] = Words]
    /\ Goto(c, "copy")
    /\ UNCHANGED <<name, sock, map, cur, wseq, shimvars, past>>

CopyIn(c, w) ==
    /\ cpc[c] = "copy" /\ w \in wleft[c]
    /\ objs' = [objs EXCEPT ![map[c]].time[w] = cur[c]]
    /\ wleft' = [wleft EXCEPT ![c] = @ \ {w}]
    /\ UNCHANGED <<name, sock, cpc, map, cur, wseq, shimvars, past>>

\* Mutant: the second store repeats the first one.
EvenSeqStillOdd(c) == wseq[c] + 1

EvenSeq(c) == wseq[c] + 2

\* After its first write a controller opens its socket.
StoreEven(c) ==
    /\ cpc[c] = "copy" /\ wleft[c] = {}
    /\ objs' = [objs EXCEPT ![map[c]].seq = EvenSeq(c)]
    /\ wseq' = [wseq EXCEPT ![c] = 0]
    /\ Goto(c, IF cur[c] = 1 THEN "listen" ELSE "run")
    /\ UNCHANGED <<name, sock, map, cur, wleft, shimvars, past>>

-----------------------------------------------------------------------------
(* A controller ends. *)

\* After SIGTERM: the socket's path is unlinked, whoever it belongs to by now.
CloseSocket(c) ==
    /\ cpc[c] = "run"
    /\ sock' = None
    /\ Goto(c, "destroy")
    /\ UNCHANGED <<name, objs, map, cur, wseq, wleft, shimvars, past>>

\* Mutant: the mapping goes and the name stays.
NotUnlinked == name

Unlinked == None

\* linbox_shm_destroy: the mapping and then the name go, whatever it names.
Destroy(c) ==
    /\ cpc[c] = "destroy"
    /\ name' = Unlinked
    /\ End(c)
    /\ UNCHANGED <<sock, objs, spc, smap, seq1,
                   snap, sleft, got, past>>

\* SIGKILL: the shm name stays behind.  The socket's path stays too, but with
\* nobody listening it is as good as none.
Crash(c) ==
    /\ Running(c)
    /\ crashes < MAX_CRASHES
    /\ crashes' = crashes + 1
    /\ cut' = (cut \/ cpc[c] = "copy")
    /\ sock' = IF sock = c THEN None ELSE sock
    /\ End(c)
    /\ UNCHANGED <<name, objs, spc, smap, seq1,
                   snap, sleft, got, created, starts, overlapped>>

-----------------------------------------------------------------------------
(* A shim. *)

Listening == sock # None /\ cpc[sock] \in {"run", "load", "odd", "copy"}

\* linbox_connect_controller succeeds: somebody listens on the path and answers.
Connect(s) ==
    /\ spc[s] = "off"
    /\ Listening
    /\ SGoto(s, "attach")
    /\ host' = [host EXCEPT ![s] = sock]
    /\ UNCHANGED <<name, sock, objs, ctlvars, smap, seq1, snap, sleft, got, past>>

ConnectFails(s) ==
    /\ spc[s] = "off"
    /\ ~Listening
    /\ SGoto(s, "real")
    /\ UNCHANGED <<name, sock, objs, ctlvars, smap, seq1, snap, sleft, got, host,
                   past>>

\* linbox_shm_attach maps whatever the name stands for by now.
SAttach(s) ==
    /\ spc[s] = "attach"
    /\ Initialised(name)
    /\ smap' = [smap EXCEPT ![s] = name]
    /\ SGoto(s, "idle")
    /\ UNCHANGED <<name, sock, objs, ctlvars, seq1, snap, sleft, got, host, past>>

SAttachFails(s) ==
    /\ spc[s] = "attach"
    /\ ~Initialised(name) /\ ~Sizeless(name)
    /\ SGoto(s, "real")
    /\ UNCHANGED <<name, sock, objs, ctlvars, smap, seq1, snap, sleft, got, host,
                   past>>

\* Reading memory without size is SIGBUS: the process ends.
SAttachFaults(s) ==
    /\ spc[s] = "attach"
    /\ Sizeless(name)
    /\ SGoto(s, "fault")
    /\ UNCHANGED <<name, sock, objs, ctlvars, smap, seq1, snap, sleft, got, host,
                   past>>

\* The program asks for the time.  linbox_shm_read_time has no way to fail, so
\* the shim that is connected reads shared memory for ever.
Ask(s) ==
    /\ spc[s] = "idle"
    /\ SGoto(s, "load")
    /\ UNCHANGED <<name, sock, objs, ctlvars, smap, seq1, snap, sleft, got, host,
                   past>>

LoadSeq1(s) ==
    /\ spc[s] = "load"
    /\ seq1' = [seq1 EXCEPT ![s] = objs[smap[s]].seq]
    /\ IF objs[smap[s]].seq % 2 = 1
       THEN UNCHANGED <<spc, sleft>>
       ELSE SGoto(s, "copy") /\ sleft' = [sleft EXCEPT ![s] = Words]
    /\ UNCHANGED <<name, sock, objs, ctlvars, smap, snap, got, host, past>>

CopyOut(s, w) ==
    /\ spc[s] = "copy" /\ w \in sleft[s]
    /\ snap' = [snap EXCEPT ![s][w] = objs[smap[s]].time[w]]
    /\ sleft' = [sleft EXCEPT ![s] = @ \ {w}]
    /\ UNCHANGED <<name, sock, objs, ctlvars, spc, smap, seq1, got, host, past>>

\* Mutant: that nobody is writing is taken for nobody having written.
NobodyWrites(s) == objs[smap[s]].seq % 2 = 0

NotWritten(s) == objs[smap[s]].seq = seq1[s]

LoadSeq2(s) ==
    /\ spc[s] = "copy" /\ sleft[s] = {}
    /\ IF NotWritten(s)
       THEN SGoto(s, "idle") /\ got' = [got EXCEPT ![s] = snap[s]]
       ELSE SGoto(s, "load") /\ UNCHANGED got
    /\ seq1' = [seq1 EXCEPT ![s] = 0]
    /\ snap' = [snap EXCEPT ![s] = Time(0)]
    /\ UNCHANGED <<name, sock, objs, ctlvars, smap, sleft, host, past>>

-----------------------------------------------------------------------------
Starting(c) ==
    \/ Create(c) \/ CreateFails(c) \/ Truncate(c) \/ InitMagic(c) \/ InitLayout(c)
    \/ Attach(c) \/ AttachFails(c) \/ Listen(c)

Writing(c) ==
    \/ LoadSeq(c) \/ StoreOdd(c) \/ (\E w \in Words : CopyIn(c, w)) \/ StoreEven(c)

ControllerStep(c) == Starting(c) \/ Writing(c) \/ Destroy(c)

ReadStep(s) == LoadSeq1(s) \/ (\E w \in Words : CopyOut(s, w)) \/ LoadSeq2(s)

Next ==
    \/ \E c \in Controllers :
          Start(c) \/ Tick(c) \/ ControllerStep(c) \/ CloseSocket(c) \/ Crash(c)
    \/ \E s \in Shims :
          \/ Connect(s) \/ ConnectFails(s)
          \/ SAttach(s) \/ SAttachFails(s) \/ SAttachFaults(s)
          \/ Ask(s) \/ ReadStep(s)

Spec == Init /\ [][Next]_vars

-----------------------------------------------------------------------------
TypeOK ==
    /\ name \in Objects \cup {None}
    /\ sock \in Controllers \cup {None}
    /\ \A o \in Objects : objs[o].seq \in Nat /\ objs[o].time \in [Words -> 0 .. MAX_TIME]
    /\ map \in [Controllers -> Objects \cup {None}]
    /\ smap \in [Shims -> Objects \cup {None}]
    /\ created \in 0 .. MAX_STARTS

\* A shim whose handshake succeeded, and whose controller still runs, finds
\* shared memory in which a time has been published (main.c:162-167: the socket
\* is opened after the first write), even if other controllers were killed at
\* any point before, unless two controllers ran at once.
AttachFindsClock ==
    \A s \in Shims : (spc[s] = "attach" /\ host[s] # None /\ ~overlapped) =>
        name # None /\ \A w \in Words : objs[name].time[w] # 0

\* Every time a shim reads is the time of one write (shm.c:147-168), across any
\* number of restarts.
TimesWhole == \A s \in Shims : got[s].sec = got[s].nsec

\* As long as no controller is killed between the two stores of a write and no
\* two run at once, every time read is whole, through any number of starts and of
\* kills elsewhere, and the counter is odd only while a controller writes, so that
\* a reader never waits for nobody (shm.c:133-168).
ClockSoundUnlessCut ==
    (~cut /\ ~overlapped) =>
        /\ TimesWhole
        /\ \A o \in Objects : objs[o].seq % 2 = 1 =>
              \E c \in Controllers : map[c] = o /\ cpc[c] = "copy"

\* Under the same condition a read returns what the object holds at the read's
\* last load: neither a torn time nor one that was replaced while it was copied,
\* whichever controllers wrote it (shm.c:147-168).
ReadsCurrent ==
    [][(~cut /\ ~overlapped) => \A s \in Shims :
          spc[s] = "copy" /\ spc'[s] = "idle" => got'[s] = objs[smap[s]].time]_vars

\* A controller that shut down, and was not killed, leaves neither name behind
\* (main.c:238-243).
CleanStop ==
    (crashes = 0 /\ \A c \in Controllers : ~Running(c)) => name = None /\ sock = None

=============================================================================
