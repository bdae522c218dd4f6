----------------------------- MODULE VirtualFds -----------------------------
(***************************************************************************)
(* The descriptors open gives for /dev/urandom and /dev/random             *)
(* (src/shim/random.c): numbers from LINBOX_VIRTUAL_FD_BASE on that the    *)
(* kernel does not know, kept in a table of the process.                   *)
(***************************************************************************)
EXTENDS Naturals, FiniteSets

CONSTANTS
    RealFds,          \* the numbers the kernel gives
    VIRTUAL_FD_BASE,  \* LINBOX_VIRTUAL_FD_BASE: 1000000
    FD_COUNT          \* entries of g_virtual_fds: 16

ASSUME FdAssumption ==
    /\ RealFds \subseteq Nat /\ VIRTUAL_FD_BASE \in Nat /\ FD_COUNT \in Nat
    /\ \A fd \in RealFds : fd < VIRTUAL_FD_BASE

Index == 0 .. FD_COUNT - 1
VirtualNumbers == {VIRTUAL_FD_BASE + k : k \in Index}

VARIABLES
    virtual_fds,  \* g_virtual_fds
    files,        \* the descriptors the kernel has open
    held          \* history: what the program opened and has not closed

fdvars == <<virtual_fds, files, held>>

\* The number of an entry that is not used means nothing.
NoFd == [fd |-> 0, used |-> FALSE]

FdInit ==
    /\ virtual_fds = [k \in Index |-> NoFd]
    /\ files = {} /\ held = {}

is_virtual_fd(fd) == \E k \in Index : virtual_fds[k].used /\ virtual_fds[k].fd = fd

\* Mutant: the number is one too high.
number_of_next(k) == VIRTUAL_FD_BASE + k + 1

number_of(k) == VIRTUAL_FD_BASE + k

\* linbox_allocate_virtual_fd takes the first free entry; if there is none open
\* fails with EMFILE, and nothing changes.
OpenRandom ==
    \E k \in Index :
        /\ ~virtual_fds[k].used
        /\ \A j \in Index : j < k => virtual_fds[j].used
        /\ virtual_fds' = [virtual_fds EXCEPT ![k] = [fd |-> number_of(k), used |-> TRUE]]
        /\ held' = held \cup {number_of(k)}
        /\ UNCHANGED files

\* Any other path goes to the kernel, which gives its lowest free number.
OpenFile ==
    \E fd \in RealFds \ files :
        /\ \A d \in RealFds \ files : fd <= d
        /\ files' = files \cup {fd}
        /\ held' = held \cup {fd}
        /\ UNCHANGED virtual_fds

\* Mutant: the entry loses its number and stays in use.
ReleasedInUse == [fd |-> 0, used |-> TRUE]

\* linbox_release_virtual_fd
Released == NoFd

Close(fd) ==
    /\ IF is_virtual_fd(fd)
       THEN /\ virtual_fds' = [k \in Index |->
                    IF virtual_fds[k].used /\ virtual_fds[k].fd = fd
                    THEN Released ELSE virtual_fds[k]]
            /\ UNCHANGED files
       ELSE files' = files \ {fd} /\ UNCHANGED virtual_fds
    /\ held' = held \ {fd}

\* A new program has a new table; the kernel keeps its descriptors open.
NewImageFds ==
    /\ virtual_fds' = [k \in Index |-> NoFd]
    /\ held' = held \ VirtualNumbers
    /\ UNCHANGED files
=============================================================================
