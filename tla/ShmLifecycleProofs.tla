------------------------- MODULE ShmLifecycleProofs -------------------------
(***************************************************************************)
(* Proofs about ShmLifecycle, for every number of controllers, shims,      *)
(* starts and kills.                                                       *)
(***************************************************************************)
EXTENDS ShmLifecycle, FiniteSetTheorems, TLAPS

-----------------------------------------------------------------------------
(* The inductive invariant. *)

Memory == [size : BOOLEAN, magic : BOOLEAN, seq : Nat, time : [Words -> 0 .. MAX_TIME]]

\* Where a controller is: it makes a new object, it writes the time, it has the
\* object mapped.
Making == {"truncate", "magic", "layout"}
WritingPCs == {"load", "odd", "copy"}
Holding == Making \cup WritingPCs \cup {"listen", "run", "destroy"}

TypeInv ==
    /\ name \in Objects \cup {None} /\ sock \in Controllers \cup {None}
    /\ objs \in [Objects -> Memory]
    /\ cpc \in [Controllers -> Holding \cup {"off", "create", "attach"}]
    /\ map \in [Controllers -> Objects \cup {None}]
    /\ cur \in [Controllers -> 0 .. MAX_TIME]
    /\ wseq \in [Controllers -> Nat]
    /\ wleft \in [Controllers -> SUBSET Words]
    /\ spc \in [Shims -> {"off", "attach", "real", "fault", "idle", "load", "copy"}]
    /\ smap \in [Shims -> Objects \cup {None}]
    /\ seq1 \in [Shims -> Nat]
    /\ snap \in [Shims -> [Words -> 0 .. MAX_TIME]]
    /\ sleft \in [Shims -> SUBSET Words]
    /\ got \in [Shims -> [Words -> 0 .. MAX_TIME]]
    /\ host \in [Shims -> Controllers \cup {None}]
    /\ created \in Nat /\ starts \in Nat /\ crashes \in Nat
    /\ overlapped \in BOOLEAN /\ cut \in BOOLEAN

\* Each start creates at most one object.
Creating == {c \in Controllers : cpc[c] = "create"}
CreatedInv ==
    /\ IsFiniteSet(Creating)
    /\ created + Cardinality(Creating) <= starts
    /\ starts <= MAX_STARTS

\* Objects that do not exist yet are blank, and nobody has them.
FreshInv ==
    /\ \A o \in Objects : o > created => objs[o] = Blank
    /\ name <= created
    /\ \A c \in Controllers : map[c] <= created
    /\ \A s \in Shims : smap[s] <= created

\* What a process that is past its open has.
MapInv ==
    /\ \A c \in Controllers : cpc[c] \in Holding => map[c] # None
    /\ \A c \in Controllers : cpc[c] \in Holding \ Making => cur[c] >= 1
    /\ \A s \in Shims : spc[s] \in {"idle", "load", "copy"} => smap[s] # None

\* The controller has finished its first write.
Published(c) ==
    \/ cpc[c] \in {"listen", "run", "destroy"}
    \/ cpc[c] \in WritingPCs /\ cur[c] # 1

\* The socket, and a connection to it, belong to a controller that has.
SockInv ==
    /\ sock # None => Published(sock) /\ cpc[sock] \notin {"listen", "destroy"}
    /\ \A s \in Shims : host[s] # None => Published(host[s]) /\ cpc[host[s]] # "listen"

\* Without overlaps one controller runs, and what it has mapped is what the name
\* stands for.
SingleInv ==
    ~overlapped =>
        /\ \A c, d \in Controllers : Running(c) /\ Running(d) => c = d
        /\ \A c \in Controllers : cpc[c] \in Holding => name = map[c]

\* Its first write fills every word, and none is emptied afterwards.
TimeInv ==
    ~overlapped => \A c \in Controllers, w \in Words :
        Published(c) \/ (cpc[c] = "copy" /\ w \notin wleft[c])
            => objs[map[c]].time[w] # 0

\* Without kills somebody is left to remove the name.
HeldInv == crashes = 0 /\ name # None => \E c \in Controllers : cpc[c] \in Holding

\* No write was cut off, and no two controllers ran at once.
Orderly == ~cut /\ ~overlapped

\* The writer's side of the seqlock.
WriterOf(c) ==
    /\ cpc[c] \in Making => objs[map[c]].seq = 0 /\ objs[map[c]].time = Time(0)
    /\ cpc[c] = "odd" => wseq[c] = Seq(c)
    /\ cpc[c] = "copy" =>
          /\ wseq[c] % 2 = 0 /\ Seq(c) = wseq[c] + 1
          /\ \A w \in Words \ wleft[c] : objs[map[c]].time[w] = cur[c]

WriterInv == Orderly => \A c \in Controllers : WriterOf(c)

\* An object nobody is writing to has an even counter and a time in one piece.
StableInv ==
    Orderly => \A o \in Objects :
        \/ \E c \in Controllers : map[c] = o /\ cpc[c] = "copy"
        \/ objs[o].seq % 2 = 0 /\ objs[o].time["sec"] = objs[o].time["nsec"]

\* The reader's side: as long as the counter has not moved, what was copied is
\* what is there.
ReaderInv ==
    Orderly => \A s \in Shims : spc[s] = "copy" =>
        /\ seq1[s] % 2 = 0 /\ seq1[s] <= objs[smap[s]].seq
        /\ seq1[s] = objs[smap[s]].seq =>
              \A w \in Words \ sleft[s] : snap[s][w] = objs[smap[s]].time[w]

WholeInv == Orderly => TimesWhole

IInv ==
    /\ TypeInv /\ CreatedInv /\ FreshInv /\ MapInv /\ SockInv /\ SingleInv /\ TimeInv
    /\ HeldInv /\ WriterInv /\ StableInv /\ ReaderInv /\ WholeInv

-----------------------------------------------------------------------------
(* What a store to shared memory changes, and what it leaves. *)

LEMMA SizeStored ==
    ASSUME objs \in [Objects -> Memory], NEW o \in Objects,
           objs' = [objs EXCEPT ![o].size = TRUE]
    PROVE  /\ objs' \in [Objects -> Memory]
           /\ objs'[o].size /\ objs'[o].magic = objs[o].magic
           /\ objs'[o].seq = objs[o].seq /\ objs'[o].time = objs[o].time
           /\ \A p \in Objects \ {o} : objs'[p] = objs[p]
  BY DEF Memory

LEMMA MagicStored ==
    ASSUME objs \in [Objects -> Memory], NEW o \in Objects,
           objs' = [objs EXCEPT ![o].magic = TRUE]
    PROVE  /\ objs' \in [Objects -> Memory]
           /\ objs'[o].magic /\ objs'[o].size = objs[o].size
           /\ objs'[o].seq = objs[o].seq /\ objs'[o].time = objs[o].time
           /\ \A p \in Objects \ {o} : objs'[p] = objs[p]
  BY DEF Memory

LEMMA LayoutStored ==
    ASSUME objs \in [Objects -> Memory], NEW o \in Objects,
           objs' = [objs EXCEPT ![o] = [@ EXCEPT !.seq = 0, !.time = Time(0)]]
    PROVE  /\ objs' \in [Objects -> Memory]
           /\ objs'[o].size = objs[o].size /\ objs'[o].magic = objs[o].magic
           /\ objs'[o].seq = 0 /\ objs'[o].time = Time(0)
           /\ \A p \in Objects \ {o} : objs'[p] = objs[p]
  <1>1. Time(0) \in [Words -> 0 .. MAX_TIME]
    BY BoundsAssumption DEF Time
  <1>2. objs'[o] = [objs[o] EXCEPT !.seq = 0, !.time = Time(0)]
    OBVIOUS
  <1>3. objs[o] \in Memory
    OBVIOUS
  <1>4. /\ objs'[o] \in Memory
        /\ objs'[o].size = objs[o].size /\ objs'[o].magic = objs[o].magic
        /\ objs'[o].seq = 0 /\ objs'[o].time = Time(0)
    BY <1>1, <1>2, <1>3 DEF Memory
  <1> QED BY <1>4

LEMMA SeqStored ==
    ASSUME objs \in [Objects -> Memory], NEW o \in Objects, NEW v \in Nat,
           objs' = [objs EXCEPT ![o].seq = v]
    PROVE  /\ objs' \in [Objects -> Memory]
           /\ objs'[o].size = objs[o].size /\ objs'[o].magic = objs[o].magic
           /\ objs'[o].seq = v /\ objs'[o].time = objs[o].time
           /\ \A p \in Objects \ {o} : objs'[p] = objs[p]
  BY DEF Memory

StoreWord(o, w, v) == objs' = [objs EXCEPT ![o].time[w] = v]

LEMMA WordStored ==
    ASSUME objs \in [Objects -> Memory], NEW o \in Objects,
           NEW w \in Words, NEW v \in 0 .. MAX_TIME,
           StoreWord(o, w, v)
    PROVE  /\ objs' \in [Objects -> Memory]
           /\ objs'[o].size = objs[o].size /\ objs'[o].magic = objs[o].magic
           /\ objs'[o].seq = objs[o].seq
           /\ objs'[o].time = [objs[o].time EXCEPT ![w] = v]
           /\ \A p \in Objects \ {o} : objs'[p] = objs[p]
  BY DEF StoreWord, Memory

\* What is in the memory of an object.
LEMMA MemoryTypes ==
    ASSUME NEW m \in Memory
    PROVE  /\ m.size \in BOOLEAN /\ m.magic \in BOOLEAN
           /\ m.seq \in Nat /\ m.time \in [Words -> 0 .. MAX_TIME]
           /\ m.time["sec"] \in 0 .. MAX_TIME /\ m.time["nsec"] \in 0 .. MAX_TIME
  BY DEF Memory, Words

\* A new object is empty.
LEMMA BlankMemory ==
    /\ Blank \in Memory /\ Blank.seq = 0 /\ Blank.time = Time(0)
    /\ Time(0)["sec"] = 0 /\ Time(0)["nsec"] = 0
  BY BoundsAssumption DEF Blank, Memory, Time, Words

LEMMA Parity ==
    ASSUME NEW n \in Nat, n % 2 = 0
    PROVE  (n + 1) % 2 = 1 /\ (n + 2) % 2 = 0
  OBVIOUS

-----------------------------------------------------------------------------
(* How many objects there can be. *)

\* A controller that leaves the start of its open for anywhere else.
LEMMA CreatedKept ==
    ASSUME IInv, NEW c \in Controllers, NEW label, label # "create",
           Goto(c, label), UNCHANGED <<created, starts>>
    PROVE  CreatedInv'
  <1>1. Creating' = Creating \ {c}
    BY DEF Creating, Goto, IInv, TypeInv
  <1>2. IsFiniteSet(Creating)
    BY DEF IInv, CreatedInv
  <1>3. /\ IsFiniteSet(Creating \ {c})
        /\ Cardinality(Creating \ {c}) =
              IF c \in Creating THEN Cardinality(Creating) - 1 ELSE Cardinality(Creating)
    BY <1>2, FS_RemoveElement
  <1>4. Cardinality(Creating) \in Nat /\ Cardinality(Creating \ {c}) \in Nat
    BY <1>2, <1>3, FS_CardinalityType
  <1> QED BY <1>1, <1>3, <1>4 DEF IInv, TypeInv, CreatedInv

\* A controller that creates an object had not created one before.
LEMMA CreatedCounted ==
    ASSUME IInv, NEW c \in Controllers, Create(c)
    PROVE  CreatedInv' /\ created' = created + 1 /\ created' \in Objects
  <1>1. Creating' = Creating \ {c} /\ c \in Creating
    BY DEF Creating, Create, Goto, IInv, TypeInv
  <1>2. /\ IsFiniteSet(Creating \ {c})
        /\ Cardinality(Creating \ {c}) = Cardinality(Creating) - 1
        /\ Cardinality(Creating) \in Nat /\ Cardinality(Creating \ {c}) \in Nat
    BY <1>1, FS_RemoveElement, FS_CardinalityType DEF IInv, CreatedInv
  <1>3. created' = created + 1 /\ starts' = starts
    BY DEF Create
  <1> QED BY <1>1, <1>2, <1>3, BoundsAssumption DEF IInv, TypeInv, CreatedInv, Objects

\* A start may create one more.
LEMMA StartCounted ==
    ASSUME IInv, NEW c \in Controllers, Start(c)
    PROVE  CreatedInv'
  <1>1. Creating' = Creating \cup {c} /\ c \notin Creating
    BY DEF Creating, Start, Goto, IInv, TypeInv
  <1>2. /\ IsFiniteSet(Creating \cup {c})
        /\ Cardinality(Creating \cup {c}) = Cardinality(Creating) + 1
        /\ Cardinality(Creating) \in Nat
    BY <1>1, FS_AddElement, FS_CardinalityType DEF IInv, CreatedInv
  <1> QED BY <1>1, <1>2, BoundsAssumption DEF Start, IInv, TypeInv, CreatedInv

-----------------------------------------------------------------------------
(* The steps of a controller. *)

LEMMA StartStep ==
    ASSUME IInv, NEW c \in Controllers, Start(c)
    PROVE  IInv'
  <1> USE DEF Start, Goto, shimvars, IInv, TypeInv
  <1>1. TypeInv'
    BY DEF Holding
  <1>2. CreatedInv'
    BY StartCounted
  <1>3. FreshInv'
    BY DEF FreshInv
  <1>4. MapInv'
    BY DEF MapInv, Holding, Making, WritingPCs
  <1>5. SockInv'
    BY DEF SockInv, Published, Holding, Making, WritingPCs
  <1>6. SingleInv'
    BY DEF SingleInv, Running, Holding, Making, WritingPCs
  <1>7. TimeInv'
    BY DEF TimeInv, Published, WritingPCs
  <1>8. HeldInv'
    BY DEF HeldInv, Holding, Making, WritingPCs
  <1>9. Orderly' => Orderly
    BY DEF Orderly
  <1>10. WriterInv'
    BY <1>9 DEF WriterInv, WriterOf, Seq, Making
  <1>11. StableInv'
    BY <1>9 DEF StableInv
  <1>12. ReaderInv' /\ WholeInv'
    BY <1>9 DEF ReaderInv, WholeInv, TimesWhole
  <1> QED BY <1>1, <1>2, <1>3, <1>4, <1>5, <1>6, <1>7, <1>8, <1>10, <1>11, <1>12

LEMMA CreateStep ==
    ASSUME IInv, NEW c \in Controllers, Create(c)
    PROVE  IInv'
  <1> USE DEF Create, Goto, shimvars, IInv, TypeInv
  <1>1. CreatedInv' /\ created' = created + 1 /\ created' \in Objects
    BY CreatedCounted
  <1>2. objs[created'] = Blank
    BY <1>1 DEF FreshInv
  <1>3. TypeInv'
    BY <1>1 DEF Holding, Making
  <1>4. FreshInv'
    <2>1. /\ \A n \in Objects : n \in Int
          /\ \A d \in Controllers : map[d] \in Int
          /\ \A s \in Shims : smap[s] \in Int
      BY BoundsAssumption DEF Objects, None
    <2>2. (\A d \in Controllers : map'[d] <= created') /\ name' <= created'
      BY <1>1, <2>1 DEF FreshInv
    <2>3. \A s \in Shims : smap'[s] <= created'
      BY <1>1, <2>1 DEF FreshInv
    <2>4. \A o \in Objects : o > created' => objs'[o] = Blank
      BY <1>1, <2>1 DEF FreshInv
    <2> QED BY <2>2, <2>3, <2>4 DEF FreshInv
  <1>5. MapInv'
    BY <1>1 DEF MapInv, Holding, Making, WritingPCs, None
  <1>6. SockInv'
    BY DEF SockInv, Published, Holding, Making, WritingPCs
  <1>7. SingleInv'
    BY DEF SingleInv, Running, Holding, Making, WritingPCs
  <1>8. TimeInv'
    BY DEF TimeInv, Published, WritingPCs
  <1>9. HeldInv'
    BY DEF HeldInv, Holding, Making
  <1>10. WriterInv'
    BY <1>2, BlankMemory DEF WriterInv, WriterOf, Orderly, Seq, Making
  <1>11. StableInv'
    BY DEF StableInv, Orderly
  <1>12. ReaderInv' /\ WholeInv'
    BY DEF ReaderInv, WholeInv, TimesWhole, Orderly
  <1> QED BY <1>1, <1>3, <1>4, <1>5, <1>6, <1>7, <1>8, <1>9, <1>10, <1>11, <1>12

\* Steps that move a controller through its open and touch nothing else.
LEMMA CreateFailsStep ==
    ASSUME IInv, NEW c \in Controllers, CreateFails(c) \/ AttachFails(c)
    PROVE  IInv'
  <1> USE DEF IInv, TypeInv
  <1>0. PICK label \in {"attach", "off"} :
           /\ cpc[c] \in {"create", "attach"}
           /\ cpc' = [cpc EXCEPT ![c] = label]
           /\ UNCHANGED <<name, sock, objs, map, cur, wseq, wleft>>
           /\ UNCHANGED <<spc, smap, seq1, snap, sleft, got, host>>
           /\ UNCHANGED <<created, starts, crashes, overlapped, cut>>
    BY DEF CreateFails, AttachFails, Goto, shimvars, past
  <1> USE <1>0
  <1>1. CreatedInv'
    BY CreatedKept DEF Goto
  <1>2. TypeInv' /\ FreshInv'
    BY DEF FreshInv
  <1>3. MapInv'
    BY DEF MapInv, Holding, Making, WritingPCs
  <1>4. SockInv'
    BY DEF SockInv, Published, WritingPCs
  <1>5. SingleInv'
    BY DEF SingleInv, Running, Holding, Making, WritingPCs
  <1>6. TimeInv'
    BY DEF TimeInv, Published, WritingPCs
  <1>7. HeldInv'
    BY DEF HeldInv, Holding, Making, WritingPCs
  <1>8. WriterInv'
    BY DEF WriterInv, WriterOf, Orderly, Seq, Making
  <1>9. StableInv'
    BY DEF StableInv, Orderly
  <1>10. ReaderInv' /\ WholeInv'
    BY DEF ReaderInv, WholeInv, TimesWhole, Orderly
  <1> QED BY <1>1, <1>2, <1>3, <1>4, <1>5, <1>6, <1>7, <1>8, <1>9, <1>10

\* A store to the object that a controller has mapped leaves those that do not
\* exist yet alone.
LEMMA FreshKept ==
    ASSUME IInv, NEW c \in Controllers, cpc[c] \in Holding,
           \A p \in Objects \ {map[c]} : objs'[p] = objs[p],
           UNCHANGED <<name, map, smap, created>>
    PROVE  FreshInv' /\ map[c] \in Objects
  <1>1. map[c] \in Objects
    BY DEF IInv, TypeInv, MapInv
  <1>2. map[c] <= created /\ map[c] \in Int /\ \A o \in Objects : o \in Int
    BY <1>1, BoundsAssumption DEF IInv, FreshInv, Objects
  <1> QED BY <1>1, <1>2 DEF IInv, TypeInv, FreshInv

\* Readers notice nothing as long as no counter and no time changes.
LEMMA ReadersKept ==
    ASSUME IInv, Orderly' => Orderly,
           Orderly => \A p \in Objects : objs'[p].seq = objs[p].seq
                                         /\ objs'[p].time = objs[p].time,
           UNCHANGED <<spc, smap, seq1, snap, sleft, got>>
    PROVE  ReaderInv' /\ WholeInv'
  <1>1. WholeInv'
    BY DEF IInv, WholeInv, TimesWhole
  <1>2. ReaderInv'
    <2> SUFFICES ASSUME Orderly', NEW s \in Shims, spc[s] = "copy"
                 PROVE  /\ seq1[s] % 2 = 0 /\ seq1[s] <= objs'[smap[s]].seq
                        /\ seq1[s] = objs'[smap[s]].seq =>
                              \A w \in Words \ sleft[s] :
                                 snap[s][w] = objs'[smap[s]].time[w]
      BY DEF ReaderInv
    <2>1. smap[s] \in Objects
      BY DEF IInv, TypeInv, MapInv
    <2>2. /\ objs'[smap[s]].seq = objs[smap[s]].seq
          /\ objs'[smap[s]].time = objs[smap[s]].time
      BY <2>1
    <2> QED BY <2>2 DEF IInv, ReaderInv
  <1> QED BY <1>1, <1>2

\* A reader of an object whose counter is past the one it read will try again.
LEMMA ReadersRetry ==
    ASSUME IInv, NEW o \in Objects, objs' \in [Objects -> Memory],
           \A p \in Objects \ {o} : objs'[p] = objs[p],
           Orderly' => Orderly,
           Orderly => \A s \in Shims : spc[s] = "copy" /\ smap[s] = o =>
                         seq1[s] < objs'[o].seq,
           UNCHANGED <<spc, smap, seq1, snap, sleft>>
    PROVE  ReaderInv'
  <1> SUFFICES ASSUME Orderly', NEW s \in Shims, spc[s] = "copy"
               PROVE  /\ seq1[s] % 2 = 0 /\ seq1[s] <= objs'[smap[s]].seq
                      /\ seq1[s] = objs'[smap[s]].seq =>
                            \A w \in Words \ sleft[s] :
                               snap[s][w] = objs'[smap[s]].time[w]
    BY DEF ReaderInv
  <1>1. smap[s] \in Objects
    BY DEF IInv, TypeInv, MapInv
  <1>2. seq1[s] \in Nat /\ objs'[o].seq \in Nat
    BY MemoryTypes DEF IInv, TypeInv
  <1>3. CASE smap[s] = o
    BY <1>2, <1>3 DEF IInv, ReaderInv
  <1>4. CASE smap[s] # o
    BY <1>1, <1>4 DEF IInv, ReaderInv
  <1> QED BY <1>3, <1>4

\* ftruncate and the magic number: neither the counter nor the time changes.
LEMMA MakeStep ==
    ASSUME IInv, NEW c \in Controllers, Truncate(c) \/ InitMagic(c)
    PROVE  IInv'
  <1> USE DEF IInv, TypeInv
  <1>0. PICK label \in {"magic", "layout"} :
           /\ cpc[c] \in Making
           /\ cpc' = [cpc EXCEPT ![c] = label]
           /\ UNCHANGED <<name, sock, map, cur, wseq, wleft>>
           /\ UNCHANGED <<spc, smap, seq1, snap, sleft, got, host>>
           /\ UNCHANGED <<created, starts, crashes, overlapped, cut>>
    BY DEF Truncate, InitMagic, Goto, shimvars, past, Making
  <1>1. map[c] \in Objects
    BY <1>0 DEF MapInv, Holding
  <1>2. /\ objs' \in [Objects -> Memory]
        /\ \A p \in Objects \ {map[c]} : objs'[p] = objs[p]
        /\ \A p \in Objects : objs'[p].seq = objs[p].seq /\ objs'[p].time = objs[p].time
    <2>1. CASE Truncate(c)
      BY <1>1, <2>1, SizeStored DEF Truncate
    <2>2. CASE InitMagic(c)
      BY <1>1, <2>2, MagicStored DEF InitMagic
    <2> QED BY <2>1, <2>2
  <1> USE <1>0
  <1>3. CreatedInv'
    BY CreatedKept DEF Goto
  <1>4. TypeInv'
    BY <1>2 DEF Holding, Making
  <1>5. FreshInv'
    BY <1>2, FreshKept DEF Holding
  <1>7. MapInv'
    BY DEF MapInv, Holding, Making, WritingPCs
  <1>8. SockInv'
    BY DEF SockInv, Published, Making, WritingPCs
  <1>9. SingleInv'
    BY DEF SingleInv, Running, Holding, Making, WritingPCs
  <1>10. TimeInv'
    BY <1>2 DEF TimeInv, MapInv, Published, Holding, Making, WritingPCs
  <1>11. HeldInv'
    BY DEF HeldInv, Holding, Making
  <1>12. WriterInv'
    <2> SUFFICES ASSUME Orderly, NEW d \in Controllers
                 PROVE  WriterOf(d)'
      BY DEF WriterInv, Orderly
    <2>1. WriterOf(d)
      BY DEF WriterInv
    <2>2. CASE d = c
      BY <1>1, <1>2, <2>1, <2>2 DEF WriterOf, Making
    <2>3. CASE d # c
      <3>1. cpc'[d] = cpc[d] /\ (cpc[d] \in Holding => map[d] \in Objects)
        BY <2>3 DEF MapInv
      <3> QED BY <1>2, <2>1, <3>1 DEF WriterOf, Seq, Holding, Making, WritingPCs
    <2> QED BY <2>2, <2>3
  <1>13. StableInv'
    BY <1>2 DEF StableInv, Orderly, Making
  <1>14. ReaderInv' /\ WholeInv'
    BY <1>2, ReadersKept DEF Orderly
  <1> QED BY <1>3, <1>4, <1>5, <1>7, <1>8, <1>9, <1>10, <1>11, <1>12, <1>13, <1>14

\* The rest of the layout clears the counter and the time: nobody may have the
\* object, unless controllers overlapped or were killed.
LEMMA InitLayoutStep ==
    ASSUME IInv, NEW c \in Controllers, InitLayout(c)
    PROVE  IInv'
  <1> USE DEF IInv, TypeInv
  <1>0. /\ cpc[c] = "layout"
        /\ cpc' = [cpc EXCEPT ![c] = "load"]
        /\ cur' = [cur EXCEPT ![c] = 1]
        /\ UNCHANGED <<name, sock, map, wseq, wleft>>
        /\ UNCHANGED <<spc, smap, seq1, snap, sleft, got, host>>
        /\ UNCHANGED <<created, starts, crashes, overlapped, cut>>
    BY DEF InitLayout, Publish, Goto, shimvars, past
  <1>1. map[c] \in Objects
    BY <1>0 DEF MapInv, Holding, Making
  <1>2. /\ objs' \in [Objects -> Memory]
        /\ objs'[map[c]].size = objs[map[c]].size
        /\ objs'[map[c]].magic = objs[map[c]].magic
        /\ objs'[map[c]].seq = 0 /\ objs'[map[c]].time = Time(0)
        /\ \A p \in Objects \ {map[c]} : objs'[p] = objs[p]
    BY <1>1, LayoutStored DEF InitLayout
  <1>3. Orderly => \A p \in Objects : objs'[p].seq = objs[p].seq
                                      /\ objs'[p].time = objs[p].time
    BY <1>0, <1>2 DEF WriterInv, WriterOf, Making
  <1> USE <1>0
  <1>4. CreatedInv'
    BY CreatedKept DEF Goto
  <1>5. TypeInv'
    BY <1>2, BoundsAssumption DEF Holding, WritingPCs
  <1>6. FreshInv'
    BY <1>2, FreshKept DEF Holding, Making
  <1>8. MapInv'
    BY DEF MapInv, Holding, Making, WritingPCs
  <1>9. SockInv'
    BY DEF SockInv, Published, WritingPCs
  <1>10. SingleInv'
    BY DEF SingleInv, Running, Holding, Making, WritingPCs
  <1>11. TimeInv'
    BY DEF TimeInv, SingleInv, Running, Published, WritingPCs
  <1>12. HeldInv'
    BY DEF HeldInv, Holding, WritingPCs
  <1>13. WriterInv'
    BY DEF WriterInv, WriterOf, SingleInv, Running, Orderly, Making
  <1>14. StableInv'
    BY <1>3 DEF StableInv, Orderly
  <1>15. ReaderInv' /\ WholeInv'
    BY <1>3, ReadersKept DEF Orderly
  <1> QED BY <1>4, <1>5, <1>6, <1>8, <1>9, <1>10, <1>11, <1>12, <1>13, <1>14, <1>15

\* An object that a killed controller left is nobody's, so that its counter is even
\* unless a write to it was cut off.
LEMMA AttachStep ==
    ASSUME IInv, NEW c \in Controllers, Attach(c)
    PROVE  IInv'
  <1> USE DEF IInv, TypeInv
  <1>0. /\ cpc[c] = "attach" /\ name # None
        /\ cpc' = [cpc EXCEPT ![c] = "load"]
        /\ map' = [map EXCEPT ![c] = name]
        /\ cur' = [cur EXCEPT ![c] = 1]
        /\ UNCHANGED <<name, sock, objs, wseq, wleft>>
        /\ UNCHANGED <<spc, smap, seq1, snap, sleft, got, host>>
        /\ UNCHANGED <<created, starts, crashes, overlapped, cut>>
    BY DEF Attach, Initialised, Publish, Goto, shimvars, past
  <1> USE <1>0
  <1>1. CreatedInv'
    BY CreatedKept DEF Goto
  <1>2. TypeInv'
    BY BoundsAssumption DEF Holding, WritingPCs
  <1>3. FreshInv'
    BY DEF FreshInv
  <1>4. MapInv'
    BY DEF MapInv, Holding, Making, WritingPCs
  <1>5. SockInv'
    BY DEF SockInv, Published, WritingPCs
  <1>6. SingleInv'
    BY DEF SingleInv, Running, Holding, Making, WritingPCs
  <1>7. TimeInv'
    BY DEF TimeInv, SingleInv, Running, Published, WritingPCs
  <1>8. HeldInv'
    BY DEF HeldInv, Holding, WritingPCs
  <1>9. WriterInv' /\ StableInv'
    BY DEF WriterInv, WriterOf, StableInv, Orderly, Seq, Making
  <1>10. ReaderInv' /\ WholeInv'
    BY ReadersKept DEF Orderly
  <1> QED BY <1>1, <1>2, <1>3, <1>4, <1>5, <1>6, <1>7, <1>8, <1>9, <1>10

\* Once its first write is done a controller may listen, and tick.
LEMMA ListenStep ==
    ASSUME IInv, NEW c \in Controllers, Listen(c)
    PROVE  IInv'
  <1> USE DEF IInv, TypeInv
  <1>0. /\ cpc[c] = "listen"
        /\ cpc' = [cpc EXCEPT ![c] = "run"] /\ sock' = c
        /\ UNCHANGED <<name, objs, map, cur, wseq, wleft>>
        /\ UNCHANGED <<spc, smap, seq1, snap, sleft, got, host>>
        /\ UNCHANGED <<created, starts, crashes, overlapped, cut>>
    BY DEF Listen, Goto, shimvars, past
  <1> USE <1>0
  <1>1. CreatedInv'
    BY CreatedKept DEF Goto
  <1>2. TypeInv' /\ FreshInv'
    BY DEF Holding, FreshInv
  <1>3. MapInv'
    BY DEF MapInv, Holding, Making, WritingPCs
  <1>4. SockInv'
    BY DEF SockInv, Published, WritingPCs
  <1>5. SingleInv'
    BY DEF SingleInv, Running, Holding
  <1>6. TimeInv'
    BY DEF TimeInv, Published, WritingPCs
  <1>7. HeldInv'
    BY DEF HeldInv, Holding
  <1>8. WriterInv' /\ StableInv'
    BY DEF WriterInv, WriterOf, StableInv, Orderly, Seq, Making
  <1>9. ReaderInv' /\ WholeInv'
    BY ReadersKept DEF Orderly
  <1> QED BY <1>1, <1>2, <1>3, <1>4, <1>5, <1>6, <1>7, <1>8, <1>9

LEMMA TickStep ==
    ASSUME IInv, NEW c \in Controllers, Tick(c)
    PROVE  IInv'
  <1> USE DEF IInv, TypeInv
  <1>0. /\ cpc[c] = "run" /\ cur[c] < MAX_TIME
        /\ cpc' = [cpc EXCEPT ![c] = "load"]
        /\ cur' = [cur EXCEPT ![c] = cur[c] + 1]
        /\ UNCHANGED <<name, sock, objs, map, wseq, wleft>>
        /\ UNCHANGED <<spc, smap, seq1, snap, sleft, got, host>>
        /\ UNCHANGED <<created, starts, crashes, overlapped, cut>>
    BY DEF Tick, Added, Goto, shimvars, past
  <1> USE <1>0
  <1>1. cur'[c] = cur[c] + 1 /\ cur[c] >= 1 /\ cur'[c] \in 0 .. MAX_TIME /\ cur'[c] > 1
    BY BoundsAssumption DEF MapInv, Holding, Making, WritingPCs
  <1>2. CreatedInv'
    BY CreatedKept DEF Goto
  <1>3. TypeInv'
    BY <1>1 DEF Holding, WritingPCs
  <1>4. FreshInv'
    BY DEF FreshInv
  <1>5. MapInv'
    BY <1>1 DEF MapInv, Holding, Making, WritingPCs
  <1>6. SockInv'
    BY <1>1 DEF SockInv, Published, WritingPCs
  <1>7. SingleInv'
    BY DEF SingleInv, Running, Holding, WritingPCs
  <1>8. TimeInv'
    BY DEF TimeInv, Published, WritingPCs
  <1>9. HeldInv'
    BY DEF HeldInv, Holding, WritingPCs
  <1>10. WriterInv' /\ StableInv'
    BY DEF WriterInv, WriterOf, StableInv, Orderly, Seq, Making
  <1>11. ReaderInv' /\ WholeInv'
    BY ReadersKept DEF Orderly
  <1> QED BY <1>2, <1>3, <1>4, <1>5, <1>6, <1>7, <1>8, <1>9, <1>10, <1>11

LEMMA LoadSeqStep ==
    ASSUME IInv, NEW c \in Controllers, LoadSeq(c)
    PROVE  IInv'
  <1> USE DEF IInv, TypeInv
  <1>0. /\ cpc[c] = "load"
        /\ cpc' = [cpc EXCEPT ![c] = "odd"]
        /\ wseq' = [wseq EXCEPT ![c] = Seq(c)]
        /\ UNCHANGED <<name, sock, objs, map, cur, wleft>>
        /\ UNCHANGED <<spc, smap, seq1, snap, sleft, got, host>>
        /\ UNCHANGED <<created, starts, crashes, overlapped, cut>>
    BY DEF LoadSeq, Goto, shimvars, past
  <1> USE <1>0
  <1>1. map[c] \in Objects /\ Seq(c) \in Nat
    <2>1. map[c] \in Objects /\ objs[map[c]] \in Memory
      BY DEF MapInv, Holding, WritingPCs
    <2> QED BY <2>1, MemoryTypes DEF Seq
  <1>2. CreatedInv'
    BY CreatedKept DEF Goto
  <1>3. TypeInv'
    BY <1>1 DEF Holding, WritingPCs
  <1>4. FreshInv'
    BY DEF FreshInv
  <1>5. MapInv'
    BY DEF MapInv, Holding, Making, WritingPCs
  <1>6. SockInv'
    BY DEF SockInv, Published, WritingPCs
  <1>7. SingleInv'
    BY DEF SingleInv, Running, Holding, WritingPCs
  <1>8. TimeInv'
    BY DEF TimeInv, Published, WritingPCs
  <1>9. HeldInv'
    BY DEF HeldInv, Holding, WritingPCs
  <1>10. WriterInv' /\ StableInv'
    BY DEF WriterInv, WriterOf, StableInv, Orderly, Seq, Making
  <1>11. ReaderInv' /\ WholeInv'
    BY ReadersKept DEF Orderly
  <1> QED BY <1>2, <1>3, <1>4, <1>5, <1>6, <1>7, <1>8, <1>9, <1>10, <1>11

\* The counter becomes odd: no reader that is past its first load can succeed.
LEMMA StoreOddStep ==
    ASSUME IInv, NEW c \in Controllers, StoreOdd(c)
    PROVE  IInv'
  <1> USE DEF IInv, TypeInv
  <1>0. /\ cpc[c] = "odd"
        /\ cpc' = [cpc EXCEPT ![c] = "copy"]
        /\ wleft' = [wleft EXCEPT ![c] = Words]
        /\ UNCHANGED <<name, sock, map, cur, wseq>>
        /\ UNCHANGED <<spc, smap, seq1, snap, sleft, got, host>>
        /\ UNCHANGED <<created, starts, crashes, overlapped, cut>>
    BY DEF StoreOdd, Goto, shimvars, past
  <1>1. map[c] \in Objects
    BY <1>0 DEF MapInv, Holding, WritingPCs
  <1>2. /\ objs' \in [Objects -> Memory]
        /\ objs'[map[c]].size = objs[map[c]].size
        /\ objs'[map[c]].magic = objs[map[c]].magic
        /\ objs'[map[c]].seq = wseq[c] + 1
        /\ objs'[map[c]].time = objs[map[c]].time
        /\ \A p \in Objects \ {map[c]} : objs'[p] = objs[p]
    <2>1. wseq[c] + 1 \in Nat
      OBVIOUS
    <2> QED BY <2>1, <1>1, SeqStored DEF StoreOdd
  <1>3. /\ \A p \in Objects : objs[p].seq \in Nat /\ objs'[p].seq \in Nat
        /\ \A p \in Objects : objs'[p].time = objs[p].time
        /\ wseq[c] \in Nat /\ \A s \in Shims : seq1[s] \in Nat
    <2>1. \A p \in Objects : objs[p] \in Memory /\ objs'[p] \in Memory
      BY <1>2
    <2>2. \A p \in Objects : objs[p].seq \in Nat /\ objs'[p].seq \in Nat
      BY <2>1, MemoryTypes
    <2> QED BY <2>2, <1>1, <1>2
  <1>4. Orderly => /\ wseq[c] = objs[map[c]].seq /\ wseq[c] % 2 = 0
                   /\ \A d \in Controllers \ {c} : cpc[d] = "off"
    <2> SUFFICES ASSUME Orderly
                 PROVE  /\ wseq[c] = objs[map[c]].seq /\ wseq[c] % 2 = 0
                        /\ \A d \in Controllers \ {c} : cpc[d] = "off"
      OBVIOUS
    <2>1. wseq[c] = objs[map[c]].seq
      BY <1>0 DEF WriterInv, WriterOf, Seq
    <2>2. \A d \in Controllers \ {c} : cpc[d] = "off"
      BY <1>0 DEF Orderly, SingleInv, Running
    <2>3. objs[map[c]].seq % 2 = 0
      BY <1>0, <1>1, <2>2 DEF StableInv
    <2> QED BY <2>1, <2>2, <2>3
  <1> USE <1>0
  <1>5. CreatedInv'
    BY CreatedKept DEF Goto
  <1>6. TypeInv'
    BY <1>2 DEF Holding, WritingPCs
  <1>7. FreshInv'
    BY <1>2, FreshKept DEF Holding, WritingPCs
  <1>9. MapInv'
    BY DEF MapInv, Holding, Making, WritingPCs
  <1>10. SockInv'
    BY DEF SockInv, Published, WritingPCs
  <1>11. SingleInv'
    BY DEF SingleInv, Running, Holding, WritingPCs
  <1>12. TimeInv'
    BY <1>3 DEF TimeInv, MapInv, Published, Holding, Making, WritingPCs
  <1>13. HeldInv'
    BY DEF HeldInv, Holding, WritingPCs
  <1>14. WriterInv'
    BY <1>1, <1>2, <1>4 DEF WriterInv, WriterOf, Orderly, Seq, Making
  <1>15. StableInv'
    BY <1>1, <1>2, <1>4 DEF StableInv, Orderly
  <1>16. WholeInv'
    BY DEF WholeInv, TimesWhole, Orderly
  <1>17. ReaderInv'
    <2>1. Orderly => \A s \in Shims : spc[s] = "copy" /\ smap[s] = map[c] =>
                        seq1[s] < objs'[map[c]].seq
      BY <1>1, <1>2, <1>3, <1>4 DEF ReaderInv
    <2> QED BY <2>1, <1>1, <1>2, ReadersRetry DEF Orderly
  <1> QED BY <1>5, <1>6, <1>7, <1>9, <1>10, <1>11, <1>12, <1>13, <1>14, <1>15,
             <1>16, <1>17

\* The time changes word by word while the counter is odd.
LEMMA CopyInStep ==
    ASSUME IInv, NEW c \in Controllers, NEW w \in Words, CopyIn(c, w)
    PROVE  IInv'
  <1> USE DEF IInv, TypeInv
  <1>0. /\ cpc[c] = "copy" /\ w \in wleft[c]
        /\ wleft' = [wleft EXCEPT ![c] = @ \ {w}]
        /\ UNCHANGED <<name, sock, cpc, map, cur, wseq>>
        /\ UNCHANGED <<spc, smap, seq1, snap, sleft, got, host>>
        /\ UNCHANGED <<created, starts, crashes, overlapped, cut>>
    BY DEF CopyIn, shimvars, past
  <1>1. map[c] \in Objects /\ cur[c] \in 0 .. MAX_TIME /\ cur[c] >= 1
    BY <1>0 DEF MapInv, Holding, Making, WritingPCs
  <1>2. /\ objs' \in [Objects -> Memory]
        /\ objs'[map[c]].size = objs[map[c]].size
        /\ objs'[map[c]].magic = objs[map[c]].magic
        /\ objs'[map[c]].seq = objs[map[c]].seq
        /\ objs'[map[c]].time = [objs[map[c]].time EXCEPT ![w] = cur[c]]
        /\ \A p \in Objects \ {map[c]} : objs'[p] = objs[p]
    <2>1. StoreWord(map[c], w, cur[c])
      BY DEF CopyIn, StoreWord
    <2> QED BY <2>1, <1>1, WordStored
  <1>3. /\ objs'[map[c]].time[w] = cur[c]
        /\ \A v \in Words \ {w} : objs'[map[c]].time[v] = objs[map[c]].time[v]
    <2>1. objs[map[c]].time \in [Words -> 0 .. MAX_TIME]
      BY <1>1, MemoryTypes
    <2> QED BY <2>1, <1>2
  <1>4. ~overlapped => \A d \in Controllers \ {c} : cpc[d] = "off"
    BY <1>0 DEF SingleInv, Running
  <1> USE <1>0
  <1>5. CreatedInv'
    BY DEF CreatedInv, Creating
  <1>6. TypeInv'
    BY <1>2
  <1>7. FreshInv'
    BY <1>2, FreshKept DEF Holding, WritingPCs
  <1>9. MapInv' /\ SockInv' /\ SingleInv' /\ HeldInv'
    BY DEF MapInv, SockInv, SingleInv, HeldInv, Published, Running
  <1>10. TimeInv'
    <2> SUFFICES ASSUME ~overlapped, NEW d \in Controllers, NEW v \in Words,
                        Published(d)' \/ (cpc[d] = "copy" /\ v \notin wleft'[d])
                 PROVE  objs'[map[d]].time[v] # 0
      BY DEF TimeInv
    <2>1. d = c
      BY <1>4 DEF Published, WritingPCs
    <2>2. CASE v = w
      BY <2>1, <2>2, <1>1, <1>3
    <2>3. CASE v # w
      BY <2>1, <2>3, <1>3 DEF TimeInv, Published
    <2> QED BY <2>2, <2>3
  <1>11. WriterInv'
    <2> SUFFICES ASSUME Orderly, NEW d \in Controllers
                 PROVE  /\ cpc[d] \notin Making \cup {"odd"}
                        /\ cpc[d] = "copy" =>
                              /\ wseq[d] % 2 = 0 /\ objs'[map[d]].seq = wseq[d] + 1
                              /\ \A v \in Words \ wleft'[d] : objs'[map[d]].time[v] = cur[d]
      BY DEF WriterInv, WriterOf, Orderly, Seq
    <2>1. CASE d = c
      BY <2>1, <1>2, <1>3 DEF WriterInv, WriterOf, Seq, Making
    <2>2. CASE d # c
      BY <2>2, <1>4 DEF Orderly, Making
    <2> QED BY <2>1, <2>2
  <1>12. StableInv'
    BY <1>2 DEF StableInv, Orderly
  <1>13. WholeInv'
    BY DEF WholeInv, TimesWhole, Orderly
  <1>14. ReaderInv'
    <2>1. ASSUME Orderly, NEW s \in Shims, spc[s] = "copy", smap[s] = map[c]
          PROVE  seq1[s] < objs'[map[c]].seq
      <3>1. seq1[s] \in Nat /\ wseq[c] \in Nat
        OBVIOUS
      <3>2. objs'[map[c]].seq = wseq[c] + 1 /\ wseq[c] % 2 = 0
        BY <2>1, <1>2 DEF WriterInv, WriterOf, Seq
      <3>3. seq1[s] <= wseq[c] + 1 /\ seq1[s] % 2 = 0
        BY <2>1, <3>2, <1>2 DEF ReaderInv
      <3>4. (wseq[c] + 1) % 2 = 1
        BY <3>1, <3>2, Parity
      <3> QED BY <3>1, <3>2, <3>3, <3>4
    <2> QED BY <2>1, <1>1, <1>2, ReadersRetry DEF Orderly
  <1> QED BY <1>5, <1>6, <1>7, <1>9, <1>10, <1>11, <1>12, <1>13, <1>14

\* The counter becomes even again, when both words are the new time.
LEMMA StoreEvenStep ==
    ASSUME IInv, NEW c \in Controllers, StoreEven(c)
    PROVE  IInv'
  <1> USE DEF IInv, TypeInv
  <1>0. /\ cpc[c] = "copy" /\ wleft[c] = {}
        /\ cpc' = [cpc EXCEPT ![c] = IF cur[c] = 1 THEN "listen" ELSE "run"]
        /\ wseq' = [wseq EXCEPT ![c] = 0]
        /\ UNCHANGED <<name, sock, map, cur, wleft>>
        /\ UNCHANGED <<spc, smap, seq1, snap, sleft, got, host>>
        /\ UNCHANGED <<created, starts, crashes, overlapped, cut>>
    BY DEF StoreEven, Goto, shimvars, past
  <1>1. map[c] \in Objects
    BY <1>0 DEF MapInv, Holding, WritingPCs
  <1>2. /\ objs' \in [Objects -> Memory]
        /\ objs'[map[c]].size = objs[map[c]].size
        /\ objs'[map[c]].magic = objs[map[c]].magic
        /\ objs'[map[c]].seq = wseq[c] + 2
        /\ objs'[map[c]].time = objs[map[c]].time
        /\ \A p \in Objects \ {map[c]} : objs'[p] = objs[p]
    <2>1. wseq[c] + 2 \in Nat
      OBVIOUS
    <2> QED BY <2>1, <1>1, SeqStored DEF StoreEven, EvenSeq
  <1>3. \A p \in Objects : objs'[p].time = objs[p].time
    BY <1>2
  <1>4. ~overlapped => \A d \in Controllers \ {c} : cpc[d] = "off"
    BY <1>0 DEF SingleInv, Running
  <1>5. Orderly => /\ wseq[c] % 2 = 0 /\ objs[map[c]].seq = wseq[c] + 1
                   /\ objs[map[c]].time["sec"] = cur[c] /\ objs[map[c]].time["nsec"] = cur[c]
    BY <1>0 DEF WriterInv, WriterOf, Seq, Words
  <1> USE <1>0
  <1>6. CreatedInv'
    BY CreatedKept DEF Goto
  <1>7. TypeInv'
    BY <1>2 DEF Holding
  <1>8. FreshInv'
    BY <1>2, FreshKept DEF Holding, WritingPCs
  <1>10. MapInv'
    BY DEF MapInv, Holding, Making, WritingPCs
  <1>11. SockInv'
    BY DEF SockInv, Published, WritingPCs
  <1>12. SingleInv'
    BY DEF SingleInv, Running, Holding, WritingPCs
  <1>13. HeldInv'
    BY DEF HeldInv, Holding
  <1>14. TimeInv'
    BY <1>3, <1>4 DEF TimeInv, MapInv, Published, Holding, Making, WritingPCs
  <1>15. WriterInv'
    BY <1>4 DEF WriterInv, WriterOf, Orderly, Making
  <1>16. StableInv'
    <2> SUFFICES ASSUME Orderly, NEW o \in Objects
                 PROVE  objs'[o].seq % 2 = 0 /\ objs'[o].time["sec"] = objs'[o].time["nsec"]
      BY DEF StableInv, Orderly
    <2>1. CASE o = map[c]
      <3>1. (wseq[c] + 2) % 2 = 0
        BY <1>5, Parity
      <3> QED BY <2>1, <3>1, <1>2, <1>5
    <2>2. CASE o # map[c]
      <3>1. ~ \E d \in Controllers : map[d] = o /\ cpc[d] = "copy"
        BY <2>2, <1>4 DEF Orderly
      <3>2. objs'[o] = objs[o]
        BY <2>2, <1>2
      <3> QED BY <3>1, <3>2 DEF StableInv
    <2> QED BY <2>1, <2>2
  <1>17. WholeInv'
    BY DEF WholeInv, TimesWhole, Orderly
  <1>18. ReaderInv'
    <2>1. ASSUME Orderly, NEW s \in Shims, spc[s] = "copy", smap[s] = map[c]
          PROVE  seq1[s] < objs'[map[c]].seq
      <3>1. seq1[s] \in Nat /\ wseq[c] \in Nat
        OBVIOUS
      <3>2. seq1[s] <= wseq[c] + 1
        BY <2>1, <1>5 DEF ReaderInv
      <3> QED BY <3>1, <3>2, <1>2
    <2> QED BY <2>1, <1>1, <1>2, ReadersRetry DEF Orderly
  <1> QED BY <1>6, <1>7, <1>8, <1>10, <1>11, <1>12, <1>13, <1>14, <1>15, <1>16,
             <1>17, <1>18

LEMMA CloseSocketStep ==
    ASSUME IInv, NEW c \in Controllers, CloseSocket(c)
    PROVE  IInv'
  <1> USE DEF IInv, TypeInv
  <1>0. /\ cpc[c] = "run"
        /\ cpc' = [cpc EXCEPT ![c] = "destroy"] /\ sock' = None
        /\ UNCHANGED <<name, objs, map, cur, wseq, wleft>>
        /\ UNCHANGED <<spc, smap, seq1, snap, sleft, got, host>>
        /\ UNCHANGED <<created, starts, crashes, overlapped, cut>>
    BY DEF CloseSocket, Goto, shimvars, past
  <1> USE <1>0
  <1>1. CreatedInv'
    BY CreatedKept DEF Goto
  <1>2. TypeInv' /\ FreshInv'
    BY DEF Holding, FreshInv
  <1>3. MapInv'
    BY DEF MapInv, Holding, Making, WritingPCs
  <1>4. SockInv'
    BY DEF SockInv, Published, WritingPCs
  <1>5. SingleInv'
    BY DEF SingleInv, Running, Holding
  <1>6. TimeInv'
    BY DEF TimeInv, Published, WritingPCs
  <1>7. HeldInv'
    BY DEF HeldInv, Holding
  <1>8. WriterInv' /\ StableInv'
    BY DEF WriterInv, WriterOf, StableInv, Orderly, Seq, Making
  <1>9. ReaderInv' /\ WholeInv'
    BY ReadersKept DEF Orderly
  <1> QED BY <1>1, <1>2, <1>3, <1>4, <1>5, <1>6, <1>7, <1>8, <1>9

\* A controller that ends, in order or not, leaves what holds of the others.
LEMMA EndKeeps ==
    ASSUME IInv, NEW c \in Controllers, End(c),
           name' \in {name, None}, sock' \in {sock, None}, sock' # c,
           crashes' \in Nat, cut' \in BOOLEAN, UNCHANGED <<objs, spc, smap, got, overlapped>>,
           UNCHANGED <<seq1, snap, sleft, created, starts>>,
           ~overlapped => \A d \in Controllers \ {c} : cpc[d] = "off"
    PROVE  /\ TypeInv' /\ CreatedInv' /\ FreshInv' /\ MapInv' /\ SockInv' /\ SingleInv'
           /\ TimeInv'
  <1> USE DEF IInv, TypeInv
  <1>0. /\ cpc' = [cpc EXCEPT ![c] = "off"]
        /\ map' = [map EXCEPT ![c] = None]
        /\ cur' = [cur EXCEPT ![c] = 0]
        /\ wseq' = [wseq EXCEPT ![c] = 0]
        /\ wleft' = [wleft EXCEPT ![c] = {}]
        /\ host' = [s \in Shims |-> IF host[s] = c THEN None ELSE host[s]]
    BY DEF End, Goto
  <1> USE <1>0
  <1>1. TypeInv'
    BY BoundsAssumption
  <1>2. CreatedInv'
    BY CreatedKept DEF Goto
  <1>3. FreshInv'
    BY DEF FreshInv, None
  <1>4. MapInv'
    BY DEF MapInv, Holding, Making, WritingPCs
  <1>5. SockInv'
    BY ControllersAssumption DEF SockInv, Published
  <1>6. SingleInv'
    BY DEF SingleInv, Running, Holding, Making, WritingPCs
  <1>7. TimeInv'
    BY DEF TimeInv, Published, WritingPCs
  <1> QED BY <1>1, <1>2, <1>3, <1>4, <1>5, <1>6, <1>7

LEMMA DestroyStep ==
    ASSUME IInv, NEW c \in Controllers, Destroy(c)
    PROVE  IInv'
  <1> USE DEF IInv, TypeInv
  <1>0. /\ cpc[c] = "destroy" /\ name' = None /\ End(c)
        /\ cpc' = [cpc EXCEPT ![c] = "off"]
        /\ map' = [map EXCEPT ![c] = None]
        /\ cur' = [cur EXCEPT ![c] = 0]
        /\ wseq' = [wseq EXCEPT ![c] = 0]
        /\ wleft' = [wleft EXCEPT ![c] = {}]
        /\ UNCHANGED <<sock, objs>>
        /\ UNCHANGED <<spc, smap, seq1, snap, sleft, got>>
        /\ UNCHANGED <<created, starts, crashes, overlapped, cut>>
    BY DEF Destroy, Unlinked, End, Goto, past
  <1> USE <1>0
  <1>1. sock # c
    BY ControllersAssumption DEF SockInv
  <1>2. ~overlapped => \A d \in Controllers \ {c} : cpc[d] = "off"
    BY DEF SingleInv, Running
  <1>3. /\ TypeInv' /\ CreatedInv' /\ FreshInv' /\ MapInv' /\ SockInv' /\ SingleInv'
        /\ TimeInv'
    BY <1>1, <1>2, EndKeeps
  <1>4. HeldInv'
    BY DEF HeldInv
  <1>5. WriterInv'
    BY <1>2 DEF WriterInv, WriterOf, Orderly, Making
  <1>6. StableInv'
    BY DEF StableInv, Orderly
  <1>7. ReaderInv' /\ WholeInv'
    BY ReadersKept DEF Orderly
  <1> QED BY <1>3, <1>4, <1>5, <1>6, <1>7

LEMMA CrashStep ==
    ASSUME IInv, NEW c \in Controllers, Crash(c)
    PROVE  IInv'
  <1> USE DEF IInv, TypeInv
  <1>0. /\ Running(c) /\ End(c) /\ crashes' = crashes + 1
        /\ cut' = (cut \/ cpc[c] = "copy")
        /\ cpc' = [cpc EXCEPT ![c] = "off"]
        /\ map' = [map EXCEPT ![c] = None]
        /\ sock' = IF sock = c THEN None ELSE sock
        /\ UNCHANGED <<name, objs>>
        /\ UNCHANGED <<spc, smap, seq1, snap, sleft, got>>
        /\ UNCHANGED <<created, starts, overlapped>>
    BY DEF Crash, End, Goto
  <1> USE <1>0
  <1>1. sock' # c
    BY ControllersAssumption
  <1>2. ~overlapped => \A d \in Controllers \ {c} : cpc[d] = "off"
    BY DEF SingleInv, Running
  <1>3. /\ TypeInv' /\ CreatedInv' /\ FreshInv' /\ MapInv' /\ SockInv' /\ SingleInv'
        /\ TimeInv'
    BY <1>1, <1>2, EndKeeps
  <1>4. HeldInv'
    BY DEF HeldInv
  <1>5. Orderly' => Orderly /\ cpc[c] # "copy"
    BY DEF Orderly
  <1>6. WriterInv'
    BY <1>2, <1>5 DEF WriterInv, WriterOf, Orderly, Making
  <1>7. StableInv'
    BY <1>5 DEF StableInv
  <1>8. ReaderInv' /\ WholeInv'
    BY <1>5, ReadersKept
  <1> QED BY <1>3, <1>4, <1>6, <1>7, <1>8

-----------------------------------------------------------------------------
(* The steps of a shim. *)

\* A step of a shim leaves what holds of the controllers alone.
LEMMA ShimKeeps ==
    ASSUME IInv, UNCHANGED <<name, sock, objs, ctlvars, past>>
    PROVE  /\ CreatedInv' /\ SingleInv' /\ TimeInv' /\ HeldInv' /\ WriterInv'
           /\ StableInv' /\ (Orderly' <=> Orderly)
           /\ smap' = smap => FreshInv'
           /\ host' = host => SockInv'
  <1> USE DEF ctlvars, past, IInv
  <1>1. CreatedInv' /\ HeldInv'
    BY DEF CreatedInv, Creating, HeldInv
  <1>2. SingleInv' /\ TimeInv'
    BY DEF SingleInv, TimeInv, Running, Published
  <1>3. WriterInv' /\ StableInv' /\ (Orderly' <=> Orderly)
    BY DEF WriterInv, WriterOf, StableInv, Orderly, Seq
  <1>4. smap' = smap => FreshInv'
    BY DEF FreshInv
  <1>5. host' = host => SockInv'
    BY DEF SockInv, Published
  <1> QED BY <1>1, <1>2, <1>3, <1>4, <1>5

\* A shim connects to a controller that has finished its first write.
LEMMA ConnectStep ==
    ASSUME IInv, NEW s \in Shims, Connect(s)
    PROVE  IInv'
  <1> USE DEF IInv, TypeInv
  <1>0. /\ Listening
        /\ spc' = [spc EXCEPT ![s] = "attach"] /\ host' = [host EXCEPT ![s] = sock]
        /\ UNCHANGED <<name, sock, objs, cpc, map, cur, wseq, wleft>>
        /\ UNCHANGED <<smap, seq1, snap, sleft, got, created, starts, crashes, overlapped, cut>>
        /\ UNCHANGED <<name, sock, objs, ctlvars, past>>
    BY DEF Connect, SGoto, ctlvars, past
  <1>1. /\ CreatedInv' /\ SingleInv' /\ TimeInv' /\ HeldInv' /\ WriterInv'
        /\ StableInv' /\ (Orderly' <=> Orderly) /\ FreshInv'
    BY <1>0, ShimKeeps
  <1>2. TypeInv'
    BY <1>0
  <1>3. MapInv'
    BY <1>0 DEF MapInv
  <1>4. SockInv'
    BY <1>0 DEF SockInv, Published, Listening
  <1>5. ReaderInv' /\ WholeInv'
    BY <1>0, <1>1 DEF ReaderInv, WholeInv, TimesWhole
  <1> QED BY <1>1, <1>2, <1>3, <1>4, <1>5

\* Steps that only move a shim.
LEMMA MoveStep ==
    ASSUME IInv, NEW s \in Shims,
           ConnectFails(s) \/ SAttachFails(s) \/ SAttachFaults(s) \/ Ask(s)
    PROVE  IInv'
  <1> USE DEF IInv, TypeInv
  <1>0. PICK label \in {"real", "fault", "load"} :
           /\ label = "load" => spc[s] = "idle"
           /\ spc' = [spc EXCEPT ![s] = label]
           /\ UNCHANGED <<name, sock, objs, cpc, map, cur, wseq, wleft>>
           /\ UNCHANGED <<smap, seq1, snap, sleft, got, host>>
           /\ UNCHANGED <<created, starts, crashes, overlapped, cut>>
           /\ UNCHANGED <<name, sock, objs, ctlvars, past>>
    BY DEF ConnectFails, SAttachFails, SAttachFaults, Ask, SGoto, ctlvars, past
  <1>1. /\ CreatedInv' /\ SingleInv' /\ TimeInv' /\ HeldInv' /\ WriterInv' /\ SockInv'
        /\ StableInv' /\ (Orderly' <=> Orderly) /\ FreshInv'
    BY <1>0, ShimKeeps
  <1>2. TypeInv'
    BY <1>0
  <1>3. MapInv'
    BY <1>0 DEF MapInv
  <1>4. ReaderInv' /\ WholeInv'
    BY <1>0, <1>1 DEF ReaderInv, WholeInv, TimesWhole
  <1> QED BY <1>1, <1>2, <1>3, <1>4

\* A shim maps what the name stands for, after a look at size and magic number.
LEMMA SAttachStep ==
    ASSUME IInv, NEW s \in Shims, SAttach(s)
    PROVE  IInv'
  <1> USE DEF IInv, TypeInv
  <1>0. /\ name # None /\ objs[name].size /\ objs[name].magic
        /\ spc' = [spc EXCEPT ![s] = "idle"] /\ smap' = [smap EXCEPT ![s] = name]
        /\ UNCHANGED <<name, sock, objs, cpc, map, cur, wseq, wleft>>
        /\ UNCHANGED <<seq1, snap, sleft, got, host>>
        /\ UNCHANGED <<created, starts, crashes, overlapped, cut>>
        /\ UNCHANGED <<name, sock, objs, ctlvars, past>>
    BY DEF SAttach, Initialised, SGoto, ctlvars, past
  <1>1. /\ CreatedInv' /\ SingleInv' /\ TimeInv' /\ HeldInv' /\ WriterInv' /\ SockInv'
        /\ StableInv' /\ (Orderly' <=> Orderly)
    BY <1>0, ShimKeeps
  <1>2. TypeInv'
    BY <1>0
  <1>3. FreshInv'
    BY <1>0 DEF FreshInv
  <1>4. MapInv'
    BY <1>0 DEF MapInv
  <1>5. ReaderInv' /\ WholeInv'
    BY <1>0, <1>1 DEF ReaderInv, WholeInv, TimesWhole
  <1> QED BY <1>1, <1>2, <1>3, <1>4, <1>5

LEMMA LoadSeq1Step ==
    ASSUME IInv, NEW s \in Shims, LoadSeq1(s)
    PROVE  IInv'
  <1> USE DEF IInv, TypeInv
  <1> DEFINE seq == objs[smap[s]].seq
  <1>0. /\ spc[s] = "load"
        /\ seq1' = [seq1 EXCEPT ![s] = seq]
        /\ IF seq % 2 = 1 THEN spc' = spc /\ sleft' = sleft
           ELSE spc' = [spc EXCEPT ![s] = "copy"] /\ sleft' = [sleft EXCEPT ![s] = Words]
        /\ UNCHANGED <<name, sock, objs, cpc, map, cur, wseq, wleft>>
        /\ UNCHANGED <<smap, snap, got, host, created, starts, crashes, overlapped, cut>>
        /\ UNCHANGED <<name, sock, objs, ctlvars, past>>
    BY DEF LoadSeq1, SGoto, ctlvars, past
  <1>1. smap[s] \in Objects /\ seq \in Nat
    <2>1. smap[s] \in Objects /\ objs[smap[s]] \in Memory
      BY <1>0 DEF MapInv
    <2> QED BY <2>1, MemoryTypes
  <1> HIDE DEF seq
  <1>2. /\ CreatedInv' /\ SingleInv' /\ TimeInv' /\ HeldInv' /\ WriterInv' /\ SockInv'
        /\ StableInv' /\ (Orderly' <=> Orderly) /\ FreshInv'
    BY <1>0, ShimKeeps
  <1>3. TypeInv'
    BY <1>0, <1>1
  <1>4. MapInv'
    BY <1>0 DEF MapInv
  <1>5. WholeInv'
    BY <1>0, <1>2 DEF WholeInv, TimesWhole
  <1>6. ReaderInv'
    <2> SUFFICES ASSUME Orderly, NEW r \in Shims, spc'[r] = "copy"
                 PROVE  /\ seq1'[r] % 2 = 0 /\ seq1'[r] <= objs[smap[r]].seq
                        /\ seq1'[r] = objs[smap[r]].seq =>
                              \A w \in Words \ sleft'[r] :
                                 snap[r][w] = objs[smap[r]].time[w]
      BY <1>0, <1>2 DEF ReaderInv
    <2>1. CASE r = s
      <3>1. seq1'[s] = seq /\ sleft'[s] = Words /\ seq % 2 = 0
        BY <2>1, <1>0, <1>1
      <3> QED BY <2>1, <3>1, <1>1 DEF seq
    <2>2. CASE r # s
      BY <2>2, <1>0 DEF ReaderInv
    <2> QED BY <2>1, <2>2
  <1> QED BY <1>2, <1>3, <1>4, <1>5, <1>6

LEMMA CopyOutStep ==
    ASSUME IInv, NEW s \in Shims, NEW w \in Words, CopyOut(s, w)
    PROVE  IInv'
  <1> USE DEF IInv, TypeInv
  <1> DEFINE t == objs[smap[s]].time[w]
  <1>0. /\ spc[s] = "copy"
        /\ snap' = [snap EXCEPT ![s] = [snap[s] EXCEPT ![w] = t]]
        /\ sleft' = [sleft EXCEPT ![s] = sleft[s] \ {w}]
        /\ UNCHANGED <<name, sock, objs, cpc, map, cur, wseq, wleft>>
        /\ UNCHANGED <<spc, smap, seq1, got, host, created, starts, crashes, overlapped, cut>>
        /\ UNCHANGED <<name, sock, objs, ctlvars, past>>
    BY DEF CopyOut, ctlvars, past
  <1>1. smap[s] \in Objects /\ t \in 0 .. MAX_TIME
    <2>1. smap[s] \in Objects /\ objs[smap[s]] \in Memory
      BY <1>0 DEF MapInv
    <2>2. objs[smap[s]].time \in [Words -> 0 .. MAX_TIME]
      BY <2>1, MemoryTypes
    <2> QED BY <2>1, <2>2
  <1> HIDE DEF t
  <1>2. /\ CreatedInv' /\ SingleInv' /\ TimeInv' /\ HeldInv' /\ WriterInv' /\ SockInv'
        /\ StableInv' /\ (Orderly' <=> Orderly) /\ FreshInv'
    BY <1>0, ShimKeeps
  <1>3. TypeInv'
    BY <1>0, <1>1
  <1>4. MapInv'
    BY <1>0 DEF MapInv
  <1>5. WholeInv'
    BY <1>0, <1>2 DEF WholeInv, TimesWhole
  <1>6. ReaderInv'
    <2> SUFFICES ASSUME Orderly, NEW r \in Shims, spc[r] = "copy"
                 PROVE  /\ seq1[r] % 2 = 0 /\ seq1[r] <= objs[smap[r]].seq
                        /\ seq1[r] = objs[smap[r]].seq =>
                              \A v \in Words \ sleft'[r] :
                                 snap'[r][v] = objs[smap[r]].time[v]
      BY <1>0, <1>2 DEF ReaderInv
    <2>1. CASE r = s
      BY <2>1, <1>0, <1>1 DEF ReaderInv, t
    <2>2. CASE r # s
      BY <2>2, <1>0 DEF ReaderInv
    <2> QED BY <2>1, <2>2
  <1> QED BY <1>2, <1>3, <1>4, <1>5, <1>6

\* The read succeeds if the counter is the one it began with: then what was
\* copied is what is there, which is in one piece since the counter is even.
LEMMA LoadSeq2Step ==
    ASSUME IInv, NEW s \in Shims, LoadSeq2(s)
    PROVE  IInv'
  <1> USE DEF IInv, TypeInv
  <1>0. /\ spc[s] = "copy" /\ sleft[s] = {}
        /\ IF objs[smap[s]].seq = seq1[s]
           THEN spc' = [spc EXCEPT ![s] = "idle"] /\ got' = [got EXCEPT ![s] = snap[s]]
           ELSE spc' = [spc EXCEPT ![s] = "load"] /\ got' = got
        /\ seq1' = [seq1 EXCEPT ![s] = 0]
        /\ snap' = [snap EXCEPT ![s] = Time(0)]
        /\ UNCHANGED <<name, sock, objs, cpc, map, cur, wseq, wleft>>
        /\ UNCHANGED <<smap, sleft, host, created, starts, crashes, overlapped, cut>>
        /\ UNCHANGED <<name, sock, objs, ctlvars, past>>
    BY DEF LoadSeq2, NotWritten, SGoto, ctlvars, past
  <1>1. smap[s] \in Objects /\ Time(0) \in [Words -> 0 .. MAX_TIME]
    BY <1>0, BoundsAssumption DEF MapInv, Time
  <1>2. /\ CreatedInv' /\ SingleInv' /\ TimeInv' /\ HeldInv' /\ WriterInv' /\ SockInv'
        /\ StableInv' /\ (Orderly' <=> Orderly) /\ FreshInv'
    BY <1>0, ShimKeeps
  <1>3. TypeInv'
    BY <1>0, <1>1
  <1>4. MapInv'
    BY <1>0 DEF MapInv
  <1>5. ReaderInv'
    BY <1>0, <1>2 DEF ReaderInv
  <1>6. WholeInv'
    <2>1. ASSUME Orderly, objs[smap[s]].seq = seq1[s]
          PROVE  snap[s]["sec"] = snap[s]["nsec"]
      <3>1. /\ seq1[s] % 2 = 0
            /\ snap[s]["sec"] = objs[smap[s]].time["sec"]
            /\ snap[s]["nsec"] = objs[smap[s]].time["nsec"]
        BY <2>1, <1>0 DEF ReaderInv, Words
      <3>2. ASSUME NEW c \in Controllers, map[c] = smap[s], cpc[c] = "copy"
            PROVE  FALSE
        <4>1. wseq[c] \in Nat /\ wseq[c] % 2 = 0 /\ objs[smap[s]].seq = wseq[c] + 1
          BY <2>1, <3>2 DEF WriterInv, WriterOf, Seq
        <4>2. (wseq[c] + 1) % 2 = 1
          BY <4>1, Parity
        <4> QED BY <2>1, <3>1, <4>1, <4>2
      <3> QED BY <1>1, <2>1, <3>1, <3>2 DEF StableInv
    <2> SUFFICES ASSUME Orderly, NEW r \in Shims
                 PROVE  got'[r].sec = got'[r].nsec
      BY <1>2 DEF WholeInv, TimesWhole
    <2>2. CASE r = s
      BY <2>1, <2>2, <1>0 DEF WholeInv, TimesWhole
    <2>3. CASE r # s
      BY <2>3, <1>0 DEF WholeInv, TimesWhole
    <2> QED BY <2>2, <2>3
  <1> QED BY <1>2, <1>3, <1>4, <1>5, <1>6

-----------------------------------------------------------------------------
(* The theorems. *)

LEMMA InitIInv == Init => IInv
  <1> SUFFICES ASSUME Init PROVE IInv
    OBVIOUS
  <1> USE DEF Init
  <1>1. TypeInv
    <2>1. /\ Time(0) \in [Words -> 0 .. MAX_TIME] /\ Time(1) \in [Words -> 0 .. MAX_TIME]
          /\ 0 \in 0 .. MAX_TIME
      BY BoundsAssumption DEF Time
    <2> QED BY <2>1, BlankMemory DEF TypeInv
  <1>2. CreatedInv
    <2>1. Creating = {}
      BY DEF Creating
    <2> QED BY <2>1, FS_EmptySet, BoundsAssumption DEF CreatedInv
  <1>3. FreshInv
    BY DEF FreshInv, None
  <1>4. MapInv
    BY DEF MapInv, Holding, Making, WritingPCs
  <1>5. SockInv /\ SingleInv /\ HeldInv
    BY DEF SockInv, SingleInv, Running, HeldInv, Holding, Making, WritingPCs
  <1>6. TimeInv
    BY DEF TimeInv, Published, WritingPCs
  <1>7. WriterInv
    BY DEF WriterInv, WriterOf, Making
  <1>8. StableInv
    <2>1. \A o \in Objects : /\ objs[o].seq = 0 /\ objs[o].time["sec"] = 0
                             /\ objs[o].time["nsec"] = 0
      BY BlankMemory
    <2> QED BY <2>1 DEF StableInv
  <1>9. ReaderInv /\ WholeInv
    <2>1. Time(1).sec = 1 /\ Time(1).nsec = 1
      BY DEF Time, Words
    <2> QED BY <2>1 DEF ReaderInv, WholeInv, TimesWhole
  <1> QED BY <1>1, <1>2, <1>3, <1>4, <1>5, <1>6, <1>7, <1>8, <1>9 DEF IInv

LEMMA NextIInv == IInv /\ [Next]_vars => IInv'
  <1> SUFFICES ASSUME IInv, [Next]_vars PROVE IInv'
    OBVIOUS
  <1>1. ASSUME NEW c \in Controllers,
               Start(c) \/ Tick(c) \/ ControllerStep(c) \/ CloseSocket(c) \/ Crash(c)
        PROVE  IInv'
    <2>1. CASE Starting(c)
      BY <2>1, CreateStep, CreateFailsStep, MakeStep, InitLayoutStep, AttachStep,
         ListenStep DEF Starting
    <2>2. CASE Writing(c)
      BY <2>2, LoadSeqStep, StoreOddStep, CopyInStep, StoreEvenStep DEF Writing
    <2> QED BY <1>1, <2>1, <2>2, StartStep, TickStep, DestroyStep, CloseSocketStep,
               CrashStep DEF ControllerStep
  <1>2. ASSUME NEW s \in Shims,
               \/ Connect(s) \/ ConnectFails(s)
               \/ SAttach(s) \/ SAttachFails(s) \/ SAttachFaults(s)
               \/ Ask(s) \/ ReadStep(s)
        PROVE  IInv'
    <2>1. CASE ReadStep(s)
      BY <2>1, LoadSeq1Step, CopyOutStep, LoadSeq2Step DEF ReadStep
    <2> QED BY <1>2, <2>1, ConnectStep, MoveStep, SAttachStep
  <1>3. CASE UNCHANGED vars
    <2>1. UNCHANGED <<name, sock, objs, ctlvars, past>> /\ UNCHANGED shimvars
      BY <1>3 DEF vars
    <2>2. TypeInv'
      BY <2>1 DEF IInv, TypeInv, ctlvars, shimvars, past
    <2>3. MapInv' /\ ReaderInv' /\ WholeInv'
      BY <2>1 DEF IInv, MapInv, ReaderInv, WholeInv, TimesWhole, Orderly, ctlvars,
                  shimvars, past
    <2> QED BY <2>1, <2>2, <2>3, ShimKeeps DEF shimvars, IInv
  <1> QED BY <1>1, <1>2, <1>3 DEF Next

\* The invariant on which the properties below rest.
THEOREM Invariance == Spec => []IInv
  BY InitIInv, NextIInv, PTL DEF Spec

\* The types of the variables; there are never more objects than starts.
THEOREM TypeCorrect == Spec => []TypeOK
  <1>1. ASSUME IInv PROVE TypeOK
    <2>1. \A o \in Objects : objs[o] \in Memory
      BY <1>1 DEF IInv, TypeInv
    <2>2. \A o \in Objects : objs[o].seq \in Nat /\ objs[o].time \in [Words -> 0 .. MAX_TIME]
      BY <2>1, MemoryTypes
    <2>3. created \in 0 .. MAX_STARTS
      <3>1. Cardinality(Creating) \in Nat
        BY <1>1, FS_CardinalityType DEF IInv, CreatedInv
      <3> QED BY <1>1, <3>1, BoundsAssumption DEF IInv, TypeInv, CreatedInv
    <2> QED BY <1>1, <2>2, <2>3 DEF IInv, TypeInv, TypeOK
  <1> QED BY <1>1, Invariance, PTL

\* A shim whose controller answered it and still runs finds a published time
\* under the name, wherever earlier controllers were killed, unless two ran at
\* once (main.c:162-167).
THEOREM AttachFindsClockHolds == Spec => []AttachFindsClock
  <1>1. ASSUME IInv PROVE AttachFindsClock
    <2> SUFFICES ASSUME NEW s \in Shims, host[s] # None, ~overlapped
                 PROVE  name # None /\ \A w \in Words : objs[name].time[w] # 0
      BY DEF AttachFindsClock
    <2>1. host[s] \in Controllers /\ Published(host[s])
      BY <1>1 DEF IInv, TypeInv, SockInv
    <2>2. cpc[host[s]] \in Holding
      BY <2>1 DEF Published, Holding
    <2>3. name = map[host[s]] /\ name # None
      BY <1>1, <2>1, <2>2 DEF IInv, SingleInv, MapInv
    <2> QED BY <1>1, <2>1, <2>3 DEF IInv, TimeInv
  <1> QED BY <1>1, Invariance, PTL

\* As long as no controller is killed between the two stores of a write and no two
\* run at once, every time read is whole and no reader waits for nobody, wherever
\* else controllers are killed (shm.c:133-168).
THEOREM ClockSoundHolds == Spec => []ClockSoundUnlessCut
  <1>1. ASSUME IInv PROVE ClockSoundUnlessCut
    <2> SUFFICES ASSUME Orderly
                 PROVE  /\ TimesWhole
                        /\ \A o \in Objects : objs[o].seq % 2 = 1 =>
                              \E c \in Controllers : map[c] = o /\ cpc[c] = "copy"
      BY DEF ClockSoundUnlessCut, Orderly
    <2> QED BY <1>1 DEF IInv, WholeInv, StableInv
  <1> QED BY <1>1, Invariance, PTL

\* A read ends with the second load of the counter, and in no other step.
LEMMA ReadEnds ==
    ASSUME TypeInv, Next, NEW s \in Shims, spc[s] = "copy", spc'[s] = "idle"
    PROVE  LoadSeq2(s) /\ NotWritten(s) /\ got'[s] = snap[s]
  <1> USE DEF TypeInv
  <1>1. ASSUME NEW c \in Controllers,
               Start(c) \/ Tick(c) \/ ControllerStep(c) \/ CloseSocket(c) \/ Crash(c)
        PROVE  spc' = spc
    <2>1. CASE Starting(c)
      BY <2>1 DEF Starting, Create, CreateFails, Truncate, InitMagic, InitLayout, Attach,
                  AttachFails, Listen, shimvars
    <2>2. CASE Writing(c)
      BY <2>2 DEF Writing, LoadSeq, StoreOdd, CopyIn, StoreEven, shimvars
    <2> QED BY <1>1, <2>1, <2>2 DEF ControllerStep, Start, Tick, CloseSocket, Destroy, Crash,
                                    shimvars
  <1>2. PICK r \in Shims :
           \/ Connect(r) \/ ConnectFails(r)
           \/ SAttach(r) \/ SAttachFails(r) \/ SAttachFaults(r)
           \/ Ask(r) \/ ReadStep(r)
    BY <1>1 DEF Next
  <1>3. ReadStep(r)
    BY <1>2 DEF Connect, ConnectFails, SAttach, SAttachFails, SAttachFaults, Ask, SGoto
  <1>4. LoadSeq2(r)
    BY <1>3 DEF ReadStep, LoadSeq1, CopyOut, SGoto
  <1>5. r = s /\ NotWritten(s)
    BY <1>4 DEF LoadSeq2, SGoto
  <1> QED BY <1>4, <1>5 DEF LoadSeq2

\* A read returns what the object holds at its last load, through any number of
\* controllers and of kills outside a write (shm.c:147-168).
THEOREM ReadsCurrentHolds == Spec => ReadsCurrent
  <1> DEFINE Current ==
          (~cut /\ ~overlapped) => \A s \in Shims :
              spc[s] = "copy" /\ spc'[s] = "idle" => got'[s] = objs[smap[s]].time
  <1>1. ASSUME IInv, Next PROVE Current
    <2> SUFFICES ASSUME Orderly, NEW s \in Shims, spc[s] = "copy", spc'[s] = "idle"
                 PROVE  got'[s] = objs[smap[s]].time
      BY DEF Orderly
    <2>1. LoadSeq2(s) /\ NotWritten(s) /\ got'[s] = snap[s]
      BY <1>1, ReadEnds DEF IInv
    <2>2. smap[s] \in Objects /\ objs[smap[s]] \in Memory
      BY <1>1 DEF IInv, TypeInv, MapInv
    <2>3. snap[s] \in [Words -> 0 .. MAX_TIME] /\ objs[smap[s]].time \in [Words -> 0 .. MAX_TIME]
      BY <1>1, <2>2, MemoryTypes DEF IInv, TypeInv
    <2>4. \A w \in Words : snap[s][w] = objs[smap[s]].time[w]
      BY <1>1, <2>1 DEF IInv, ReaderInv, LoadSeq2, NotWritten
    <2> QED BY <2>1, <2>3, <2>4
  <1>2. IInv /\ [Next]_vars => [Current]_vars
    BY <1>1
  <1> QED BY <1>2, Invariance, PTL DEF Spec, ReadsCurrent

\* Controllers that shut down leave neither name behind (main.c:238-243).
THEOREM CleanStopHolds == Spec => []CleanStop
  <1>1. ASSUME IInv PROVE CleanStop
    BY <1>1 DEF IInv, TypeInv, CleanStop, HeldInv, SockInv, Published, Running, Holding,
                Making, WritingPCs
  <1> QED BY <1>1, Invariance, PTL
=============================================================================
