---------------------------- MODULE FdTable_proofs ----------------------------
(***************************************************************************)
(* Proofs about the files of the HAL, for every number of descriptors and  *)
(* every set of devices and file systems.                                  *)
(***************************************************************************)
EXTENDS FdTable, WellFoundedInduction, TLAPS

Flags  == {"ALT_FD_DEV", "ALT_FD_EXCL", "O_NONBLOCK"}
AnyDev == Devices \cup FileSystems \cup {Null, None, Stdio}
Entries  == [dev : AnyDev, access : Access, options : SUBSET Flags]
Holdings == [access : Access, dev : AnyDev, lock : BOOLEAN]

PoolTyped ==
  /\ alt_fd_list \in [Fd -> Entries]
  /\ alt_max_fd \in -1..(ALT_MAX_FD - 1)

HeldTyped == held \in [DOMAIN held -> Holdings] /\ Std \subseteq DOMAIN held

(* alt_release_fd leaves nothing of the file that was open.                *)
FreeIsUnused == \A fd \in Fd : alt_fd_list[fd].dev = None => alt_fd_list[fd] = Unused

(* A lock is one of a device, and within the reach of alt_file_locked: the *)
(* flag ALT_FD_DEV never gets to a descriptor above alt_max_fd.            *)
LocksInReach ==
  \A fd \in Fd :
    /\ Excl(alt_fd_list, fd) => "ALT_FD_DEV" \in alt_fd_list[fd].options
    /\ "ALT_FD_DEV" \in alt_fd_list[fd].options
         => alt_fd_list[fd].dev \notin FileSystems /\ fd <= alt_max_fd

FdInv == PoolTyped /\ HeldTyped /\ FreeIsUnused /\ LocksInReach /\ HeldAsOpened

-----------------------------------------------------------------------------
(* The least member of a set of numbers.                                   *)
NatLess == {s \in Nat \X Nat : s[1] < s[2]}

LEMMA NatLessWF == IsWellFoundedOn(NatLess, Nat)
BY NatLessThanWellFounded DEF OpToRel, NatLess

LEMMA NatLessIs == \A a, b \in Nat : <<a, b>> \in NatLess <=> a < b
BY DEF NatLess

LEMMA MinIsLeast ==
  ASSUME NEW S, S \subseteq Nat, S # {}
  PROVE  Min(S) \in S
<1>1. PICK x \in S : \A y \in S : ~(<<y, x>> \in NatLess)
  BY NatLessWF, WFMin
<1>2. ASSUME NEW y \in S PROVE x <= y
  <2>1. ~(<<y, x>> \in NatLess)
    BY <1>1
  <2>2. x \in Nat /\ y \in Nat
    OBVIOUS
  <2>3. ~(y < x)
    BY <2>1, <2>2, NatLessIs
  <2> QED BY <2>2, <2>3
<1> QED BY <1>2 DEF Min

LEMMA MaxOfTwo ==
  ASSUME NEW a \in Int, NEW b \in Int
  PROVE  Max({a, b}) \in {a, b} /\ Max({a, b}) >= a /\ Max({a, b}) >= b
<1>1. \E x \in {a, b} : \A y \in {a, b} : x >= y
  OBVIOUS
<1> QED BY <1>1 DEF Max

-----------------------------------------------------------------------------
(* What open may do: nothing but raise alt_max_fd, or one descriptor is    *)
(* taken, and then no other one that alt_file_locked sees has the device.  *)
Taken(o, name, acc) ==
  \E flags \in SUBSET (Flags \ {"ALT_FD_EXCL"}) :
    /\ o.fd \in Free /\ o.fd \notin Std /\ o.fd <= o.max
    /\ Find(name) = name /\ name # None
    /\ o.list = [alt_fd_list EXCEPT ![o.fd] = Entry(name, acc, flags)]
    /\ "ALT_FD_DEV" \in flags => name \notin FileSystems
    /\ name \notin FileSystems => ~Locked(o.list, o.fd, o.max)

LEMMA OpenOutcome ==
  ASSUME FdInv, NEW name \in AnyDev, NEW acc \in Access, NEW opts \in Opts,
         NEW o \in ALT_OPEN(name, acc, opts)
  PROVE  /\ o.max \in -1..(ALT_MAX_FD - 1) /\ o.max >= alt_max_fd
         /\ \/ o.fd = -1 /\ o.list = alt_fd_list
            \/ o.fd \in Nat /\ Taken(o, name, acc)
<1>1. Find(name) \in {name, None}
  BY DEF Find
<1>2. alt_max_fd \in Int /\ alt_max_fd \in -1..(ALT_MAX_FD - 1) /\ ALT_MAX_FD \in Nat /\ ALT_MAX_FD > 3
  BY FdAssumption DEF FdAssumption, FdInv, PoolTyped
<1>3. CASE Find(name) = None
  <2>1. o = Outcome(alt_fd_list, alt_max_fd, -1, "ENODEV")
    BY <1>3 DEF ALT_OPEN
  <2> QED BY <1>2, <2>1 DEF Outcome
<1>4. CASE Find(name) # None /\ Free = {}
  <2>1. o = Outcome(alt_fd_list, alt_max_fd, -1, "EMFILE")
    BY <1>4 DEF ALT_OPEN
  <2> QED BY <1>2, <2>1 DEF Outcome
<1>5. CASE Find(name) # None /\ Free # {}
  <2> DEFINE fd   == Min(Free)
             max  == Max({alt_max_fd, fd})
             flags == opts \cup (IF name \in FileSystems THEN {} ELSE {"ALT_FD_DEV"})
             list == [alt_fd_list EXCEPT ![fd] = Entry(name, acc, flags)]
             Fails(rc) == Outcome(Release(list, fd), max, -1, rc)
  <2>1. Find(name) = name /\ name # None
    BY <1>1, <1>5
  <2>2. o \in Opened(name, acc, opts)
    BY <1>5, <2>1 DEF ALT_OPEN
  <2>3. \/ o \in {Fails("EACCES"), Fails("EIO")}
        \/ o = Outcome(list, max, fd, "0") /\ (name \notin FileSystems => ~Locked(list, fd, max))
    BY <2>2 DEF Opened
  <2>4. fd \in Free /\ fd \in Fd /\ fd \in Nat
    <3>1. Free \subseteq Nat
      BY DEF Free, Fd
    <3> QED BY <1>5, <3>1, MinIsLeast DEF Free, Fd
  <2>5. fd \notin Std /\ fd > 2
    <3>1. \A f \in Std : f \in Fd /\ f \in DOMAIN held
      BY <1>2 DEF FdInv, HeldTyped, Std, Fd
    <3>2. \A f \in Std : alt_fd_list[f].dev # None
      BY <3>1 DEF FdInv, HeldAsOpened
    <3>3. fd \notin Std
      BY <2>4, <3>2 DEF Free
    <3> QED BY <2>4, <3>3 DEF Std
  <2>6. max \in -1..(ALT_MAX_FD - 1) /\ max >= alt_max_fd /\ fd <= max
    <3> HIDE DEF fd
    <3>1. max \in {alt_max_fd, fd} /\ max >= alt_max_fd /\ max >= fd
      <4>1. alt_max_fd \in Int /\ fd \in Int
        BY <1>2, <2>4
      <4> QED BY <4>1, MaxOfTwo
    <3> HIDE DEF max
    <3> QED BY <1>2, <2>4, <3>1 DEF Fd
  <2>7. Release(list, fd) = alt_fd_list
    <3>1. Release(list, fd) = [list EXCEPT ![fd] = Unused]
      BY <2>5 DEF Release
    <3>2. alt_fd_list[fd] = Unused
      BY <2>4 DEF FdInv, FreeIsUnused, Free
    <3>3. alt_fd_list = [f \in Fd |-> alt_fd_list[f]]
      BY DEF FdInv, PoolTyped
    <3> HIDE DEF fd
    <3> QED BY <2>4, <3>1, <3>2, <3>3
  <2>0. /\ flags \in SUBSET (Flags \ {"ALT_FD_EXCL"})
        /\ "ALT_FD_DEV" \in flags => name \notin FileSystems
    BY DEF Opts, Flags
  <2> HIDE DEF fd, max, flags
  <2>8. CASE o \in {Fails("EACCES"), Fails("EIO")}
    BY <2>6, <2>7, <2>8 DEF Outcome
  <2>9. CASE o = Outcome(list, max, fd, "0") /\ (name \notin FileSystems => ~Locked(list, fd, max))
    <3>1. o.list = list /\ o.max = max /\ o.fd = fd
      BY <2>9 DEF Outcome
    <3>2. Taken(o, name, acc)
      BY <2>0, <2>1, <2>4, <2>5, <2>6, <2>9, <3>1 DEF Taken
    <3> QED BY <2>4, <2>6, <3>1, <3>2
  <2> QED BY <2>3, <2>8, <2>9
<1> QED BY <1>3, <1>4, <1>5

-----------------------------------------------------------------------------
(* One call after the other.                                               *)

(* FdInv, one descriptor at a time.                                        *)
FdOK(fd) ==
  /\ alt_fd_list[fd] \in Entries
  /\ alt_fd_list[fd].dev = None => alt_fd_list[fd] = Unused
  /\ Excl(alt_fd_list, fd) => "ALT_FD_DEV" \in alt_fd_list[fd].options
  /\ "ALT_FD_DEV" \in alt_fd_list[fd].options
       => alt_fd_list[fd].dev \notin FileSystems /\ fd <= alt_max_fd
  /\ alt_fd_list[fd].dev # None <=> fd \in DOMAIN held
  /\ fd \in DOMAIN held => /\ held[fd] \in Holdings
                           /\ alt_fd_list[fd].dev = held[fd].dev
                           /\ alt_fd_list[fd].access = held[fd].access
                           /\ Excl(alt_fd_list, fd) <=> held[fd].lock

Shape ==
  /\ DOMAIN alt_fd_list = Fd /\ alt_fd_list = [fd \in Fd |-> alt_fd_list[fd]]
  /\ alt_max_fd \in -1..(ALT_MAX_FD - 1)
  /\ held = [fd \in DOMAIN held |-> held[fd]]
  /\ Std \subseteq DOMAIN held /\ DOMAIN held \subseteq Fd

LEMMA ByDescriptor == FdInv <=> Shape /\ \A fd \in Fd : FdOK(fd)
<1>1. ASSUME FdInv PROVE Shape
  BY <1>1 DEF FdInv, PoolTyped, HeldTyped, HeldAsOpened, Shape
<1>2. ASSUME FdInv, NEW fd \in Fd PROVE FdOK(fd)
  <2>1. fd \in DOMAIN held => (Excl(alt_fd_list, fd) <=> held[fd].lock)
    <3>1. fd \in DOMAIN held => Excl(alt_fd_list, fd) = held[fd].lock /\ held[fd] \in Holdings
      BY <1>2 DEF FdInv, HeldTyped, HeldAsOpened
    <3> QED BY <3>1 DEF Holdings, Excl
  <2> QED BY <1>2, <2>1 DEF FdInv, PoolTyped, HeldTyped, FreeIsUnused, LocksInReach, HeldAsOpened, FdOK
<1>3. ASSUME Shape, \A fd \in Fd : FdOK(fd) PROVE FdInv
  <2>1. PoolTyped /\ HeldTyped
    BY <1>3 DEF PoolTyped, HeldTyped, Shape, FdOK
  <2>2. FreeIsUnused /\ LocksInReach
    BY <1>3 DEF FreeIsUnused, LocksInReach, FdOK
  <2>3. HeldAsOpened
    <3>1. {fd \in Fd : alt_fd_list[fd].dev # None} = DOMAIN held
      BY <1>3 DEF Shape, FdOK
    <3>2. ASSUME NEW fd \in DOMAIN held
          PROVE  /\ alt_fd_list[fd].dev = held[fd].dev
                 /\ alt_fd_list[fd].access = held[fd].access
                 /\ Excl(alt_fd_list, fd) = held[fd].lock
      <4>1. fd \in Fd /\ FdOK(fd)
        BY <1>3 DEF Shape
      <4>2. alt_fd_list[fd].dev = held[fd].dev /\ alt_fd_list[fd].access = held[fd].access
        BY <4>1 DEF FdOK
      <4>3. Excl(alt_fd_list, fd) = held[fd].lock
        BY <4>1 DEF FdOK, Holdings, Excl
      <4> QED BY <4>2, <4>3
    <3> QED BY <3>1, <3>2 DEF HeldAsOpened
  <2> QED BY <2>1, <2>2, <2>3 DEF FdInv
<1> QED BY <1>1, <1>2, <1>3

LEMMA ByDescriptorNext == FdInv' <=> Shape' /\ \A fd \in Fd : FdOK(fd)'
<1>1. (FdInv <=> Shape /\ \A fd \in Fd : FdOK(fd))'
  BY ByDescriptor, PTL
<1> QED BY <1>1 DEF Fd

LEMMA RedirectInv ==
  ASSUME FdInv, NEW stream, NEW fd \in Std, NEW acc \in Access, Redirect(stream, fd, acc)
  PROVE  FdInv' /\ DOMAIN held' = DOMAIN held
<1>1. PICK o \in ALT_OPEN(Stdio, acc, {}) :
        /\ alt_max_fd' = o.max
        /\ IF o.fd < 0
           THEN alt_fd_list' = o.list /\ UNCHANGED held
           ELSE /\ alt_fd_list' = Release([o.list EXCEPT ![fd] = o.list[o.fd]], o.fd)
                /\ held' = [held EXCEPT ![fd] = Holding(acc, Find(Stdio))]
  BY DEF Redirect
<1>2. Shape /\ \A f \in Fd : FdOK(f)
  BY ByDescriptor
<1>3. fd \in Fd /\ fd \in DOMAIN held
  BY <1>2 DEF Shape
<1>4. /\ o.max \in -1..(ALT_MAX_FD - 1) /\ o.max >= alt_max_fd
      /\ \/ o.fd = -1 /\ o.list = alt_fd_list
         \/ o.fd \in Nat /\ Taken(o, Stdio, acc)
  BY OpenOutcome DEF Opts, AnyDev
<1>5. ASSUME NEW f \in Fd, alt_fd_list'[f] = alt_fd_list[f], f \in DOMAIN held <=> f \in DOMAIN held',
             f \in DOMAIN held => held'[f] = held[f]
      PROVE  FdOK(f)'
  <2>1. FdOK(f) /\ f \in Int /\ alt_max_fd \in Int
    BY <1>2 DEF Shape, Fd
  <2>2. alt_max_fd' >= alt_max_fd /\ alt_max_fd' \in Int
    BY <1>1, <1>4
  <2> QED BY <1>5, <2>1, <2>2 DEF FdOK, Excl
<1>6. CASE o.fd = -1 /\ o.list = alt_fd_list
  <2>1. alt_fd_list' = alt_fd_list /\ held' = held
    BY <1>1, <1>6
  <2>2. Shape'
    BY <1>1, <1>2, <1>4, <2>1 DEF Shape, Fd
  <2> QED BY <1>5, <2>1, <2>2, ByDescriptorNext
<1>7. CASE o.fd \in Nat /\ Taken(o, Stdio, acc)
  <2>1. PICK flags \in SUBSET (Flags \ {"ALT_FD_EXCL"}) :
          /\ o.fd \in Free /\ o.fd \notin Std /\ o.fd <= o.max
          /\ Find(Stdio) = Stdio /\ Stdio # None
          /\ o.list = [alt_fd_list EXCEPT ![o.fd] = Entry(Stdio, acc, flags)]
          /\ "ALT_FD_DEV" \in flags => Stdio \notin FileSystems
    BY <1>7 DEF Taken
  <2>2. /\ o.fd \in Fd /\ o.fd # fd /\ o.fd > 2 /\ o.fd \notin DOMAIN held
        /\ alt_fd_list[o.fd] = Unused
    <3>1. o.fd \in Fd /\ alt_fd_list[o.fd].dev = None
      BY <2>1 DEF Free
    <3>2. o.fd \notin DOMAIN held /\ alt_fd_list[o.fd] = Unused
      BY <1>2, <3>1 DEF FdOK
    <3> QED BY <2>1, <3>1, <3>2 DEF Fd, Std
  <2>3. o.list[o.fd] = Entry(Stdio, acc, flags)
    BY <1>2, <2>1, <2>2 DEF Shape
  <2>4. alt_fd_list' = [[[alt_fd_list EXCEPT ![o.fd] = Entry(Stdio, acc, flags)]
                          EXCEPT ![fd] = Entry(Stdio, acc, flags)] EXCEPT ![o.fd] = Unused]
    BY <1>1, <1>7, <2>1, <2>2, <2>3 DEF Release
  <2>5. /\ DOMAIN alt_fd_list' = Fd /\ alt_fd_list' = [f \in Fd |-> alt_fd_list'[f]]
        /\ alt_fd_list'[fd] = Entry(Stdio, acc, flags)
        /\ \A f \in Fd \ {fd} : alt_fd_list'[f] = alt_fd_list[f]
    BY <1>2, <1>3, <2>2, <2>4 DEF Shape
  <2>6. held' = [held EXCEPT ![fd] = Holding(acc, Stdio)]
    BY <1>1, <1>7, <2>1
  <2>7. /\ DOMAIN held' = DOMAIN held /\ held' = [f \in DOMAIN held' |-> held'[f]]
        /\ held'[fd] = Holding(acc, Stdio)
        /\ \A f \in DOMAIN held \ {fd} : held'[f] = held[f]
    BY <1>2, <1>3, <2>6 DEF Shape
  <2>8. Shape'
    BY <1>1, <1>2, <1>4, <2>5, <2>7 DEF Shape, Fd
  <2>9. FdOK(fd)'
    <3>1. Entry(Stdio, acc, flags) \in Entries
      BY DEF Entry, Entries, AnyDev, Flags
    <3>2. Holding(acc, Stdio) \in Holdings /\ ~Holding(acc, Stdio).lock
      BY DEF Holding, Holdings, AnyDev
    <3>3. "ALT_FD_EXCL" \notin flags
      BY <2>1
    <3>4. fd <= alt_max_fd'
      BY <1>1, <1>4, <2>1, <2>2 DEF Fd, Std
    <3> QED BY <1>3, <2>1, <2>5, <2>7, <3>1, <3>2, <3>3, <3>4 DEF FdOK, Excl, Entry, Holding
  <2>10. \A f \in Fd \ {fd} : FdOK(f)'
    BY <1>5, <2>5, <2>7
  <2> QED BY <2>7, <2>8, <2>9, <2>10, ByDescriptorNext
<1> QED BY <1>4, <1>6, <1>7

(* What open adds: one descriptor, and nobody has locked its device.       *)
LEMMA OpenInv ==
  ASSUME FdInv, NEW name \in Devices \cup FileSystems \cup {Null}, NEW acc \in Access,
         NEW opts \in Opts, Open(name, acc, opts)
  PROVE  /\ FdInv'
         /\ \A owner \in DOMAIN held, fd \in DOMAIN held' \ DOMAIN held :
              held[owner].lock => held'[fd].dev # held[owner].dev
<1>1. PICK o \in ALT_OPEN(name, acc, opts) :
        /\ alt_fd_list' = o.list /\ alt_max_fd' = o.max
        /\ held' = IF o.fd < 0 THEN held
                   ELSE [fd \in DOMAIN held \cup {o.fd} |->
                           IF fd = o.fd THEN Holding(acc, Find(name)) ELSE held[fd]]
  BY DEF Open
<1>2. Shape /\ \A f \in Fd : FdOK(f)
  BY ByDescriptor
<1>3. /\ o.max \in -1..(ALT_MAX_FD - 1) /\ o.max >= alt_max_fd
      /\ \/ o.fd = -1 /\ o.list = alt_fd_list
         \/ o.fd \in Nat /\ Taken(o, name, acc)
  BY OpenOutcome DEF AnyDev
<1>4. ASSUME NEW f \in Fd, alt_fd_list'[f] = alt_fd_list[f], f \in DOMAIN held <=> f \in DOMAIN held',
             f \in DOMAIN held => held'[f] = held[f]
      PROVE  FdOK(f)'
  <2>1. FdOK(f) /\ f \in Int /\ alt_max_fd \in Int
    BY <1>2 DEF Shape, Fd
  <2>2. alt_max_fd' >= alt_max_fd /\ alt_max_fd' \in Int
    BY <1>1, <1>3
  <2> QED BY <1>4, <2>1, <2>2 DEF FdOK, Excl
<1>5. CASE o.fd = -1 /\ o.list = alt_fd_list
  <2>1. alt_fd_list' = alt_fd_list /\ held' = held
    BY <1>1, <1>5
  <2>2. Shape'
    BY <1>1, <1>2, <1>3, <2>1 DEF Shape, Fd
  <2> QED BY <1>4, <2>1, <2>2, ByDescriptorNext
<1>6. CASE o.fd \in Nat /\ Taken(o, name, acc)
  <2>1. PICK flags \in SUBSET (Flags \ {"ALT_FD_EXCL"}) :
          /\ o.fd \in Free /\ o.fd \notin Std /\ o.fd <= o.max
          /\ Find(name) = name /\ name # None
          /\ o.list = [alt_fd_list EXCEPT ![o.fd] = Entry(name, acc, flags)]
          /\ "ALT_FD_DEV" \in flags => name \notin FileSystems
          /\ name \notin FileSystems => ~Locked(o.list, o.fd, o.max)
    BY <1>6 DEF Taken
  <2>2. o.fd \in Fd /\ o.fd \notin DOMAIN held
    <3>1. o.fd \in Fd /\ alt_fd_list[o.fd].dev = None
      BY <2>1 DEF Free
    <3> QED BY <1>2, <3>1 DEF FdOK
  <2>3. /\ DOMAIN alt_fd_list' = Fd /\ alt_fd_list' = [f \in Fd |-> alt_fd_list'[f]]
        /\ alt_fd_list'[o.fd] = Entry(name, acc, flags)
        /\ \A f \in Fd \ {o.fd} : alt_fd_list'[f] = alt_fd_list[f]
    BY <1>1, <1>2, <2>1, <2>2 DEF Shape
  <2>4. /\ DOMAIN held' = DOMAIN held \cup {o.fd} /\ held' = [f \in DOMAIN held' |-> held'[f]]
        /\ held'[o.fd] = Holding(acc, name)
        /\ \A f \in DOMAIN held : held'[f] = held[f]
    <3>1. held' = [fd \in DOMAIN held \cup {o.fd} |->
                     IF fd = o.fd THEN Holding(acc, name) ELSE held[fd]]
      <4>1. ~(o.fd < 0)
        BY <1>6
      <4> QED BY <1>1, <2>1, <4>1
    <3> QED BY <2>2, <3>1
  <2>5. Shape'
    BY <1>1, <1>2, <1>3, <2>2, <2>3, <2>4 DEF Shape, Fd
  <2>6. FdOK(o.fd)'
    <3>1. Entry(name, acc, flags) \in Entries
      BY DEF Entry, Entries, AnyDev, Flags
    <3>2. Holding(acc, name) \in Holdings /\ ~Holding(acc, name).lock
      BY DEF Holding, Holdings, AnyDev
    <3>3. "ALT_FD_EXCL" \notin flags /\ (o.fd <= alt_max_fd)'
      BY <1>1, <2>1
    <3> QED BY <2>1, <2>2, <2>3, <2>4, <3>1, <3>2, <3>3 DEF FdOK, Excl, Entry, Holding
  <2>7. \A f \in Fd \ {o.fd} : FdOK(f)'
    BY <1>4, <2>3, <2>4
  <2>8. FdInv'
    BY <2>5, <2>6, <2>7, ByDescriptorNext
  <2>9. ASSUME NEW owner \in DOMAIN held, held[owner].lock, name = held[owner].dev
        PROVE  FALSE
    <3>1. /\ owner \in Fd /\ owner # o.fd /\ Excl(alt_fd_list, owner)
          /\ name \notin FileSystems /\ owner <= alt_max_fd /\ alt_fd_list[owner].dev = name
      BY <1>2, <2>2, <2>9 DEF Shape, FdOK
    <3>2. owner \in 0..o.max
      BY <1>2, <1>3, <3>1 DEF Shape, Fd
    <3>3. /\ o.list[owner].dev = o.list[o.fd].dev
          /\ Excl(o.list, owner)
      BY <1>1, <2>3, <3>1 DEF Entry, Excl
    <3> QED BY <2>1, <3>1, <3>2, <3>3 DEF Locked
  <2> QED BY <2>4, <2>8, <2>9 DEF Holding
<1> QED BY <1>3, <1>5, <1>6

LEMMA UnaffectedInv ==
  ASSUME FdInv, Unaffected
  PROVE  FdInv' /\ DOMAIN held' = DOMAIN held
BY DEF Unaffected, FdInv, PoolTyped, HeldTyped, FreeIsUnused, LocksInReach, HeldAsOpened, Excl, Fd

LEMMA CloseInv ==
  ASSUME FdInv, NEW fd \in DOMAIN held, Close(fd)
  PROVE  FdInv' /\ DOMAIN held' \subseteq DOMAIN held
<1>1. Shape /\ (\A f \in Fd : FdOK(f)) /\ fd \in Fd
  BY ByDescriptor DEF Shape
<1>2. /\ alt_fd_list' = Release(alt_fd_list, fd) /\ alt_max_fd' = alt_max_fd
      /\ held' = [f \in (DOMAIN held \ {fd}) \cup Std |-> held[f]]
  BY DEF Close
<1>3. ASSUME NEW f \in Fd, alt_fd_list'[f] = alt_fd_list[f], f \in DOMAIN held <=> f \in DOMAIN held',
             f \in DOMAIN held => held'[f] = held[f]
      PROVE  FdOK(f)'
  BY <1>1, <1>2, <1>3 DEF FdOK, Excl
<1>4. CASE fd > 2
  <2>1. fd \notin Std
    BY <1>4 DEF Std
  <2>2. /\ alt_fd_list' = [alt_fd_list EXCEPT ![fd] = Unused]
        /\ DOMAIN held' = DOMAIN held \ {fd} /\ held' = [f \in DOMAIN held' |-> held'[f]]
        /\ \A f \in DOMAIN held \ {fd} : held'[f] = held[f]
    BY <1>1, <1>2, <1>4, <2>1 DEF Release, Shape
  <2>3. /\ DOMAIN alt_fd_list' = Fd /\ alt_fd_list' = [f \in Fd |-> alt_fd_list'[f]]
        /\ alt_fd_list'[fd] = Unused
        /\ \A f \in Fd \ {fd} : alt_fd_list'[f] = alt_fd_list[f]
    BY <1>1, <2>2 DEF Shape
  <2>4. Shape'
    BY <1>1, <1>2, <2>1, <2>2, <2>3 DEF Shape, Fd
  <2>5. FdOK(fd)'
    <3>1. Unused \in Entries /\ Unused.dev = None /\ Unused.options = {}
      BY DEF Unused, Entry, Entries, AnyDev, Access, Flags
    <3> HIDE DEF Unused
    <3> QED BY <2>2, <2>3, <3>1 DEF FdOK, Excl
  <2>6. \A f \in Fd \ {fd} : FdOK(f)'
    BY <1>3, <2>2, <2>3
  <2> QED BY <2>2, <2>4, <2>5, <2>6, ByDescriptorNext
<1>5. CASE ~(fd > 2)
  <2>1. fd \in Std
    BY <1>1, <1>5 DEF Fd, Std
  <2>2. alt_fd_list' = alt_fd_list /\ DOMAIN held' = DOMAIN held
        /\ held' = [f \in DOMAIN held' |-> held'[f]] /\ \A f \in DOMAIN held : held'[f] = held[f]
    BY <1>1, <1>2, <1>5, <2>1 DEF Release, Shape
  <2>3. Shape'
    BY <1>1, <1>2, <2>2 DEF Shape, Fd
  <2> QED BY <1>3, <2>2, <2>3, ByDescriptorNext
<1> QED BY <1>4, <1>5

(* A change of the options of one descriptor.                              *)
LEMMA OptionsInv ==
  ASSUME FdInv, NEW fd \in DOMAIN held, NEW flags \in SUBSET Flags, SetOptions(fd, flags),
         "ALT_FD_DEV" \in flags <=> "ALT_FD_DEV" \in alt_fd_list[fd].options,
         "ALT_FD_EXCL" \in flags => "ALT_FD_DEV" \in flags,
         NEW lock \in BOOLEAN, "ALT_FD_EXCL" \in flags <=> lock,
         held' = [held EXCEPT ![fd].lock = lock], UNCHANGED alt_max_fd
  PROVE  FdInv' /\ DOMAIN held' = DOMAIN held
<1>1. Shape /\ (\A f \in Fd : FdOK(f)) /\ fd \in Fd
  BY ByDescriptor DEF Shape
<1>2. alt_fd_list' = [alt_fd_list EXCEPT ![fd].options = flags]
  BY DEF SetOptions
<1>3. /\ DOMAIN alt_fd_list' = Fd /\ alt_fd_list' = [f \in Fd |-> alt_fd_list'[f]]
      /\ alt_fd_list'[fd] = [alt_fd_list[fd] EXCEPT !.options = flags]
      /\ \A f \in Fd \ {fd} : alt_fd_list'[f] = alt_fd_list[f]
  BY <1>1, <1>2 DEF Shape
<1>4. /\ DOMAIN held' = DOMAIN held /\ held' = [f \in DOMAIN held' |-> held'[f]]
      /\ held'[fd] = [held[fd] EXCEPT !.lock = lock]
      /\ \A f \in DOMAIN held \ {fd} : held'[f] = held[f]
  BY <1>1 DEF Shape
<1>5. Shape'
  BY <1>1, <1>3, <1>4 DEF Shape, Fd
<1>6. FdOK(fd)'
  <2>1. FdOK(fd)
    BY <1>1
  <2>2. /\ alt_fd_list'[fd] \in Entries /\ alt_fd_list'[fd].dev = alt_fd_list[fd].dev
        /\ alt_fd_list'[fd].access = alt_fd_list[fd].access /\ alt_fd_list'[fd].options = flags
    BY <1>3, <2>1 DEF FdOK, Entries
  <2>3. /\ held'[fd] \in Holdings /\ held'[fd].dev = held[fd].dev
        /\ held'[fd].access = held[fd].access /\ held'[fd].lock = lock
    BY <1>4, <2>1 DEF FdOK, Holdings
  <2>4. alt_fd_list[fd].dev # None
    BY <2>1 DEF FdOK
  <2> QED BY <1>4, <2>1, <2>2, <2>3, <2>4 DEF FdOK, Excl
<1>7. ASSUME NEW f \in Fd \ {fd} PROVE FdOK(f)'
  BY <1>1, <1>3, <1>4 DEF FdOK, Excl
<1> QED BY <1>4, <1>5, <1>6, <1>7, ByDescriptorNext

LEMMA IoctlInv ==
  ASSUME FdInv, NEW fd \in DOMAIN held, NEW req \in {"TIOCEXCL", "TIOCNXCL", "other"}, Ioctl(fd, req)
  PROVE  FdInv' /\ DOMAIN held' = DOMAIN held
<1>1. FdOK(fd) /\ fd \in Fd
  BY ByDescriptor DEF Shape
<1> DEFINE opts == alt_fd_list[fd].options
<1>2. CASE "ALT_FD_DEV" \in opts /\ req # "other"
  <2> DEFINE flags == IF req = "TIOCNXCL" THEN opts \ {"ALT_FD_EXCL"}
                      ELSE IF Shared(fd) THEN opts ELSE opts \cup {"ALT_FD_EXCL"}
             lock  == req = "TIOCEXCL" /\ (held[fd].lock \/ ~Shared(fd))
  <2>1. SetOptions(fd, flags) /\ UNCHANGED alt_max_fd
    BY <1>2 DEF Ioctl
  <2>2. held' = [held EXCEPT ![fd].lock = lock]
    BY <1>2 DEF Ioctl
  <2>3. opts \in SUBSET Flags /\ ("ALT_FD_EXCL" \in opts <=> held[fd].lock)
    BY <1>1 DEF FdOK, Excl, Entries
  <2>4. flags \in SUBSET Flags /\ "ALT_FD_DEV" \in flags /\ "ALT_FD_DEV" \in opts
    BY <1>2, <2>3 DEF Flags
  <2>5. "ALT_FD_EXCL" \in flags <=> lock
    BY <1>2, <2>3
  <2>6. lock \in BOOLEAN
    OBVIOUS
  <2> HIDE DEF flags, lock
  <2> QED BY <2>1, <2>2, <2>4, <2>5, <2>6, OptionsInv
<1>3. CASE ~("ALT_FD_DEV" \in opts /\ req # "other")
  BY <1>3, UnaffectedInv DEF Ioctl, AskDriver
<1> QED BY <1>2, <1>3

LEMMA SetFlagsInv ==
  ASSUME FdInv, NEW fd \in DOMAIN held, NEW opts \in Opts, SetFlags(fd, opts)
  PROVE  FdInv' /\ DOMAIN held' = DOMAIN held
<1>1. FdOK(fd) /\ fd \in Fd /\ Shape
  BY ByDescriptor DEF Shape
<1> DEFINE flags == (alt_fd_list[fd].options \ {"O_NONBLOCK"}) \cup opts
<1>2. SetOptions(fd, flags) /\ UNCHANGED <<alt_max_fd, held>>
  BY DEF SetFlags
<1>3. /\ flags \in SUBSET Flags
      /\ "ALT_FD_DEV" \in flags <=> "ALT_FD_DEV" \in alt_fd_list[fd].options
      /\ "ALT_FD_EXCL" \in flags <=> Excl(alt_fd_list, fd)
  BY <1>1 DEF FdOK, Entries, Opts, Flags, Excl
<1>4. /\ held[fd].lock \in BOOLEAN
      /\ "ALT_FD_EXCL" \in flags <=> held[fd].lock
      /\ "ALT_FD_EXCL" \in flags => "ALT_FD_DEV" \in flags
  BY <1>1, <1>3 DEF FdOK, Holdings
<1>5. held' = [held EXCEPT ![fd].lock = held[fd].lock]
  BY <1>1, <1>2 DEF Shape, FdOK, Holdings
<1> HIDE DEF flags
<1> QED BY <1>2, <1>3, <1>4, <1>5, OptionsInv

(* A step of the program or of its start.                                  *)
NewOnesUnlocked ==
  \A owner \in DOMAIN held, fd \in DOMAIN held' \ DOMAIN held :
    held[owner].lock => held'[fd].dev # held[owner].dev

LEMMA FdStep ==
  ASSUME FdInv, [Next]_vars
  PROVE  FdInv' /\ NewOnesUnlocked
<1> USE DEF NewOnesUnlocked
<1>1. CASE SysInit \/ BadFd \/ UNCHANGED vars
  <2>1. Unaffected
    BY <1>1 DEF SysInit, BadFd, Unaffected, vars
  <2> QED BY <2>1, UnaffectedInv
<1>2. CASE Redirect("stdout", 1, "O_WRONLY") \/ Redirect("stdin", 0, "O_RDONLY")
             \/ Redirect("stderr", 2, "O_WRONLY")
  <2>1. {0, 1, 2} \subseteq Std /\ {"O_WRONLY", "O_RDONLY"} \subseteq Access
    BY DEF Std, Access
  <2> QED BY <1>2, <2>1, RedirectInv
<1>3. ASSUME NEW name \in Devices \cup FileSystems \cup {Null}, NEW acc \in Access,
             NEW opts \in Opts, Open(name, acc, opts)
      PROVE  FdInv' /\ NewOnesUnlocked
  BY <1>3, OpenInv
<1>4. ASSUME NEW fd \in DOMAIN held, Close(fd)
      PROVE  FdInv' /\ NewOnesUnlocked
  BY <1>4, CloseInv
<1>5. ASSUME NEW fd \in DOMAIN held, Read(fd) \/ Write(fd) \/ Lseek(fd) \/ Fstat(fd)
      PROVE  FdInv' /\ NewOnesUnlocked
  <2>1. Unaffected
    BY <1>5 DEF Read, Write, Lseek, Fstat, AskDriver
  <2> QED BY <2>1, UnaffectedInv
<1>6. ASSUME NEW fd \in DOMAIN held, NEW req \in {"TIOCEXCL", "TIOCNXCL", "other"}, Ioctl(fd, req)
      PROVE  FdInv' /\ NewOnesUnlocked
  BY <1>6, IoctlInv
<1>7. ASSUME NEW fd \in DOMAIN held, NEW opts \in Opts, SetFlags(fd, opts)
      PROVE  FdInv' /\ NewOnesUnlocked
  BY <1>7, SetFlagsInv
<1> QED BY <1>1, <1>2, <1>3, <1>4, <1>5, <1>6, <1>7 DEF Next, Startup, Calls

LEMMA FdInit == Init => FdInv
<1> SUFFICES ASSUME Init PROVE FdInv
  OBVIOUS
<1>1. Std \subseteq Fd /\ ALT_MAX_FD \in Nat /\ ALT_MAX_FD > 3 /\ Null # None
  BY FdAssumption DEF FdAssumption, Std, Fd
<1>2. Shape
  BY <1>1 DEF Init, Shape
<1>3. /\ Unused \in Entries /\ Unused.dev = None /\ Unused.options = {}
      /\ Entry(Null, "O_RDONLY", {}) \in Entries /\ Holding("O_RDONLY", Null) \in Holdings
      /\ ~Holding("O_RDONLY", Null).lock
  BY DEF Unused, Entry, Entries, Holding, Holdings, AnyDev, Access, Flags
<1>4. ASSUME NEW fd \in Fd PROVE FdOK(fd)
  <2>1. CASE fd \in Std
    <3>1. alt_fd_list[fd] = Entry(Null, "O_RDONLY", {}) /\ held[fd] = Holding("O_RDONLY", Null)
          /\ fd \in DOMAIN held
      BY <2>1 DEF Init
    <3> QED BY <1>1, <1>3, <3>1 DEF FdOK, Excl, Entry, Holding
  <2>2. CASE fd \notin Std
    <3>1. alt_fd_list[fd] = Unused /\ fd \notin DOMAIN held
      BY <2>2 DEF Init
    <3> HIDE DEF Unused
    <3> QED BY <1>3, <3>1 DEF FdOK, Excl
  <2> QED BY <2>1, <2>2
<1> QED BY <1>2, <1>4, ByDescriptor

LEMMA FdInvariant == Spec => []FdInv
BY FdInit, FdStep, PTL DEF Spec

(* No descriptor is lost or given twice, and each one that the program     *)
(* holds refers to what it opened: whatever calls it makes, in any order,  *)
(* and whatever the drivers refuse.                                        *)
THEOREM DescriptorsAsOpened == Spec => []HeldAsOpened
<1>1. FdInv => HeldAsOpened
  BY DEF FdInv
<1> QED BY FdInvariant, <1>1, PTL

(* A device that one descriptor has locked is opened by no other.          *)
THEOREM LockedDeviceIsKept == Spec => LockKeepsOut
<1> DEFINE Kept == \A owner, fd \in Fd :
                     owner \in DOMAIN held /\ held[owner].lock /\ fd \in DOMAIN held' \ DOMAIN held
                       => held'[fd].dev # held[owner].dev
<1>1. FdInv /\ [Next]_vars => [Kept]_vars
  BY FdStep DEF NewOnesUnlocked
<1>2. Spec => [][Kept]_vars
  BY FdInvariant, <1>1, PTL DEF Spec
<1> QED BY <1>2 DEF LockKeepsOut
=============================================================================
