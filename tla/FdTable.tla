------------------------------ MODULE FdTable --------------------------------
(***************************************************************************)
(* The files of the HAL (HAL/src/alt_open.c, alt_close.c, alt_ioctl.c,     *)
(* ... of iic_test_bsp): a pool of descriptors that refer to devices and   *)
(* file systems, with a lock for exclusive use of a device.                *)
(*                                                                         *)
(* One program, no operating system: a call is one step.  It names         *)
(* descriptors it holds, or the negative one of an open that failed, which *)
(* the code looks for; of one that was closed the code takes the device    *)
(* without a look.                                                         *)
(***************************************************************************)
EXTENDS Integers, FiniteSetsExt, SequencesExt

CONSTANTS
  ALT_MAX_FD,   \* descriptors in the pool (32)
  Devices,      \* the devices of alt_sys_init
  FileSystems,  \* and its file systems
  Callbacks,    \* [Devices \cup FileSystems -> the functions each one has]
  Null,         \* alt_dev_null
  None,         \* no device
  Stdio         \* name for ALT_STDIN, ALT_STDOUT, ALT_STDERR

Access == {"O_RDONLY", "O_WRONLY", "O_RDWR"}
Fd == 0..(ALT_MAX_FD - 1)
Std == 0..2

ASSUME FdAssumption ==
  /\ ALT_MAX_FD \in Nat /\ ALT_MAX_FD > 3
  /\ None \notin Devices \cup FileSystems \cup {Null}
  /\ Devices \cap FileSystems = {} /\ Null \notin Devices \cup FileSystems

VARIABLES
  alt_dev_list, alt_fs_list,  \* the lists of devices and file systems
  alt_fd_list,                \* the pool: device and flags of each descriptor
  alt_max_fd,                 \* the highest descriptor ever allocated
  boot,                       \* what alt_main has still to do before main
  ret,                        \* what the last call gave: 0 or an error, or
                              \* what the driver says
  held                        \* history: the descriptors the program has,
                              \* with the access and device it asked for, and
                              \* the lock it was granted

vars == <<alt_dev_list, alt_fs_list, alt_fd_list, alt_max_fd, boot, ret, held>>

Entry(d, acc, opts) == [dev |-> d, access |-> acc, options |-> opts]
Unused == Entry(None, "O_RDONLY", {})
Holding(acc, d) == [access |-> acc, dev |-> d, lock |-> FALSE]

(* The null device discards what is written to it and has no more.         *)
Has(d, op) == op \in (IF d = Null THEN {"write"} ELSE Callbacks[d])

-----------------------------------------------------------------------------
(* Lookups and the pool.                                                   *)

(* alt_find_dev, then alt_find_file.  Names are those of the devices and   *)
(* of the file systems: a path is that of the file system it belongs to.   *)
Find(name) ==
  IF name \in ToSet(alt_dev_list) \cup ToSet(alt_fs_list) THEN name ELSE None

Free == {fd \in Fd : alt_fd_list[fd].dev = None}

Excl(list, fd) == "ALT_FD_EXCL" \in list[fd].options

(* Faulty form: the descriptor allocated last is not looked at.            *)
LockedBelow(list, fd, max) ==
  \E i \in 0..(max - 1) : i # fd /\ list[i].dev = list[fd].dev /\ Excl(list, i)

(* alt_file_locked: another descriptor has the device for itself.          *)
Locked(list, fd, max) ==
  \E i \in 0..max : i # fd /\ list[i].dev = list[fd].dev /\ Excl(list, i)

(* Faulty form: a failed open does not give its descriptor back.           *)
Keep(list, fd) == list

(* alt_release_fd.                                                         *)
Release(list, fd) == IF fd > 2 THEN [list EXCEPT ![fd] = Unused] ELSE list

(* open, as the set of what it can do.  alt_get_fd takes the first free    *)
(* descriptor for the device found; alt_file_locked, or the open function  *)
(* of the driver, may still refuse it.                                     *)
Outcome(list, max, fd, rc) == [list |-> list, max |-> max, fd |-> fd, rc |-> rc]

Opened(d, acc, opts) ==
  LET fd   == Min(Free)
      max  == Max({alt_max_fd, fd})
      list == [alt_fd_list EXCEPT ![fd] =
                 Entry(d, acc, opts \cup (IF d \in FileSystems THEN {} ELSE {"ALT_FD_DEV"}))]
      Fails(rc) == Outcome(Release(list, fd), max, -1, rc)
  IN  IF d \notin FileSystems /\ Locked(list, fd, max)
      THEN {Fails("EACCES")}
      ELSE {Outcome(list, max, fd, "0")} \cup (IF Has(d, "open") THEN {Fails("EIO")} ELSE {})

ALT_OPEN(name, acc, opts) ==
  CASE Find(name) = None -> {Outcome(alt_fd_list, alt_max_fd, -1, "ENODEV")}
    [] Find(name) # None /\ Free = {} -> {Outcome(alt_fd_list, alt_max_fd, -1, "EMFILE")}
    [] OTHER -> Opened(Find(name), acc, opts)

-----------------------------------------------------------------------------
Init ==
  /\ alt_dev_list = <<Null>> /\ alt_fs_list = <<>>
  /\ alt_fd_list = [fd \in Fd |-> IF fd \in Std THEN Entry(Null, "O_RDONLY", {}) ELSE Unused]
  /\ alt_max_fd = -1
  /\ boot = <<"alt_sys_init", "stdout", "stdin", "stderr">>
  /\ ret = "0"
  /\ held = [fd \in Std |-> Holding("O_RDONLY", Null)]

Boot(step) == boot # <<>> /\ Head(boot) = step /\ boot' = Tail(boot)

(* The drivers register themselves: alt_dev_reg, alt_fs_reg.  A list has   *)
(* the newest first.                                                       *)
SysInit ==
  /\ Boot("alt_sys_init")
  /\ alt_dev_list' = SetToSeq(Devices) \o alt_dev_list
  /\ alt_fs_list' = SetToSeq(FileSystems) \o alt_fs_list
  /\ UNCHANGED <<alt_fd_list, alt_max_fd, ret, held>>

(* alt_io_redirect: the device is opened, its descriptor copied to that of *)
(* the stream and released.                                                *)
Redirect(stream, fd, acc) ==
  /\ Boot(stream)
  /\ \E o \in ALT_OPEN(Stdio, acc, {}) :
       /\ alt_max_fd' = o.max
       /\ IF o.fd < 0
          THEN alt_fd_list' = o.list /\ UNCHANGED held
          ELSE /\ alt_fd_list' = Release([o.list EXCEPT ![fd] = o.list[o.fd]], o.fd)
               /\ held' = [held EXCEPT ![fd] = Holding(acc, Find(Stdio))]
  /\ UNCHANGED <<alt_dev_list, alt_fs_list, ret>>

Startup ==
  \/ SysInit
  \/ Redirect("stdout", 1, "O_WRONLY")
  \/ Redirect("stdin", 0, "O_RDONLY")
  \/ Redirect("stderr", 2, "O_WRONLY")

-----------------------------------------------------------------------------
(* The calls of the program.                                               *)

Return(rc) ==
  /\ boot = <<>> /\ UNCHANGED <<boot, alt_dev_list, alt_fs_list>>
  /\ ret' = rc

Open(name, acc, opts) ==
  \E o \in ALT_OPEN(name, acc, opts) :
    /\ Return(o.rc)
    /\ alt_fd_list' = o.list /\ alt_max_fd' = o.max
    /\ held' = IF o.fd < 0 THEN held
               ELSE [fd \in DOMAIN held \cup {o.fd} |->
                       IF fd = o.fd THEN Holding(acc, Find(name)) ELSE held[fd]]

(* The close function of the driver may report an error; the descriptor is *)
(* released all the same.  The UART's waits until tx_buf is drained, or    *)
(* fails with EWOULDBLOCK.                                                 *)
Close(fd) ==
  /\ \E rc \in {"0"} \cup (IF Has(alt_fd_list[fd].dev, "close") THEN {"driver"} ELSE {}) :
       Return(rc)
  /\ alt_fd_list' = Release(alt_fd_list, fd)
  /\ held' = [f \in (DOMAIN held \ {fd}) \cup Std |-> held[f]]
  /\ UNCHANGED alt_max_fd

Unaffected == UNCHANGED <<alt_fd_list, alt_max_fd, held>>

(* A call that only asks the driver, or says that it cannot.               *)
AskDriver(op, fd, allowed, otherwise) ==
  /\ Return(IF allowed /\ Has(alt_fd_list[fd].dev, op) THEN "driver" ELSE otherwise)
  /\ Unaffected

Read(fd)  == AskDriver("read", fd, alt_fd_list[fd].access # "O_WRONLY", "EACCES")
Write(fd) == AskDriver("write", fd, alt_fd_list[fd].access # "O_RDONLY", "EACCES")
Lseek(fd) == AskDriver("lseek", fd, TRUE, "ENOTSUP")
Fstat(fd) == AskDriver("fstat", fd, TRUE, "_IFCHR")

SetOptions(fd, opts) == alt_fd_list' = [alt_fd_list EXCEPT ![fd].options = opts]

(* alt_fd_lock.  The loop ends before alt_max_fd.                          *)
Shared(fd) ==
  \E i \in 0..(alt_max_fd - 1) : i # fd /\ alt_fd_list[i].dev = alt_fd_list[fd].dev

(* ioctl: the lock is the HAL's for a device, all else the driver's.       *)
Ioctl(fd, req) ==
  LET opts == alt_fd_list[fd].options
  IN  IF "ALT_FD_DEV" \in opts /\ req # "other"
      THEN /\ Return(IF req = "TIOCEXCL" /\ Shared(fd) THEN "EACCES" ELSE "0")
           /\ SetOptions(fd, IF req = "TIOCNXCL" THEN opts \ {"ALT_FD_EXCL"}
                             ELSE IF Shared(fd) THEN opts ELSE opts \cup {"ALT_FD_EXCL"})
           /\ held' = [held EXCEPT ![fd].lock = req = "TIOCEXCL" /\ (@ \/ ~Shared(fd))]
           /\ UNCHANGED alt_max_fd
      ELSE AskDriver("ioctl", fd, TRUE, "ENOTTY")

(* fcntl with F_SETFL: the flags of ALT_FCNTL_FLAGS_MASK.                  *)
SetFlags(fd, opts) ==
  /\ Return("0")
  /\ SetOptions(fd, (alt_fd_list[fd].options \ {"O_NONBLOCK"}) \cup opts)
  /\ UNCHANGED <<alt_max_fd, held>>

(* Any call with the negative descriptor of an open that failed.           *)
BadFd == Return("EBADFD") /\ Unaffected

Opts == SUBSET {"O_NONBLOCK"}

Calls ==
  \/ \E name \in Devices \cup FileSystems \cup {Null}, acc \in Access, opts \in Opts :
       Open(name, acc, opts)
  \/ \E fd \in DOMAIN held :
       \/ Close(fd) \/ Read(fd) \/ Write(fd) \/ Lseek(fd) \/ Fstat(fd)
       \/ \E req \in {"TIOCEXCL", "TIOCNXCL", "other"} : Ioctl(fd, req)
       \/ \E opts \in Opts : SetFlags(fd, opts)
  \/ BadFd

Next == Startup \/ Calls
Spec == Init /\ [][Next]_vars

-----------------------------------------------------------------------------
(* No descriptor is lost or given twice: those in use are the standard     *)
(* ones and those open has returned and the program has not closed, and    *)
(* each still refers to the device the program opened, with the access it  *)
(* asked for and the lock it was granted.  An open that fails half way (a  *)
(* locked device, a driver that refuses) leaves nothing behind.            *)
HeldAsOpened ==
  /\ {fd \in Fd : alt_fd_list[fd].dev # None} = DOMAIN held
  /\ \A fd \in DOMAIN held : /\ alt_fd_list[fd].dev = held[fd].dev
                             /\ alt_fd_list[fd].access = held[fd].access
                             /\ Excl(alt_fd_list, fd) = held[fd].lock

(* A device locked by TIOCEXCL is opened by nobody until its owner unlocks *)
(* or closes it: alt_file_locked finds the lock, although it looks no      *)
(* further than alt_max_fd.                                                *)
LockKeepsOut ==
  [][\A owner, fd \in Fd :
       owner \in DOMAIN held /\ held[owner].lock /\ fd \in DOMAIN held' \ DOMAIN held
         => held'[fd].dev # held[owner].dev]_vars

(* "If there are no other open file descriptors which reference the same   *)
(* device, then alt_fd_lock() will grant the lock" (alt_fd_lock.c:43): a   *)
(* device that is locked has one descriptor.                               *)
LockIsExclusive ==
  [][\A fd, other \in Fd :
       Excl(alt_fd_list', fd) /\ ~Excl(alt_fd_list, fd) /\ other # fd
         => alt_fd_list[other].dev # alt_fd_list[fd].dev]_vars
=============================================================================
