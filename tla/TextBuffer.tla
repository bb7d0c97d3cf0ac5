----------------------------- MODULE TextBuffer -----------------------------
(* The drivers that keep a text of DEV_BUFFER_SIZE bytes behind read and    *)
(* write, under one mutex: 07_file_cdev_fops/01_file_ops and the mutex test *)
(* of 19_kernel_synchronization have one buffer and honour the file offset, *)
(* 07_file_cdev_fops/02_private_data and 08_ioctl have a buffer for every   *)
(* open file and ignore the offset; 08_ioctl also clears it by ioctl.       *)
(*                                                                          *)
(* Of a buffer only the places of its zero bytes are kept: strlen is the    *)
(* first of them.  The bytes go one at a time, and the copy may stop at any *)
(* of them.                                                                 *)
EXTENDS Integers, FiniteSets

CONSTANTS
  Thread,    \* user threads
  File,      \* open files, which threads may share
  Drivers,   \* the drivers looked at
  Size,      \* DEV_BUFFER_SIZE
  MaxCount,  \* bound: the longest read or write
  Beyond,    \* bound: how far behind the buffer strlen may find a zero
  Shared,    \* the buffer of the drivers that have one
  None       \* no thread

ASSUME DriversAssumption ==
  Drivers \subseteq {"file_ops", "private_data", "ioctl", "mutex_test"}
ASSUME SizeAssumption == Size \in Nat \ {0} /\ MaxCount \in Nat /\ Beyond \in Nat
ASSUME FileAssumption == File # {}
ASSUME NoneAssumption == None \notin Thread /\ Shared \notin File

VARIABLES
  driver,      \* the driver that is loaded
  opened,      \* the files that are open
  f_pos,       \* their offsets
  zeros,       \* zeros[b]: the places of b that hold a zero byte
  dev_mutex,   \* the thread that holds it, or None
  pc,          \* where each thread is
  call,        \* its call: file, op, where its offset is from, the offset,
               \* the bytes to copy, those copied
  strays,      \* history: strays[t]: t's read has returned a byte that is no text
  unended,     \* history: a read found no zero byte in the buffer
  cleared      \* history: the ioctl cleared a buffer

state == <<opened, f_pos, zeros>>
ghosts == <<strays, unended, cleared>>
vars == <<driver, state, dev_mutex, pc, call, ghosts>>

Place == 0 .. Size - 1
OneBuffer == driver \in {"file_ops", "mutex_test"}
Buffer(f) == IF OneBuffer THEN Shared ELSE f

Inside == {"measure", "copy", "unlock"}

NoCall == [file |-> CHOOSE f \in File : TRUE, op |-> "none", from |-> "f_pos",
           pos |-> 0, todo |-> 0, copied |-> 0]

Init ==
  /\ driver \in Drivers
  /\ opened = {}
  /\ f_pos = [f \in File |-> 0]
  /\ zeros = [b \in File \cup {Shared} |-> Place]
  /\ dev_mutex = None
  /\ pc = [t \in Thread |-> "idle"]
  /\ call = [t \in Thread |-> NoCall]
  /\ strays = [t \in Thread |-> FALSE]
  /\ unended = FALSE
  /\ cleared = FALSE
-----------------------------------------------------------------------------
Goto(t, l) == pc' = [pc EXCEPT ![t] = l]
Buf(t) == Buffer(call[t].file)

(* Where in the buffer a call starts: the drivers with private data ignore  *)
(* the offset.                                                              *)
Offset(t) == IF OneBuffer THEN call[t].pos ELSE 0

Return(t) ==
  /\ Goto(t, "idle")
  /\ call' = [call EXCEPT ![t] = NoCall]
  /\ strays' = [strays EXCEPT ![t] = FALSE]

(* strlen(dev_buffer): the first zero byte, which may lie behind a buffer   *)
(* that is filled to the last place.                                        *)
StrLen(b) ==
  IF zeros[b] = {} THEN Size .. Size + Beyond
  ELSE {n \in zeros[b] : \A m \in zeros[b] : n <= m}

(* bytes_to_copy of my_read; it is unsigned, and a negative result stands   *)
(* for one that copy_to_user refuses.  Mutant: the offset is left out of    *)
(* the comparison.                                                          *)
ReadLengthPlain(t, count, len) == IF count > len THEN len ELSE count
ReadLength(t, count, len) ==
  IF count + Offset(t) > len THEN len - Offset(t) ELSE count

(* bytes_to_copy of my_write; mutant: the whole buffer is taken for free.   *)
WriteLengthWhole(t, count) == IF count > Size THEN Size ELSE count
WriteLength(t, count) ==
  IF count > Size - Offset(t) THEN Size - Offset(t) ELSE count

(* Whether the way out of a full buffer unlocks; mutant: it does not. *)
RefusalKeeps == dev_mutex
RefusalUnlocks == None

(* Whether a copy may end here; mutant: it is taken up until all is copied. *)
CopiesAll(t) == call[t].copied = call[t].todo
StopsShort(t) == TRUE

(* The offset a call leaves: its own copy, advanced. *)
OffsetOfCall(t) == call[t].pos + call[t].copied

(* The offsets a user may name: those from Size on are alike, and all are   *)
(* where they are ignored.                                                  *)
Named == IF OneBuffer THEN 0 .. Size ELSE {0}

(* What the ioctl clears. *)
AllPlaces == Place
-----------------------------------------------------------------------------
(* my_open: the drivers with private data allocate a cleared buffer; when   *)
(* that fails the file is not open.                                         *)
Open(f) ==
  /\ f \notin opened
  /\ opened' = opened \cup {f}
  /\ f_pos' = [f_pos EXCEPT ![f] = 0]
  /\ zeros' = IF OneBuffer THEN zeros ELSE [zeros EXCEPT ![f] = Place]
  /\ UNCHANGED <<driver, dev_mutex, pc, call, ghosts>>

(* my_release: at the last close, when no call is in the driver. *)
Release(f) ==
  /\ f \in opened
  /\ \A t \in Thread : pc[t] # "idle" => call[t].file # f
  /\ opened' = opened \ {f}
  /\ UNCHANGED <<driver, f_pos, zeros, dev_mutex, pc, call, ghosts>>

(* read or write: the kernel hands the driver a copy of the file's offset;  *)
(* pread or pwrite: the one the user names.                                 *)
Call(t) ==
  /\ pc[t] = "idle"
  /\ \E f \in opened, o \in {"read", "write"}, w \in {"f_pos", "user"} :
     \E p \in IF w = "f_pos" THEN {f_pos[f]} ELSE Named :
       call' = [call EXCEPT ![t] = [file |-> f, op |-> o, from |-> w, pos |-> p,
                                    todo |-> 0, copied |-> 0]]
  /\ Goto(t, "lock")
  /\ UNCHANGED <<driver, state, dev_mutex, ghosts>>

(* mutex_lock_interruptible: the mutex, or -ERESTARTSYS. *)
Lock(t) ==
  /\ pc[t] = "lock"
  /\ dev_mutex = None
  /\ dev_mutex' = t
  /\ Goto(t, "measure")
  /\ UNCHANGED <<driver, state, call, ghosts>>

Interrupted(t) ==
  /\ pc[t] = "lock"
  /\ Return(t)
  /\ UNCHANGED <<driver, state, dev_mutex, unended, cleared>>

(* bytes_to_copy is computed ... *)
MeasureRead(t) ==
  /\ pc[t] = "measure"
  /\ call[t].op = "read"
  /\ \E count \in 0 .. MaxCount, len \in StrLen(Buf(t)) :
       call' = [call EXCEPT ![t].todo = ReadLength(t, count, len)]
  /\ unended' = (unended \/ zeros[Buf(t)] = {})
  /\ Goto(t, "copy")
  /\ UNCHANGED <<driver, state, dev_mutex, strays, cleared>>

MeasureWrite(t) ==
  /\ pc[t] = "measure"
  /\ call[t].op = "write"
  /\ Offset(t) < Size
  /\ \E count \in 0 .. MaxCount : call' = [call EXCEPT ![t].todo = WriteLength(t, count)]
  /\ Goto(t, "copy")
  /\ UNCHANGED <<driver, state, dev_mutex, ghosts>>

(* ... or there is no space left, -ENOSPC. *)
Refuse(t) ==
  /\ pc[t] = "measure"
  /\ call[t].op = "write"
  /\ Offset(t) >= Size
  /\ dev_mutex' = RefusalUnlocks
  /\ Return(t)
  /\ UNCHANGED <<driver, state, unended, cleared>>

At(t) == Offset(t) + call[t].copied

(* One byte of copy_to_user or copy_from_user, a zero byte or another. *)
CopyByte(t) ==
  /\ pc[t] = "copy"
  /\ call[t].copied < call[t].todo
  /\ call' = [call EXCEPT ![t].copied = @ + 1]
  /\ IF call[t].op = "read"
       THEN /\ strays' = [strays EXCEPT ![t] = @ \/ At(t) \notin Place \ zeros[Buf(t)]]
            /\ UNCHANGED zeros
       ELSE /\ \E z \in {{}, {At(t)}} :
                 zeros' = [zeros EXCEPT ![Buf(t)] = (@ \ {At(t)}) \cup z]
            /\ UNCHANGED strays
  /\ UNCHANGED <<driver, opened, f_pos, dev_mutex, pc, unended, cleared>>

(* The copy is done, or stops short at a page it cannot touch. *)
CopyEnds(t) ==
  /\ pc[t] = "copy"
  /\ StopsShort(t)
  /\ Goto(t, "unlock")
  /\ UNCHANGED <<driver, state, dev_mutex, call, ghosts>>

(* The mutex is free, and the call returns ... *)
Unlock(t) ==
  /\ pc[t] = "unlock"
  /\ dev_mutex' = None
  /\ IF call[t].from = "f_pos" /\ OneBuffer
       THEN Goto(t, "store") /\ UNCHANGED <<call, strays>>
       ELSE Return(t)
  /\ UNCHANGED <<driver, state, unended, cleared>>

(* ... but that the kernel then stores the advanced offset of a read or     *)
(* write in the file.  A character device has no lock for it: another call  *)
(* of the file may have come and gone since this one started.               *)
Store(t) ==
  /\ pc[t] = "store"
  /\ f_pos' = [f_pos EXCEPT ![call[t].file] = OffsetOfCall(t)]
  /\ Return(t)
  /\ UNCHANGED <<driver, opened, zeros, dev_mutex, unended, cleared>>

(* MYCDEV_CLEAR: a memset without the mutex. *)
Clear(t) ==
  /\ driver = "ioctl"
  /\ pc[t] = "idle"
  /\ \E f \in opened : zeros' = [zeros EXCEPT ![f] = AllPlaces]
  /\ cleared' = TRUE
  /\ UNCHANGED <<driver, opened, f_pos, dev_mutex, pc, call, strays, unended>>
-----------------------------------------------------------------------------
Runs(t) ==
  MeasureRead(t) \/ MeasureWrite(t) \/ Refuse(t) \/ CopyByte(t) \/ CopyEnds(t)
  \/ Unlock(t) \/ Store(t)

Next ==
  \/ \E f \in File : Open(f) \/ Release(f)
  \/ \E t \in Thread : Call(t) \/ Lock(t) \/ Interrupted(t) \/ Runs(t) \/ Clear(t)

Spec == Init /\ [][Next]_vars

(* A thread with the mutex runs on, and the mutex is handed to those who    *)
(* wait for it in turn.                                                     *)
Fairness == \A t \in Thread : WF_vars(Runs(t)) /\ SF_vars(Lock(t))

FairSpec == Spec /\ Fairness
-----------------------------------------------------------------------------
(* The mutex is held exactly by the call that is between its two ends: no   *)
(* two calls are, and no way out leaves it locked (my_cdev.c:85-97, 123).   *)
MutexMeansInside == \A t \in Thread : pc[t] \in Inside <=> dev_mutex = t

(* A write never touches a byte outside the buffer, whatever its length and *)
(* the offset that earlier calls left or the user names                     *)
(* (07_file_cdev_fops/01:91-100, 111).                                      *)
WritesStayInside ==
  \A t \in Thread :
    pc[t] = "copy" /\ call[t].op = "write" => At(t) + call[t].todo - call[t].copied <= Size

(* A read returns text and nothing else, as long as each text ended inside  *)
(* its buffer and no ioctl cleared one (07_file_cdev_fops/01:59, 63).       *)
ReadsAreText == \A t \in Thread : strays[t] => unended \/ cleared

(* Every call returns: the mutex is never left locked on the ways out, and  *)
(* nobody waits for it forever.                                             *)
CallsReturn == \A t \in Thread : pc[t] # "idle" ~> pc[t] = "idle"
=============================================================================
