------------------------------- MODULE Vinput -------------------------------
(* The virtual input devices of lkmpg-master/examples: vinput.c keeps the   *)
(* list of device types (modules such as vkbd.c) and the list of exported   *)
(* devices, which writes to two sysfs attributes create and remove and      *)
(* which user programs open through /dev/vinputN.                           *)
(*                                                                          *)
(* Both lists and the bitmap of minors change under vinput_lock, but a      *)
(* pointer found under the lock is used after it is released.  A step that  *)
(* uses a device or a module which is no longer there is undefined: Fault   *)
(* records who took it, and nothing is said of what comes after.            *)
EXTENDS Integers, FiniteSets

CONSTANTS
  Proc,      \* processes
  Users,     \* bound: those that also open a device, one file each
  Vdev,      \* the memory of the devices; bound: none is used twice
  Type,      \* device types, each a module like vkbd
  Minors,    \* VINPUT_MINORS
  None       \* the null pointer

ASSUME UsersAssumption == Users \subseteq Proc
ASSUME NoneAssumption == None \notin Vdev \cup Type
ASSUME MinorsAssumption == Minors \in Nat

Ids == 0 .. Minors - 1

VARIABLES
  loaded,            \* the types whose module is in memory
  vinput_devices,    \* the types on the list of that name
  vinput_ids,        \* the bits that are set
  vinput_vdevices,   \* the devices on the list of that name
  age,               \* age[v]: how many devices were allocated before v
  vdev,              \* the fields of each struct vinput
  op, pc,            \* what each process is doing, and where it is
  vinput,            \* its local pointer to a device
  next,              \* list_for_each_safe's pointer to the following one
  arg,               \* the type or the minor it was called with
  file,              \* the device its open file points to
  lost,              \* history: the minors of devices without an input device
  crossed,           \* history: a removal met another administrator's work
  fault              \* history: "none", or who used what is not there

lists == <<vinput_devices, vinput_ids, vinput_vdevices, age>>
locals == <<op, pc, vinput, next, arg>>
vars == <<loaded, lists, vdev, locals, file, lost, crossed, fault>>

Removal == {"unexport", "unload"}
Administration == {"export"} \cup Removal

Init ==
  /\ loaded = {}
  /\ vinput_devices = {}
  /\ vinput_ids = {}
  /\ vinput_vdevices = {}
  /\ age = [v \in Vdev |-> 0]
  /\ vdev = [v \in Vdev |-> [id |-> 0, type |-> None, input |-> "null", node |-> "none"]]
  /\ op = [p \in Proc |-> "none"]
  /\ pc = [p \in Proc |-> "idle"]
  /\ vinput = [p \in Proc |-> None]
  /\ next = [p \in Proc |-> None]
  /\ arg = [p \in Proc |-> None]
  /\ file = [p \in Proc |-> None]
  /\ lost = {}
  /\ crossed = FALSE
  /\ fault = "none"
-----------------------------------------------------------------------------
Goto(p, l) == pc' = [pc EXCEPT ![p] = l]
Point(p, v) == vinput' = [vinput EXCEPT ![p] = v]
SetInput(v, x) == vdev' = [vdev EXCEPT ![v].input = x]

(* kzalloc; which of the unused devices it returns makes no difference.     *)
Unused == {v \in Vdev : age[v] = 0}
Fresh == CHOOSE v \in Unused : TRUE

Busy(p) == op[p] \in Administration
Removes(p) == op[p] \in Removal

(* list_add puts a device at the head of the list: the one behind v is the  *)
(* youngest of those older than v.                                          *)
Youngest(S) == IF S = {} THEN None ELSE CHOOSE v \in S : \A w \in S : age[w] <= age[v]
Head == Youngest(vinput_vdevices)
Oldest == IF vinput_vdevices = {} THEN None
          ELSE CHOOSE v \in vinput_vdevices : \A w \in vinput_vdevices : age[v] <= age[w]
Behind(v) == Youngest({w \in vinput_vdevices : age[w] < age[v]})

WithId(i) == {v \in vinput_vdevices : vdev[v].id = i}

(* A system call begins. *)
Start(p, o, l, x) ==
  /\ op[p] = "none"
  /\ op' = [op EXCEPT ![p] = o]
  /\ Goto(p, l)
  /\ arg' = [arg EXCEPT ![p] = x]
  /\ crossed' = (crossed \/ \E q \in Proc \ {p} :
                            \/ o \in Removal /\ Busy(q)
                            \/ o \in Administration /\ Removes(q))
  /\ UNCHANGED <<loaded, lists, vdev, next, file, lost, fault>>

(* It returns. *)
Done(p) ==
  /\ op' = [op EXCEPT ![p] = "none"]
  /\ Goto(p, "idle")
  /\ vinput' = [vinput EXCEPT ![p] = None]
  /\ next' = [next EXCEPT ![p] = None]
  /\ arg' = [arg EXCEPT ![p] = None]

Continue(p, l) == Goto(p, l) /\ UNCHANGED <<op, vinput, next, arg>>

(* Where a process goes on that is done with a device: vinput_unregister    *)
(* has a list to finish, the attributes and their labels return.            *)
Finish(p) == IF op[p] = "unload" THEN Continue(p, "advance") ELSE Done(p)
-----------------------------------------------------------------------------
(* find_first_zero_bit; mutant: the bits are looked at before the lock is   *)
(* taken, as if the devices being set up did not count.                     *)
FreeIdEarly ==
  LET seen == {vdev[v].id : v \in {w \in vinput_vdevices : vdev[w].node = "added"}}
  IN {i \in Ids \ seen : \A j \in Ids \ seen : i <= j}
FreeId ==
  {i \in Ids \ vinput_ids : \A j \in Ids \ vinput_ids : i <= j}

(* The list without v and the bitmap without its minor, of                  *)
(* vinput_destroy_vdevice.                                                  *)
Forget(v) ==
  /\ vinput_vdevices' = vinput_vdevices \ {v}
  /\ vinput_ids' = vinput_ids \ {vdev[v].id}

(* What vinput_alloc_vdevice takes off the list when it gets no input       *)
(* device; mutant: the device at the head, which was its own a moment ago.  *)
DelistedHead(p) == Head
Delisted(p) == vinput[p]

(* Where export_store goes when the type's init fails. *)
InitFailed(p) == Continue(p, "undo")

(* The list vinput_unregister leaves. *)
TypesWithout(t) == vinput_devices \ {t}

(* The devices vinput_unregister removes; mutant: it only takes the type    *)
(* off its list.                                                            *)
OfNoType(p) == FALSE
OfItsType(p) == vdev[vinput[p]].type = arg[p]

(* What the loop of vinput_unregister goes on with: the device it noted     *)
(* before it removed the current one; mutants: list_for_each without _safe, *)
(* and the loop starts over on the same device.                             *)
NoteSame(v) == v
NoteNext(v) == IF v = None THEN None ELSE Behind(v)
-----------------------------------------------------------------------------
(* insmod vkbd: vinput_register is one critical section. *)
Load(p, t) ==
  /\ op[p] = "none"
  /\ t \notin loaded
  /\ loaded' = loaded \cup {t}
  /\ vinput_devices' = vinput_devices \cup {t}
  /\ UNCHANGED <<vinput_ids, vinput_vdevices, age, vdev, locals, file, lost, crossed, fault>>

(* A write to /sys/class/vinput/export, of a type's name, or to unexport,   *)
(* of a minor; rmmod of a type's module; open of /dev/vinputN.              *)
Call(p) ==
  \/ \E t \in Type : Start(p, "export", "find", t)
  \/ \E i \in Ids : Start(p, "unexport", "look", i)
  \/ \E t \in loaded : /\ \A q \in Proc : ~(op[q] = "unload" /\ arg[q] = t)
                       /\ Start(p, "unload", "delist", t)
  \/ \E v \in vinput_vdevices : /\ p \in Users /\ file[p] = None
                                /\ vdev[v].node = "added"
                                /\ Start(p, "open", "look", vdev[v].id)

(* vinput_write and vinput_read call the type's function with the device of *)
(* the file.                                                                *)
FileCall(p) ==
  /\ file[p] # None
  /\ Start(p, "send", "store", None) \/ Start(p, "read", "show", None)
  /\ Point(p, file[p])

CallWith(p) == FileCall(p) \/ (Call(p) /\ UNCHANGED vinput)

Close(p) ==
  /\ op[p] = "none"
  /\ file[p] # None
  /\ file' = [file EXCEPT ![p] = None]
  /\ UNCHANGED <<loaded, lists, vdev, locals, lost, crossed, fault>>
-----------------------------------------------------------------------------
(* export_store: the type must be on the list ... *)
FindType(p) ==
  /\ pc[p] = "find"
  /\ IF arg[p] \in vinput_devices THEN Continue(p, "alloc") ELSE Done(p)
  /\ UNCHANGED <<loaded, lists, vdev, file, lost, crossed, fault>>

(* ... vinput_alloc_vdevice takes the first free minor and lists the device *)
(* before it is complete, or there is no memory or no minor ...             *)
Alloc(p) ==
  /\ pc[p] = "alloc"
  /\ \/ \E i \in FreeId : LET v == Fresh IN
          /\ Unused # {}
          /\ vinput_ids' = vinput_ids \cup {i}
          /\ vinput_vdevices' = vinput_vdevices \cup {v}
          /\ age' = [age EXCEPT ![v] = 1 + Cardinality(Vdev \ Unused)]
          /\ vdev' = [vdev EXCEPT ![v].id = i]
          /\ Goto(p, "input")
          /\ Point(p, v)
          /\ UNCHANGED <<vinput_devices, op, next, arg>>
     \/ Done(p) /\ UNCHANGED <<lists, vdev>>
  /\ UNCHANGED <<loaded, file, lost, crossed, fault>>

(* ... input_allocate_device; when it fails, the label takes the device off *)
(* the list and frees it, and leaves its bit set ...                        *)
AllocInput(p) ==
  /\ pc[p] = "input"
  /\ \/ /\ SetInput(vinput[p], "allocated")
        /\ Continue(p, "register")
        /\ UNCHANGED <<lists, lost>>
     \/ /\ vinput_vdevices' = vinput_vdevices \ {Delisted(p)}
        /\ lost' = lost \cup {vdev[vinput[p]].id}
        /\ Done(p)
        /\ UNCHANGED <<vinput_devices, vinput_ids, age, vdev>>
  /\ UNCHANGED <<loaded, file, crossed, fault>>

(* ... the type is filled in and the device registered; when that fails,    *)
(* the input device and the device are freed ...                            *)
RegisterDevice(p) ==
  /\ pc[p] = "register"
  /\ \/ /\ vdev' = [vdev EXCEPT ![vinput[p]].type = arg[p], ![vinput[p]].node = "added"]
        /\ Continue(p, "init")
        /\ UNCHANGED lists
     \/ /\ vdev' = [vdev EXCEPT ![vinput[p]].type = arg[p], ![vinput[p]].input = "gone"]
        /\ Forget(vinput[p])
        /\ Done(p)
        /\ UNCHANGED <<vinput_devices, age>>
  /\ UNCHANGED <<loaded, file, lost, crossed, fault>>

(* ... the type's init, vinput_vkbd_init, registers the input device, or    *)
(* fails ...                                                                *)
RegisterInput(v) == SetInput(v, "registered")

InitDevice(p) ==
  /\ pc[p] = "init"
  /\ \/ RegisterInput(vinput[p]) /\ Continue(p, "announce")
     \/ InitFailed(p) /\ UNCHANGED vdev
  /\ UNCHANGED <<loaded, lists, file, lost, crossed, fault>>

(* ... and the log names the device and its type, both looked at once more. *)
Announce(p) ==
  /\ pc[p] = "announce"
  /\ Done(p)
  /\ UNCHANGED <<loaded, lists, vdev, file, lost, crossed, fault>>

(* fail_register_vinput: the input device is freed, the device unregistered.*)
FreeInput(p) ==
  /\ pc[p] = "undo"
  /\ SetInput(vinput[p], "gone")
  /\ Continue(p, "del")
  /\ UNCHANGED <<loaded, lists, file, lost, crossed, fault>>
-----------------------------------------------------------------------------
(* vinput_get_vdevice_by_id: the walk under the lock ends on the device or  *)
(* on the last of the list ...                                              *)
Look(p) ==
  /\ pc[p] = "look"
  /\ Goto(p, "recheck")
  /\ vinput' = [vinput EXCEPT ![p] = IF WithId(arg[p]) = {} THEN Oldest
                                     ELSE Youngest(WithId(arg[p]))]
  /\ UNCHANGED <<loaded, lists, vdev, op, next, arg, file, lost, crossed, fault>>

(* ... and the id is read once more without it.  open keeps the pointer,    *)
(* unexport_store goes on to remove the device.                             *)
Recheck(p) ==
  /\ pc[p] = "recheck"
  /\ IF vinput[p] # None /\ vdev[vinput[p]].id = arg[p]
       THEN IF op[p] = "open"
              THEN file' = [file EXCEPT ![p] = vinput[p]] /\ Done(p)
              ELSE Continue(p, "unreg") /\ UNCHANGED file
       ELSE Done(p) /\ UNCHANGED file
  /\ UNCHANGED <<loaded, lists, vdev, lost, crossed, fault>>

(* vinput_unregister_vdevice. *)
UnregisterInput(p) ==
  /\ pc[p] = "unreg"
  /\ SetInput(vinput[p], "gone")
  /\ Continue(p, "del")
  /\ UNCHANGED <<loaded, lists, file, lost, crossed, fault>>

(* device_unregister takes the node away, and with the last reference calls *)
(* vinput_release_dev, which frees the device.                              *)
DeleteNode(p) ==
  /\ pc[p] = "del"
  /\ vdev' = [vdev EXCEPT ![vinput[p]].node = "gone"]
  /\ Continue(p, "release")
  /\ UNCHANGED <<loaded, lists, file, lost, crossed, fault>>

Release(p) ==
  /\ pc[p] = "release"
  /\ Forget(vinput[p])
  /\ Finish(p)
  /\ UNCHANGED <<loaded, vinput_devices, age, vdev, file, lost, crossed, fault>>
-----------------------------------------------------------------------------
(* rmmod vkbd: vinput_unregister takes the type off its list, then walks    *)
(* the devices without the lock.                                            *)
Delist(p) ==
  /\ pc[p] = "delist"
  /\ vinput_devices' = TypesWithout(arg[p])
  /\ Continue(p, "first")
  /\ UNCHANGED <<loaded, vinput_ids, vinput_vdevices, age, vdev, file, lost, crossed, fault>>

(* The head of list_for_each_safe: the current device and the one after it. *)
Walk(p, v) ==
  /\ Goto(p, "loop")
  /\ Point(p, v)
  /\ next' = [next EXCEPT ![p] = NoteNext(v)]
  /\ UNCHANGED <<loaded, lists, vdev, op, arg, file, lost, crossed, fault>>

First(p) == pc[p] = "first" /\ Walk(p, Head)
Advance(p) == pc[p] = "advance" /\ Walk(p, next[p])

(* The body of the loop; after the last device the module is gone.          *)
LoopBody(p) ==
  /\ pc[p] = "loop"
  /\ IF vinput[p] = None
       THEN Done(p) /\ loaded' = loaded \ {arg[p]}
       ELSE /\ Continue(p, IF OfItsType(p) THEN "unreg" ELSE "advance")
            /\ UNCHANGED loaded
  /\ UNCHANGED <<lists, vdev, file, lost, crossed, fault>>
-----------------------------------------------------------------------------
(* vinput_vkbd_send stores the key under the device's lock, then reports it *)
(* to the input device; vinput_vkbd_read formats the stored key.  Refused   *)
(* arguments and failing copies return earlier and change nothing.          *)
Store(p) ==
  /\ pc[p] = "store"
  /\ Continue(p, "report")
  /\ UNCHANGED <<loaded, lists, vdev, file, lost, crossed, fault>>

Report(p) ==
  /\ pc[p] = "report"
  /\ Done(p)
  /\ UNCHANGED <<loaded, lists, vdev, file, lost, crossed, fault>>

Show(p) ==
  /\ pc[p] = "show"
  /\ Done(p)
  /\ UNCHANGED <<loaded, lists, vdev, file, lost, crossed, fault>>
-----------------------------------------------------------------------------
(* Whether what the next step of p dereferences is there. *)
Live(p) == vinput[p] \in vinput_vdevices
Served(p) == Live(p) /\ vdev[vinput[p]].type \in loaded

Sound(p) ==
  CASE pc[p] \in {"input", "register"} -> Live(p)
    [] pc[p] = "init" -> Served(p) /\ vdev[vinput[p]].input = "allocated"
    [] pc[p] = "undo" -> Live(p) /\ vdev[vinput[p]].input = "allocated"
    [] pc[p] = "unreg" -> Served(p) /\ vdev[vinput[p]].input = "registered"
    [] pc[p] = "del" -> Live(p) /\ vdev[vinput[p]].node = "added"
    [] pc[p] = "release" -> Live(p)
    [] pc[p] \in {"recheck", "loop"} -> vinput[p] = None \/ Live(p)
    [] pc[p] = "advance" -> next[p] = None \/ next[p] \in vinput_vdevices
    [] pc[p] \in {"announce", "store", "show"} -> Served(p)
    [] pc[p] = "report" -> Live(p) /\ vdev[vinput[p]].input # "gone"
    [] OTHER -> TRUE

Crash(p) ==
  /\ ~Sound(p)
  /\ fault' = IF Busy(p) THEN "administrator" ELSE "file"
  /\ UNCHANGED <<loaded, lists, vdev, locals, file, lost, crossed>>

Export(p) ==
  \/ FindType(p) \/ Alloc(p) \/ AllocInput(p) \/ RegisterDevice(p)
  \/ InitDevice(p) \/ Announce(p) \/ FreeInput(p)
Remove(p) ==
  \/ Look(p) \/ Recheck(p) \/ UnregisterInput(p) \/ DeleteNode(p) \/ Release(p)
  \/ Delist(p) \/ First(p) \/ LoopBody(p) \/ Advance(p)

Step(p) == Sound(p) /\ (Export(p) \/ Remove(p) \/ Store(p) \/ Report(p) \/ Show(p))

Next ==
  /\ fault = "none"
  /\ \E p \in Proc :
       \/ CallWith(p) \/ Close(p) \/ \E t \in Type : Load(p, t)
       \/ Step(p) \/ Crash(p)

Spec == Init /\ [][Next]_vars

(* A process in the driver runs on. *)
Fairness == \A p \in Proc : WF_vars(fault = "none" /\ (Step(p) \/ Crash(p)))

FairSpec == Spec /\ Fairness
-----------------------------------------------------------------------------
(* No two devices share a minor, and a bit is set for the minor of a listed *)
(* device or for one lost to a failed input_allocate_device, and for no     *)
(* other, however exports and removals interleave (vinput.c:155, 184-190).  *)
IdsAreAccounted ==
  /\ \A v, w \in vinput_vdevices : vdev[v].id = vdev[w].id => v = w
  /\ \A v \in vinput_vdevices : vdev[v].id \notin lost
  /\ vinput_ids = {vdev[v].id : v \in vinput_vdevices} \cup lost

(* Exports may overlap in any way, though each lists its device before it   *)
(* is complete and holds no lock while it builds it, and files may be       *)
(* opened and used meanwhile: an administrator uses a device or a module    *)
(* that is gone only after an unexport or an rmmod met another              *)
(* administrator at work (vinput.c:190, 211, 235, 317, 369).                *)
ExportsOverlapSafely == fault = "administrator" => crossed

(* ... and after rmmod of a type no device of it is left (vinput.c:369).    *)
UnloadedTypeIsGone ==
  fault = "none" /\ ~crossed =>
    \A v \in vinput_vdevices :
      vdev[v].type \in loaded \/ \E p \in Proc : Busy(p) /\ vinput[p] = v

(* The walk of vinput_unregister only ever goes on to an older device: those *)
(* that others add meanwhile, at the head, and the one it noted and others  *)
(* removed cannot send it back (vinput.c:184, 370).                         *)
WalkDescends ==
  [][\A p \in Proc : pc[p] = "advance" /\ pc'[p] # "advance" =>
       vinput'[p] = None \/ (vinput[p] # None /\ age[vinput'[p]] < age[vinput[p]])]_vars

(* The walk of vinput_unregister comes to its end while devices are added   *)
(* and removed around it, unless it meets a freed one (vinput.c:369).       *)
UnloadEnds ==
  \A p \in Proc : op[p] = "unload" ~> op[p] = "none" \/ fault # "none"
=============================================================================
