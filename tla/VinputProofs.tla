---------------------------- MODULE VinputProofs ----------------------------
(* Proofs about Vinput, for any number of processes, devices, types and     *)
(* minors.  Inv holds however the administrators interleave; AloneInv adds  *)
(* what holds while each removal has the lists to itself, though exports    *)
(* overlap one another.                                                     *)
EXTENDS Vinput, FiniteSetTheorems, WellFoundedInduction, TLAPS

(* Where a process can be in each call. *)
Places(o) ==
  CASE o = "none" -> {"idle"}
    [] o = "export" -> {"find", "alloc", "input", "register", "init", "announce", "undo",
                          "del", "release"}
    [] o = "unexport" -> {"look", "recheck", "unreg", "del", "release"}
    [] o = "unload" -> {"delist", "first", "loop", "advance", "unreg", "del", "release"}
    [] o = "open" -> {"look", "recheck"}
    [] o = "send" -> {"store", "report"}
    [] o = "read" -> {"show"}
Ops == {"none", "export", "unexport", "unload", "open", "send", "read"}

Used == Vdev \ Unused
Device == [id : Int, type : Type \cup {None},
           input : {"null", "allocated", "registered", "gone"},
           node : {"none", "added", "gone"}]

Devices ==
  /\ vinput_vdevices \subseteq Used
  /\ age \in [Vdev -> Nat]
  /\ vdev \in [Vdev -> Device]

Calls ==
  /\ op \in [Proc -> Ops]
  /\ \A p \in Proc : pc[p] \in Places(op[p])
  /\ DOMAIN pc = Proc
  /\ DOMAIN vinput = Proc
  /\ DOMAIN next = Proc
  /\ DOMAIN arg = Proc
  /\ \A p \in Proc : op[p] = "export" => arg[p] \in Type
  /\ crossed \in BOOLEAN

(* Devices are numbered in the order of their allocation, without gaps.     *)
Ages ==
  /\ IsFiniteSet(Used)
  /\ \A v \in Used : age[v] <= Cardinality(Used)
  /\ \A v, w \in Used : age[v] = age[w] => v = w
  /\ \A v \in Unused : vdev[v].input = "null"

(* The devices exporters are building, and those that are being taken away, *)
(* are told apart by their input devices.                                   *)
Building == {"input", "register", "init", "undo"}
TakingAway == {"del", "release"}
Builders ==
  /\ \A p \in Proc : pc[p] \in Building =>
       /\ Live(p)
       /\ vdev[vinput[p]].input = IF pc[p] = "input" THEN "null" ELSE "allocated"
  /\ \A p, q \in Proc :
       pc[p] \in Building /\ pc[q] \in Building /\ vinput[p] = vinput[q] => p = q
  /\ \A p \in Proc : pc[p] \in TakingAway =>
       vinput[p] \in Used /\ vdev[vinput[p]].input = "gone"

Inv == Devices /\ Calls /\ Ages /\ Builders /\ IdsAreAccounted

(* While each removal is alone: a device is complete, or somebody is at it. *)
Complete(v) ==
  vdev[v].type \in loaded /\ vdev[v].input = "registered" /\ vdev[v].node = "added"
AtWork(p) == pc[p] \in Building \cup TakingAway
Built ==
  \A v \in vinput_vdevices : Complete(v) \/ \E p \in Proc : AtWork(p) /\ vinput[p] = v

Exporting(p) ==
  /\ pc[p] \in {"alloc", "input", "register", "init"} => arg[p] \in loaded
  /\ pc[p] = "init" => vdev[vinput[p]].type \in loaded
  /\ pc[p] \in {"init", "undo"} => vdev[vinput[p]].node = "added"
  /\ pc[p] = "announce" => Live(p) /\ Complete(vinput[p])

Removing(p) ==
  /\ pc[p] = "recheck" => vinput[p] = None \/ Live(p)
  /\ pc[p] \in {"unreg", "del", "release"} => Live(p)
  /\ pc[p] = "del" => vdev[vinput[p]].node = "added"

(* The walk of vinput_unregister has its type's devices ahead of it: none   *)
(* is younger than the device it is at, nor, when it goes on, than the next.*)
OfType(t) == {v \in vinput_vdevices : vdev[v].type = t}
Ahead(S, v) == S # {} => v # None /\ \A w \in S : age[w] <= age[v]
Listed(v) == v = None \/ v \in vinput_vdevices
Walking(p) ==
  /\ arg[p] \in loaded
  /\ pc[p] # "delist" => arg[p] \notin vinput_devices
  /\ pc[p] \in {"loop", "unreg", "del", "release"} =>
       /\ Listed(vinput[p])
       /\ Listed(next[p])
       /\ next[p] # None => vinput[p] # None /\ next[p] # vinput[p]
       /\ Ahead(OfType(arg[p]), vinput[p])
       /\ vinput[p] # None =>
            Ahead({w \in vinput_vdevices : age[w] < age[vinput[p]]}, next[p])
  /\ pc[p] = "advance" => Listed(next[p]) /\ Ahead(OfType(arg[p]), next[p])

OnCourse(p) == Exporting(p) /\ Removing(p) /\ (op[p] = "unload" => Walking(p))

(* Who removes is the only administrator; nobody is at another's device.    *)
Apart(p, q) == AtWork(p) /\ AtWork(q) /\ vinput[p] = vinput[q] => p = q
Alone ==
  /\ \A p, q \in Proc : Removes(p) /\ Busy(q) => p = q
  /\ \A p, q \in Proc : Busy(p) /\ Busy(q) => Apart(p, q)
  /\ vinput_devices \subseteq loaded
  /\ Built
  /\ \A p \in Proc : Busy(p) => OnCourse(p)

AloneInv == (~crossed => Alone) /\ ExportsOverlapSafely
-----------------------------------------------------------------------------
(* A set of numbers has a least one. *)
LEMMA LeastNumber ==
  ASSUME NEW S \in SUBSET Nat, S # {}
  PROVE  \E n \in S : \A m \in S : n <= m
<1> DEFINE R == {ss \in Nat \X Nat : ss[1] < ss[2]}
<1>1. \E n \in S : \A m \in S : ~(<<m, n>> \in R)
  <2>1. R = OpToRel(<, Nat)
    BY DEF OpToRel
  <2> HIDE DEF R
  <2>2. IsWellFoundedOn(R, Nat)
    BY <2>1, NatLessThanWellFounded
  <2> QED BY <2>2, WFMin
<1>2. \A m, n \in Nat : <<m, n>> \in R <=> m < n
  OBVIOUS
<1> HIDE DEF R
<1>3. PICK n \in S : \A m \in S : ~(<<m, n>> \in R)
  BY <1>1
<1>4. \A m \in S : ~(m < n)
  BY <1>2, <1>3
<1> QED BY <1>4

(* The list's devices are ordered by their age. *)
LEMMA YoungestIsLast ==
  ASSUME Devices, Ages, NEW S, S \subseteq vinput_vdevices, S # {}
  PROVE  /\ Youngest(S) \in S
         /\ \A w \in S : age[w] <= age[Youngest(S)]
<1> DEFINE N == Cardinality(Used)
           B == {N - age[w] : w \in S}
<1>1. N \in Nat /\ \A w \in S : age[w] \in Nat /\ age[w] <= N
  BY FS_CardinalityType DEF Devices, Ages, Used
<1>2. PICK n \in B : \A m \in B : n <= m
  <2>1. B \in SUBSET Nat /\ B # {}
    BY <1>1
  <2> HIDE DEF B
  <2> QED BY <2>1, LeastNumber
<1>3. PICK v \in S : n = N - age[v]
  BY <1>2
<1>4. ASSUME NEW w \in S PROVE age[w] <= age[v]
  <2>1. n <= N - age[w]
    BY <1>2
  <2> QED BY <1>1, <1>3, <2>1
<1> QED BY <1>3, <1>4 DEF Youngest

LEMMA YoungestIsListed ==
  ASSUME Devices, Ages, NEW S, S \subseteq vinput_vdevices
  PROVE  Listed(Youngest(S)) /\ Ahead(S, Youngest(S))
<1>1. CASE S = {}
  BY <1>1 DEF Listed, Ahead, Youngest
<1>2. CASE S # {}
  <2>1. Youngest(S) \in S /\ \A w \in S : age[w] <= age[Youngest(S)]
    BY <1>2, YoungestIsLast
  <2>2. Youngest(S) \in Vdev
    BY <2>1 DEF Devices, Used
  <2> QED BY <2>1, <2>2, NoneAssumption DEF Listed, Ahead
<1> QED BY <1>1, <1>2

LEMMA OldestIsListed ==
  ASSUME Devices
  PROVE  Listed(Oldest)
<1> SUFFICES ASSUME vinput_vdevices # {} PROVE Oldest \in vinput_vdevices
  BY DEF Oldest, Listed
<1> DEFINE B == {age[w] : w \in vinput_vdevices}
<1>1. \A w \in vinput_vdevices : age[w] \in Nat
  BY DEF Devices, Used
<1>2. PICK n \in B : \A m \in B : n <= m
  <2>1. B \in SUBSET Nat /\ B # {}
    BY <1>1
  <2> HIDE DEF B
  <2> QED BY <2>1, LeastNumber
<1> QED BY <1>2 DEF Oldest

LEMMA FreshIsUnused ==
  ASSUME Unused # {}
  PROVE  Fresh \in Unused
BY DEF Fresh

LEMMA InvInit == Init => Inv
<1> SUFFICES ASSUME Init PROVE Inv
  OBVIOUS
<1>1. Used = {}
  BY DEF Init, Used, Unused
<1>2. Devices /\ Calls
  <2>1. vdev \in [Vdev -> Device]
    BY DEF Init, Device
  <2>2. \A p \in Proc : pc[p] \in Places(op[p])
    BY DEF Init, Places
  <2> QED BY <2>1, <2>2 DEF Init, Devices, Calls, Ops
<1>3. Ages
  <2>1. IsFiniteSet(Used)
    BY <1>1, FS_EmptySet
  <2>2. \A v \in Unused : vdev[v].input = "null"
    BY DEF Init, Unused
  <2> QED BY <1>1, <2>1, <2>2 DEF Ages
<1>4. Builders /\ IdsAreAccounted
  BY DEF Init, Builders, Building, TakingAway, IdsAreAccounted
<1> QED BY <1>2, <1>3, <1>4 DEF Inv

LEMMA AloneInit == Init => AloneInv
BY DEF Init, AloneInv, Alone, ExportsOverlapSafely, Built, Busy, Removes, Removal, Administration
-----------------------------------------------------------------------------
(* What the helpers of the actions do to the calls. *)
Others(p) ==
  \A q \in Proc \ {p} :
    /\ op'[q] = op[q]
    /\ pc'[q] = pc[q]
    /\ vinput'[q] = vinput[q]
    /\ next'[q] = next[q]
    /\ arg'[q] = arg[q]

LEMMA DoneMoves ==
  ASSUME Calls, NEW p \in Proc, Done(p), crossed' = crossed
  PROVE  Calls' /\ Others(p) /\ op'[p] = "none" /\ pc'[p] = "idle"
BY DEF Calls, Done, Goto, Others, Places, Ops

LEMMA ContinueMoves ==
  ASSUME Calls, NEW p \in Proc, NEW l, Continue(p, l), l \in Places(op[p]), crossed' = crossed
  PROVE  Calls' /\ Others(p) /\ pc'[p] = l /\ UNCHANGED <<op, vinput, next, arg>>
BY DEF Calls, Continue, Goto, Others

(* Where a process is tells what it is doing. *)
LEMMA WhereItIs ==
  ASSUME Calls, NEW p \in Proc
  PROVE  /\ pc[p] \in {"find", "alloc", "input", "register", "init", "announce", "undo"} =>
              op[p] = "export"
         /\ pc[p] \in {"look", "recheck"} => op[p] \in {"unexport", "open"}
         /\ pc[p] \in {"delist", "first", "loop", "advance"} => op[p] = "unload"
         /\ pc[p] = "unreg" => op[p] \in {"unexport", "unload"}
         /\ pc[p] \in TakingAway => op[p] \in Administration
         /\ pc[p] \in {"store", "report"} => op[p] = "send"
         /\ pc[p] = "show" => op[p] = "read"
         /\ op[p] = "none" <=> pc[p] = "idle"
<1>1. op[p] \in Ops /\ pc[p] \in Places(op[p])
  BY DEF Calls
<1> QED BY <1>1 DEF Ops, Places, TakingAway, Administration, Removal

LEMMA SameIds ==
  ASSUME IdsAreAccounted, UNCHANGED <<vinput_ids, vinput_vdevices, lost>>,
         \A v \in vinput_vdevices : vdev'[v].id = vdev[v].id
  PROVE  IdsAreAccounted'
BY DEF IdsAreAccounted

(* A step after which the process is at no device's beginning or end.       *)
LEMMA Passes ==
  ASSUME Inv, NEW p \in Proc, Calls', Others(p), pc'[p] \notin Building \cup TakingAway,
         UNCHANGED <<vinput_ids, vinput_vdevices, age, vdev, lost>>
  PROVE  Inv'
<1>1. Devices' /\ Ages'
  BY DEF Inv, Devices, Ages, Used, Unused
<1>2. Used' = Used
  BY DEF Used, Unused
<1>3. Builders'
  BY <1>2 DEF Inv, Builders, Others, Live
<1>4. IdsAreAccounted'
  BY SameIds DEF Inv
<1> QED BY <1>1, <1>3, <1>4 DEF Inv

(* A step that changes one device and leaves it on the list.                *)
LEMMA Changes ==
  ASSUME Inv, NEW p \in Proc, NEW v \in Used, Calls', Others(p),
         UNCHANGED <<vinput_ids, vinput_vdevices, age, lost>>,
         vdev' \in [Vdev -> Device], \A w \in Vdev \ {v} : vdev'[w] = vdev[w],
         vdev'[v].id = vdev[v].id,
         \A q \in Proc \ {p} :
           /\ pc[q] \in Building => vinput[q] # v
           /\ pc[q] \in TakingAway => vinput[q] # v \/ vdev'[v].input = "gone",
         pc'[p] \in Building \cup TakingAway => vinput'[p] = v,
         pc'[p] \in Building =>
           /\ v \in vinput_vdevices
           /\ vdev'[v].input = IF pc'[p] = "input" THEN "null" ELSE "allocated",
         pc'[p] \in TakingAway => vdev'[v].input = "gone"
  PROVE  Inv'
<1>1. UNCHANGED <<Used, Unused>> /\ Used \subseteq Vdev
  BY DEF Used, Unused
<1>2. Devices' /\ Ages'
  <2>1. \A w \in Unused : w # v /\ w \in Vdev
    BY DEF Used, Unused
  <2> QED BY <1>1, <2>1 DEF Inv, Devices, Ages
<1>3. Builders'
  <2>1. ASSUME NEW q \in Proc, pc'[q] \in Building
        PROVE  /\ vinput'[q] \in vinput_vdevices
               /\ vdev'[vinput'[q]].input = IF pc'[q] = "input" THEN "null" ELSE "allocated"
    <3>1. CASE q = p
      BY <2>1, <3>1
    <3>2. CASE q # p
      <4>1. pc[q] \in Building /\ vinput'[q] = vinput[q] /\ vinput[q] # v
        BY <2>1, <3>2 DEF Others
      <4>2. Live(q) /\ vinput[q] \in Vdev
        BY <1>1, <4>1 DEF Inv, Builders, Live, Devices
      <4> QED BY <3>2, <4>1, <4>2 DEF Inv, Builders, Others, Live
    <3> QED BY <3>1, <3>2
  <2>2. ASSUME NEW q \in Proc, NEW r \in Proc, pc'[q] \in Building, pc'[r] \in Building,
               vinput'[q] = vinput'[r]
        PROVE  q = r
    BY <2>2 DEF Inv, Builders, Others
  <2>3. ASSUME NEW q \in Proc, pc'[q] \in TakingAway
        PROVE  vinput'[q] \in Used /\ vdev'[vinput'[q]].input = "gone"
    <3>1. CASE q = p
      BY <2>3, <3>1
    <3>2. CASE q # p
      <4>1. pc[q] \in TakingAway /\ vinput'[q] = vinput[q]
        BY <2>3, <3>2 DEF Others
      <4>2. vinput[q] \in Used /\ vdev[vinput[q]].input = "gone"
        BY <4>1 DEF Inv, Builders
      <4> QED BY <1>1, <3>2, <4>1, <4>2
    <3> QED BY <3>1, <3>2
  <2> QED BY <1>1, <2>1, <2>2, <2>3 DEF Builders, Live
<1>4. IdsAreAccounted'
  BY <1>1, SameIds DEF Inv, Devices
<1> QED BY <1>2, <1>3, <1>4 DEF Inv

(* A step that takes one device off the list: its minor is free, or lost.   *)
LEMMA Leaves ==
  ASSUME Inv, NEW p \in Proc, NEW v \in vinput_vdevices, Calls', Others(p), age' = age,
         vinput_vdevices' = vinput_vdevices \ {v},
         \/ vinput_ids' = vinput_ids \ {vdev[v].id} /\ lost' = lost
         \/ vinput_ids' = vinput_ids /\ lost' = lost \cup {vdev[v].id},
         vdev' \in [Vdev -> Device], \A w \in Vdev \ {v} : vdev'[w] = vdev[w],
         vdev'[v].input \in {vdev[v].input, "gone"},
         \A q \in Proc \ {p} : pc[q] \in Building => vinput[q] # v,
         pc'[p] \notin Building \cup TakingAway
  PROVE  Inv'
<1>1. UNCHANGED <<Used, Unused>> /\ Used \subseteq Vdev /\ vinput_vdevices \subseteq Used
  BY DEF Used, Unused, Inv, Devices
<1>2. Devices' /\ Ages'
  <2>1. \A w \in Unused : w # v /\ w \in Vdev
    BY <1>1 DEF Used, Unused
  <2> QED BY <1>1, <2>1 DEF Inv, Devices, Ages
<1>3. Builders'
  <2>1. ASSUME NEW q \in Proc, pc'[q] \in Building
        PROVE  /\ vinput'[q] \in vinput_vdevices'
               /\ vdev'[vinput'[q]].input = IF pc'[q] = "input" THEN "null" ELSE "allocated"
    <3>1. q # p /\ pc'[q] = pc[q] /\ vinput'[q] = vinput[q] /\ vinput[q] # v
      BY <2>1 DEF Others
    <3>2. Live(q) /\ vinput[q] \in Vdev
      BY <1>1, <2>1, <3>1 DEF Inv, Builders, Live
    <3> QED BY <2>1, <3>1, <3>2 DEF Inv, Builders, Live
  <2>2. ASSUME NEW q \in Proc, NEW r \in Proc, pc'[q] \in Building, pc'[r] \in Building,
               vinput'[q] = vinput'[r]
        PROVE  q = r
    BY <2>2 DEF Inv, Builders, Others
  <2>3. ASSUME NEW q \in Proc, pc'[q] \in TakingAway
        PROVE  vinput'[q] \in Used /\ vdev'[vinput'[q]].input = "gone"
    <3>1. q # p /\ pc[q] \in TakingAway /\ vinput'[q] = vinput[q]
      BY <2>3 DEF Others
    <3>2. vinput[q] \in Used /\ vdev[vinput[q]].input = "gone"
      BY <3>1 DEF Inv, Builders
    <3> QED BY <1>1, <3>1, <3>2
  <2> QED BY <1>1, <2>1, <2>2, <2>3 DEF Builders, Live
<1>4. IdsAreAccounted'
  <2>1. \A w \in vinput_vdevices' : vdev'[w].id = vdev[w].id /\ vdev[w].id # vdev[v].id
    BY <1>1 DEF Inv, IdsAreAccounted
  <2> QED BY <2>1 DEF Inv, IdsAreAccounted
<1> QED BY <1>2, <1>3, <1>4 DEF Inv
-----------------------------------------------------------------------------
(* A call begins. *)
LEMMA StartMoves ==
  ASSUME Calls, NEW p \in Proc, NEW o \in Ops, NEW l \in Places(o), NEW x,
         Start(p, o, l, x), o = "export" => x \in Type, DOMAIN vinput' = Proc
  PROVE  Calls'
<1>1. op' = [op EXCEPT ![p] = o] /\ pc' = [pc EXCEPT ![p] = l] /\ arg' = [arg EXCEPT ![p] = x]
  BY DEF Start, Goto
<1>2. crossed' \in BOOLEAN
  BY DEF Start
<1>3. next' = next
  BY DEF Start
<1> QED BY <1>1, <1>2, <1>3 DEF Calls

LEMMA CallInv ==
  ASSUME Inv, NEW p \in Proc, CallWith(p)
  PROVE  Inv'
<1> DEFINE Begins(o, l, x) ==
      Start(p, o, l, x) /\ o \in Ops /\ l \in Places(o) /\ (o = "export" => x \in Type)
      /\ l \notin Building \cup TakingAway
<1>1. \E o, l, x : Begins(o, l, x)
  <2>1. ASSUME NEW t \in Type, Start(p, "export", "find", t) PROVE Begins("export", "find", t)
    BY <2>1 DEF Ops, Places, Building, TakingAway
  <2>2. ASSUME NEW i, Start(p, "unexport", "look", i) PROVE Begins("unexport", "look", i)
    BY <2>2 DEF Ops, Places, Building, TakingAway
  <2>3. ASSUME NEW t, Start(p, "unload", "delist", t) PROVE Begins("unload", "delist", t)
    BY <2>3 DEF Ops, Places, Building, TakingAway
  <2>4. ASSUME NEW i, Start(p, "open", "look", i) PROVE Begins("open", "look", i)
    BY <2>4 DEF Ops, Places, Building, TakingAway
  <2>5. ASSUME Start(p, "send", "store", None) PROVE Begins("send", "store", None)
    BY <2>5 DEF Ops, Places, Building, TakingAway
  <2>6. ASSUME Start(p, "read", "show", None) PROVE Begins("read", "show", None)
    BY <2>6 DEF Ops, Places, Building, TakingAway
  <2> HIDE DEF Begins
  <2> QED BY <2>1, <2>2, <2>3, <2>4, <2>5, <2>6 DEF CallWith, Call, FileCall
<1>2. PICK o, l, x : Begins(o, l, x)
  BY <1>1
<1>3. DOMAIN vinput' = Proc /\ \A q \in Proc \ {p} : vinput'[q] = vinput[q]
  BY DEF CallWith, FileCall, Point, Inv, Calls
<1>4. Calls'
  BY <1>2, <1>3, StartMoves DEF Inv
<1>5. Others(p) /\ pc'[p] = l
  BY <1>2, <1>3 DEF Others, Start, Goto, Inv, Calls
<1>6. UNCHANGED <<vinput_ids, vinput_vdevices, age, vdev, lost>>
  BY <1>2 DEF Start, lists
<1> QED BY <1>2, <1>4, <1>5, <1>6, Passes

(* The steps that only look, or note something. *)
LEMMA LookInv ==
  ASSUME Inv, NEW p \in Proc,
         \/ FindType(p) \/ Look(p) \/ Recheck(p) \/ Delist(p) \/ First(p) \/ Advance(p)
         \/ LoopBody(p) \/ Store(p) \/ Report(p) \/ Show(p) \/ Announce(p)
  PROVE  Inv'
<1>1. UNCHANGED <<vinput_ids, vinput_vdevices, age, vdev, lost, crossed>>
  BY DEF FindType, Look, Recheck, Delist, First, Advance, Walk, LoopBody, Store, Report, Show, Announce,
         lists
<1> DEFINE Moved == Calls' /\ Others(p) /\ pc'[p] \notin Building \cup TakingAway
<1>2. ASSUME Done(p) PROVE Moved
  BY <1>1, <1>2, DoneMoves DEF Inv, Building, TakingAway
<1>3. ASSUME NEW l, l \in Places(op[p]), l \notin Building \cup TakingAway, Continue(p, l)
      PROVE  Moved
  BY <1>1, <1>3, ContinueMoves DEF Inv
<1>4. ASSUME Goto(p, "recheck"), DOMAIN vinput' = Proc, pc[p] = "look",
             \A q \in Proc \ {p} : vinput'[q] = vinput[q], UNCHANGED <<op, next, arg>>
      PROVE  Moved
  <2>1. op[p] \in {"unexport", "open"}
    BY <1>4, WhereItIs DEF Inv
  <2> QED BY <1>1, <1>4, <2>1 DEF Inv, Calls, Others, Goto, Places, Building, TakingAway
<1>5. ASSUME NEW v, Walk(p, v), op[p] = "unload"
      PROVE  Moved
  BY <1>1, <1>5 DEF Walk, Point, Inv, Calls, Others, Goto, Places, Building, TakingAway
<1>6. Moved
  <2> HIDE DEF Moved
  <2>1. CASE FindType(p)
    <3>1. "alloc" \in Places(op[p])
      BY <2>1, WhereItIs DEF FindType, Inv, Places
    <3> QED BY <1>2, <1>3, <2>1, <3>1 DEF FindType, Building, TakingAway
  <2>2. CASE Look(p)
    BY <1>4, <2>2 DEF Look, Inv, Calls
  <2>3. CASE Recheck(p)
    <3>1. op[p] # "open" => "unreg" \in Places(op[p])
      BY <2>3, WhereItIs DEF Recheck, Inv, Places
    <3> QED BY <1>2, <1>3, <2>3, <3>1 DEF Recheck, Building, TakingAway
  <2>4. CASE Delist(p)
    <3>1. "first" \in Places(op[p])
      BY <2>4, WhereItIs DEF Delist, Inv, Places
    <3> QED BY <1>3, <2>4, <3>1 DEF Delist, Building, TakingAway
  <2>5. CASE First(p) \/ Advance(p)
    <3>1. op[p] = "unload"
      BY <2>5, WhereItIs DEF First, Advance, Inv
    <3> QED BY <1>5, <2>5, <3>1 DEF First, Advance
  <2>6. CASE LoopBody(p)
    <3>1. "unreg" \in Places(op[p]) /\ "advance" \in Places(op[p])
      BY <2>6, WhereItIs DEF LoopBody, Inv, Places
    <3> QED BY <1>2, <1>3, <2>6, <3>1 DEF LoopBody, Building, TakingAway
  <2>7. CASE Store(p)
    <3>1. "report" \in Places(op[p])
      BY <2>7, WhereItIs DEF Store, Inv, Places
    <3> QED BY <1>3, <2>7, <3>1 DEF Store, Building, TakingAway
  <2>8. CASE Report(p) \/ Show(p) \/ Announce(p)
    BY <1>2, <2>8 DEF Report, Show, Announce
  <2> QED BY <2>1, <2>2, <2>3, <2>4, <2>5, <2>6, <2>7, <2>8
<1> QED BY <1>1, <1>6, Passes
-----------------------------------------------------------------------------
(* The device a process builds or takes away is not one another builds.     *)
LEMMA OwnDevice ==
  ASSUME Inv, NEW p \in Proc, pc[p] \in Building \cup TakingAway
  PROVE  /\ vinput[p] \in Used
         /\ Used \subseteq Vdev
         /\ pc[p] \in Building =>
              \A q \in Proc \ {p} : pc[q] \in TakingAway => vinput[q] # vinput[p]
         /\ \A q \in Proc \ {p} : pc[q] \in Building => vinput[q] # vinput[p]
<1>1. \A q \in Proc : pc[q] \in Building => vdev[vinput[q]].input \in {"null", "allocated"}
  BY DEF Inv, Builders
<1>2. \A q \in Proc : pc[q] \in TakingAway => vdev[vinput[q]].input = "gone"
  BY DEF Inv, Builders
<1>3. vinput[p] \in Used /\ Used \subseteq Vdev
  BY DEF Inv, Builders, Devices, Live, Used
<1>4. pc[p] \in Building =>
        \A q \in Proc \ {p} : pc[q] \in Building => vinput[q] # vinput[p]
  BY DEF Inv, Builders
<1> QED BY <1>1, <1>2, <1>3, <1>4

LEMMA AllocInv ==
  ASSUME Inv, NEW p \in Proc, Alloc(p)
  PROVE  Inv'
<1>1. op[p] = "export" /\ crossed' = crossed /\ lost' = lost
  BY WhereItIs DEF Alloc, Inv
<1>2. CASE Done(p) /\ UNCHANGED <<lists, vdev>>
  <2>1. Calls' /\ Others(p) /\ pc'[p] = "idle"
    BY <1>1, <1>2, DoneMoves DEF Inv
  <2> QED BY <1>1, <1>2, <2>1, Passes DEF lists, Building, TakingAway
<1>3. ASSUME NEW i \in FreeId, Unused # {},
             vinput_ids' = vinput_ids \cup {i},
             vinput_vdevices' = vinput_vdevices \cup {Fresh},
             age' = [age EXCEPT ![Fresh] = 1 + Cardinality(Vdev \ Unused)],
             vdev' = [vdev EXCEPT ![Fresh].id = i],
             Goto(p, "input"), Point(p, Fresh), UNCHANGED <<vinput_devices, op, next, arg>>
      PROVE  Inv'
  <2> DEFINE v == Fresh
  <2>1. v \in Vdev /\ v \in Unused /\ v \notin Used /\ v \notin vinput_vdevices
    BY <1>3, FreshIsUnused DEF Unused, Used, Inv, Devices
  <2>2. i \in Int /\ i \notin vinput_ids
    BY DEF FreeId, Ids
  <2>3. Cardinality(Used) \in Nat
    BY FS_CardinalityType DEF Inv, Ages
  <2> HIDE DEF v
  <2>4. age'[v] = 1 + Cardinality(Used) /\ \A w \in Vdev \ {v} : age'[w] = age[w]
    BY <1>3, <2>1 DEF Inv, Devices, Used, v
  <2>5. Used' = Used \cup {v} /\ Unused' = Unused \ {v}
    BY <2>1, <2>3, <2>4 DEF Used, Unused
  <2>6. /\ \A w \in Vdev \ {v} : vdev'[w] = vdev[w]
        /\ vdev'[v].id = i
        /\ vdev'[v].input = "null"
        /\ vdev' \in [Vdev -> Device]
    <3>1. vdev[v] \in Device /\ vdev[v].input = "null"
      BY <2>1 DEF Inv, Devices, Ages
    <3>2. vdev'[v] = [vdev[v] EXCEPT !.id = i] /\ DOMAIN vdev' = Vdev
      BY <1>3, <2>1 DEF Inv, Devices, v
    <3>3. vdev'[v] \in Device /\ vdev'[v].id = i /\ vdev'[v].input = "null"
      BY <2>2, <3>1, <3>2 DEF Device
    <3>4. \A w \in Vdev \ {v} : vdev'[w] = vdev[w] /\ vdev[w] \in Device
      BY <1>3, <2>1 DEF Inv, Devices, v
    <3>5. vdev' = [w \in Vdev |-> vdev'[w]]
      BY <1>3 DEF Inv, Devices
    <3>6. \A w \in Vdev : vdev'[w] \in Device
      BY <3>3, <3>4
    <3> QED BY <3>3, <3>4, <3>5, <3>6
  <2>7. Devices'
    <3>1. age' \in [Vdev -> Nat]
      <4>1. age' = [age EXCEPT ![Fresh] = 1 + Cardinality(Used)] /\ age \in [Vdev -> Nat]
        BY <1>3 DEF Inv, Devices, Used
      <4>2. 1 + Cardinality(Used) \in Nat
        BY <2>3
      <4> QED BY <4>1, <4>2
    <3> QED BY <1>3, <2>5, <2>6, <3>1 DEF Inv, Devices, v
  <2>8. Ages'
    <3>1. IsFiniteSet(Used') /\ Cardinality(Used') = Cardinality(Used) + 1
      BY <2>1, <2>5, FS_AddElement DEF Inv, Ages
    <3>2. \A w \in Used : age'[w] = age[w] /\ age[w] \in Nat /\ age[w] <= Cardinality(Used)
      BY <2>1, <2>4 DEF Inv, Ages, Devices, Used
    <3>3. \A w \in Used' : age'[w] <= Cardinality(Used')
      BY <2>3, <2>4, <2>5, <3>1, <3>2
    <3>4. \A w, u \in Used' : age'[w] = age'[u] => w = u
      BY <2>3, <2>4, <2>5, <3>2 DEF Inv, Ages
    <3>5. \A w \in Unused' : vdev'[w].input = "null"
      BY <2>5, <2>6 DEF Inv, Ages, Unused
    <3> QED BY <3>1, <3>3, <3>4, <3>5 DEF Ages
  <2>9. Calls' /\ Others(p) /\ pc'[p] = "input" /\ vinput'[p] = v
    BY <1>1, <1>3 DEF Inv, Calls, Others, Goto, Point, Places, v
  <2>10. Builders'
    <3>1. ASSUME NEW q \in Proc, q # p, pc[q] \in Building
          PROVE  vinput[q] \in vinput_vdevices /\ vinput[q] \in Vdev /\ vinput[q] # v
      BY <2>1, <3>1 DEF Inv, Builders, Live, Devices, Used
    <3>2. ASSUME NEW q \in Proc, pc'[q] \in Building
          PROVE  /\ Live(q)'
                 /\ vdev'[vinput'[q]].input = IF pc'[q] = "input" THEN "null" ELSE "allocated"
      <4>1. CASE q = p
        BY <1>3, <2>6, <2>9, <4>1 DEF Live, v
      <4>2. CASE q # p
        BY <1>3, <2>6, <2>9, <3>1, <3>2, <4>2 DEF Live, Inv, Builders, Others
      <4> QED BY <4>1, <4>2
    <3>3. ASSUME NEW q \in Proc, NEW r \in Proc, pc'[q] \in Building, pc'[r] \in Building,
                 vinput'[q] = vinput'[r]
          PROVE  q = r
      <4>1. CASE q = p \/ r = p
        BY <2>9, <3>1, <3>3, <4>1 DEF Others
      <4>2. CASE q # p /\ r # p
        BY <2>9, <3>3, <4>2 DEF Inv, Builders, Others
      <4> QED BY <4>1, <4>2
    <3>4. ASSUME NEW q \in Proc, pc'[q] \in TakingAway
          PROVE  vinput'[q] \in Used' /\ vdev'[vinput'[q]].input = "gone"
      <4>1. q # p /\ pc[q] \in TakingAway /\ vinput'[q] = vinput[q]
        BY <2>9, <3>4 DEF Others, TakingAway
      <4>2. vinput[q] \in Used /\ vinput[q] \in Vdev /\ vdev[vinput[q]].input = "gone"
        BY <4>1 DEF Inv, Builders, Used
      <4> QED BY <2>1, <2>5, <2>6, <4>1, <4>2
    <3> QED BY <3>2, <3>3, <3>4 DEF Builders
  <2>11. IdsAreAccounted'
    <3>1. \A w \in vinput_vdevices : vdev'[w].id = vdev[w].id
      BY <2>1, <2>6 DEF Inv, Devices, Used
    <3>2. vinput_vdevices' = vinput_vdevices \cup {v}
      BY <1>3 DEF v
    <3>3. \A w \in vinput_vdevices : vdev[w].id # i /\ vdev[w].id \notin lost
      BY <2>2 DEF Inv, IdsAreAccounted
    <3>4. i \notin lost
      BY <2>2 DEF Inv, IdsAreAccounted
    <3>5. \A u, w \in vinput_vdevices' : vdev'[u].id = vdev'[w].id => u = w
      BY <2>6, <3>1, <3>2, <3>3 DEF Inv, IdsAreAccounted
    <3>6. vinput_ids' = {vdev'[w].id : w \in vinput_vdevices'} \cup lost'
      BY <1>1, <1>3, <2>6, <3>1, <3>2 DEF Inv, IdsAreAccounted
    <3>7. \A w \in vinput_vdevices' : vdev'[w].id \notin lost'
      BY <1>1, <2>6, <3>1, <3>2, <3>3, <3>4
    <3> QED BY <3>5, <3>6, <3>7 DEF IdsAreAccounted
  <2> QED BY <2>7, <2>8, <2>9, <2>10, <2>11 DEF Inv
<1> QED BY <1>2, <1>3 DEF Alloc

LEMMA BuildInv ==
  ASSUME Inv, NEW p \in Proc, Sound(p),
         AllocInput(p) \/ RegisterDevice(p) \/ InitDevice(p) \/ FreeInput(p)
  PROVE  Inv'
<1> DEFINE v == vinput[p]
<1>1. pc[p] \in Building /\ op[p] = "export" /\ crossed' = crossed
  BY WhereItIs DEF AllocInput, RegisterDevice, InitDevice, FreeInput, Building, Inv
<1>2. /\ v \in Used /\ v \in Vdev /\ v \in vinput_vdevices
      /\ \A q \in Proc \ {p} :
           (pc[q] \in Building => vinput[q] # v) /\ (pc[q] \in TakingAway => vinput[q] # v)
      /\ vdev[v].input = IF pc[p] = "input" THEN "null" ELSE "allocated"
  BY <1>1, OwnDevice DEF Inv, Builders, Live
<1>3. vdev \in [Vdev -> Device] /\ vdev[v] \in Device
  BY <1>2 DEF Inv, Devices
<1>4. arg[p] \in Type
  BY <1>1 DEF Inv, Calls
<1>5. /\ Places(op[p]) = {"find", "alloc", "input", "register", "init", "announce", "undo",
                          "del", "release"}
      /\ Building = {"input", "register", "init", "undo"}
      /\ TakingAway = {"del", "release"}
  BY <1>1 DEF Places, Building, TakingAway
<1> HIDE DEF v
<1>6. ASSUME NEW x \in Device, vdev' = [vdev EXCEPT ![v] = x], x.id = vdev[v].id
      PROVE  /\ vdev' \in [Vdev -> Device]
             /\ \A w \in Vdev \ {v} : vdev'[w] = vdev[w]
             /\ vdev'[v] = x
  BY <1>2, <1>3, <1>6
<1>7. CASE AllocInput(p)
  <2>1. CASE /\ SetInput(v, "allocated")
             /\ Continue(p, "register")
             /\ UNCHANGED <<lists, lost>>
    <3>1. Calls' /\ Others(p) /\ pc'[p] = "register" /\ vinput'[p] = v
      BY <1>1, <1>5, <2>1, ContinueMoves DEF Inv, v
    <3> DEFINE x == [vdev[v] EXCEPT !.input = "allocated"]
    <3>2. vdev' = [vdev EXCEPT ![v] = x]
      BY <2>1 DEF SetInput
    <3>3. x \in Device /\ x.id = vdev[v].id /\ x.input = "allocated"
      BY <1>3 DEF Device
    <3>4. UNCHANGED <<vinput_ids, vinput_vdevices, age, lost>>
      BY <2>1 DEF lists
    <3> HIDE DEF x
    <3>5. /\ vdev' \in [Vdev -> Device]
          /\ \A w \in Vdev \ {v} : vdev'[w] = vdev[w]
          /\ vdev'[v].id = vdev[v].id
          /\ vdev'[v].input = "allocated"
      BY <1>6, <3>2, <3>3
    <3> QED BY <1>2, <1>5, <3>1, <3>4, <3>5, Changes
  <2>2. CASE /\ vinput_vdevices' = vinput_vdevices \ {v}
             /\ lost' = lost \cup {vdev[v].id}
             /\ Done(p)
             /\ UNCHANGED <<vinput_devices, vinput_ids, age, vdev>>
    <3>1. Calls' /\ Others(p) /\ pc'[p] = "idle"
      BY <1>1, <2>2, DoneMoves DEF Inv
    <3>2. \A q \in Proc \ {p} : pc[q] \in Building => vinput[q] # v
      BY <1>2
    <3> QED BY <1>2, <1>3, <1>5, <2>2, <3>1, <3>2, Leaves
  <2> QED BY <1>7, <2>1, <2>2 DEF AllocInput, Delisted, v
<1>8. CASE RegisterDevice(p)
  <2>1. CASE /\ vdev' = [vdev EXCEPT ![v].type = arg[p], ![v].node = "added"]
             /\ Continue(p, "init")
             /\ UNCHANGED lists
    <3>1. Calls' /\ Others(p) /\ pc'[p] = "init" /\ vinput'[p] = v
      BY <1>1, <1>5, <2>1, ContinueMoves DEF Inv, v
    <3> DEFINE x == [vdev[v] EXCEPT !.type = arg[p], !.node = "added"]
    <3>2. vdev' = [vdev EXCEPT ![v] = x]
      BY <1>2, <1>3, <2>1
    <3>3. x \in Device /\ x.id = vdev[v].id /\ x.input = "allocated"
      BY <1>2, <1>3, <1>4, <1>8 DEF Device, RegisterDevice
    <3>4. UNCHANGED <<vinput_ids, vinput_vdevices, age, lost>>
      BY <1>8, <2>1 DEF lists, RegisterDevice
    <3> HIDE DEF x
    <3>5. /\ vdev' \in [Vdev -> Device]
          /\ \A w \in Vdev \ {v} : vdev'[w] = vdev[w]
          /\ vdev'[v].id = vdev[v].id
          /\ vdev'[v].input = "allocated"
      BY <1>6, <3>2, <3>3
    <3> QED BY <1>2, <1>5, <3>1, <3>4, <3>5, Changes
  <2>2. CASE /\ vdev' = [vdev EXCEPT ![v].type = arg[p], ![v].input = "gone"]
             /\ Forget(v)
             /\ Done(p)
             /\ UNCHANGED <<vinput_devices, age>>
    <3>1. Calls' /\ Others(p) /\ pc'[p] = "idle"
      BY <1>1, <2>2, DoneMoves DEF Inv
    <3> DEFINE x == [vdev[v] EXCEPT !.type = arg[p], !.input = "gone"]
    <3>2. vdev' = [vdev EXCEPT ![v] = x]
      BY <1>2, <1>3, <2>2
    <3>3. x \in Device /\ x.id = vdev[v].id /\ x.input = "gone"
      BY <1>3, <1>4 DEF Device
    <3>4. /\ vinput_vdevices' = vinput_vdevices \ {v}
          /\ vinput_ids' = vinput_ids \ {vdev[v].id}
          /\ lost' = lost
          /\ age' = age
      BY <1>8, <2>2 DEF RegisterDevice, Forget
    <3> HIDE DEF x
    <3>5. \A q \in Proc \ {p} : pc[q] \in Building => vinput[q] # v
      BY <1>2
    <3> QED BY <1>2, <1>5, <1>6, <3>1, <3>2, <3>3, <3>4, <3>5, Leaves
  <2> QED BY <1>8, <2>1, <2>2 DEF RegisterDevice, v
<1>9. CASE InitDevice(p)
  <2>1. UNCHANGED <<vinput_ids, vinput_vdevices, age, lost>>
    BY <1>9 DEF lists, InitDevice
  <2>2. CASE SetInput(v, "registered") /\ Continue(p, "announce")
    <3>1. Calls' /\ Others(p) /\ pc'[p] = "announce"
      BY <1>1, <1>5, <2>2, ContinueMoves DEF Inv
    <3>2. vdev' = [vdev EXCEPT ![v] = [vdev[v] EXCEPT !.input = "registered"]]
      BY <2>2 DEF SetInput
    <3>3. /\ [vdev[v] EXCEPT !.input = "registered"] \in Device
          /\ [vdev[v] EXCEPT !.input = "registered"].id = vdev[v].id
      BY <1>3 DEF Device
    <3>4. /\ vdev' \in [Vdev -> Device]
          /\ \A w \in Vdev \ {v} : vdev'[w] = vdev[w]
          /\ vdev'[v].id = vdev[v].id
      BY <1>6, <3>2, <3>3
    <3> QED BY <1>2, <1>5, <2>1, <3>1, <3>4, Changes
  <2>3. CASE InitFailed(p) /\ UNCHANGED vdev
    <3>1. Calls' /\ Others(p) /\ pc'[p] = "undo" /\ vinput'[p] = v
      BY <1>1, <1>5, <2>3, ContinueMoves DEF Inv, v, InitFailed
    <3>2. vdev'[v].input = "allocated"
      BY <1>2, <1>9, <2>3 DEF InitDevice
    <3> QED BY <1>2, <1>3, <1>5, <2>1, <2>3, <3>1, <3>2, Changes
  <2> QED BY <1>9, <2>2, <2>3 DEF InitDevice, RegisterInput, v
<1>10. CASE FreeInput(p)
  <2>1. UNCHANGED <<vinput_ids, vinput_vdevices, age, lost>>
    BY <1>10 DEF lists, FreeInput
  <2>2. Calls' /\ Others(p) /\ pc'[p] = "del" /\ vinput'[p] = v
    BY <1>1, <1>5, <1>10, ContinueMoves DEF Inv, v, FreeInput
  <2>3. vdev' = [vdev EXCEPT ![v] = [vdev[v] EXCEPT !.input = "gone"]]
    BY <1>10 DEF SetInput, FreeInput, v
  <2>4. /\ [vdev[v] EXCEPT !.input = "gone"] \in Device
        /\ [vdev[v] EXCEPT !.input = "gone"].id = vdev[v].id
        /\ [vdev[v] EXCEPT !.input = "gone"].input = "gone"
    BY <1>3 DEF Device
  <2>5. /\ vdev' \in [Vdev -> Device]
        /\ \A w \in Vdev \ {v} : vdev'[w] = vdev[w]
        /\ vdev'[v].id = vdev[v].id
        /\ vdev'[v].input = "gone"
    BY <1>6, <2>3, <2>4
  <2> QED BY <1>2, <1>5, <2>1, <2>2, <2>5, Changes
<1> QED BY <1>7, <1>8, <1>9, <1>10

(* unexport and the loop of vinput_unregister: they only take a device away *)
(* whose input device is registered.                                        *)
LEMMA TakeAwayInv ==
  ASSUME Inv, NEW p \in Proc, Sound(p), UnregisterInput(p) \/ DeleteNode(p) \/ Release(p)
  PROVE  Inv'
<1> DEFINE v == vinput[p]
<1>1. crossed' = crossed
  BY DEF UnregisterInput, DeleteNode, Release
<1>2. v \in vinput_vdevices /\ (pc[p] = "unreg" => vdev[v].input = "registered")
  BY DEF Sound, Live, Served, UnregisterInput, DeleteNode, Release
<1>3. v \in Used /\ v \in Vdev /\ vdev \in [Vdev -> Device] /\ vdev[v] \in Device
  BY <1>2 DEF Inv, Devices, Used
<1>4. pc[p] \in TakingAway => vdev[v].input = "gone"
  BY DEF Inv, Builders
<1>5. /\ Building = {"input", "register", "init", "undo"}
      /\ TakingAway = {"del", "release"}
  BY DEF Building, TakingAway
<1>6. \A q \in Proc \ {p} : pc[q] \in Building => vinput[q] # v
  <2>1. vdev[v].input \notin {"null", "allocated"}
    BY <1>2, <1>4, <1>5 DEF UnregisterInput, DeleteNode, Release
  <2> QED BY <2>1 DEF Inv, Builders
<1> HIDE DEF v
<1>7. ASSUME NEW x \in Device, vdev' = [vdev EXCEPT ![v] = x], x.id = vdev[v].id
      PROVE  /\ vdev' \in [Vdev -> Device]
             /\ \A w \in Vdev \ {v} : vdev'[w] = vdev[w]
             /\ vdev'[v] = x
  BY <1>3, <1>7
<1>8. CASE UnregisterInput(p)
  <2>1. UNCHANGED <<vinput_ids, vinput_vdevices, age, lost>>
    BY <1>8 DEF lists, UnregisterInput
  <2>2. "del" \in Places(op[p])
    BY <1>8, WhereItIs DEF UnregisterInput, Inv, Places
  <2>3. Calls' /\ Others(p) /\ pc'[p] = "del" /\ vinput'[p] = v
    BY <1>1, <1>8, <2>2, ContinueMoves DEF Inv, v, UnregisterInput
  <2>4. vdev' = [vdev EXCEPT ![v] = [vdev[v] EXCEPT !.input = "gone"]]
    BY <1>8 DEF SetInput, UnregisterInput, v
  <2>5. /\ [vdev[v] EXCEPT !.input = "gone"] \in Device
        /\ [vdev[v] EXCEPT !.input = "gone"].id = vdev[v].id
        /\ [vdev[v] EXCEPT !.input = "gone"].input = "gone"
    BY <1>3 DEF Device
  <2> QED BY <1>3, <1>5, <1>6, <1>7, <2>1, <2>3, <2>4, <2>5, Changes
<1>9. CASE DeleteNode(p)
  <2>1. UNCHANGED <<vinput_ids, vinput_vdevices, age, lost>>
    BY <1>9 DEF lists, DeleteNode
  <2>2. "release" \in Places(op[p])
    BY <1>5, <1>9, WhereItIs DEF DeleteNode, Inv, Places, Administration, Removal
  <2>3. Calls' /\ Others(p) /\ pc'[p] = "release" /\ vinput'[p] = v
    BY <1>1, <1>9, <2>2, ContinueMoves DEF Inv, v, DeleteNode
  <2>4. vdev' = [vdev EXCEPT ![v] = [vdev[v] EXCEPT !.node = "gone"]]
    BY <1>9 DEF DeleteNode, v
  <2>5. /\ [vdev[v] EXCEPT !.node = "gone"] \in Device
        /\ [vdev[v] EXCEPT !.node = "gone"].id = vdev[v].id
        /\ [vdev[v] EXCEPT !.node = "gone"].input = "gone"
    BY <1>3, <1>4, <1>5, <1>9 DEF Device, DeleteNode
  <2> QED BY <1>3, <1>5, <1>6, <1>7, <2>1, <2>3, <2>4, <2>5, Changes
<1>10. CASE Release(p)
  <2>1. "advance" \in Places("unload")
    BY DEF Places
  <2>2. Calls' /\ Others(p) /\ pc'[p] \in {"idle", "advance"}
    BY <1>1, <1>10, <2>1, DoneMoves, ContinueMoves DEF Inv, Release, Finish
  <2>3. /\ vinput_vdevices' = vinput_vdevices \ {v}
        /\ vinput_ids' = vinput_ids \ {vdev[v].id}
        /\ UNCHANGED <<lost, age, vdev>>
    BY <1>10 DEF Release, Forget, v
  <2> QED BY <1>2, <1>3, <1>5, <1>6, <2>2, <2>3, Leaves
<1> QED BY <1>8, <1>9, <1>10

LEMMA InvNext == Inv /\ [Next]_vars => Inv'
<1> SUFFICES ASSUME Inv, [Next]_vars PROVE Inv'
  OBVIOUS
<1>1. ASSUME UNCHANGED <<vinput_ids, vinput_vdevices, age, vdev, op, pc, vinput, next, arg, lost,
                         crossed>>
      PROVE  Inv'
  <2>1. UNCHANGED <<Used, Unused>>
    BY <1>1 DEF Used, Unused
  <2> QED BY <1>1, <2>1 DEF Inv, Devices, Calls, Ages, Builders, Live, IdsAreAccounted
<1>2. CASE UNCHANGED vars
  BY <1>1, <1>2 DEF vars, lists, locals
<1>3. ASSUME NEW p \in Proc, CallWith(p) PROVE Inv'
  BY <1>3, CallInv
<1>4. ASSUME NEW p \in Proc, Close(p) \/ (\E t \in Type : Load(p, t)) \/ Crash(p) PROVE Inv'
  BY <1>1, <1>4 DEF Close, Load, Crash, lists, locals
<1>5. ASSUME NEW p \in Proc, Step(p) PROVE Inv'
  BY <1>5, LookInv, AllocInv, BuildInv, TakeAwayInv DEF Step, Export, Remove
<1> QED BY <1>2, <1>3, <1>4, <1>5 DEF Next

LEMMA AlwaysInv == Spec => []Inv
BY InvInit, InvNext, PTL DEF Spec

(* No two devices share a minor, and the bits that are set are those of the *)
(* listed devices and the lost ones, for any number of administrators, even *)
(* when one of them works with a device another removes (vinput.c:184-190). *)
THEOREM IdsAreNotShared == Spec => []IdsAreAccounted
<1>1. Inv => IdsAreAccounted
  BY DEF Inv
<1> QED BY AlwaysInv, <1>1, PTL
-----------------------------------------------------------------------------
(* Who removes finds the list complete. *)
LEMMA ListIsComplete ==
  ASSUME Inv, Alone, NEW p \in Proc, Removes(p), NEW v \in vinput_vdevices
  PROVE  Complete(v) \/ (AtWork(p) /\ vinput[p] = v)
<1> SUFFICES ASSUME ~Complete(v) PROVE AtWork(p) /\ vinput[p] = v
  OBVIOUS
<1>1. PICK q \in Proc : AtWork(q) /\ vinput[q] = v
  BY DEF Alone, Built
<1>2. Busy(q)
  BY <1>1, WhereItIs DEF AtWork, Busy, Administration, Removal, Building, TakingAway, Inv
<1>3. q = p
  BY <1>2 DEF Alone
<1> QED BY <1>1, <1>3

LEMMA AloneIsSound ==
  ASSUME Inv, Alone, NEW p \in Proc, Busy(p)
  PROVE  Sound(p)
<1>1. pc[p] \in Building =>
        Live(p) /\ vdev[vinput[p]].input = IF pc[p] = "input" THEN "null" ELSE "allocated"
  BY DEF Inv, Builders
<1>2. Exporting(p) /\ Removing(p) /\ (op[p] = "unload" => Walking(p))
  BY DEF Alone, OnCourse
<1>3. op[p] \notin {"open", "send", "read"}
  BY DEF Busy, Administration, Removal
<1>4. /\ pc[p] \notin {"store", "show", "report"}
      /\ pc[p] \in {"loop", "advance"} => op[p] = "unload"
  BY <1>3, WhereItIs DEF Inv
<1>5. CASE pc[p] = "init"
  BY <1>1, <1>2, <1>5 DEF Sound, Building, Exporting, Served
<1>6. CASE pc[p] = "unreg"
  <2>1. Live(p)
    BY <1>2, <1>6 DEF Removing
  <2>2. Complete(vinput[p])
    <3>1. Removes(p)
      BY <1>6, WhereItIs DEF Inv, Removes, Removal
    <3> QED BY <1>6, <2>1, <3>1, ListIsComplete DEF Live, AtWork, Building, TakingAway
  <2> QED BY <1>6, <2>1, <2>2 DEF Sound, Served, Complete
<1>7. CASE pc[p] \in {"input", "register", "undo"}
  BY <1>1, <1>7 DEF Sound, Building
<1>8. CASE pc[p] \in {"del", "release", "recheck"}
  BY <1>2, <1>8 DEF Sound, Removing
<1>9. CASE pc[p] \in {"loop", "advance"}
  BY <1>2, <1>4, <1>9 DEF Sound, Walking, Listed, Live
<1>10. CASE pc[p] = "announce"
  BY <1>2, <1>10 DEF Sound, Exporting, Served, Complete
<1>11. CASE pc[p] \notin {"init", "announce", "unreg", "input", "register", "undo", "del", "release", "recheck",
                         "loop", "advance"}
  BY <1>4, <1>11 DEF Sound
<1> QED BY <1>5, <1>6, <1>7, <1>8, <1>9, <1>10, <1>11

LEMMA OthersStay ==
  ASSUME NEW p \in Proc, Others(p), NEW q \in Proc, q # p
  PROVE  /\ vinput'[q] = vinput[q]
         /\ Busy(q)' <=> Busy(q)
         /\ Removes(q)' <=> Removes(q)
         /\ AtWork(q)' <=> AtWork(q)
<1>1. op'[q] = op[q] /\ pc'[q] = pc[q] /\ vinput'[q] = vinput[q]
  BY DEF Others
<1>2. Busy(q)' <=> Busy(q)
  BY <1>1 DEF Busy
<1>3. Removes(q)' <=> Removes(q)
  BY <1>1 DEF Removes
<1>4. AtWork(q)' <=> AtWork(q)
  BY <1>1 DEF AtWork
<1> QED BY <1>1, <1>2, <1>3, <1>4

(* Modules are loaded, files opened and used around the administrators.     *)
LEMMA AloneAround ==
  ASSUME Inv, Alone, NEW p \in Proc, ~Busy(p), ~Busy(p)', Others(p),
         UNCHANGED <<vinput_vdevices, age, vdev>>,
         loaded \subseteq loaded',
         vinput_devices' \subseteq vinput_devices \cup (loaded' \ loaded)
  PROVE  Alone'
<1>1. \A q \in Proc : Busy(q)' => Busy(q) /\ q # p
  BY DEF Busy, Others
<1>0. /\ \A q, u \in Proc : Removes(q)' /\ Busy(u)' => q = u
      /\ \A q, u \in Proc : Busy(q)' /\ Busy(u)' => Apart(q, u)'
  <2>1. \A q \in Proc : Removes(q)' => Busy(q)'
    BY DEF Removes, Busy, Administration, Removal
  <2>2. \A q \in Proc : q # p => (Removes(q)' <=> Removes(q))
    BY DEF Removes, Others
  <2>3. \A q, u \in Proc : q # p /\ u # p => (Apart(q, u)' <=> Apart(q, u))
    BY DEF Apart, AtWork, Others
  <2> QED BY <1>1, <2>1, <2>2, <2>3 DEF Alone
<1>2. vinput_devices' \subseteq loaded'
  BY DEF Alone
<1>3. Built'
  <2> SUFFICES ASSUME NEW v \in vinput_vdevices, ~Complete(v)'
               PROVE  \E q \in Proc : AtWork(q)' /\ vinput'[q] = v
    BY DEF Built
  <2>1. ~Complete(v)
    BY DEF Complete
  <2>2. PICK q \in Proc : AtWork(q) /\ vinput[q] = v
    BY <2>1 DEF Alone, Built
  <2>3. Busy(q)
    BY <2>2, WhereItIs DEF AtWork, Busy, Administration, Removal, Building, TakingAway, Inv
  <2> QED BY <2>2, <2>3 DEF AtWork, Others
<1>4. ASSUME NEW q \in Proc, Busy(q)' PROVE OnCourse(q)'
  <2>1. Busy(q) /\ q # p /\ OnCourse(q)
    BY <1>1, <1>4 DEF Alone
  <2>2. /\ op'[q] = op[q] /\ pc'[q] = pc[q] /\ vinput'[q] = vinput[q]
        /\ next'[q] = next[q] /\ arg'[q] = arg[q]
    BY <2>1 DEF Others
  <2>3. Exporting(q)' /\ Removing(q)'
    BY <2>1, <2>2 DEF OnCourse, Exporting, Removing, Live, Complete
  <2>4. op[q] = "unload" => Walking(q)'
    BY <2>1, <2>2 DEF OnCourse, Walking, Listed, Ahead, OfType
  <2> QED BY <2>2, <2>3, <2>4 DEF OnCourse
<1> QED BY <1>0, <1>2, <1>3, <1>4 DEF Alone

LEMMA AloneBegins ==
  ASSUME Inv, Alone, ~crossed', NEW p \in Proc, CallWith(p)
  PROVE  Alone'
<1> DEFINE Begins(o, l, x) ==
      Start(p, o, l, x) /\ (o \in Administration => l \in {"find", "look", "delist"})
      /\ (o = "unload" => l = "delist" /\ x \in loaded)
<1>1. \E o, l, x : Begins(o, l, x)
  <2>1. ASSUME NEW t, Start(p, "export", "find", t) PROVE Begins("export", "find", t)
    BY <2>1
  <2>2. ASSUME NEW i, Start(p, "unexport", "look", i) PROVE Begins("unexport", "look", i)
    BY <2>2
  <2>3. ASSUME NEW t \in loaded, Start(p, "unload", "delist", t) PROVE Begins("unload", "delist", t)
    BY <2>3
  <2>4. ASSUME NEW i, Start(p, "open", "look", i) PROVE Begins("open", "look", i)
    BY <2>4
  <2>5. ASSUME Start(p, "send", "store", None) PROVE Begins("send", "store", None)
    BY <2>5 DEF Administration, Removal
  <2>6. ASSUME Start(p, "read", "show", None) PROVE Begins("read", "show", None)
    BY <2>6 DEF Administration, Removal
  <2> HIDE DEF Begins
  <2> QED BY <2>1, <2>2, <2>3, <2>4, <2>5, <2>6 DEF CallWith, Call, FileCall
<1>2. PICK o, l, x : Begins(o, l, x)
  BY <1>1
<1>3. /\ op[p] = "none" /\ op'[p] = o /\ pc'[p] = l /\ arg'[p] = x
      /\ crossed' = (crossed \/ \E q \in Proc \ {p} :
                                  \/ o \in Removal /\ Busy(q)
                                  \/ o \in Administration /\ Removes(q))
      /\ UNCHANGED <<loaded, vinput_devices, vinput_vdevices, age, vdev>>
  BY <1>2 DEF Start, Goto, Inv, Calls, lists
<1>4. Others(p)
  BY <1>2 DEF CallWith, FileCall, Point, Start, Goto, Inv, Calls, Others
<1>5. ~Busy(p)
  BY <1>3 DEF Busy, Administration, Removal
<1>6. CASE o \notin Administration
  <2>1. ~Busy(p)'
    BY <1>3, <1>6 DEF Busy
  <2> QED BY <1>3, <1>4, <1>5, <2>1, AloneAround
<1>7. CASE o \in Administration
  <2>1. /\ \A q \in Proc \ {p} : ~(o \in Removal /\ Busy(q)) /\ ~Removes(q)
        /\ Busy(p)' /\ (Removes(p)' => o \in Removal)
    BY <1>3, <1>7 DEF Busy, Removes
  <2>2. ASSUME NEW q \in Proc, q # p
        PROVE  /\ vinput'[q] = vinput[q]
               /\ Busy(q)' <=> Busy(q)
               /\ Removes(q)' <=> Removes(q)
               /\ AtWork(q)' <=> AtWork(q)
    BY <1>4, <2>2, OthersStay
  <2>3. ~AtWork(p) /\ ~AtWork(p)'
    BY <1>2, <1>3, <1>5, <1>7, WhereItIs DEF AtWork, Busy, Administration, Removal, Building, TakingAway, Inv
  <2>4. Built'
    <3> SUFFICES ASSUME NEW v \in vinput_vdevices, ~Complete(v)
                 PROVE  \E q \in Proc : AtWork(q)' /\ vinput'[q] = v
      BY <1>3 DEF Built, Complete
    <3>1. PICK q \in Proc : AtWork(q) /\ vinput[q] = v
      BY DEF Alone, Built
    <3> QED BY <2>2, <2>3, <3>1
  <2>5. OnCourse(p)'
    BY <1>2, <1>3, <1>7 DEF OnCourse, Exporting, Removing, Walking
  <2>6. ASSUME NEW q \in Proc \ {p}, Busy(q)' PROVE OnCourse(q)'
    <3>1. OnCourse(q) /\ ~Removes(q)
      BY <2>1, <2>2, <2>6 DEF Alone
    <3>2. op'[q] # "unload"
      BY <1>4, <3>1 DEF Others, Removes, Removal
    <3>3. Exporting(q)' /\ Removing(q)'
      BY <1>3, <1>4, <3>1 DEF OnCourse, Exporting, Removing, Live, Complete, Others
    <3> QED BY <3>2, <3>3 DEF OnCourse
  <2>7. /\ \A q, u \in Proc : Removes(q)' /\ Busy(u)' => q = u
        /\ \A q, u \in Proc : Busy(q)' /\ Busy(u)' => Apart(q, u)'
    <3>1. ASSUME NEW q \in Proc, NEW u \in Proc, Removes(q)', Busy(u)' PROVE q = u
      BY <2>1, <2>2, <3>1
    <3>2. ASSUME NEW q \in Proc, NEW u \in Proc, Busy(q)', Busy(u)' PROVE Apart(q, u)'
      <4>1. CASE q = p \/ u = p
        BY <2>3, <4>1 DEF Apart
      <4>2. CASE q # p /\ u # p
        BY <1>4, <2>2, <3>2, <4>2 DEF Alone, Apart, Others
      <4> QED BY <4>1, <4>2
    <3> QED BY <3>1, <3>2
  <2> QED BY <1>3, <2>4, <2>5, <2>6, <2>7 DEF Alone
<1> QED BY <1>6, <1>7

(* A step of an export touches no device but its own.                       *)
Mine(p) ==
  /\ op[p] = "export"
  /\ op'[p] \in {"export", "none"}
  /\ loaded' = loaded
  /\ \A w \in vinput_vdevices :
       (AtWork(p) /\ vinput[p] = w) \/ (w \in vinput_vdevices' /\ vdev'[w] = vdev[w])
  /\ AtWork(p)' => (AtWork(p) /\ vinput'[p] = vinput[p]) \/ vinput'[p] \notin vinput_vdevices

LEMMA OthersOnCourse ==
  ASSUME Inv, Alone, NEW p \in Proc, Busy(p), Others(p), Mine(p),
         NEW q \in Proc, q # p, Busy(q)
  PROVE  OnCourse(q)'
<1>1. op[q] = "export" /\ op'[q] = "export"
  <2>1. ~Removes(q)
    BY DEF Alone
  <2> QED BY <2>1 DEF Busy, Removes, Administration, Others
<1>2. /\ pc'[q] = pc[q] /\ vinput'[q] = vinput[q] /\ arg'[q] = arg[q]
      /\ loaded' = loaded
  BY DEF Others, Mine
<1>3. Exporting(q) /\ Removing(q)
  BY DEF Alone, OnCourse
<1>4. AtWork(q) \/ pc[q] = "announce" =>
        /\ Live(q)
        /\ vinput[q] \in vinput_vdevices' /\ vdev'[vinput[q]] = vdev[vinput[q]]
  <2> SUFFICES ASSUME AtWork(q) \/ pc[q] = "announce"
               PROVE  Live(q) /\ ~(AtWork(p) /\ vinput[p] = vinput[q])
    BY DEF Mine, Live
  <2>1. CASE AtWork(q)
    <3>1. Live(q)
      BY <1>3, <2>1 DEF AtWork, Building, TakingAway, Inv, Builders, Removing
    <3> QED BY <2>1, <3>1 DEF Alone, Apart
  <2>2. CASE pc[q] = "announce"
    <3>1. Live(q) /\ vdev[vinput[q]].input = "registered"
      BY <1>3, <2>2 DEF Exporting, Complete
    <3>2. AtWork(p) => vdev[vinput[p]].input # "registered"
      BY DEF AtWork, Inv, Builders
    <3> QED BY <3>1, <3>2
  <2> QED BY <2>1, <2>2
<1>5. pc[q] # "recheck" /\ pc[q] # "unreg"
  BY <1>1, WhereItIs DEF Inv
<1>6. Exporting(q)'
  <2>1. pc[q] \in {"init", "undo"} => AtWork(q)
    BY DEF AtWork, Building
  <2> QED BY <1>2, <1>3, <1>4, <2>1 DEF Exporting, Live, Complete
<1>7. Removing(q)'
  <2>1. pc[q] \in {"del", "release"} => AtWork(q)
    BY DEF AtWork, TakingAway
  <2> QED BY <1>2, <1>3, <1>4, <1>5, <2>1 DEF Removing, Live
<1> QED BY <1>1, <1>6, <1>7 DEF OnCourse

(* A step of an administrator, who removes and is the only one, or exports  *)
(* beside others.                                                           *)
LEMMA AloneGoesOn ==
  ASSUME Inv, Alone, NEW p \in Proc, Busy(p), Others(p), Removes(p) \/ Mine(p),
         vinput_devices' \subseteq loaded', Built', Busy(p)' => OnCourse(p)'
  PROVE  Alone'
<1>1. ASSUME NEW q \in Proc, q # p
      PROVE  /\ vinput'[q] = vinput[q]
             /\ Busy(q)' <=> Busy(q)
             /\ Removes(q)' <=> Removes(q)
             /\ AtWork(q)' <=> AtWork(q)
  BY <1>1, OthersStay
<1>2. Removes(p)' => Removes(p)
  BY DEF Mine, Removes, Removal
<1>3. \A q \in Proc : Busy(q)' => OnCourse(q)'
  <2> SUFFICES ASSUME NEW q \in Proc, q # p, Busy(q) PROVE OnCourse(q)'
    BY <1>1
  <2>1. ~Removes(p)
    BY DEF Alone
  <2> QED BY <2>1, OthersOnCourse
<1>4. \A q, u \in Proc : Removes(q)' /\ Busy(u)' => q = u
  <2> SUFFICES ASSUME NEW q \in Proc, NEW u \in Proc, Removes(q)', Busy(u)' PROVE q = u
    OBVIOUS
  <2>1. Removes(q) /\ Busy(u)
    BY <1>1, <1>2
  <2> QED BY <2>1 DEF Alone
<1>5. ASSUME NEW q \in Proc, Busy(q), q # p, Busy(p)', AtWork(p)', AtWork(q)
      PROVE  vinput'[p] # vinput[q]
  <2>1. Mine(p)
    BY <1>5 DEF Alone
  <2>2. vinput[q] \in vinput_vdevices
    BY <1>5 DEF Alone, OnCourse, AtWork, Building, TakingAway, Inv, Builders, Removing, Live
  <2> QED BY <1>5, <2>1, <2>2 DEF Alone, Apart, Mine
<1>6. \A q, u \in Proc : Busy(q)' /\ Busy(u)' => Apart(q, u)'
  <2> SUFFICES ASSUME NEW q \in Proc, NEW u \in Proc, Busy(q)', Busy(u)', q # u,
                      AtWork(q)', AtWork(u)'
               PROVE  vinput'[q] # vinput'[u]
    BY DEF Apart
  <2>1. CASE q = p \/ u = p
    BY <1>1, <1>5, <2>1
  <2>2. CASE q # p /\ u # p
    BY <1>1, <2>2 DEF Alone, Apart
  <2> QED BY <2>1, <2>2
<1> QED BY <1>3, <1>4, <1>6 DEF Alone

LEMMA BuiltButOne ==
  ASSUME Inv, Alone, NEW p \in Proc, Busy(p), Others(p), NEW v, loaded' = loaded,
         vinput_vdevices' \subseteq vinput_vdevices \cup {v},
         \A w \in vinput_vdevices' \ {v} : vdev'[w] = vdev[w] /\ ~(AtWork(p) /\ vinput[p] = w),
         v \in vinput_vdevices' => Complete(v)' \/ (AtWork(p)' /\ vinput'[p] = v)
  PROVE  Built'
<1> SUFFICES ASSUME NEW w \in vinput_vdevices'
             PROVE  Complete(w)' \/ \E q \in Proc : AtWork(q)' /\ vinput'[q] = w
  BY DEF Built
<1>1. CASE w = v
  BY <1>1
<1>2. CASE w # v
  <2>1. CASE Complete(w)
    BY <1>2, <2>1 DEF Complete
  <2>2. CASE ~Complete(w)
    <3>1. PICK q \in Proc : AtWork(q) /\ vinput[q] = w
      BY <1>2, <2>2 DEF Alone, Built
    <3>2. q # p
      BY <1>2, <3>1
    <3> QED BY <3>1, <3>2 DEF Others, AtWork
  <2> QED BY <2>1, <2>2
<1> QED BY <1>1, <1>2

LEMMA BuiltStays ==
  ASSUME Inv, Alone, NEW p \in Proc, Busy(p), Others(p), ~AtWork(p),
         UNCHANGED <<loaded, vinput_vdevices, vdev>>
  PROVE  Built'
<1>1. None \notin vinput_vdevices
  BY NoneAssumption DEF Inv, Devices, Used
<1> QED BY <1>1, BuiltButOne

(* export_store, before it builds a device and when it has ...              *)
LEMMA AloneExports ==
  ASSUME Inv, Alone, NEW p \in Proc, Busy(p), FindType(p) \/ Alloc(p) \/ Announce(p)
  PROVE  Alone'
<1>1. op[p] = "export" /\ ~AtWork(p) /\ OnCourse(p) /\ crossed' = crossed /\ loaded' = loaded
  BY WhereItIs DEF Inv, AtWork, FindType, Alloc, Announce, Building, TakingAway, Alone
<1>2. ASSUME \/ Done(p)
             \/ Continue(p, "alloc") /\ arg[p] \in vinput_devices,
             UNCHANGED <<vinput_devices, vinput_vdevices, age, vdev>>
      PROVE  Alone'
  <2>1. CASE Done(p)
    <3>1. Others(p) /\ op'[p] = "none" /\ pc'[p] = "idle"
      BY <1>1, <2>1, DoneMoves DEF Inv
    <3>2. ~Busy(p)' /\ ~AtWork(p)'
      BY <3>1 DEF Busy, Administration, Removal, AtWork, Building, TakingAway
    <3>3. Mine(p) /\ Built'
      BY <1>1, <1>2, <3>1, <3>2, BuiltStays DEF Mine
    <3>4. vinput_devices' \subseteq loaded'
      BY <1>1, <1>2 DEF Alone
    <3> QED BY <3>1, <3>2, <3>3, <3>4, AloneGoesOn
  <2>2. CASE Continue(p, "alloc") /\ arg[p] \in vinput_devices
    <3>1. /\ Others(p)
          /\ pc'[p] = "alloc" /\ op'[p] = "export" /\ arg'[p] = arg[p]
      BY <1>1, <2>2, ContinueMoves DEF Inv, Places
    <3>2. ~AtWork(p)'
      BY <3>1 DEF AtWork, Building, TakingAway
    <3>3. Mine(p) /\ Built'
      BY <1>1, <1>2, <3>1, <3>2, BuiltStays DEF Mine
    <3>4. vinput_devices' \subseteq loaded'
      BY <1>1, <1>2 DEF Alone
    <3>5. arg'[p] \in loaded'
      BY <1>2, <2>2, <3>1, <3>4
    <3>6. OnCourse(p)'
      BY <3>1, <3>5 DEF OnCourse, Exporting, Removing
    <3> QED BY <3>1, <3>3, <3>4, <3>6, AloneGoesOn
  <2> QED BY <1>2, <2>1, <2>2
<1>3. CASE FindType(p) \/ Announce(p)
  BY <1>2, <1>3 DEF FindType, Announce, lists
<1>4. CASE Alloc(p)
  <2>1. CASE Done(p) /\ UNCHANGED <<lists, vdev>>
    BY <1>2, <2>1 DEF lists
  <2>2. ASSUME NEW i \in FreeId, Unused # {},
               vinput_vdevices' = vinput_vdevices \cup {Fresh},
               vdev' = [vdev EXCEPT ![Fresh].id = i],
               Goto(p, "input"), Point(p, Fresh), UNCHANGED <<vinput_devices, op, next, arg>>
        PROVE  Alone'
    <3>1. Fresh \in Vdev /\ Fresh \notin vinput_vdevices
      BY <2>2, FreshIsUnused DEF Unused, Used, Inv, Devices
    <3>2. /\ Others(p)
          /\ op'[p] = "export" /\ pc'[p] = "input" /\ vinput'[p] = Fresh /\ arg'[p] = arg[p]
      BY <1>1, <2>2 DEF Inv, Calls, Others, Goto, Point
    <3>4. \A w \in vinput_vdevices : vdev'[w] = vdev[w]
      BY <2>2, <3>1 DEF Inv, Devices, Used
    <3>5. AtWork(p)'
      BY <3>2 DEF AtWork, Building
    <3>6. Built'
      BY <1>1, <2>2, <3>2, <3>4, <3>5, BuiltButOne
    <3>7. arg[p] \in loaded
      BY <1>1, <1>4 DEF OnCourse, Exporting, Alloc
    <3>8. OnCourse(p)'
      BY <1>1, <3>2, <3>7 DEF OnCourse, Exporting, Removing
    <3>9. Mine(p)
      BY <1>1, <2>2, <3>1, <3>2, <3>4 DEF Mine
    <3>10. vinput_devices' \subseteq loaded'
      BY <1>1, <2>2 DEF Alone
    <3> QED BY <3>2, <3>6, <3>8, <3>9, <3>10, AloneGoesOn
  <2> QED BY <1>4, <2>1, <2>2 DEF Alloc
<1> QED BY <1>3, <1>4

(* ... and while it does.                                                   *)
LEMMA AloneBuilds ==
  ASSUME Inv, Alone, NEW p \in Proc, Busy(p),
         AllocInput(p) \/ RegisterDevice(p) \/ InitDevice(p) \/ FreeInput(p)
  PROVE  Alone'
<1>0. PICK v : v = vinput[p]
  OBVIOUS
<1> DEFINE Rest == \A w \in vinput_vdevices \ {v} : w \in vinput_vdevices' /\ vdev'[w] = vdev[w]
<1>1. pc[p] \in Building /\ op[p] = "export" /\ OnCourse(p) /\ crossed' = crossed
  BY WhereItIs DEF AllocInput, RegisterDevice, InitDevice, FreeInput, Building, Inv, Alone
<1>2. v \in vinput_vdevices /\ v \in Vdev /\ vdev \in [Vdev -> Device] /\ vdev[v] \in Device
  BY <1>0, <1>1 DEF Inv, Builders, Live, Devices, Used
<1>3. UNCHANGED <<loaded, vinput_devices>>
  BY DEF AllocInput, RegisterDevice, InitDevice, FreeInput, lists
<1>4. Places("export") = {"find", "alloc", "input", "register", "init", "announce", "undo",
                          "del", "release"}
  BY DEF Places
<1>5. ASSUME Done(p) PROVE Others(p) /\ ~Busy(p)' /\ ~AtWork(p)' /\ op'[p] = "none"
  BY <1>1, <1>5, DoneMoves DEF Inv, Busy, Administration, Removal, AtWork, Building, TakingAway
<1>6. ASSUME NEW l, l \in Places("export"), Continue(p, l)
      PROVE  /\ Others(p)
             /\ pc'[p] = l /\ op'[p] = "export" /\ vinput'[p] = v /\ arg'[p] = arg[p]
  BY <1>0, <1>1, <1>6, ContinueMoves DEF Inv
<1>7. Rest
  BY <1>0, <1>2 DEF AllocInput, Delisted, RegisterDevice, InitDevice, FreeInput, SetInput,
                    RegisterInput, Forget, lists, Inv, Devices, Used
<1>8. vinput_vdevices' \subseteq vinput_vdevices
  BY DEF AllocInput, RegisterDevice, InitDevice, FreeInput, Forget, lists
<1>9. ASSUME v \in vinput_vdevices' => Complete(v)' \/ (AtWork(p)' /\ vinput'[p] = v),
             Others(p)
      PROVE  Built'
  <2>1. \A w \in vinput_vdevices' \ {v} : vdev'[w] = vdev[w] /\ ~(AtWork(p) /\ vinput[p] = w)
    BY <1>0, <1>7, <1>8
  <2>2. vinput_vdevices' \subseteq vinput_vdevices \cup {v}
    BY <1>8
  <2> QED BY <1>3, <1>9, <2>1, <2>2, BuiltButOne
<1>10. pc[p] \in {"register", "init"} => arg[p] \in loaded
  BY <1>1 DEF OnCourse, Exporting
<1>17. AtWork(p) /\ vinput_devices' \subseteq loaded'
  BY <1>1, <1>3 DEF AtWork, Alone
<1>18. ASSUME op'[p] \in {"export", "none"}, AtWork(p)' => vinput'[p] = v PROVE Mine(p)
  BY <1>0, <1>1, <1>3, <1>7, <1>17, <1>18 DEF Mine
<1> HIDE DEF Rest
<1>11. CASE Done(p) /\ (v \in vinput_vdevices' => Complete(v)')
  <2>1. Built' /\ Mine(p)
    BY <1>5, <1>9, <1>11, <1>18
  <2> QED BY <1>5, <1>11, <1>17, <2>1, AloneGoesOn
<1>12. ASSUME NEW l \in {"register", "init", "undo", "del"}, Continue(p, l),
              l \in {"register", "init"} => pc[p] \in {"input", "register"},
              l = "init" => vdev'[v].type \in loaded,
              l # "register" => vdev'[v].node = "added",
              v \in vinput_vdevices',
              l = "register" => arg[p] \in loaded
       PROVE  Alone'
  <2>1. /\ Others(p)
        /\ pc'[p] = l /\ op'[p] = "export" /\ vinput'[p] = v /\ arg'[p] = arg[p]
    BY <1>4, <1>6, <1>12
  <2>2. AtWork(p)'
    BY <2>1 DEF AtWork, Building, TakingAway
  <2>3. Built' /\ Mine(p)
    BY <1>9, <1>18, <2>1, <2>2
  <2>4. l = "init" => arg[p] \in loaded
    BY <1>1, <1>12 DEF OnCourse, Exporting
  <2>5. OnCourse(p)'
    BY <1>3, <1>12, <2>1, <2>4 DEF OnCourse, Exporting, Removing, Live
  <2> QED BY <1>17, <2>1, <2>3, <2>5, AloneGoesOn
<1>13. CASE AllocInput(p)
  <2>1. CASE Continue(p, "register") /\ UNCHANGED lists
    <3>1. arg[p] \in loaded
      BY <1>1, <1>13 DEF OnCourse, Exporting, AllocInput
    <3> QED BY <1>2, <1>12, <1>13, <2>1, <3>1 DEF AllocInput, lists
  <2>2. CASE vinput_vdevices' = vinput_vdevices \ {v} /\ Done(p)
    BY <1>11, <2>2
  <2> QED BY <1>0, <1>13, <2>1, <2>2 DEF AllocInput, Delisted
<1>14. CASE RegisterDevice(p)
  <2>1. CASE /\ vdev' = [vdev EXCEPT ![v].type = arg[p], ![v].node = "added"]
             /\ Continue(p, "init")
             /\ UNCHANGED lists
    <3>1. vdev'[v].type = arg[p] /\ vdev'[v].node = "added"
      BY <1>2, <2>1 DEF Device
    <3> QED BY <1>2, <1>10, <1>12, <1>14, <2>1, <3>1 DEF RegisterDevice, lists
  <2>2. CASE Forget(v) /\ Done(p)
    BY <1>11, <2>2 DEF Forget
  <2> QED BY <1>0, <1>14, <2>1, <2>2 DEF RegisterDevice
<1>15. CASE InitDevice(p)
  <2>1. vdev[v].type \in loaded /\ vdev[v].node = "added"
    BY <1>0, <1>1, <1>15 DEF OnCourse, Exporting, InitDevice
  <2>2. CASE SetInput(v, "registered") /\ Continue(p, "announce")
    <3>1. /\ vdev'[v].input = "registered"
          /\ vdev'[v].type = vdev[v].type
          /\ vdev'[v].node = vdev[v].node
      BY <1>2, <2>2 DEF SetInput, Device
    <3>2. Complete(v)'
      BY <1>3, <2>1, <3>1 DEF Complete
    <3>3. /\ Others(p)
          /\ pc'[p] = "announce" /\ op'[p] = "export" /\ vinput'[p] = v
      BY <1>4, <1>6, <2>2
    <3>4. v \in vinput_vdevices'
      BY <1>2, <1>15 DEF InitDevice, lists
    <3>5. Built' /\ Mine(p)
      BY <1>9, <1>18, <3>2, <3>3
    <3>6. OnCourse(p)'
      BY <3>2, <3>3, <3>4 DEF OnCourse, Exporting, Removing, Live
    <3> QED BY <1>17, <3>3, <3>5, <3>6, AloneGoesOn
  <2>3. CASE InitFailed(p) /\ UNCHANGED vdev
    BY <1>2, <1>12, <1>15, <2>1, <2>3 DEF InitFailed, InitDevice, lists
  <2> QED BY <1>0, <1>15, <2>2, <2>3 DEF InitDevice, RegisterInput
<1>16. CASE FreeInput(p)
  <2>1. vdev[v].node = "added"
    BY <1>0, <1>1, <1>16 DEF OnCourse, Exporting, FreeInput
  <2>2. vdev'[v].node = vdev[v].node
    BY <1>0, <1>2, <1>16 DEF FreeInput, SetInput, Device
  <2> QED BY <1>2, <1>12, <1>16, <2>1, <2>2 DEF FreeInput, lists
<1> QED BY <1>13, <1>14, <1>15, <1>16

(* The administrator finds the device to remove ...                         *)
LEMMA AloneFinds ==
  ASSUME Inv, Alone, NEW p \in Proc, Busy(p), Look(p) \/ Recheck(p)
  PROVE  Alone'
<1>1. op[p] = "unexport" /\ ~AtWork(p) /\ OnCourse(p) /\ crossed' = crossed /\ Removes(p)
  BY WhereItIs DEF Inv, AtWork, Look, Recheck, Building, TakingAway, Alone, Busy, Administration,
                   Removes, Removal
<1>2. UNCHANGED <<loaded, vinput_devices, vinput_vdevices, age, vdev>>
  BY DEF Look, Recheck, lists
<1>3. Others(p) => Built'
  BY <1>1, <1>2, BuiltStays
<1>6. vinput_devices' \subseteq loaded'
  BY <1>2 DEF Alone
<1>4. CASE Look(p)
  <2>1. /\ Others(p) /\ pc'[p] = "recheck" /\ op'[p] = "unexport"
        /\ vinput'[p] = IF WithId(arg[p]) = {} THEN Oldest ELSE Youngest(WithId(arg[p]))
    BY <1>1, <1>4 DEF Look, Goto, Inv, Calls, Others
  <2>2. Listed(vinput'[p])
    BY <2>1, OldestIsListed, YoungestIsListed DEF WithId, Inv
  <2>3. OnCourse(p)'
    BY <1>2, <2>1, <2>2 DEF OnCourse, Exporting, Removing, Listed, Live
  <2> QED BY <1>1, <1>3, <1>6, <2>1, <2>3, AloneGoesOn
<1>5. CASE Recheck(p)
  <2>1. CASE Done(p)
    <3>1. Others(p) /\ ~Busy(p)'
      BY <1>1, <2>1, DoneMoves DEF Inv, Busy, Administration, Removal
    <3> QED BY <1>1, <1>3, <1>6, <3>1, AloneGoesOn
  <2>2. CASE Continue(p, "unreg") /\ vinput[p] # None
    <3>1. /\ Others(p)
          /\ pc'[p] = "unreg" /\ op'[p] = "unexport" /\ vinput'[p] = vinput[p]
      BY <1>1, <2>2, ContinueMoves DEF Inv, Places
    <3>2. Live(p)
      BY <1>1, <1>5, <2>2 DEF OnCourse, Removing, Recheck
    <3>3. OnCourse(p)'
      BY <1>2, <3>1, <3>2 DEF OnCourse, Exporting, Removing, Live
    <3> QED BY <1>1, <1>3, <1>6, <3>1, <3>3, AloneGoesOn
  <2> QED BY <1>1, <1>5, <2>1, <2>2 DEF Recheck
<1> QED BY <1>4, <1>5

(* ... or walks the list, with the devices of its type ahead of it ...      *)
LEMMA WalkGoesOn ==
  ASSUME Inv, NEW p \in Proc, NEW v, Walk(p, v), op[p] = "unload",
         arg[p] \in loaded, arg[p] \notin vinput_devices,
         Listed(v), Ahead(OfType(arg[p]), v)
  PROVE  Others(p) /\ OnCourse(p)'
<1> DEFINE B == {w \in vinput_vdevices : age[w] < age[v]}
<1>1. UNCHANGED <<loaded, vinput_devices, vinput_vdevices, age, vdev>>
  BY DEF Walk, lists
<1>2. /\ Others(p)
      /\ op'[p] = "unload" /\ pc'[p] = "loop" /\ vinput'[p] = v /\ arg'[p] = arg[p]
      /\ next'[p] = NoteNext(v)
  BY DEF Walk, Goto, Point, Inv, Calls, Others
<1>3. Listed(Youngest(B)) /\ Ahead(B, Youngest(B))
  BY YoungestIsListed DEF Inv
<1>4. v # None => NoteNext(v) = Youngest(B)
  BY DEF NoteNext, Behind
<1>5. Listed(NoteNext(v))
  BY <1>3, <1>4 DEF NoteNext, Listed
<1>6. NoteNext(v) # None => v # None /\ NoteNext(v) # v
  <2> SUFFICES ASSUME NoteNext(v) # None PROVE v # None /\ NoteNext(v) # v
    OBVIOUS
  <2>1. v # None
    BY DEF NoteNext
  <2>2. B # {}
    BY <1>4, <2>1 DEF Youngest
  <2>3. Youngest(B) \in B
    BY <2>2, YoungestIsLast DEF Inv
  <2>4. v \in vinput_vdevices /\ age[v] \in Nat
    BY <2>1 DEF Listed, Inv, Devices, Used
  <2> QED BY <1>4, <2>1, <2>3, <2>4
<1>7. v # None => Ahead(B, NoteNext(v))
  BY <1>3, <1>4
<1>8. Walking(p)'
  <2> HIDE DEF B
  <2>1. Listed(v)' /\ Listed(next[p])' /\ Ahead(OfType(arg[p]), v)'
    BY <1>1, <1>2, <1>5 DEF Listed, Ahead, OfType
  <2>2. (vinput[p] # None =>
           Ahead({w \in vinput_vdevices : age[w] < age[vinput[p]]}, next[p]))'
    BY <1>1, <1>2, <1>7 DEF B, Ahead
  <2> QED BY <1>1, <1>2, <1>6, <2>1, <2>2 DEF Walking
<1>9. Exporting(p)' /\ Removing(p)'
  BY <1>2 DEF Exporting, Removing
<1> QED BY <1>2, <1>8, <1>9 DEF OnCourse

LEMMA AloneWalks ==
  ASSUME Inv, Alone, NEW p \in Proc, Busy(p), Delist(p) \/ First(p) \/ Advance(p)
  PROVE  Alone'
<1>1. op[p] = "unload" /\ ~AtWork(p) /\ OnCourse(p) /\ crossed' = crossed /\ Removes(p)
  BY WhereItIs DEF Inv, AtWork, Delist, First, Advance, Walk, Building, TakingAway, Alone,
                   Removes, Removal
<1>2. UNCHANGED <<loaded, vinput_vdevices, age, vdev>>
  BY DEF Delist, First, Advance, Walk, lists
<1>3. Others(p) => Built'
  BY <1>1, <1>2, BuiltStays
<1>4. CASE Delist(p)
  <2>1. /\ Others(p)
        /\ pc'[p] = "first" /\ op'[p] = "unload" /\ arg'[p] = arg[p]
    BY <1>1, <1>4, ContinueMoves DEF Delist, Inv, Places
  <2>2. vinput_devices' = vinput_devices \ {arg[p]}
    BY <1>4 DEF Delist, TypesWithout
  <2>3. OnCourse(p)'
    BY <1>1, <1>2, <2>1, <2>2 DEF OnCourse, Exporting, Removing, Walking
  <2>4. vinput_devices' \subseteq loaded'
    BY <1>2, <2>2 DEF Alone
  <2> QED BY <1>1, <1>3, <2>1, <2>3, <2>4, AloneGoesOn
<1>5. CASE First(p) \/ Advance(p)
  <2>1. arg[p] \in loaded /\ arg[p] \notin vinput_devices
    BY <1>1, <1>5 DEF OnCourse, Walking, First, Advance
  <2>2. Listed(Head) /\ Ahead(OfType(arg[p]), Head)
    <3>1. Listed(Head) /\ Ahead(vinput_vdevices, Head)
      BY YoungestIsListed DEF Inv, Head
    <3> QED BY <3>1 DEF Ahead, OfType
  <2>3. pc[p] = "advance" => Listed(next[p]) /\ Ahead(OfType(arg[p]), next[p])
    BY <1>1 DEF OnCourse, Walking
  <2>4. Others(p) /\ OnCourse(p)'
    BY <1>1, <1>5, <2>1, <2>2, <2>3, WalkGoesOn DEF First, Advance
  <2>5. vinput_devices' \subseteq loaded'
    BY <1>2, <1>5 DEF First, Advance, Walk, lists, Alone
  <2> QED BY <1>1, <1>3, <2>4, <2>5, AloneGoesOn
<1> QED BY <1>4, <1>5

(* ... until it is past the oldest, and no device of the type is left.      *)
LEMMA AloneLoops ==
  ASSUME Inv, Alone, NEW p \in Proc, Busy(p), LoopBody(p)
  PROVE  Alone'
<1>1. /\ op[p] = "unload" /\ pc[p] = "loop" /\ ~AtWork(p) /\ Walking(p) /\ crossed' = crossed
      /\ Removes(p)
  BY WhereItIs DEF Inv, AtWork, LoopBody, Building, TakingAway, Alone, OnCourse, Removes, Removal
<1>2. UNCHANGED <<vinput_devices, vinput_vdevices, age, vdev>>
  BY DEF LoopBody, lists
<1>3. CASE vinput[p] = None
  <2>1. Done(p) /\ loaded' = loaded \ {arg[p]}
    BY <1>3 DEF LoopBody
  <2>2. Others(p) /\ ~Busy(p)'
    BY <1>1, <2>1, DoneMoves DEF Inv, Busy, Administration, Removal
  <2>3. OfType(arg[p]) = {} /\ arg[p] \notin vinput_devices
    BY <1>1, <1>3 DEF Walking, Ahead
  <2>4. Built'
    <3> SUFFICES ASSUME NEW w \in vinput_vdevices PROVE Complete(w)'
      BY <1>2 DEF Built
    <3>1. Complete(w) /\ vdev[w].type # arg[p]
      BY <1>1, <2>3, ListIsComplete DEF OfType
    <3> QED BY <1>2, <2>1, <3>1 DEF Complete
  <2>5. vinput_devices' \subseteq loaded'
    BY <1>2, <2>1, <2>3 DEF Alone
  <2> QED BY <1>1, <2>2, <2>4, <2>5, AloneGoesOn
<1>4. CASE vinput[p] # None
  <2>1. loaded' = loaded /\ Continue(p, IF OfItsType(p) THEN "unreg" ELSE "advance")
    BY <1>4 DEF LoopBody
  <2>3. /\ Others(p)
        /\ pc'[p] = IF OfItsType(p) THEN "unreg" ELSE "advance"
        /\ UNCHANGED <<op, vinput, next, arg>>
    BY <1>1, <2>1, ContinueMoves DEF Inv, Places
  <2>2. Built' /\ vinput_devices' \subseteq loaded'
    BY <1>1, <1>2, <2>1, <2>3, BuiltStays DEF Alone
  <2>4. vinput[p] \in vinput_vdevices
    BY <1>1, <1>4 DEF Walking, Listed
  <2>5. CASE OfItsType(p)
    <3>1. Walking(p)'
      BY <1>1, <1>2, <2>1, <2>3, <2>5 DEF Walking, Listed, Ahead, OfType
    <3>2. Exporting(p)' /\ Removing(p)'
      BY <1>2, <2>3, <2>4, <2>5 DEF Exporting, Removing, Live
    <3> QED BY <1>1, <2>2, <2>3, <3>1, <3>2, AloneGoesOn DEF OnCourse
  <2>6. CASE ~OfItsType(p)
    <3>1. Ahead(OfType(arg[p]), next[p])
      <4>1. \A w \in OfType(arg[p]) : w # vinput[p] /\ w \in Used /\ age[w] <= age[vinput[p]]
        BY <1>1, <2>6 DEF Walking, Ahead, OfType, OfItsType, Inv, Devices
      <4>2. \A w \in Used : age[w] \in Nat
        BY DEF Inv, Devices, Used
      <4>3. vinput[p] \in Used
        BY <2>4 DEF Inv, Devices
      <4>4. \A w \in OfType(arg[p]) : age[w] < age[vinput[p]]
        BY <4>1, <4>2, <4>3 DEF Inv, Ages
      <4>5. Ahead({w \in vinput_vdevices : age[w] < age[vinput[p]]}, next[p])
        BY <1>1, <1>4 DEF Walking
      <4> QED BY <4>4, <4>5 DEF Ahead, OfType
    <3>2. Walking(p)'
      BY <1>1, <1>2, <2>1, <2>3, <2>6, <3>1 DEF Walking, Listed, Ahead, OfType
    <3>3. Exporting(p)' /\ Removing(p)'
      BY <2>3, <2>6 DEF Exporting, Removing
    <3> QED BY <1>1, <2>2, <2>3, <3>2, <3>3, AloneGoesOn DEF OnCourse
  <2> QED BY <2>5, <2>6
<1> QED BY <1>3, <1>4

(* The removal itself: the input device, the node, the device.              *)
LEMMA AloneRemoves ==
  ASSUME Inv, Alone, NEW p \in Proc, Busy(p),
         UnregisterInput(p) \/ DeleteNode(p) \/ Release(p)
  PROVE  Alone'
<1>0. PICK v : v = vinput[p]
  OBVIOUS
<1>1. OnCourse(p) /\ crossed' = crossed
  BY DEF UnregisterInput, DeleteNode, Release, Alone
<1>2. v \in vinput_vdevices /\ v \in Vdev /\ vdev \in [Vdev -> Device] /\ vdev[v] \in Device
  BY <1>0, <1>1 DEF UnregisterInput, DeleteNode, Release, OnCourse, Removing, Live,
                    Inv, Devices, Used
<1>3. UNCHANGED <<loaded, vinput_devices, age>>
  BY DEF UnregisterInput, DeleteNode, Release, lists
<1>4. \A w \in vinput_vdevices' \ {v} : vdev'[w] = vdev[w] /\ w \in vinput_vdevices /\ w # vinput[p]
  BY <1>0, <1>2 DEF UnregisterInput, DeleteNode, Release, SetInput, Forget, lists, Inv, Devices, Used
<1>5. vinput_vdevices' \subseteq vinput_vdevices \cup {v}
  BY DEF UnregisterInput, DeleteNode, Release, Forget, lists
<1>6. ASSUME v \in vinput_vdevices' => AtWork(p)' /\ vinput'[p] = v, Others(p) PROVE Built'
  BY <1>3, <1>4, <1>5, <1>6, BuiltButOne
<1>12. \A w \in vinput_vdevices \ {v} : w \in vinput_vdevices' /\ vdev'[w] = vdev[w]
  BY <1>0, <1>2 DEF UnregisterInput, DeleteNode, Release, SetInput, Forget, lists, Inv, Devices, Used
<1>13. vinput_devices' \subseteq loaded'
  BY <1>3 DEF Alone
<1>7. /\ pc[p] = "unreg" => op[p] \in {"unexport", "unload"}
      /\ pc[p] \in {"del", "release"} => op[p] \in {"export", "unexport", "unload"}
  BY WhereItIs DEF Inv, TakingAway, Administration, Removal
<1>14. ASSUME op'[p] \in {op[p], "none"}, AtWork(p)' => vinput'[p] = v
       PROVE  Removes(p) \/ Mine(p)
  <2> SUFFICES ASSUME ~Removes(p) PROVE Mine(p)
    OBVIOUS
  <2>1. op[p] = "export"
    BY DEF Busy, Removes, Administration, Removal
  <2>2. AtWork(p)
    BY <1>7, <2>1 DEF UnregisterInput, DeleteNode, Release, AtWork, TakingAway
  <2> QED BY <1>0, <1>3, <1>12, <1>14, <2>1, <2>2 DEF Mine
<1>8. ASSUME NEW l \in {"del", "release"}, Continue(p, l), vinput_vdevices' = vinput_vdevices,
             pc[p] \in {"unreg", "del"}, vdev'[v].type = vdev[v].type,
             l = "del" => vdev'[v].node = "added"
      PROVE  Alone'
  <2>1. l \in Places(op[p])
    BY <1>7, <1>8 DEF Places
  <2>2. Others(p) /\ pc'[p] = l /\ UNCHANGED <<op, vinput, next, arg>>
    BY <1>1, <1>8, <2>1, ContinueMoves DEF Inv
  <2>3. Built' /\ (Removes(p) \/ Mine(p))
    BY <1>0, <1>6, <1>8, <1>14, <2>2 DEF AtWork, TakingAway
  <2>4. Exporting(p)' /\ Removing(p)'
    BY <1>0, <1>2, <1>8, <2>2 DEF Exporting, Removing, Live
  <2>5. ASSUME op[p] = "unload" PROVE Walking(p)'
    <3>1. Walking(p) /\ pc[p] \in {"loop", "unreg", "del", "release"}
      BY <1>1, <1>8, <2>5 DEF OnCourse
    <3>2. \A w \in vinput_vdevices : vdev'[w].type = vdev[w].type
      BY <1>4, <1>8
    <3>3. OfType(arg[p])' = OfType(arg[p])
      BY <1>8, <2>2, <3>2 DEF OfType
    <3> QED BY <1>3, <1>8, <2>2, <3>1, <3>3 DEF Walking, Listed, Ahead
  <2> QED BY <1>13, <2>2, <2>3, <2>4, <2>5, AloneGoesOn DEF OnCourse
<1>9. CASE UnregisterInput(p)
  <2>1. Complete(v)
    <3>1. Removes(p)
      BY <1>7, <1>9 DEF UnregisterInput, Removes, Removal
    <3> QED BY <1>0, <1>2, <1>9, <3>1, ListIsComplete DEF AtWork, Building, TakingAway,
                                                          UnregisterInput
  <2>2. vdev'[v].type = vdev[v].type /\ vdev'[v].node = vdev[v].node
    BY <1>0, <1>2, <1>9 DEF UnregisterInput, SetInput, Device
  <2> QED BY <1>8, <1>9, <2>1, <2>2 DEF Complete, UnregisterInput, lists
<1>10. CASE DeleteNode(p)
  <2>1. vdev'[v].type = vdev[v].type
    BY <1>0, <1>2, <1>10 DEF DeleteNode, Device
  <2> QED BY <1>8, <1>10, <2>1 DEF DeleteNode, lists
<1>11. CASE Release(p)
  <2>1. vinput_vdevices' = vinput_vdevices \ {v} /\ vdev' = vdev
    BY <1>0, <1>11 DEF Release, Forget
  <2>2. Others(p) => Built'
    BY <1>6, <2>1
  <2>3. CASE op[p] # "unload"
    <3>1. Others(p) /\ op'[p] = "none" /\ pc'[p] = "idle"
      BY <1>1, <1>11, <2>3, DoneMoves DEF Release, Finish, Inv
    <3>2. ~Busy(p)' /\ ~AtWork(p)'
      BY <3>1 DEF Busy, Administration, Removal, AtWork, Building, TakingAway
    <3> QED BY <1>13, <1>14, <2>2, <3>1, <3>2, AloneGoesOn
  <2>4. CASE op[p] = "unload"
    <3>1. Others(p) /\ pc'[p] = "advance" /\ UNCHANGED <<op, vinput, next, arg>>
      BY <1>1, <1>11, <2>4, ContinueMoves DEF Release, Finish, Inv, Places
    <3>2. Walking(p) /\ pc[p] = "release"
      BY <1>1, <1>11, <2>4 DEF OnCourse, Release
    <3>3. v # None
      BY <1>2, NoneAssumption
    <3>4. \A w \in OfType(arg[p]) \ {v} : w \in Used /\ age[w] < age[v]
      <4>1. \A w \in Used : age[w] \in Nat
        BY DEF Inv, Devices, Used
      <4>2. \A w \in OfType(arg[p]) : age[w] <= age[v]
        BY <1>0, <3>2 DEF Walking, Ahead
      <4>3. v \in Used /\ OfType(arg[p]) \subseteq Used
        BY <1>2 DEF OfType, Inv, Devices
      <4> QED BY <4>1, <4>2, <4>3 DEF Inv, Ages
    <3>5. Ahead({w \in vinput_vdevices : age[w] < age[v]}, next[p])
      BY <1>0, <3>2, <3>3 DEF Walking
    <3>6. OfType(arg[p])' = OfType(arg[p]) \ {v}
      BY <2>1, <3>1 DEF OfType
    <3>7. Ahead(OfType(arg[p]), next[p])'
      <4>1. \A w \in OfType(arg[p]) \ {v} : w \in {u \in vinput_vdevices : age[u] < age[v]}
        BY <3>4 DEF OfType
      <4> QED BY <1>3, <3>1, <3>5, <3>6, <4>1 DEF Ahead
    <3>8. Listed(next[p])'
      BY <1>0, <2>1, <3>1, <3>2 DEF Walking, Listed
    <3>9. OnCourse(p)'
      BY <1>3, <3>1, <3>2, <3>7, <3>8 DEF OnCourse, Exporting, Removing, Walking
    <3>10. Removes(p)
      BY <2>4 DEF Removes, Removal
    <3> QED BY <1>13, <2>2, <3>1, <3>9, <3>10, AloneGoesOn
  <2> QED BY <2>3, <2>4
<1> QED BY <1>9, <1>10, <1>11

LEMMA AloneNext == Inv /\ AloneInv /\ [Next]_vars => AloneInv'
<1> SUFFICES ASSUME Inv, AloneInv, [Next]_vars, ~crossed' PROVE Alone' /\ fault' # "administrator"
  BY DEF AloneInv, ExportsOverlapSafely
<1>1. crossed \in BOOLEAN
  BY DEF Inv, Calls
<1>2. ASSUME ~crossed, UNCHANGED <<loaded, vinput_devices, vinput_vdevices, age, vdev, op, pc,
                                vinput, next, arg>>
      PROVE  Alone'
  BY <1>2 DEF AloneInv, Alone, Apart, Built, Complete, AtWork, Busy, Removes, OnCourse, Exporting,
              Removing, Live, Walking, Listed, Ahead, OfType
<1>3. CASE UNCHANGED vars
  BY <1>1, <1>2, <1>3 DEF vars, lists, locals, AloneInv, ExportsOverlapSafely
<1>4. ASSUME NEW p \in Proc, CallWith(p), fault = "none"
      PROVE  Alone' /\ fault' # "administrator"
  <2>1. fault' = fault /\ (crossed => crossed')
    BY <1>4 DEF CallWith, Call, FileCall, Start
  <2> QED BY <1>1, <1>4, <2>1, AloneBegins DEF AloneInv
<1>5. ASSUME NEW p \in Proc, Close(p) PROVE Alone' /\ fault' = fault
  BY <1>1, <1>2, <1>5 DEF Close, lists, locals
<1>6. ASSUME NEW p \in Proc, NEW t \in Type, Load(p, t) PROVE Alone' /\ fault' = fault
  <2>1. Alone
    BY <1>6 DEF Load, AloneInv
  <2>2. ~Busy(p) /\ ~Busy(p)' /\ Others(p)
    BY <1>6 DEF Load, Busy, Administration, Removal, locals, Others
  <2> QED BY <1>6, <2>1, <2>2, AloneAround DEF Load
<1>7. ASSUME NEW p \in Proc, Crash(p) PROVE Alone' /\ fault' # "administrator"
  <2>1. Alone /\ ~Busy(p)
    BY <1>7, AloneIsSound DEF Crash, AloneInv
  <2> QED BY <1>1, <1>2, <1>7, <2>1 DEF Crash, lists, locals
<1>8. ASSUME NEW p \in Proc, Step(p) PROVE Alone' /\ fault' = fault
  <2>1. UNCHANGED <<crossed, fault>>
    BY <1>8 DEF Step, Export, Remove, FindType, Alloc, AllocInput, RegisterDevice, InitDevice,
                Announce, FreeInput, Look, Recheck, UnregisterInput, DeleteNode, Release, Delist, First, Walk,
                LoopBody, Advance, Store, Report, Show
  <2>2. Alone
    BY <2>1 DEF AloneInv
  <2>3. CASE Busy(p)
    <3>1. ~(Store(p) \/ Report(p) \/ Show(p))
      BY <2>3, WhereItIs DEF Inv, Store, Report, Show, Busy, Administration, Removal
    <3> QED BY <1>8, <2>1, <2>2, <2>3, <3>1, AloneExports, AloneBuilds, AloneFinds, AloneWalks,
               AloneLoops, AloneRemoves DEF Step, Export, Remove
  <2>4. CASE ~Busy(p)
    <3>1. Look(p) \/ Recheck(p) \/ Store(p) \/ Report(p) \/ Show(p)
      <4>1. op[p] \notin Administration
        BY <2>4 DEF Busy
      <4>2. pc[p] \in {"look", "recheck", "store", "report", "show"}
        BY <4>1, WhereItIs, <1>8
           DEF Inv, Step, Export, Remove, FindType, Alloc, AllocInput, RegisterDevice, InitDevice,
               Announce, FreeInput, Look, Recheck, UnregisterInput, DeleteNode, Release, Delist, First,
               LoopBody, Advance, Store, Report, Show, Administration, Removal, TakingAway
      <4> QED BY <1>8, <4>2 DEF Step, Export, Remove, FindType, Alloc, AllocInput, RegisterDevice,
               InitDevice, Announce, FreeInput, UnregisterInput, DeleteNode, Release, Delist, First,
               LoopBody, Advance
    <3>2. UNCHANGED <<loaded, vinput_devices, vinput_vdevices, age, vdev>>
      BY <3>1 DEF Look, Recheck, Store, Report, Show, lists
    <3>3. Others(p) /\ ~Busy(p)'
      <4>1. CASE Look(p)
        BY <2>4, <4>1 DEF Look, Goto, Others, Busy, Inv, Calls
      <4>2. CASE Done(p)
        BY <2>1, <4>2, DoneMoves DEF Inv, Busy, Administration, Removal
      <4>3. CASE Store(p)
        <5>1. "report" \in Places(op[p])
          BY <4>3, WhereItIs DEF Store, Inv, Places
        <5> QED BY <2>1, <2>4, <4>3, <5>1, ContinueMoves DEF Store, Inv, Busy
      <4>4. CASE Recheck(p)
        <5>1. op[p] = "open"
          BY <2>4, <4>4, WhereItIs DEF Recheck, Inv, Busy, Administration, Removal
        <5> QED BY <4>2, <4>4, <5>1 DEF Recheck
      <4> QED BY <3>1, <4>1, <4>2, <4>3, <4>4 DEF Report, Show
    <3> QED BY <2>1, <2>2, <2>4, <3>2, <3>3, AloneAround
  <2> QED BY <2>3, <2>4
<1> QED BY <1>3, <1>4, <1>5, <1>6, <1>7, <1>8 DEF Next

LEMMA AlwaysAlone == Spec => []AloneInv
BY InvInit, AloneInit, InvNext, AloneNext, PTL DEF Spec

(* Any number of administrators, whose exports overlap as they please and   *)
(* whose removals do not, never use a device or a module that is gone,      *)
(* whatever the files that are open do, and whichever operation of an       *)
(* export fails (vinput.c:190-240, 267-323, 359-378).                       *)
THEOREM OverlappingExportsAreSafe == Spec => []ExportsOverlapSafely
<1>1. AloneInv => ExportsOverlapSafely
  BY DEF AloneInv
<1> QED BY AlwaysAlone, <1>1, PTL

(* Where removals overlap nothing, what vinput_unregister leaves on the     *)
(* list is of other types: its walk misses no device, for any number of     *)
(* devices in any order (vinput.c:369-375).                                 *)
THEOREM NothingIsLeftBehind == Spec => []UnloadedTypeIsGone
<1>1. Inv /\ AloneInv => UnloadedTypeIsGone
  <2> SUFFICES ASSUME Inv, Alone, NEW v \in vinput_vdevices, vdev[v].type \notin loaded
               PROVE  \E p \in Proc : Busy(p) /\ vinput[p] = v
    BY DEF AloneInv, UnloadedTypeIsGone
  <2>1. PICK p \in Proc : AtWork(p) /\ vinput[p] = v
    BY DEF Alone, Built, Complete
  <2>2. Busy(p)
    BY <2>1, WhereItIs DEF AtWork, Busy, Administration, Removal, Building, TakingAway, Inv
  <2> QED BY <2>1, <2>2
<1> QED BY AlwaysInv, AlwaysAlone, <1>1, PTL
-----------------------------------------------------------------------------
(* Behind the device a walk is at, its next one is older, listed or not.    *)
Descends(p) ==
  op[p] = "unload" /\ pc[p] \notin {"delist", "first"} =>
    /\ vinput[p] \in Used \cup {None}
    /\ next[p] \in Used \cup {None}
    /\ next[p] # None => vinput[p] # None /\ age[next[p]] < age[vinput[p]]

Descending == \A p \in Proc : Descends(p)

(* A device keeps its age: what one process does leaves the walks of the    *)
(* others alone.                                                            *)
LEMMA DescentGoesOn ==
  ASSUME Inv, Descending, NEW p \in Proc, Others(p),
         \A v \in Used : v \in Used' /\ age'[v] = age[v],
         Descends(p)'
  PROVE  Descending'
<1> SUFFICES ASSUME NEW q \in Proc, q # p PROVE Descends(q)'
  BY DEF Descending
<1>1. Descends(q) /\ None \notin Used
  BY NoneAssumption DEF Descending, Used
<1> QED BY <1>1 DEF Descends, Others

LEMMA SameAges ==
  ASSUME age' = age
  PROVE  Used' = Used /\ \A v \in Used : v \in Used' /\ age'[v] = age[v]
BY DEF Used, Unused

LEMMA WalkDescent ==
  ASSUME Inv, NEW p \in Proc, NEW v \in Used \cup {None}, Walk(p, v)
  PROVE  Others(p) /\ Descends(p)'
<1> DEFINE B == {w \in vinput_vdevices : age[w] < age[v]}
<1>1. /\ age' = age /\ Used' = Used
      /\ Others(p) /\ vinput'[p] = v /\ next'[p] = NoteNext(v)
  BY SameAges DEF Walk, Goto, Point, Inv, Calls, Others, lists
<1>2. ASSUME NoteNext(v) # None
      PROVE  v # None /\ NoteNext(v) \in Used /\ age[NoteNext(v)] < age[v]
  <2>1. v # None /\ NoteNext(v) = Youngest(B)
    BY <1>2 DEF NoteNext, Behind
  <2>2. B # {}
    BY <1>2, <2>1 DEF Youngest
  <2>3. Youngest(B) \in B
    BY <2>2, YoungestIsLast DEF Inv
  <2> QED BY <2>1, <2>3 DEF Inv, Devices
<1> QED BY <1>1, <1>2 DEF Descends

(* The steps of vinput_unregister and of what it shares with the others.    *)
LEMMA RemovalDescent ==
  ASSUME Inv, Descending, NEW p \in Proc, Remove(p)
  PROVE  Others(p) /\ Descends(p)'
<1>1. age' = age /\ crossed' = crossed
  BY DEF Remove, Look, Recheck, UnregisterInput, DeleteNode, Release, Delist, First, LoopBody,
         Advance, Walk, Forget, lists
<1>2. Used' = Used
  BY <1>1, SameAges
<1>3. Descends(p) /\ Calls
  BY DEF Descending, Inv
<1>4. ASSUME Done(p) PROVE Others(p) /\ Descends(p)'
  BY <1>1, <1>3, <1>4, DoneMoves DEF Descends
<1>5. ASSUME NEW l, Continue(p, l), l \in {"first", "advance", "unreg", "del", "release"},
             pc[p] \in {"delist", "first"} => l = "first"
      PROVE  Others(p) /\ Descends(p)'
  <2>1. Others(p) /\ pc'[p] = l /\ UNCHANGED <<op, vinput, next, arg>>
    BY <1>3, <1>5 DEF Calls, Continue, Goto, Others
  <2> QED BY <1>1, <1>2, <1>3, <1>5, <2>1 DEF Descends
<1>6. CASE Look(p)
  <2>1. Others(p) /\ op'[p] = op[p] /\ op[p] # "unload"
    BY <1>3, <1>6, WhereItIs DEF Look, Goto, Calls, Others
  <2> QED BY <2>1 DEF Descends
<1>7. CASE Recheck(p) \/ UnregisterInput(p) \/ DeleteNode(p) \/ Delist(p)
  BY <1>4, <1>5, <1>7 DEF Recheck, UnregisterInput, DeleteNode, Delist
<1>8. CASE Release(p) \/ LoopBody(p)
  BY <1>4, <1>5, <1>8 DEF Release, Finish, LoopBody
<1>9. CASE First(p)
  <2>1. Head \in Used \cup {None}
    BY YoungestIsListed DEF Head, Listed, Inv, Devices
  <2> QED BY <1>9, <2>1, WalkDescent DEF First
<1>10. CASE Advance(p)
  <2>1. next[p] \in Used \cup {None}
    BY <1>3, <1>10, WhereItIs DEF Advance, Descends
  <2> QED BY <1>10, <2>1, WalkDescent DEF Advance
<1> QED BY <1>6, <1>7, <1>8, <1>9, <1>10 DEF Remove

(* The other calls are in no walk when they begin or go on.                 *)
LEMMA OtherDescent ==
  ASSUME Inv, Descending, NEW p \in Proc,
         CallWith(p) \/ Export(p) \/ Store(p) \/ Report(p) \/ Show(p)
  PROVE  Others(p) /\ Descends(p)'
<1>1. Calls
  BY DEF Inv
<1>2. ASSUME CallWith(p) PROVE Others(p) /\ Descends(p)'
  <2>1. \A q \in Proc \ {p} : vinput'[q] = vinput[q]
    BY <1>1, <1>2 DEF CallWith, FileCall, Point, Calls
  <2>2. PICK o, l, x : Start(p, o, l, x) /\ (o = "unload" => l = "delist")
    BY <1>2 DEF CallWith, Call, FileCall
  <2>3. Others(p) /\ op'[p] = o /\ pc'[p] = l
    BY <1>1, <2>1, <2>2 DEF Start, Goto, Calls, Others
  <2> QED BY <2>2, <2>3 DEF Descends
<1>3. ASSUME \/ Done(p)
             \/ \E l : Goto(p, l) /\ op' = op
             , op[p] # "unload"
      PROVE  op'[p] # "unload"
  BY <1>1, <1>3 DEF Done, Calls
<1>4. ASSUME Export(p) \/ Store(p) \/ Report(p) \/ Show(p)
      PROVE  op[p] # "unload" /\ Others(p)
  BY <1>1, <1>4, WhereItIs DEF Export, FindType, Alloc, AllocInput, RegisterDevice,
     InitDevice, InitFailed, Announce, FreeInput, Store, Report, Show, Done, Continue, Goto, Point, Calls,
     Others
<1>5. ASSUME Export(p) \/ Store(p) \/ Report(p) \/ Show(p)
      PROVE  Done(p) \/ \E l : Goto(p, l) /\ op' = op
  BY <1>5 DEF Export, FindType, Alloc, AllocInput, RegisterDevice, InitDevice,
     InitFailed, Announce, FreeInput, Store, Report, Show, Continue
<1> QED BY <1>2, <1>3, <1>4, <1>5 DEF Descends

LEMMA DescendingNext == Inv /\ Descending /\ [Next]_vars => Descending'
<1> SUFFICES ASSUME Inv, Descending, [Next]_vars PROVE Descending'
  OBVIOUS
<1>1. ASSUME UNCHANGED <<age, op, pc, vinput, next>> PROVE Descending'
  BY <1>1, SameAges DEF Descending, Descends
<1>2. ASSUME NEW p \in Proc,
             CallWith(p) \/ Remove(p) \/ Store(p) \/ Report(p) \/ Show(p) \/ Export(p)
      PROVE  Descending'
  <2>1. Others(p) /\ Descends(p)'
    BY <1>2, RemovalDescent, OtherDescent
  <2>2. \A v \in Used : v \in Used' /\ age'[v] = age[v]
    <3>1. CASE Alloc(p)
      <4>1. \A v \in Used : age'[v] = age[v]
        BY <3>1, FreshIsUnused DEF Alloc, lists, Used, Inv, Devices
      <4> QED BY <4>1 DEF Used, Unused
    <3>2. CASE age' = age
      BY <3>2, SameAges
    <3>3. age' = age \/ Alloc(p)
      BY <1>2 DEF CallWith, Call, FileCall, Start, Remove, Look, Recheck, UnregisterInput,
         DeleteNode, Release, Delist, First, LoopBody, Advance, Walk, Forget, Export, FindType,
         AllocInput, RegisterDevice, InitDevice, Announce, FreeInput, Store, Report, Show, lists
    <3> QED BY <3>1, <3>2, <3>3
  <2> QED BY <2>1, <2>2, DescentGoesOn
<1>3. ASSUME NEW p \in Proc, Close(p) \/ (\E t \in Type : Load(p, t)) \/ Crash(p)
      PROVE  UNCHANGED <<age, op, pc, vinput, next>>
  BY <1>3 DEF Close, Load, Crash, lists, locals
<1>4. CASE UNCHANGED vars
  BY <1>1, <1>4 DEF vars, lists, locals
<1> QED BY <1>1, <1>2, <1>3, <1>4 DEF Next, Step

(* However the list changes around it, vinput_unregister comes from each    *)
(* device to an older one: its walk visits no device twice and none that    *)
(* was added after it began.  It is why UnloadEnds holds (vinput.c:370).    *)
THEOREM WalksDescend == Spec => WalkDescends
<1> DEFINE Down(p) ==
      vinput'[p] = None \/ (vinput[p] # None /\ age[vinput'[p]] < age[vinput[p]])
<1>1. Init => Descending
  BY DEF Init, Descending, Descends
<1>2. Inv /\ Descending /\ [Next]_vars =>
        [\A p \in Proc : pc[p] = "advance" /\ pc'[p] # "advance" => Down(p)]_vars
  <2> SUFFICES ASSUME Inv, Descending, Next, NEW p \in Proc,
                      pc[p] = "advance", pc'[p] # "advance"
               PROVE  Down(p)
    OBVIOUS
  <2>1. Advance(p)
    <3>1. PICK q \in Proc : CallWith(q) \/ Close(q) \/ (\E t \in Type : Load(q, t))
                              \/ Step(q) \/ Crash(q)
      BY DEF Next
    <3>2. ~(Close(q) \/ (\E t \in Type : Load(q, t)) \/ Crash(q))
      BY DEF Close, Load, Crash, locals
    <3>3. Others(q)
      BY <3>1, <3>2, RemovalDescent, OtherDescent DEF Step
    <3>4. q = p
      BY <3>3 DEF Others
    <3>5. op[p] = "unload"
      BY WhereItIs DEF Inv
    <3> QED
      BY <3>1, <3>2, <3>4, <3>5 DEF CallWith, Call, FileCall, Start, Step, Export, FindType, Alloc,
         AllocInput, RegisterDevice, InitDevice, Announce, FreeInput, Remove, Look, Recheck,
         UnregisterInput, DeleteNode, Release, Delist, First, LoopBody, Store, Report, Show
  <2>2. vinput'[p] = next[p] /\ Descends(p) /\ op[p] = "unload"
    BY <2>1, WhereItIs DEF Advance, Walk, Point, Descending, Inv, Calls
  <2> QED BY <2>2 DEF Descends
<1> QED BY AlwaysInv, DescendingNext, <1>1, <1>2, PTL DEF Spec, WalkDescends
=============================================================================
