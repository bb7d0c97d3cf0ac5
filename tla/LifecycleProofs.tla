-------------------------- MODULE LifecycleProofs --------------------------
(* For any table of drivers: labels that mirror the acquisitions keep the   *)
(* three promises of Careful drivers, exit functions that return everything *)
(* that of Tidy drivers, code installed last and stopped first that of      *)
(* Ordered drivers.                                                         *)
EXTENDS ModuleLifecycle, TLAPS

AllMirror == \A d \in Careful : LabelsMirror(d)

LEMMA TailOfNoRepeat ==
  ASSUME NEW S, NEW s \in Seq(S), s # <<>>, NoRepeat(s)
  PROVE  /\ Range(Tail(s)) = Range(s) \ {Head(s)}
         /\ NoRepeat(Tail(s))
         /\ Head(s) \in Range(s)
         /\ Tail(s) \in Seq(S)
<1>1. /\ DOMAIN s = 1 .. Len(s) /\ Len(s) \in Nat \ {0} /\ Head(s) = s[1]
      /\ DOMAIN Tail(s) = 1 .. Len(s) - 1
      /\ \A i \in 1 .. Len(s) - 1 : Tail(s)[i] = s[i + 1]
      /\ Tail(s) \in Seq(S)
  OBVIOUS
<1>2. Head(s) \in Range(s)
  BY <1>1 DEF Range
<1>3. NoRepeat(Tail(s))
  <2> SUFFICES ASSUME NEW i \in 1 .. Len(s) - 1, NEW j \in 1 .. Len(s) - 1,
                      Tail(s)[i] = Tail(s)[j]
               PROVE  i = j
    BY <1>1 DEF NoRepeat
  <2>1. s[i + 1] = s[j + 1] /\ i + 1 \in DOMAIN s /\ j + 1 \in DOMAIN s
    BY <1>1
  <2> QED
    BY <2>1 DEF NoRepeat
<1>4. ASSUME NEW x \in Range(Tail(s)) PROVE x \in Range(s) \ {Head(s)}
  <2>1. PICK i \in 1 .. Len(s) - 1 : x = Tail(s)[i]
    BY <1>1, <1>4 DEF Range
  <2>2. x = s[i + 1] /\ i + 1 \in DOMAIN s /\ 1 \in DOMAIN s /\ i + 1 # 1
    BY <2>1, <1>1
  <2> QED
    BY <2>2, <1>1 DEF Range, NoRepeat
<1>5. ASSUME NEW x \in Range(s) \ {Head(s)} PROVE x \in Range(Tail(s))
  <2>1. PICK i \in 1 .. Len(s) : x = s[i]
    BY <1>1, <1>5 DEF Range
  <2>2. i - 1 \in 1 .. Len(s) - 1 /\ Tail(s)[i - 1] = s[i]
    <3>1. i # 1
      BY <2>1, <1>1, <1>5
    <3>2. i - 1 \in 1 .. Len(s) - 1 /\ (i - 1) + 1 = i
      BY <3>1, <1>1
    <3> QED
      BY <3>2, <1>1
  <2> QED
    BY <2>1, <2>2, <1>1 DEF Range
<1> QED
  BY <1>1, <1>2, <1>3, <1>4, <1>5

LEMMA HeldBeforeNext ==
  ASSUME NEW d \in Drivers, NEW i \in 1 .. Len(Table[d].init)
  PROVE  /\ HeldBefore(d, i + 1)
              = (HeldBefore(d, i) \cup Table[d].init[i].get) \ Table[d].init[i].put
         /\ EverHeld(d, i + 1) = EverHeld(d, i) \cup Table[d].init[i].get
<1> DEFINE g(j) == Table[d].init[j].get
           p(j) == Table[d].init[j].put
<1>0. i \in Nat /\ i >= 1 /\ 1 .. (i + 1) - 1 = (1 .. i - 1) \cup {i}
  BY TableAssumption DEF IsRow
<1>1. EverHeld(d, i + 1) = EverHeld(d, i) \cup g(i)
  BY <1>0, Zenon DEF EverHeld
<1>2. ASSUME NEW r
      PROVE  r \in HeldBefore(d, i + 1)
               <=> /\ \E j \in (1 .. i - 1) \cup {i} :
                        r \in g(j) /\ \A k \in j .. i : r \notin p(k)
  <2>1. r \in EverHeld(d, i + 1) <=> \E j \in (1 .. i - 1) \cup {i} : r \in g(j)
    BY <1>0, Zenon DEF EverHeld
  <2>2. (i + 1) - 1 = i
    BY <1>0
  <2> QED
    BY <2>1, <2>2, <1>0, Zenon DEF HeldBefore
<1>3. ASSUME NEW r
      PROVE  r \in HeldBefore(d, i)
               <=> /\ \E j \in 1 .. i - 1 :
                        r \in g(j) /\ \A k \in j .. i - 1 : r \notin p(k)
  BY Zenon DEF HeldBefore, EverHeld
<1>4. \A j \in 1 .. i - 1 : j .. i = (j .. i - 1) \cup {i}
  BY <1>0
<1>5. i .. i = {i}
  BY <1>0
<1>6. ASSUME NEW r
      PROVE  r \in HeldBefore(d, i + 1) <=> r \in (HeldBefore(d, i) \cup g(i)) \ p(i)
  BY <1>2, <1>3, <1>4, <1>5, Zenon
<1> QED
  BY <1>1, <1>6, Zenon
-----------------------------------------------------------------------------
(* What holds of a Careful driver at each stage of its life. *)
Stages ==
  /\ errptr = {}
  /\ "release" \notin misuse
  /\ todo \in Seq(STRING)
  /\ phase = "init" => /\ held = HeldBefore(driver, step)
                       /\ NothingArmed(driver, step) => armed = {}
  /\ phase = "undo" => /\ held = Range(todo) /\ NoRepeat(todo)
                       /\ result = "neg"
                       /\ held \subseteq EverHeld(driver, step)
                       /\ NothingArmed(driver, step)
                       /\ armed = {}
  /\ phase = "refused" => held = {} /\ armed = {}
  /\ phase = "live" => held = HeldBefore(driver, Len(InitSteps) + 1)
  /\ phase = "exit" => Range(todo) \subseteq held /\ NoRepeat(todo)

IInv ==
  /\ driver \in Drivers
  /\ step \in 1 .. Len(InitSteps) + 1
  /\ driver \in Careful => Stages

LEMMA HeldAtStart ==
  ASSUME NEW d PROVE HeldBefore(d, 1) = {} /\ EverHeld(d, 1) = {}
<1>1. 1 .. 1 - 1 = {}
  OBVIOUS
<1> QED
  BY <1>1, Zenon DEF HeldBefore, EverHeld

LEMMA InitIInv == Init => IInv
<1> SUFFICES ASSUME Init PROVE IInv
  OBVIOUS
<1>1. Len(InitSteps) \in Nat
  BY TableAssumption DEF Init, IsRow, InitSteps
<1>2. <<>> \in Seq(STRING)
  OBVIOUS
<1> QED
  BY <1>1, <1>2, HeldAtStart DEF Init, IInv, Stages

LEMMA StepRecord ==
  ASSUME AllMirror, IInv, driver \in Careful
  PROVE  /\ LabelsMirror(driver)
         /\ InitSteps \in Seq(StepRecords)
         /\ Len(InitSteps) \in Nat
         /\ DOMAIN InitSteps = 1 .. Len(InitSteps)
         /\ Table[driver].exit \in Seq(STRING)
         /\ Stages
  BY TableAssumption DEF AllMirror, IInv, InitSteps, IsRow

(* A step of a driver that is not Careful. *)
LEMMA OthersStep ==
  ASSUME IInv, [Next]_vars, driver \notin Careful
  PROVE  IInv'
<1>1. driver' = driver
  BY DEF Next, vars, Acquire, FailSeen, FailUnset, FailUnseen, InitDone, Release,
         ReleaseCrashes, InitFailed, Unload, ExitDone, Run
<1>2. step' \in 1 .. Len(InitSteps) + 1
  <2>1. Len(InitSteps) \in Nat
    BY TableAssumption DEF IInv, IsRow, InitSteps
  <2>2. step' = step \/ (step' = step + 1 /\ step <= Len(InitSteps))
    BY DEF Next, vars, Acquire, AtStep, FailSeen, FailUnset, FailUnseen, InitDone,
           Release, ReleaseCrashes, InitFailed, Unload, ExitDone, Run
  <2> QED
    BY <2>1, <2>2 DEF IInv
<1> QED
  BY <1>1, <1>2 DEF IInv, InitSteps
-----------------------------------------------------------------------------
LEMMA AcquireStep ==
  ASSUME AllMirror, IInv, driver \in Careful, Acquire
  PROVE  IInv'
<1>1. /\ LabelsMirror(driver) /\ Len(InitSteps) \in Nat /\ Stages /\ driver \in Drivers
      /\ step \in 1 .. Len(InitSteps) /\ driver' = driver /\ phase = "init"
  BY StepRecord DEF Acquire, AtStep, IInv
<1>2. CASE phase' = "crashed"
  BY <1>1, <1>2 DEF Acquire, IInv, Stages, InitSteps
<1>3. CASE phase' # "crashed"
  <2>1. /\ phase' = "init" /\ step' = step + 1
        /\ held' = (held \cup InitSteps[step].get) \ InitSteps[step].put
        /\ armed' = armed \cup InitSteps[step].arm
    BY <1>1, <1>3 DEF Acquire
  <2>2. held' = HeldBefore(driver, step')
    BY <1>1, <2>1, HeldBeforeNext DEF Stages, InitSteps
  <2>3. ASSUME NothingArmed(driver, step')
        PROVE  armed' = {}
    <3>1. EverHeld(driver, step) \subseteq EverHeld(driver, step')
      BY <1>1, <2>1, HeldBeforeNext DEF InitSteps
    <3>2. /\ step \in 1 .. step' - 1
          /\ 1 .. step - 1 \subseteq 1 .. step' - 1
      BY <1>1, <2>1
    <3>3. NothingArmed(driver, step) /\ InitSteps[step].arm = {}
      BY <2>3, <3>1, <3>2 DEF NothingArmed, InitSteps
    <3> QED
      BY <1>1, <2>1, <3>3 DEF Stages
  <2>4. step' \in 1 .. Len(InitSteps) + 1
    BY <1>1, <2>1
  <2> QED
    BY <1>1, <2>1, <2>2, <2>3, <2>4 DEF Acquire, IInv, Stages, InitSteps
<1> QED
  BY <1>2, <1>3

LEMMA FailSeenStep ==
  ASSUME AllMirror, IInv, driver \in Careful, FailSeen
  PROVE  IInv'
<1>1. /\ LabelsMirror(driver) /\ InitSteps \in Seq(StepRecords) /\ Stages
      /\ Len(InitSteps) \in Nat /\ DOMAIN InitSteps = 1 .. Len(InitSteps)
      /\ step \in 1 .. Len(InitSteps) /\ phase = "init"
  BY StepRecord DEF FailSeen, AtStep, IInv
<1>2. /\ InitSteps[step].fails = "checked" /\ InitSteps[step].result = "neg"
      /\ Range(InitSteps[step].undo) = HeldBefore(driver, step)
      /\ NoRepeat(InitSteps[step].undo) /\ NothingArmed(driver, step)
  BY <1>1 DEF FailSeen, LabelsMirror, InitSteps
<1>3. InitSteps[step].undo \in Seq(STRING)
  <2>1. InitSteps[step] \in StepRecords
    BY <1>1
  <2> QED
    BY <2>1 DEF StepRecords
<1>4. /\ todo' = InitSteps[step].undo /\ result' = "neg" /\ phase' = "undo"
      /\ UNCHANGED <<driver, step, held, errptr, armed, misuse>>
  BY <1>2 DEF FailSeen
<1>5. /\ held = HeldBefore(driver, step)
      /\ held \subseteq EverHeld(driver, step)
      /\ armed = {}
  BY <1>1, <1>2 DEF Stages, HeldBefore
<1>6. Stages'
  <2>1. NothingArmed(driver, step)' /\ held' \subseteq EverHeld(driver, step)'
    BY <1>2, <1>4, <1>5 DEF NothingArmed, EverHeld
  <2> QED
    BY <1>1, <1>2, <1>3, <1>4, <1>5, <2>1 DEF Stages
<1> QED
  BY <1>4, <1>6 DEF IInv, InitSteps

LEMMA NoOtherFailure ==
  ASSUME AllMirror, IInv, driver \in Careful
  PROVE  ~FailUnset /\ ~FailUnseen /\ ~ReleaseCrashes
<1>1. AtStep => /\ InitSteps[step].fails # "unseen" /\ InitSteps[step].result # "unset"
  BY StepRecord DEF AtStep, IInv, LabelsMirror, InitSteps
<1>2. ~ReleaseCrashes
  BY StepRecord DEF Stages, ReleaseCrashes
<1> QED
  BY <1>1, <1>2 DEF FailUnset, FailUnseen

LEMMA ReleaseStep ==
  ASSUME AllMirror, IInv, driver \in Careful, Release
  PROVE  IInv'
<1>1. Stages /\ todo # <<>> /\ todo \in Seq(STRING) /\ NoRepeat(todo)
      /\ phase \in {"undo", "exit"}
      /\ UNCHANGED <<driver, phase, step, result>>
      /\ todo' = Tail(todo) /\ held' = held \ {Head(todo)}
      /\ errptr' = errptr \ {Head(todo)}
  BY StepRecord DEF Release, Stages
<1>2. /\ Range(todo') = Range(todo) \ {Head(todo)} /\ NoRepeat(todo')
      /\ Head(todo) \in Range(todo) /\ todo' \in Seq(STRING)
  BY <1>1, TailOfNoRepeat
<1>3. Head(todo) \in held /\ misuse' = misuse
  BY <1>1, <1>2 DEF Release, Stages
<1>4. armed = {} => armed' = {}
  BY DEF Release
<1> QED
  BY <1>1, <1>2, <1>3, <1>4 DEF IInv, Stages, InitSteps, EverHeld, HeldBefore, NothingArmed

LEMMA PhaseSteps ==
  ASSUME AllMirror, IInv, driver \in Careful,
         InitDone \/ InitFailed \/ Unload \/ ExitDone
  PROVE  IInv'
<1>1. /\ LabelsMirror(driver) /\ Stages /\ Len(InitSteps) \in Nat
      /\ Table[driver].exit \in Seq(STRING)
      /\ UNCHANGED <<driver, step, held, errptr, armed, misuse, result>>
      /\ step \in 1 .. Len(InitSteps) + 1
  BY StepRecord DEF InitDone, InitFailed, Unload, ExitDone, IInv
<1>2. CASE InitDone
  <2>1. step = Len(InitSteps) + 1
    BY <1>1, <1>2 DEF InitDone
  <2> QED
    BY <1>1, <1>2, <2>1 DEF InitDone, IInv, Stages, InitSteps
<1>3. CASE InitFailed
  <2>1. Range(<<>>) = {}
    BY DEF Range
  <2> QED
    BY <1>1, <1>3, <2>1 DEF InitFailed, IInv, Stages, InitSteps
<1>4. CASE Unload
  BY <1>1, <1>4 DEF Unload, IInv, Stages, InitSteps, LabelsMirror
<1>5. CASE ExitDone
  BY <1>1, <1>5 DEF ExitDone, IInv, Stages, InitSteps
<1> QED
  BY <1>2, <1>3, <1>4, <1>5

(* While nothing can have been armed no code that runs arms anything. *)
LEMMA RunStep ==
  ASSUME AllMirror, IInv, driver \in Careful, NEW c \in Code, Run(c)
  PROVE  IInv'
<1>1. /\ Stages /\ MayRun(c) /\ phase \notin {"refused", "crashed"}
      /\ UNCHANGED <<driver, phase, step, todo, result, held, errptr>>
      /\ misuse' \in {misuse, misuse \cup {"handler"}}
      /\ armed' = (armed \ {c}) \cup (Table[driver].uses[c] \cap Deferred)
  BY StepRecord DEF Run
<1>2. ASSUME armed = {}, NothingArmed(driver, step), held \subseteq EverHeld(driver, step)
      PROVE  armed' = {}
  <2>1. c \in held
    BY <1>1, <1>2 DEF MayRun
  <2> QED
    BY <1>1, <1>2, <2>1 DEF NothingArmed, Code
<1>3. HeldBefore(driver, step) \subseteq EverHeld(driver, step)
  BY DEF HeldBefore
<1> QED
  BY <1>1, <1>2, <1>3 DEF IInv, Stages, InitSteps, EverHeld, HeldBefore, NothingArmed

LEMMA NextIInv ==
  ASSUME AllMirror, IInv, [Next]_vars
  PROVE  IInv'
<1>1. CASE driver \notin Careful
  BY <1>1, OthersStep
<1>2. CASE driver \in Careful /\ Next
  BY <1>2, AcquireStep, FailSeenStep, NoOtherFailure, ReleaseStep, PhaseSteps, RunStep
     DEF Next
<1>3. CASE UNCHANGED vars
  BY <1>3 DEF vars, IInv, Stages, InitSteps, EverHeld, HeldBefore, NothingArmed
<1> QED
  BY <1>1, <1>2, <1>3

LEMMA Inductive ==
  ASSUME AllMirror
  PROVE  Spec => []IInv
<1>1. AllMirror
  OBVIOUS
<1> QED
  BY InitIInv, NextIInv, PTL DEF Spec
-----------------------------------------------------------------------------
(* If the labels of every Careful driver mirror its acquisitions, a load    *)
(* that fails at any step leaves nothing of it in the kernel.               *)
THEOREM RefusedLoadsAreUndone ==
  ASSUME AllMirror
  PROVE  Spec => []RefusedHoldsNothing
<1>1. IInv => RefusedHoldsNothing
  BY DEF IInv, Stages, RefusedHoldsNothing
<1> QED
  BY <1>1, Inductive, PTL

(* ... neither its labels nor its exit function release what it does not    *)
(* hold ...                                                                 *)
THEOREM ReleasesAreOwned ==
  ASSUME AllMirror
  PROVE  Spec => []ReleasesWhatIsHeld
<1>1. IInv => ReleasesWhatIsHeld
  BY DEF IInv, Stages, ReleasesWhatIsHeld
<1> QED
  BY <1>1, Inductive, PTL

(* ... and a module that stays is complete. *)
THEOREM LiveModulesAreComplete ==
  ASSUME AllMirror
  PROVE  Spec => []LiveHoldsAll
<1>1. IInv => LiveHoldsAll
  BY DEF IInv, Stages, LiveHoldsAll
<1> QED
  BY <1>1, Inductive, PTL
-----------------------------------------------------------------------------
(* What a longer prefix of init adds to the bounds on what a module holds   *)
(* and has pending.                                                         *)
LEMMA SureBeforeNext ==
  ASSUME NEW d \in Drivers, NEW i \in 1 .. Len(Table[d].init),
         NEW r \in SureBefore(d, i + 1)
  PROVE  /\ r \notin Table[d].init[i].put
         /\ \/ r \in SureBefore(d, i)
            \/ r \in Table[d].init[i].get /\ Table[d].init[i].fails # "unseen"
<1>0. /\ i \in Nat /\ i >= 1 /\ (i + 1) - 1 = i
      /\ 1 .. i = (1 .. i - 1) \cup {i}
      /\ \A j \in 1 .. i - 1 : j .. i = (j .. i - 1) \cup {i}
      /\ i .. i = {i}
  BY TableAssumption DEF IsRow
<1>1. PICK j \in 1 .. i : /\ r \in Table[d].init[j].get
                          /\ Table[d].init[j].fails # "unseen"
                          /\ \A k \in j .. i : r \notin Table[d].init[k].put
  BY <1>0, Zenon DEF SureBefore
<1>2. i \in j .. i
  BY <1>0
<1>3. CASE j = i
  BY <1>1, <1>2, <1>3, Zenon
<1>4. CASE j \in 1 .. i - 1
  <2>1. r \in EverHeld(d, i)
    BY <1>1, <1>4, Zenon DEF EverHeld
  <2>2. \A k \in j .. i - 1 : r \notin Table[d].init[k].put
    BY <1>0, <1>1, <1>4
  <2>3. r \in SureBefore(d, i)
    <3>1. \E m \in 1 .. i - 1 : /\ r \in Table[d].init[m].get
                              /\ Table[d].init[m].fails # "unseen"
                              /\ \A k \in m .. i - 1 : r \notin Table[d].init[k].put
      BY <1>1, <1>4, <2>2
    <3> QED BY <2>1, <3>1, Zenon DEF SureBefore
  <2> QED BY <1>1, <1>2, <2>3
<1> QED BY <1>0, <1>3, <1>4

LEMMA ArmedGrows ==
  ASSUME NEW d \in Drivers, NEW i \in 1 .. Len(Table[d].init) + 1,
         NEW n \in i .. Len(Table[d].init) + 1
  PROVE  EverHeld(d, i) \subseteq EverHeld(d, n) /\ MayBeArmed(d, i) \subseteq MayBeArmed(d, n)
<1>1. 1 .. i - 1 \subseteq 1 .. n - 1
  BY TableAssumption DEF IsRow
<1>2. /\ EverHeld(d, i) \subseteq EverHeld(d, n)
      /\ StartedByInit(d, i) \subseteq StartedByInit(d, n)
  BY <1>1, Zenon DEF EverHeld, StartedByInit
<1> QED BY <1>2, Zenon DEF MayBeArmed

LEMMA ArmedByStep ==
  ASSUME NEW d \in Drivers, NEW i \in 1 .. Len(Table[d].init)
  PROVE  Table[d].init[i].arm \subseteq MayBeArmed(d, i + 1)
<1>1. i \in 1 .. (i + 1) - 1
  BY TableAssumption DEF IsRow
<1> QED BY <1>1, Zenon DEF MayBeArmed, StartedByInit

(* Code that runs starts nothing that is not counted already.               *)
LEMMA ArmedByCode ==
  ASSUME NEW d, NEW i, StartsAreClosed(d), NEW c \in DOMAIN Table[d].uses,
         c \in MayBeArmed(d, i) \cup EverHeld(d, i)
  PROVE  Starts(d, c) \subseteq MayBeArmed(d, i)
<1>1. CASE c \in EverHeld(d, i) \cup StartedByInit(d, i)
  BY <1>1, Zenon DEF MayBeArmed
<1>2. CASE \E b \in EverHeld(d, i) \cup StartedByInit(d, i) : c \in Starts(d, b)
  <2>1. PICK b \in EverHeld(d, i) \cup StartedByInit(d, i) : c \in Starts(d, b)
    BY <1>2
  <2>2. b \in DOMAIN Table[d].uses
    BY <2>1, Zenon DEF Starts
  <2>3. Starts(d, c) \subseteq Starts(d, b)
    BY <2>1, <2>2, Zenon DEF StartsAreClosed
  <2> QED BY <2>1, <2>3, Zenon DEF MayBeArmed
<1> QED BY <1>1, <1>2, Zenon DEF MayBeArmed

LEMMA ClosedUses ==
  ASSUME NEW d, UsesAreClosed(d)
  PROVE  StartsAreClosed(d)
BY Zenon DEF UsesAreClosed, StartsAreClosed, Starts

(* One release taken off a sequence of them.                                *)
LEMMA TailOfReleases ==
  ASSUME NEW s \in Seq(STRING), s # <<>>
  PROVE  /\ Tail(s) \in Seq(STRING)
         /\ Head(s) \in Range(s)
         /\ Range(Tail(s)) \subseteq Range(s)
         /\ Range(s) \subseteq {Head(s)} \cup Range(Tail(s))
         /\ Head(s) = s[1] /\ 1 \in DOMAIN s
         /\ DOMAIN Tail(s) = 1 .. Len(s) - 1 /\ DOMAIN s = 1 .. Len(s)
         /\ Len(Tail(s)) = Len(s) - 1 /\ Len(s) \in Nat \ {0}
         /\ \A k \in 1 .. Len(s) - 1 : Tail(s)[k] = s[k + 1] /\ k + 1 \in DOMAIN s
<1>1. /\ DOMAIN s = 1 .. Len(s) /\ Len(s) \in Nat \ {0} /\ Head(s) = s[1]
      /\ DOMAIN Tail(s) = 1 .. Len(s) - 1
      /\ \A i \in 1 .. Len(s) - 1 : Tail(s)[i] = s[i + 1]
      /\ Tail(s) \in Seq(STRING) /\ Len(Tail(s)) = Len(s) - 1
  OBVIOUS
<1>2. \A k \in 1 .. Len(s) - 1 : k + 1 \in DOMAIN s
  BY <1>1
<1>3. Head(s) \in Range(s)
  BY <1>1 DEF Range
<1>4. ASSUME NEW x \in Range(Tail(s)) PROVE x \in Range(s)
  <2>1. PICK k \in 1 .. Len(s) - 1 : x = Tail(s)[k]
    BY <1>1, <1>4, Zenon DEF Range
  <2>2. x = s[k + 1] /\ k + 1 \in DOMAIN s
    BY <1>1, <1>2, <2>1
  <2> QED BY <2>2, Zenon DEF Range
<1>5. ASSUME NEW x \in Range(s), x # Head(s) PROVE x \in Range(Tail(s))
  <2>1. PICK i \in 1 .. Len(s) : x = s[i]
    BY <1>1, Zenon DEF Range
  <2>2. i # 1
    BY <2>1, <1>1, <1>5
  <2>3. i - 1 \in 1 .. Len(s) - 1 /\ (i - 1) + 1 = i
    BY <2>2, <1>1
  <2>4. Tail(s)[i - 1] = x
    BY <2>1, <2>3, <1>1
  <2> QED BY <2>3, <2>4, <1>1, Zenon DEF Range
<1> QED BY <1>1, <1>2, <1>3, <1>4, <1>5

(* Code that is not the next to be stopped loses nothing it touches.        *)
LEMMA TailStopsFirst ==
  ASSUME NEW d, NEW s \in Seq(STRING), s # <<>>, NEW c, StopsFirst(d, c, s),
         c # Head(s)
  PROVE  StopsFirst(d, c, Tail(s)) /\ Head(s) \notin Table[d].uses[c]
<1>1. Head(s) \notin Table[d].uses[c]
  <2> SUFFICES ASSUME Head(s) \in Table[d].uses[c] PROVE FALSE
    OBVIOUS
  <2>1. PICK j \in 1 .. 1 : s[j] = c
    BY TailOfReleases DEF StopsFirst
  <2> QED BY <2>1, TailOfReleases
<1>2. ASSUME NEW k \in 1 .. Len(s) - 1, Tail(s)[k] \in Table[d].uses[c]
      PROVE  \E j \in 1 .. k : Tail(s)[j] = c
  <2>1. s[k + 1] \in Table[d].uses[c] /\ k + 1 \in DOMAIN s
    BY <1>2, TailOfReleases
  <2>2. PICK j \in 1 .. k + 1 : s[j] = c
    BY <2>1 DEF StopsFirst
  <2>3. j # 1
    BY <2>2, TailOfReleases
  <2>4. j - 1 \in 1 .. k /\ j - 1 \in 1 .. Len(s) - 1 /\ (j - 1) + 1 = j
    BY <2>3, TailOfReleases
  <2>5. Tail(s)[j - 1] = c
    BY <2>2, <2>4, TailOfReleases
  <2> QED BY <2>4, <2>5
<1> QED BY <1>1, <1>2, TailOfReleases DEF StopsFirst

LEMMA TailStartsBehind ==
  ASSUME NEW d, NEW s \in Seq(STRING), s # <<>>, StartsBehind(d, s)
  PROVE  StartsBehind(d, Tail(s))
<1> SUFFICES ASSUME NEW k \in 1 .. Len(s) - 1, Tail(s)[k] # "cdev",
                    NEW a \in Starts(d, Tail(s)[k])
             PROVE  \E j \in k .. Len(s) - 1 : Tail(s)[j] = a
  <2>1. DOMAIN Tail(s) = 1 .. Len(s) - 1 /\ Len(Tail(s)) = Len(s) - 1
    BY TailOfReleases
  <2> QED BY <2>1, Zenon DEF StartsBehind
<1>1. k + 1 \in DOMAIN s /\ s[k + 1] # "cdev" /\ a \in Starts(d, s[k + 1])
  BY TailOfReleases
<1>2. PICK j \in k + 1 .. Len(s) : s[j] = a
  BY <1>1 DEF StartsBehind
<1>3. j - 1 \in k .. Len(s) - 1 /\ j - 1 \in 1 .. Len(s) - 1 /\ (j - 1) + 1 = j
  BY TailOfReleases
<1>4. Tail(s)[j - 1] = a
  BY <1>2, <1>3, TailOfReleases
<1> QED BY <1>3, <1>4

LEMMA StartsAreNamed ==
  ASSUME NEW d, NEW s \in Seq(STRING), StartsBehind(d, s), NEW c \in Range(s), c # "cdev"
  PROVE  Starts(d, c) \subseteq Range(s)
<1>1. PICK k \in DOMAIN s : s[k] = c
  BY Zenon DEF Range
<1>2. ASSUME NEW a \in Starts(d, c) PROVE a \in Range(s)
  <2>1. PICK j \in k .. Len(s) : s[j] = a
    BY <1>1, Zenon DEF StartsBehind
  <2>2. j \in DOMAIN s
    BY <1>1
  <2> QED BY <2>1, <2>2, Zenon DEF Range
<1> QED BY <1>2
-----------------------------------------------------------------------------
(* What bounds the resources and the pending code of any driver.            *)
Bounds ==
  /\ held \subseteq EverHeld(driver, Len(InitSteps) + 1)
  /\ armed \subseteq MayBeArmed(driver, Len(InitSteps) + 1)
  /\ phase = "init" => armed \subseteq MayBeArmed(driver, step)

Basics ==
  /\ driver \in Drivers
  /\ phase \in {"init", "undo", "live", "exit", "refused", "gone", "crashed"}
  /\ step \in 1 .. Len(InitSteps) + 1
  /\ todo \in Seq(STRING)
  /\ phase = "init" => held \subseteq HeldBefore(driver, step)
  /\ StartsAreClosed(driver) => Bounds

LEMMA BasicsInit == Init => Basics
<1> SUFFICES ASSUME Init PROVE Basics
  OBVIOUS
<1>1. Len(InitSteps) \in Nat
  BY TableAssumption DEF Init, IsRow, InitSteps
<1>2. <<>> \in Seq(STRING) /\ 1 \in 1 .. Len(InitSteps) + 1
  BY <1>1
<1> QED BY <1>2 DEF Init, Basics, Bounds

(* The row of the driver, as far as the steps below need it.                *)
LEMMA RowFacts ==
  ASSUME Basics
  PROVE  /\ driver \in Drivers /\ InitSteps = Table[driver].init
         /\ Len(InitSteps) \in Nat /\ DOMAIN InitSteps = 1 .. Len(InitSteps)
         /\ Table[driver].exit \in Seq(STRING)
         /\ \A i \in 1 .. Len(InitSteps) :
              /\ InitSteps[i].undo \in Seq(STRING)
              /\ InitSteps[i].fails = "unseen" => InitSteps[i].put = {}
<1>1. /\ driver \in Drivers /\ InitSteps = Table[driver].init
      /\ InitSteps \in Seq(StepRecords) /\ Table[driver].exit \in Seq(STRING)
      /\ \A i \in DOMAIN InitSteps : InitSteps[i].fails = "unseen" => InitSteps[i].put = {}
  BY TableAssumption DEF Basics, InitSteps, IsRow
<1>2. Len(InitSteps) \in Nat /\ DOMAIN InitSteps = 1 .. Len(InitSteps)
  BY <1>1
<1>3. ASSUME NEW i \in 1 .. Len(InitSteps) PROVE InitSteps[i].undo \in Seq(STRING)
  <2>1. InitSteps[i] \in StepRecords
    BY <1>1, <1>2
  <2> QED BY <2>1 DEF StepRecords
<1> QED BY <1>1, <1>2, <1>3

(* A step of init that goes on, its failure seen or not.                    *)
LEMMA AdvanceBasics ==
  ASSUME Basics, phase = "init", step <= Len(InitSteps), phase' = "init",
         step' = step + 1, driver' = driver, todo' = todo,
         \/ /\ held' = (held \cup InitSteps[step].get) \ InitSteps[step].put
            /\ armed' = armed \cup InitSteps[step].arm
         \/ /\ InitSteps[step].fails = "unseen"
            /\ held' = held /\ armed' = armed
  PROVE  Basics'
<1>0. /\ driver \in Drivers /\ InitSteps = Table[driver].init
      /\ Len(InitSteps) \in Nat /\ step \in 1 .. Len(InitSteps)
      /\ step + 1 \in 1 .. Len(InitSteps) + 1
      /\ step \in 1 .. Len(InitSteps) + 1
      /\ Len(InitSteps) + 1 \in step + 1 .. Len(InitSteps) + 1
      /\ step + 1 \in step .. Len(InitSteps) + 1
      /\ InitSteps[step].fails = "unseen" => InitSteps[step].put = {}
  BY RowFacts DEF Basics
<1>1. held' \subseteq HeldBefore(driver, step + 1)
  BY <1>0, HeldBeforeNext DEF Basics
<1>2. HeldBefore(driver, step + 1) \subseteq EverHeld(driver, Len(InitSteps) + 1)
  <2>1. EverHeld(driver, step + 1) \subseteq EverHeld(driver, Len(InitSteps) + 1)
    BY <1>0, ArmedGrows
  <2> QED BY <2>1 DEF HeldBefore
<1>3. ASSUME StartsAreClosed(driver)
      PROVE  /\ armed' \subseteq MayBeArmed(driver, step + 1)
             /\ MayBeArmed(driver, step + 1) \subseteq MayBeArmed(driver, Len(InitSteps) + 1)
  <2>1. MayBeArmed(driver, step) \subseteq MayBeArmed(driver, step + 1)
    BY <1>0, ArmedGrows
  <2>2. InitSteps[step].arm \subseteq MayBeArmed(driver, step + 1)
    BY <1>0, ArmedByStep
  <2>3. MayBeArmed(driver, step + 1) \subseteq MayBeArmed(driver, Len(InitSteps) + 1)
    BY <1>0, ArmedGrows
  <2> QED BY <1>3, <2>1, <2>2, <2>3 DEF Basics, Bounds
<1> QED BY <1>0, <1>1, <1>2, <1>3 DEF Basics, Bounds, InitSteps

(* Code that runs: what it has pending afterwards.                          *)
LEMMA RunBasics ==
  ASSUME Basics, NEW c \in Code, Run(c)
  PROVE  Basics'
<1>1. /\ UNCHANGED <<driver, phase, step, todo, result, held, errptr>>
      /\ armed' = (armed \ {c}) \cup Starts(driver, c)
      /\ c \in armed \cup held
  BY DEF Run, MayRun, Starts, Code
<1>2. ASSUME StartsAreClosed(driver) PROVE Bounds'
  <2>1. armed' \subseteq MayBeArmed(driver, Len(InitSteps) + 1)
    BY <1>1, <1>2, ArmedByCode DEF Basics, Bounds, Code
  <2>2. ASSUME phase = "init" PROVE armed' \subseteq MayBeArmed(driver, step)
    <3>1. HeldBefore(driver, step) \subseteq EverHeld(driver, step)
      BY DEF HeldBefore
    <3> QED BY <1>1, <1>2, <2>2, <3>1, ArmedByCode DEF Basics, Bounds, Code
  <2> QED BY <1>1, <1>2, <2>1, <2>2 DEF Basics, Bounds, InitSteps
<1> QED BY <1>1, <1>2 DEF Basics, InitSteps

LEMMA BasicsNext ==
  ASSUME Basics, [Next]_vars
  PROVE  Basics'
<1> USE RowFacts
<1>1. CASE Acquire
  <2>1. CASE phase' = "crashed"
    BY <1>1, <2>1 DEF Acquire, AtStep, Basics, Bounds, InitSteps
  <2>2. CASE phase' # "crashed"
    BY <1>1, <2>2, AdvanceBasics DEF Acquire, AtStep
  <2> QED BY <2>1, <2>2
<1>2. CASE FailSeen
  BY <1>2 DEF FailSeen, AtStep, Basics, Bounds, InitSteps
<1>3. CASE FailUnseen
  BY <1>3, AdvanceBasics DEF FailUnseen, AtStep
<1>4. CASE FailUnset \/ InitDone \/ ReleaseCrashes \/ InitFailed \/ Unload \/ ExitDone
  BY <1>4 DEF FailUnset, InitDone, ReleaseCrashes, InitFailed, Unload, ExitDone, AtStep,
              Basics, Bounds, InitSteps
<1>5. CASE Release
  <2>1. todo' \in Seq(STRING) /\ held' \subseteq held /\ armed' \subseteq armed
        /\ UNCHANGED <<driver, phase, step>> /\ phase # "init"
    BY <1>5, TailOfReleases DEF Release, Basics
  <2> QED BY <2>1 DEF Basics, Bounds, InitSteps
<1>6. CASE \E c \in Code : Run(c)
  BY <1>6, RunBasics
<1>7. CASE UNCHANGED vars
  BY <1>7 DEF vars, Basics, Bounds, InitSteps
<1> QED BY <1>1, <1>2, <1>3, <1>4, <1>5, <1>6, <1>7 DEF Next
-----------------------------------------------------------------------------
(* What holds of a Tidy driver at each stage of its life.                   *)
TidyStages ==
  /\ phase = "undo" /\ result # "neg" => held \subseteq Range(Table[driver].exit)
  /\ phase = "live" => held \subseteq Range(Table[driver].exit)
  /\ phase = "exit" => /\ held \cup armed \subseteq Range(todo)
                       /\ Range(todo) \cap NotWaitedFor = {}
                       /\ StartsBehind(driver, todo)
  /\ phase = "gone" => held = {} /\ armed = {}

AllReturned == \A d \in Tidy : ExitReturnsAll(d)

TidyInv == Basics /\ (driver \in Tidy => TidyStages)

LEMMA TidyInit == Init => TidyInv
BY BasicsInit DEF Init, TidyInv, TidyStages

LEMMA TidyRow ==
  ASSUME AllReturned, TidyInv, driver \in Tidy
  PROVE  /\ Basics /\ Bounds /\ TidyStages
         /\ StartsAreClosed(driver) /\ StartsBehind(driver, Table[driver].exit)
         /\ HeldBefore(driver, Len(InitSteps) + 1) \subseteq Range(Table[driver].exit)
         /\ \A i \in 1 .. Len(InitSteps) : InitSteps[i].result # "neg"
              => HeldBefore(driver, i) \subseteq Range(Table[driver].exit)
         /\ MayBeArmed(driver, Len(InitSteps) + 1) \subseteq Range(Table[driver].exit)
         /\ Range(Table[driver].exit) \cap NotWaitedFor = {}
<1>1. Basics
  BY DEF TidyInv
<1>2. InitSteps = Table[driver].init /\ DOMAIN InitSteps = 1 .. Len(InitSteps)
  BY <1>1, RowFacts
<1>3. ExitReturnsAll(driver)
  BY DEF AllReturned
<1> QED BY <1>1, <1>2, <1>3 DEF ExitReturnsAll, TidyInv, Basics

(* A release of my_exit: what is left is still named by what is to come.    *)
LEMMA TidyRelease ==
  ASSUME AllReturned, TidyInv, driver \in Tidy, Release
  PROVE  TidyStages'
<1>1. /\ Basics /\ TidyStages /\ todo \in Seq(STRING) /\ todo # <<>>
      /\ phase \in {"undo", "exit"} /\ UNCHANGED <<driver, phase, step, result>>
      /\ todo' = Tail(todo) /\ held' = held \ {Head(todo)}
      /\ Head(todo) \in NotWaitedFor \/ armed' = armed \ {Head(todo)}
  BY TidyRow DEF Release, Basics
<1>2. CASE phase = "undo"
  BY <1>1, <1>2 DEF TidyStages
<1>3. CASE phase = "exit"
  <2>1. Head(todo) \notin NotWaitedFor
    BY <1>1, <1>3, TailOfReleases DEF TidyStages
  <2>2. held' \cup armed' \subseteq Range(todo')
    BY <1>1, <1>3, <2>1, TailOfReleases DEF TidyStages
  <2>3. Range(todo') \cap NotWaitedFor = {}
    BY <1>1, <1>3, TailOfReleases DEF TidyStages
  <2>4. StartsBehind(driver, todo')
    BY <1>1, <1>3, TailStartsBehind DEF TidyStages
  <2> QED BY <1>1, <1>3, <2>2, <2>3, <2>4 DEF TidyStages
<1> QED BY <1>1, <1>2, <1>3

(* Code that runs during my_exit starts only what is still to be stopped.   *)
LEMMA TidyRun ==
  ASSUME AllReturned, TidyInv, driver \in Tidy, NEW c \in Code, Run(c)
  PROVE  TidyStages'
<1>1. /\ TidyStages /\ MayRun(c)
      /\ UNCHANGED <<driver, phase, step, todo, result, held, errptr>>
      /\ armed' = (armed \ {c}) \cup Starts(driver, c)
  BY TidyRow DEF Run, Starts, Code
<1>2. CASE phase = "exit"
  <2>1. c \in Range(todo) /\ c # "cdev"
    BY <1>1, <1>2 DEF TidyStages, MayRun, Deferred
  <2>2. Starts(driver, c) \subseteq Range(todo)
    BY <1>1, <1>2, <2>1, StartsAreNamed DEF TidyStages, TidyInv, Basics
  <2> QED BY <1>1, <1>2, <2>2 DEF TidyStages
<1>3. CASE phase = "gone"
  BY <1>1, <1>3 DEF TidyStages, MayRun
<1> QED BY <1>1, <1>2, <1>3 DEF TidyStages

LEMMA TidyNext ==
  ASSUME AllReturned, TidyInv, [Next]_vars
  PROVE  TidyInv'
<1>1. Basics'
  BY BasicsNext DEF TidyInv
<1>2. driver' = driver
  BY DEF Next, vars, Acquire, FailSeen, FailUnset, FailUnseen, InitDone, Release,
         ReleaseCrashes, InitFailed, Unload, ExitDone, Run
<1> SUFFICES ASSUME driver \in Tidy PROVE TidyStages'
  BY <1>1, <1>2 DEF TidyInv
<1> USE TidyRow
<1>3. CASE Acquire \/ FailUnseen
  <2>1. phase' \in {"init", "crashed"}
    BY <1>3 DEF Acquire, FailUnseen, AtStep
  <2> QED BY <2>1 DEF TidyStages
<1>4. CASE FailSeen \/ FailUnset
  <2>1. /\ step \in 1 .. Len(InitSteps) /\ phase = "init" /\ held' = held
        /\ held \subseteq HeldBefore(driver, step)
    BY <1>4, RowFacts DEF FailSeen, FailUnset, AtStep, Basics
  <2>2. CASE FailSeen
    <3>1. /\ phase' = "undo"
          /\ result' # "neg" => InitSteps[step].result # "neg"
      BY <2>2 DEF FailSeen
    <3> QED BY <1>2, <2>1, <3>1 DEF TidyStages
  <2>3. CASE FailUnset
    <3>1. phase' = "live" /\ InitSteps[step].result # "neg"
      BY <2>3 DEF FailUnset
    <3> QED BY <1>2, <2>1, <3>1 DEF TidyStages
  <2> QED BY <1>4, <2>2, <2>3
<1>5. CASE InitDone
  <2>1. step = Len(InitSteps) + 1
    BY <1>5, RowFacts DEF InitDone, Basics
  <2> QED BY <1>5, <2>1 DEF InitDone, TidyStages, Basics
<1>6. CASE InitFailed
  BY <1>6 DEF InitFailed, TidyStages
<1>7. CASE Unload
  BY <1>7 DEF Unload, TidyStages, Bounds
<1>8. CASE ExitDone
  BY <1>8 DEF ExitDone, TidyStages, Range
<1>9. CASE Release
  BY <1>9, TidyRelease
<1>10. CASE \E c \in Code : Run(c)
  BY <1>10, TidyRun
<1>11. CASE UNCHANGED vars
  BY <1>11 DEF vars, TidyStages
<1>12. CASE ReleaseCrashes
  BY <1>12 DEF ReleaseCrashes, TidyStages
<1> QED BY <1>3, <1>4, <1>5, <1>6, <1>7, <1>8, <1>9, <1>10, <1>11, <1>12 DEF Next

(* If the exit function of every Tidy driver names what the module may hold *)
(* or have pending, and stops code before what it starts, rmmod leaves      *)
(* nothing, whichever calls of its init function failed and whatever code   *)
(* runs meanwhile.                                                          *)
THEOREM UnloadReturnsAll ==
  ASSUME AllReturned
  PROVE  Spec => []GoneHoldsNothing
<1>1. TidyInv => GoneHoldsNothing
  BY DEF TidyInv, TidyStages, GoneHoldsNothing
<1>2. AllReturned
  OBVIOUS
<1>3. TidyInv /\ [Next]_vars => TidyInv'
  BY <1>2, TidyNext
<1> QED BY <1>1, <1>3, TidyInit, PTL DEF Spec
-----------------------------------------------------------------------------
(* The code that can run finds what it touches, and whatever it starts will *)
(* be stopped before the releases s take away what that touches.            *)
Backed(c) == Table[driver].uses[c] \subseteq held
Framed(c, s) == \A b \in Chain(driver, c) : StopsFirst(driver, b, s)

(* What holds of an Ordered driver at each stage of its life.               *)
OrderedStages ==
  /\ "handler" \notin misuse
  /\ phase = "init" => SureBefore(driver, step) \subseteq held
  /\ phase \in {"undo", "live", "exit", "gone"} => \A c \in Code : MayRun(c) => Backed(c)
  /\ phase \in {"undo", "live"} =>
       \A c \in Code : MayRun(c) =>
         \A b \in Chain(driver, c) \ {"cdev"} : StopsFirst(driver, b, Table[driver].exit)
  /\ phase \in {"undo", "exit"} =>
       /\ Range(todo) \cap NotWaitedFor = {}
       /\ \A c \in Code : MayRun(c) => Framed(c, todo)
  /\ phase \in {"exit", "gone"} /\ "cdev" \in Code /\ "cdev" \in held
       => "cdev" \in Range(todo)
  /\ phase = "gone" => todo = <<>>

AllFramed == \A d \in Ordered : CodeIsFramed(d)

OrderedInv == Basics /\ (driver \in Ordered => OrderedStages)

LEMMA OrderedInit == Init => OrderedInv
<1> SUFFICES ASSUME Init PROVE OrderedInv
  OBVIOUS
<1>1. SureBefore(driver, 1) = {}
  BY HeldAtStart DEF SureBefore
<1> QED BY <1>1, BasicsInit DEF Init, OrderedInv, OrderedStages

LEMMA OrderedRow ==
  ASSUME AllFramed, OrderedInv, driver \in Ordered
  PROVE  /\ Basics /\ Bounds /\ OrderedStages /\ UsesAreClosed(driver)
         /\ \A i \in 1 .. Len(InitSteps) : Range(InitSteps[i].undo) \cap NotWaitedFor = {}
         /\ Range(Table[driver].exit) \cap NotWaitedFor = {}
         /\ "cdev" \in Code => "cdev" \in Range(Table[driver].exit)
<1>1. Basics /\ InitSteps = Table[driver].init /\ DOMAIN InitSteps = 1 .. Len(InitSteps)
  BY RowFacts DEF OrderedInv
<1>2. CodeIsFramed(driver)
  BY DEF AllFramed
<1> QED BY <1>1, <1>2, ClosedUses DEF CodeIsFramed, OrderedInv, Basics, Code

(* What the row says of code that runs while init is at work.               *)
LEMMA RunsInInit ==
  ASSUME AllFramed, OrderedInv, driver \in Ordered, phase = "init",
         NEW c \in Code, MayRun(c)
  PROVE  /\ Backed(c)
         /\ \A b \in Chain(driver, c) \ {"cdev"} :
              StopsFirst(driver, b, Table[driver].exit)
         /\ step <= Len(InitSteps) /\ InitSteps[step].fails = "checked"
              => Framed(c, InitSteps[step].undo)
<1>1. /\ CodeIsFramed(driver) /\ InitSteps = Table[driver].init
      /\ step \in 1 .. Len(InitSteps) + 1
  BY RowFacts DEF AllFramed, OrderedInv, Basics
<1>2. c \in CanRun(driver, step)
  BY OrderedRow DEF CanRun, MayRun, Code, Basics, Bounds
<1>3. SureBefore(driver, step) \subseteq held
  BY OrderedRow DEF OrderedStages
<1> QED BY <1>1, <1>2, <1>3 DEF CodeIsFramed, Backed, Framed

(* Code that is started by code that may run.                               *)
LEMMA StartedCode ==
  ASSUME NEW d, UsesAreClosed(d), NEW c \in DOMAIN Table[d].uses,
         NEW a \in Starts(d, c), a \in DOMAIN Table[d].uses
  PROVE  /\ Table[d].uses[a] \subseteq Table[d].uses[c]
         /\ Chain(d, a) \subseteq Chain(d, c)
         /\ a \in Table[d].uses[c] /\ a \in Deferred /\ a # "cdev"
<1>1. Table[d].uses[a] \subseteq Table[d].uses[c]
  BY DEF UsesAreClosed
<1>2. a \in Table[d].uses[c] /\ a \in Deferred
  BY DEF Starts
<1>3. Starts(d, a) \subseteq Starts(d, c)
  BY <1>1 DEF Starts
<1> QED BY <1>1, <1>2, <1>3 DEF Chain, Deferred

LEMMA OrderedRun ==
  ASSUME AllFramed, OrderedInv, driver \in Ordered, NEW c \in Code, Run(c)
  PROVE  OrderedStages'
<1>1. /\ OrderedStages /\ MayRun(c) /\ UsesAreClosed(driver)
      /\ phase \in {"init", "undo", "live", "exit", "gone"}
      /\ UNCHANGED <<driver, phase, step, todo, result, held, errptr>>
      /\ misuse' = IF Backed(c) THEN misuse ELSE misuse \cup {"handler"}
      /\ armed' = (armed \ {c}) \cup Starts(driver, c)
      /\ Code = DOMAIN Table[driver].uses
  BY OrderedRow DEF Run, Starts, Code, Backed, Basics
<1>2. Backed(c)
  BY <1>1, RunsInInit DEF OrderedStages
<1>3. ASSUME NEW e \in Code, MayRun(e)'
      PROVE  MayRun(e) \/ /\ Table[driver].uses[e] \subseteq Table[driver].uses[c]
                          /\ Chain(driver, e) \subseteq Chain(driver, c)
  <2>1. MayRun(e) \/ e \in Starts(driver, c)
    BY <1>1, <1>3 DEF MayRun
  <2> QED BY <1>1, <2>1, StartedCode
<1>4. ASSUME NEW e \in Code, MayRun(e)', phase # "init" PROVE Backed(e)'
  BY <1>1, <1>2, <1>3, <1>4 DEF OrderedStages, Backed
<1>5. ASSUME phase \in {"undo", "live"}, NEW e \in Code, MayRun(e)',
             NEW b \in Chain(driver, e) \ {"cdev"}
      PROVE  StopsFirst(driver, b, Table[driver].exit)
  BY <1>1, <1>3, <1>5 DEF OrderedStages
<1>6. ASSUME phase \in {"undo", "exit"}, NEW e \in Code, MayRun(e)'
      PROVE  Framed(e, todo)
  BY <1>1, <1>3, <1>6 DEF OrderedStages, Framed
<1>7. Code' = Code
  BY <1>1 DEF Code
<1> QED BY <1>1, <1>2, <1>4, <1>5, <1>6, <1>7 DEF OrderedStages, Framed

LEMMA OrderedRelease ==
  ASSUME AllFramed, OrderedInv, driver \in Ordered, Release
  PROVE  OrderedStages'
<1> DEFINE h == Head(todo)
<1>1. /\ OrderedStages /\ todo \in Seq(STRING) /\ todo # <<>>
      /\ phase \in {"undo", "exit"} /\ UNCHANGED <<driver, phase, step, result>>
      /\ todo' = Tail(todo) /\ held' = held \ {h}
      /\ h \in NotWaitedFor \/ armed' = armed \ {h}
      /\ misuse' \in {misuse, misuse \cup {"release"}}
      /\ Code = DOMAIN Table[driver].uses /\ Code' = Code
  BY OrderedRow DEF Release, Basics, Code
<1>2. /\ h \in Range(todo) /\ Range(todo') \subseteq Range(todo)
      /\ Range(todo) \subseteq {h} \cup Range(todo')
  BY <1>1, TailOfReleases
<1>3. armed' = armed \ {h} /\ Range(todo') \cap NotWaitedFor = {}
  BY <1>1, <1>2 DEF OrderedStages
<1>4. ASSUME NEW c \in Code, MayRun(c)' PROVE MayRun(c) /\ c # h
  BY <1>1, <1>3, <1>4 DEF MayRun
<1>5. ASSUME NEW c \in Code, MayRun(c)' PROVE Backed(c)' /\ Framed(c, todo')
  <2>1. MayRun(c) /\ c # h /\ Framed(c, todo) /\ Backed(c)
    BY <1>1, <1>4, <1>5 DEF OrderedStages
  <2>2. StopsFirst(driver, c, todo)
    BY <2>1 DEF Framed, Chain
  <2>3. h \notin Table[driver].uses[c]
    BY <1>1, <2>1, <2>2, TailStopsFirst
  <2>4. ASSUME NEW b \in Chain(driver, c) PROVE StopsFirst(driver, b, todo')
    <3>1. b # h
      BY <2>1, <2>3 DEF Chain, Starts
    <3>2. StopsFirst(driver, b, todo)
      BY <2>1, <2>4 DEF Framed
    <3> QED BY <1>1, <3>1, <3>2, TailStopsFirst
  <2> QED BY <1>1, <2>1, <2>3, <2>4 DEF Backed, Framed
<1>6. phase = "exit" /\ "cdev" \in Code /\ "cdev" \in held' => "cdev" \in Range(todo')
  BY <1>1, <1>2 DEF OrderedStages
<1>7. "handler" \notin misuse'
  BY <1>1 DEF OrderedStages
<1> HIDE DEF h
<1> QED BY <1>1, <1>3, <1>4, <1>5, <1>6, <1>7 DEF OrderedStages, Framed

(* Init ends, or jumps to its labels.                                       *)
LEMMA OrderedInitEnds ==
  ASSUME AllFramed, OrderedInv, driver \in Ordered,
         FailSeen \/ FailUnset \/ InitDone
  PROVE  OrderedStages'
<1>1. /\ OrderedStages /\ phase = "init"
      /\ UNCHANGED <<driver, step, held, errptr, armed, misuse>>
      /\ phase' \in {"undo", "live"} /\ Code' = Code
  BY OrderedRow DEF FailSeen, FailUnset, InitDone, AtStep, Code
<1>2. ASSUME NEW c \in Code, MayRun(c)' PROVE MayRun(c)
  BY <1>1, <1>2 DEF MayRun
<1>3. ASSUME NEW c \in Code, MayRun(c)'
      PROVE  /\ Backed(c)'
             /\ \A b \in Chain(driver, c) \ {"cdev"} :
                  StopsFirst(driver, b, Table[driver].exit)
  BY <1>1, <1>2, <1>3, RunsInInit DEF Backed
<1>4. ASSUME phase' = "undo"
      PROVE  /\ Range(todo') \cap NotWaitedFor = {}
             /\ \A c \in Code : MayRun(c)' => Framed(c, todo')
  <2>1. /\ step \in 1 .. Len(InitSteps) /\ step <= Len(InitSteps)
        /\ InitSteps[step].fails = "checked" /\ todo' = InitSteps[step].undo
    BY <1>1, <1>4, RowFacts DEF FailSeen, FailUnset, InitDone, AtStep, OrderedInv, Basics
  <2> QED BY <1>1, <1>2, <2>1, RunsInInit, OrderedRow
<1> QED BY <1>1, <1>3, <1>4 DEF OrderedStages, Framed

LEMMA OrderedNext ==
  ASSUME AllFramed, OrderedInv, [Next]_vars
  PROVE  OrderedInv'
<1>1. Basics'
  BY BasicsNext DEF OrderedInv
<1>2. driver' = driver /\ Code' = Code
  BY DEF Next, vars, Acquire, FailSeen, FailUnset, FailUnseen, InitDone, Release,
         ReleaseCrashes, InitFailed, Unload, ExitDone, Run, Code
<1> SUFFICES ASSUME driver \in Ordered PROVE OrderedStages'
  BY <1>1, <1>2 DEF OrderedInv
<1>3. OrderedStages
  BY DEF OrderedInv
<1>4. CASE Acquire \/ FailUnseen
  <2>1. CASE phase' = "crashed"
    BY <1>2, <1>3, <1>4, <2>1 DEF Acquire, FailUnseen, OrderedStages
  <2>2. CASE phase' # "crashed"
    <3>1. /\ phase = "init" /\ phase' = "init" /\ step \in 1 .. Len(InitSteps)
          /\ step' = step + 1 /\ misuse' = misuse
          /\ driver \in Drivers /\ InitSteps = Table[driver].init
      BY <1>4, <2>2, RowFacts DEF Acquire, FailUnseen, AtStep, OrderedInv, Basics
    <3>2. ASSUME NEW r \in SureBefore(driver, step + 1) PROVE r \in held'
      <4>1. /\ r \notin InitSteps[step].put
            /\ \/ r \in held
               \/ r \in InitSteps[step].get /\ InitSteps[step].fails # "unseen"
        BY <1>3, <3>1, SureBeforeNext DEF OrderedStages
      <4> QED BY <1>4, <2>2, <4>1 DEF Acquire, FailUnseen
    <3> QED BY <1>2, <1>3, <3>1, <3>2 DEF OrderedStages
  <2> QED BY <2>1, <2>2
<1>5. CASE FailSeen \/ FailUnset \/ InitDone
  BY <1>5, OrderedInitEnds
<1>6. CASE InitFailed
  <2>1. /\ phase = "undo" /\ phase' \in {"live", "refused"}
        /\ UNCHANGED <<driver, step, todo, held, armed, misuse>>
    BY <1>6 DEF InitFailed
  <2>2. \A c : MayRun(c)' <=> MayRun(c)
    BY <2>1 DEF MayRun
  <2> QED BY <1>2, <1>3, <2>1, <2>2 DEF OrderedStages, Backed
<1>7. CASE Unload
  <2>1. /\ phase = "live" /\ phase' = "exit" /\ todo' = Table[driver].exit
        /\ UNCHANGED <<driver, step, held, armed, misuse>>
    BY <1>7 DEF Unload
  <2>2. ASSUME NEW c \in Code, MayRun(c)' PROVE MayRun(c) /\ c # "cdev"
    BY <2>1, <2>2 DEF MayRun, Deferred
  <2>3. ASSUME NEW c \in Code, MayRun(c)' PROVE Backed(c)' /\ Framed(c, todo')
    <3>1. "cdev" \notin Chain(driver, c)
      BY <2>2, <2>3 DEF Chain, Starts, Deferred
    <3> QED BY <1>3, <2>1, <2>2, <2>3, <3>1 DEF OrderedStages, Backed, Framed
  <2>4. /\ Range(todo') \cap NotWaitedFor = {}
        /\ "cdev" \in Code => "cdev" \in Range(todo')
    BY <2>1, OrderedRow
  <2> QED BY <1>2, <1>3, <2>1, <2>3, <2>4 DEF OrderedStages, Framed
<1>8. CASE ExitDone
  <2>1. /\ phase = "exit" /\ phase' = "gone" /\ todo = <<>> /\ todo' = <<>>
        /\ UNCHANGED <<driver, step, held, armed, misuse>>
    BY <1>8 DEF ExitDone
  <2>2. "cdev" \in Code => "cdev" \notin held
    BY <1>3, <2>1 DEF OrderedStages, Range
  <2>3. ASSUME NEW c \in Code, MayRun(c)' PROVE MayRun(c)
    BY <2>1, <2>2, <2>3 DEF MayRun
  <2> QED BY <1>2, <1>3, <2>1, <2>2, <2>3 DEF OrderedStages, Backed
<1>9. CASE Release
  BY <1>9, OrderedRelease
<1>10. CASE \E c \in Code : Run(c)
  BY <1>10, OrderedRun
<1>11. CASE UNCHANGED vars
  BY <1>2, <1>3, <1>11 DEF vars, OrderedStages, MayRun, Backed, Framed
<1>12. CASE ReleaseCrashes
  BY <1>3, <1>12 DEF ReleaseCrashes, OrderedStages
<1> QED BY <1>4, <1>5, <1>6, <1>7, <1>8, <1>9, <1>10, <1>11, <1>12 DEF Next

(* If every Ordered driver installs code after what it touches, and labels  *)
(* and exit function stop it before, no handler, callback, thread or file   *)
(* operation runs without what it touches, whichever calls fail.            *)
THEOREM CodeFindsResources ==
  ASSUME AllFramed
  PROVE  Spec => []HandlersFindResources
<1>1. AllFramed
  OBVIOUS
<1>2. OrderedInv => HandlersFindResources
  BY <1>1, RunsInInit DEF OrderedInv, OrderedStages, HandlersFindResources, Backed
<1>3. OrderedInv /\ [Next]_vars => OrderedInv'
  BY <1>1, OrderedNext
<1> QED BY <1>2, <1>3, OrderedInit, PTL DEF Spec
=============================================================================
