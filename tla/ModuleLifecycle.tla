-------------------------- MODULE ModuleLifecycle --------------------------
(* Loading and unloading one kernel module of the tutorial: its init        *)
(* function acquires resources step by step and may fail at each of them,   *)
(* its exit function gives them back, and in between interrupts, timers,    *)
(* work items and threads run as soon as they are installed, also while     *)
(* init and exit are still at work.  A driver is a row of Table, a record   *)
(* as in LifecycleSteps.                                                    *)
EXTENDS LifecycleSteps, Integers, FiniteSets, Functions

CONSTANTS
  Table,     \* the drivers' init and exit functions
  Drivers,   \* the drivers looked at
  Careful,   \* those whose labels undo every failure, and that see them all
  Tidy,      \* those whose exit function stops and releases everything
  Ordered,   \* those that install code after what it touches, and stop it before
  MayFail    \* whether an acquisition may fail

ASSUME DriversAssumption == Drivers \subseteq DOMAIN Table
ASSUME TableAssumption == \A d \in Drivers : IsRow(Table[d])
ASSUME PromisesAssumption == Careful \cup Tidy \cup Ordered \subseteq Drivers
ASSUME MayFailAssumption == MayFail \in BOOLEAN

VARIABLES
  driver,   \* the driver that is loaded
  phase,    \* "init", "undo", "live", "exit"; "refused", "gone", "crashed"
  step,     \* the next step of init
  todo,     \* the resources init's labels or exit still release
  result,   \* the sign of what a failing init is about to return
  held,     \* the resources the module holds
  errptr,   \* the resources the code believes it holds
  armed,    \* the timers and work items that are pending
  misuse    \* what went wrong: "release", "handler"

vars == <<driver, phase, step, todo, result, held, errptr, armed, misuse>>

(* What d's init function has acquired before step i, and what of it it has *)
(* not given back.                                                          *)
EverHeld(d, i) == UNION {Table[d].init[j].get : j \in 1 .. i - 1}
HeldBefore(d, i) ==
  {r \in EverHeld(d, i) :
     \E j \in 1 .. i - 1 : /\ r \in Table[d].init[j].get
                          /\ \A k \in j .. i - 1 : r \notin Table[d].init[k].put}

(* What the kernel dereferences to create a resource, and what it wants to  *)
(* be no error pointer: device_create then fails itself, device_destroy     *)
(* crashes.                                                                 *)
Needs(r) == IF r = "client" THEN {"adapter"} ELSE {}
Wants(r) == IF r = "device" THEN {"class"} ELSE {}

InitSteps == Table[driver].init
Code == DOMAIN Table[driver].uses

Init ==
  /\ driver \in Drivers
  /\ phase = "init"
  /\ step = 1
  /\ todo = <<>>
  /\ result = "zero"
  /\ held = {}
  /\ errptr = {}
  /\ armed = {}
  /\ misuse = {}
-----------------------------------------------------------------------------
AtStep == phase = "init" /\ step <= Len(InitSteps)

(* A step of my_init that succeeds.  Handing the kernel no adapter crashes  *)
(* it.                                                                      *)
Acquire ==
  /\ AtStep
  /\ UNION {Wants(r) : r \in InitSteps[step].get} \subseteq held
  /\ LET s == InitSteps[step]
     IN IF UNION {Needs(r) : r \in s.get} \subseteq held
          THEN /\ held' = (held \cup s.get) \ s.put
               /\ armed' = armed \cup s.arm
               /\ step' = step + 1
               /\ UNCHANGED phase
          ELSE /\ phase' = "crashed"
               /\ UNCHANGED <<held, armed, step>>
  /\ UNCHANGED <<driver, todo, result, errptr, misuse>>

(* A step that fails and whose failure the code sees: the labels run. *)
FailSeen ==
  /\ MayFail
  /\ AtStep
  /\ LET s == InitSteps[step]
     IN /\ s.fails = "checked"
        /\ phase' = "undo"
        /\ todo' = s.undo
        /\ result' \in IF s.result = "unset" THEN {"neg", "pos"} ELSE {s.result}
  /\ UNCHANGED <<driver, step, held, errptr, armed, misuse>>

(* The uninitialized status happens to be 0: my_init takes the failure of   *)
(* external_gpio_irq_setup for success and is done.                         *)
FailUnset ==
  /\ MayFail
  /\ AtStep
  /\ InitSteps[step].result = "unset"
  /\ phase' = "live"
  /\ UNCHANGED <<driver, step, todo, result, held, errptr, armed, misuse>>

(* A step that fails unseen: the code goes on with an error pointer. *)
FailUnseen ==
  /\ MayFail
  /\ AtStep
  /\ InitSteps[step].fails = "unseen"
  /\ UNION {Needs(r) : r \in InitSteps[step].get} \subseteq held
  /\ errptr' = errptr \cup InitSteps[step].get
  /\ step' = step + 1
  /\ UNCHANGED <<driver, phase, todo, result, held, armed, misuse>>

InitDone ==
  /\ phase = "init"
  /\ step > Len(InitSteps)
  /\ phase' = "live"
  /\ UNCHANGED <<driver, step, todo, result, held, errptr, armed, misuse>>
-----------------------------------------------------------------------------
(* One release of a label or of my_exit.  Releasing what is not held is a   *)
(* misuse, except where the kernel looks the object up or takes an error    *)
(* pointer for nothing.  del_timer_sync and cancel_work_sync also wait;     *)
(* del_timer does not, and a callback that is running may arm it again.     *)
Release ==
  /\ phase \in {"undo", "exit"}
  /\ todo # <<>>
  /\ Wants(Head(todo)) \cap errptr = {}
  /\ LET r == Head(todo)
     IN /\ held' = held \ {r}
        /\ \/ armed' = armed \ {r}
           \/ r \in NotWaitedFor /\ UNCHANGED armed
        /\ misuse' = IF r \in held \cup errptr THEN misuse
                     ELSE misuse \cup {"release"}
        /\ errptr' = errptr \ {r}
  /\ todo' = Tail(todo)
  /\ UNCHANGED <<driver, phase, step, result>>

(* device_destroy of an error pointer for a class, after a load that took   *)
(* both failures for success: my_exit, or a label, ends here.               *)
ReleaseCrashes ==
  /\ phase \in {"undo", "exit"}
  /\ todo # <<>>
  /\ Wants(Head(todo)) \cap errptr # {}
  /\ phase' = "crashed"
  /\ UNCHANGED <<driver, step, todo, result, held, errptr, armed, misuse>>

(* my_init returns after its labels: a positive or zero value leaves the    *)
(* module in the kernel.                                                    *)
InitFailed ==
  /\ phase = "undo"
  /\ todo = <<>>
  /\ phase' = IF result = "neg" THEN "refused" ELSE "live"
  /\ UNCHANGED <<driver, step, todo, result, held, errptr, armed, misuse>>

(* rmmod.  Where the file operations touch something and the row is          *)
(* Ordered, .owner = THIS_MODULE makes it wait until no file is open (led.c *)
(* names its owner before Linux 6.4 only).                                  *)
Unload ==
  /\ phase = "live"
  /\ phase' = "exit"
  /\ todo' = Table[driver].exit
  /\ UNCHANGED <<driver, step, result, held, errptr, armed, misuse>>

ExitDone ==
  /\ phase = "exit"
  /\ todo = <<>>
  /\ phase' = "gone"
  /\ UNCHANGED <<driver, step, todo, result, held, errptr, armed, misuse>>
-----------------------------------------------------------------------------
(* Code the module installed runs: a handler or a thread while it is        *)
(* installed, a file operation while a file can be open, a timer or a work  *)
(* item once it is pending.                                                 *)
MayRun(c) ==
  IF c \in Deferred THEN c \in armed
  ELSE c \in held /\ (c = "cdev" => phase # "exit")

Run(c) ==
  /\ phase \notin {"refused", "crashed"}
  /\ c \in Code
  /\ MayRun(c)
  /\ misuse' = IF Table[driver].uses[c] \subseteq held THEN misuse
               ELSE misuse \cup {"handler"}
  /\ armed' = (armed \ {c}) \cup (Table[driver].uses[c] \cap Deferred)
  /\ UNCHANGED <<driver, phase, step, todo, result, held, errptr>>

Next ==
  \/ Acquire \/ FailSeen \/ FailUnset \/ FailUnseen \/ InitDone
  \/ Release \/ ReleaseCrashes \/ InitFailed \/ Unload \/ ExitDone
  \/ \E c \in Code : Run(c)

Spec == Init /\ [][Next]_vars
-----------------------------------------------------------------------------
(* A load the kernel refuses leaves nothing behind: the labels of my_init   *)
(* release exactly what was acquired before the failing step.               *)
RefusedHoldsNothing ==
  driver \in Careful /\ phase = "refused" => held = {} /\ armed = {}

(* After rmmod nothing of the module is left in the kernel, and no timer or *)
(* work item is pending.                                                    *)
GoneHoldsNothing ==
  driver \in Tidy /\ phase = "gone" => held = {} /\ armed = {}

(* Neither the labels nor my_exit release a resource the module does not    *)
(* hold.                                                                    *)
ReleasesWhatIsHeld == driver \in Careful => "release" \notin misuse

(* A module the kernel keeps has all its resources: my_init does not report *)
(* success after a failure.                                                 *)
LiveHoldsAll ==
  driver \in Careful /\ phase = "live" =>
    held = HeldBefore(driver, Len(InitSteps) + 1)

(* A handler, callback, thread or file operation that can run finds the     *)
(* resources it touches, also while my_init and my_exit are at work.        *)
HandlersFindResources ==
  driver \in Ordered =>
    /\ "handler" \notin misuse
    /\ phase \in {"init", "undo", "live", "exit"} =>
         \A c \in Code : MayRun(c) => Table[driver].uses[c] \subseteq held

(* Before step i of d nothing can have armed a timer or a work item.        *)
NothingArmed(d, i) ==
  /\ \A j \in 1 .. i - 1 : Table[d].init[j].arm = {}
  /\ \A c \in DOMAIN Table[d].uses :
       Table[d].uses[c] \cap Deferred # {} => c \notin EverHeld(d, i)

NoRepeat(s) == \A i, j \in DOMAIN s : s[i] = s[j] => i = j

(* d looks at every failure, its labels name each resource acquired so far  *)
(* exactly once and my_init then returns a negative number; my_exit names   *)
(* only what a complete my_init acquired, each once.                        *)
LabelsMirror(d) ==
  /\ \A i \in DOMAIN Table[d].init :
       LET s == Table[d].init[i]
       IN /\ s.fails \in {"checked", "never"}
          /\ s.result = "neg"
          /\ s.fails = "checked" =>
               /\ Range(s.undo) = HeldBefore(d, i)
               /\ NoRepeat(s.undo)
               /\ NothingArmed(d, i)
  /\ Range(Table[d].exit) \subseteq HeldBefore(d, Len(Table[d].init) + 1)
  /\ NoRepeat(Table[d].exit)

(* What init has acquired before step i and not given back, whatever failed *)
(* unseen.                                                                  *)
SureBefore(d, i) ==
  {r \in EverHeld(d, i) :
     \E j \in 1 .. i - 1 : /\ r \in Table[d].init[j].get
                          /\ Table[d].init[j].fails # "unseen"
                          /\ \A k \in j .. i - 1 : r \notin Table[d].init[k].put}

(* The timers and work items the code c starts; those init has started      *)
(* before step i, itself or through code that could run by then.            *)
Starts(d, c) == IF c \in DOMAIN Table[d].uses THEN Table[d].uses[c] \cap Deferred ELSE {}
StartedByInit(d, i) == UNION {Table[d].init[j].arm : j \in 1 .. i - 1}
MayBeArmed(d, i) ==
  StartedByInit(d, i)
    \cup UNION {Starts(d, c) : c \in EverHeld(d, i) \cup StartedByInit(d, i)}

(* The code of d that may run before step i of init.                        *)
CanRun(d, i) ==
  {c \in DOMAIN Table[d].uses :
     IF c \in Deferred THEN c \in MayBeArmed(d, i) ELSE c \in HeldBefore(d, i)}

(* Of the releases s that of c comes before those of what c touches.        *)
StopsFirst(d, c, s) ==
  \A k \in DOMAIN s : s[k] \in Table[d].uses[c] => \E j \in 1 .. k : s[j] = c

(* What c starts includes what the code it starts starts; what it touches   *)
(* includes what that code touches.                                         *)
StartsAreClosed(d) ==
  \A c \in DOMAIN Table[d].uses : \A a \in Starts(d, c) :
    Starts(d, a) \subseteq Starts(d, c)
UsesAreClosed(d) ==
  \A c \in DOMAIN Table[d].uses : \A a \in Starts(d, c) :
    a \in DOMAIN Table[d].uses => Table[d].uses[a] \subseteq Table[d].uses[c]

(* The code it starts: what runs when c does, now or later.                 *)
Chain(d, c) == {c} \cup (Starts(d, c) \cap DOMAIN Table[d].uses)

(* Of the releases s that of code that starts something comes before that   *)
(* of what it starts, file operations apart.                                *)
StartsBehind(d, s) ==
  \A k \in DOMAIN s : s[k] # "cdev" =>
    \A a \in Starts(d, s[k]) : \E j \in k .. Len(s) : s[j] = a

(* my_exit names whatever the module may hold or have pending when it is    *)
(* live, the code that starts a timer or work item before it, and waits.    *)
ExitReturnsAll(d) ==
  LET init == Table[d].init
      exit == Table[d].exit
      last == Len(init) + 1
  IN /\ HeldBefore(d, last) \subseteq Range(exit)
     /\ \A i \in DOMAIN init :
          init[i].result # "neg" => HeldBefore(d, i) \subseteq Range(exit)
     /\ MayBeArmed(d, last) \subseteq Range(exit)
     /\ Range(exit) \cap NotWaitedFor = {}
     /\ StartsAreClosed(d)
     /\ StartsBehind(d, exit)

(* d installs code after what the code touches, and neither the labels nor  *)
(* my_exit release that before the code is stopped; a file operation cannot *)
(* run during my_exit, which removes its device.                            *)
CodeIsFramed(d) ==
  LET init == Table[d].init
      exit == Table[d].exit
  IN /\ UsesAreClosed(d)
     /\ \A i \in 1 .. Len(init) + 1 : \A c \in CanRun(d, i) :
          /\ Table[d].uses[c] \subseteq SureBefore(d, i)
          /\ \A b \in Chain(d, c) \ {"cdev"} : StopsFirst(d, b, exit)
          /\ i <= Len(init) /\ init[i].fails = "checked" =>
               \A b \in Chain(d, c) : StopsFirst(d, b, init[i].undo)
     /\ \A i \in DOMAIN init : Range(init[i].undo) \cap NotWaitedFor = {}
     /\ Range(exit) \cap NotWaitedFor = {}
     /\ "cdev" \in DOMAIN Table[d].uses => "cdev" \in Range(exit)

(* What the init and exit functions of each driver say, read from top to    *)
(* bottom, is enough for the promises it is listed under: the labels of the *)
(* Careful ones undo what was done above the failing call, the exit         *)
(* functions of the Tidy ones return everything, the code of the Ordered    *)
(* ones is installed last and stopped first.  Under these conditions        *)
(* LifecycleProofs shows the properties above.                              *)
RowsKeepPromises ==
  /\ driver \in Careful => LabelsMirror(driver)
  /\ driver \in Tidy => ExitReturnsAll(driver)
  /\ driver \in Ordered => CodeIsFramed(driver)
=============================================================================
