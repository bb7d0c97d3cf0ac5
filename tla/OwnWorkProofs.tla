--------------------------- MODULE OwnWorkProofs ---------------------------
(* Proofs about OwnWork, for any number of presses and samples.             *)
EXTENDS OwnWork, TLAPS

(* The places in the code of each driver's threads. *)
Places(d) ==
  CASE d = "kthread" -> {"loop", "asleep", "exited"}
    [] d = "mutex" -> {"loop", "lock", "asleep", "exited"}
    [] d = "machine" -> {"start", "spin", "leave", "exited"}
    [] d = "hrtimer" -> {"exited"}
    [] d = "spinlock" -> {"idle", "lock", "memcpy", "copy"}

(* Where handler and callback may be. *)
HardPlaces(d) ==
  CASE d = "hrtimer" -> {"armed", "callback", "off"}
    [] d = "spinlock" -> {"armed", "spin", "strlen", "off"}
    [] OTHER -> {"off"}

Types ==
  /\ driver \in {"kthread", "mutex", "machine", "hrtimer", "spinlock"}
  /\ pc \in [Thread -> Places(driver)]
  /\ hard \in HardPlaces(driver)
  /\ lock \in 0 .. 3
  /\ unload \in 0 .. 3
  /\ index \in 0 .. MaxSample
  /\ DOMAIN local = Thread
  /\ DOMAIN raced = Thread

(* The mutex is held by whoever sleeps with it, the spinlock by the reader  *)
(* that copies or the handler that measures.                                *)
Owner ==
  /\ driver \in {"kthread", "machine", "hrtimer"} => lock = Nobody
  /\ driver = "mutex" => lock # Handler /\ \A t \in Thread : lock = t <=> pc[t] = "asleep"
  /\ driver = "spinlock" =>
       /\ \A t \in Thread : lock = t <=> pc[t] = "memcpy"
       /\ lock = Handler <=> hard = "strlen"

(* What my_exit has behind it has stopped. *)
StoppedBehind ==
  /\ should_stop # {} => driver \in {"kthread", "mutex"}
  /\ driver \in {"kthread", "mutex"} => \A t \in Thread : unload > t => pc[t] = "exited"
  /\ driver \in {"hrtimer", "spinlock"} => (unload > 1 <=> hard = "off")
  /\ driver = "spinlock" /\ unload > 0 => \A t \in Thread : pc[t] = "idle"

(* Outside the handler's critical section the length is that of the text.   *)
LengthFits == driver = "spinlock" /\ lock # Handler => shared_len = Length(shared_buffer)

IInv == Types /\ Owner /\ StoppedBehind /\ LengthFits /\ CopyIsOneMessage

LEMMA IInvInit == Init => IInv
<1> SUFFICES ASSUME Init PROVE IInv
  OBVIOUS
<1>1. driver \in {"kthread", "mutex", "machine", "hrtimer", "spinlock"}
  BY DriversAssumption DEF Init
<1>2. Entry[driver] \in Places(driver)
  BY <1>1 DEF Entry, Places
<1>3. Types
  BY <1>1, <1>2, NumbersAssumption DEF Init, Types, HardPlaces, Thread, Nobody
<1>4. Owner
  BY <1>1 DEF Init, Owner, Thread, Entry, Nobody, Handler
<1>5. StoppedBehind
  BY <1>1 DEF Init, StoppedBehind, Thread, Entry
<1>6. LengthFits /\ CopyIsOneMessage
  BY <1>1 DEF Init, LengthFits, CopyIsOneMessage, Length, Thread, Entry
<1> QED BY <1>3, <1>4, <1>5, <1>6 DEF IInv

(* Threads that loop until they are stopped (my_kthread.c:22, my_mutex.c:45). *)
LEMMA ThreadsInv ==
  ASSUME IInv, NEW t \in Thread,
         LoopTest(t) \/ MutexLock(t) \/ SleepEnds(t)
  PROVE  IInv'
<1> USE NumbersAssumption DEF IInv, Types, Places, HardPlaces, Goto, Thread, Nobody, Handler
<1>1. CASE LoopTest(t)
  BY <1>1, SMT DEF LoopTest,
       text, reads, handler, exit, Owner, StoppedBehind, LengthFits, CopyIsOneMessage
<1>2. CASE MutexLock(t)
  BY <1>2, SMT DEF MutexLock, MutexFree,
       text, reads, handler, exit, Owner, StoppedBehind, LengthFits, CopyIsOneMessage
<1>3. CASE SleepEnds(t)
  BY <1>3, SMT DEF SleepEnds,
       text, reads, handler, exit, Owner, StoppedBehind, LengthFits, CopyIsOneMessage
<1> QED BY <1>1, <1>2, <1>3

(* The threads of completions.c.                                            *)
LEMMA MachineInv ==
  ASSUME IInv, NEW t \in Thread,
         AwaitCrank \/ Announce(t) \/ ThreadExits(t)
  PROVE  IInv'
<1> USE NumbersAssumption DEF IInv, Types, Places, HardPlaces, Goto, Thread, Nobody, Handler
<1>1. CASE AwaitCrank
  BY <1>1, SMT DEF AwaitCrank,
       text, reads, handler, exit, Owner, StoppedBehind, LengthFits, CopyIsOneMessage
<1>2. CASE Announce(t)
  BY <1>2, SMT DEF Announce,
       text, reads, handler, exit, Owner, StoppedBehind, LengthFits, CopyIsOneMessage
<1>3. CASE ThreadExits(t)
  BY <1>3, SMT DEF ThreadExits,
       text, reads, handler, exit, Owner, StoppedBehind, LengthFits, CopyIsOneMessage
<1> QED BY <1>1, <1>2, <1>3

(* The timer's callback and the interrupt handler.                          *)
LEMMA HandlerInv ==
  ASSUME IInv,
         Expire \/ Callback \/ Press \/ PrintMessage \/ IsrUnlock
  PROVE  IInv'
<1> USE NumbersAssumption DEF IInv, Types, Places, HardPlaces, Goto, Thread, Nobody, Handler
<1>1. CASE Expire
  BY <1>1, SMT DEF Expire,
       text, reads, handler, exit, Owner, StoppedBehind, LengthFits, CopyIsOneMessage
<1>2. CASE Callback
  BY <1>2, SMT DEF Callback, Sampled,
       text, reads, handler, exit, Owner, StoppedBehind, LengthFits, CopyIsOneMessage
<1>3. CASE Press
  BY <1>3, SMT DEF Press,
       text, reads, handler, exit, Owner, StoppedBehind, LengthFits, CopyIsOneMessage
<1>4. CASE PrintMessage
  BY <1>4, SMT DEF PrintMessage, HeldByHandler,
       text, reads, handler, exit, Owner, StoppedBehind, LengthFits, CopyIsOneMessage
<1>5. CASE IsrUnlock
  <2> USE <1>5 DEF IsrUnlock, text, reads, handler, exit
  <2>1. Types'
    BY SMT
  <2>2. Owner'
    BY SMT DEF Owner
  <2>3. StoppedBehind'
    BY SMT DEF StoppedBehind, Owner
  <2>4. LengthFits'
    BY SMT DEF Owner, LengthFits
  <2>5. CopyIsOneMessage'
    <3> SUFFICES ASSUME driver = "spinlock", NEW t \in Thread, pc[t] = "copy"
                 PROVE  local[t].len = Length(local[t].text) /\ raced'[t]
      BY Zenon DEF CopyIsOneMessage
    <3>1. raced'[t]
      BY Zenon DEF IsrUnlock
    <3> QED BY <3>1 DEF CopyIsOneMessage
  <2> QED BY <2>1, <2>2, <2>3, <2>4, <2>5
<1> QED BY <1>1, <1>2, <1>3, <1>4, <1>5

(* my_read of my_spinlock.c.                                                *)
LEMMA ReadersInv ==
  ASSUME IInv, NEW t \in Thread,
         Call(t) \/ SpinLock(t) \/ Memcpy(t) \/ CopyOut(t)
  PROVE  IInv'
<1> USE NumbersAssumption DEF IInv, Types, Places, HardPlaces, Goto, Thread, Nobody, Handler
<1>1. CASE Call(t)
  BY <1>1, SMT DEF Call,
       text, reads, handler, exit, Owner, StoppedBehind, LengthFits, CopyIsOneMessage
<1>2. CASE SpinLock(t)
  BY <1>2, SMT DEF SpinLock,
       text, reads, handler, exit, Owner, StoppedBehind, LengthFits, CopyIsOneMessage
<1>3. CASE Memcpy(t)
  BY <1>3, SMT DEF Memcpy,
       text, reads, handler, exit, Owner, StoppedBehind, LengthFits, CopyIsOneMessage
<1>4. CASE CopyOut(t)
  BY <1>4, SMT DEF CopyOut,
       text, reads, handler, exit, Owner, StoppedBehind, LengthFits, CopyIsOneMessage
<1> QED BY <1>1, <1>2, <1>3, <1>4

(* my_exit.                                                                 *)
LEMMA ExitInv ==
  ASSUME IInv, NEW t \in Thread,
         Rmmod \/ Stop(t) \/ Stopped(t) \/ AwaitMachine(t) \/ Quiet
  PROVE  IInv'
<1> USE NumbersAssumption DEF IInv, Types, Places, HardPlaces, Goto, Thread, Nobody, Handler
<1>1. CASE Rmmod
  BY <1>1, SMT DEF Rmmod,
       text, reads, handler, exit, Owner, StoppedBehind, LengthFits, CopyIsOneMessage
<1>2. CASE Stop(t)
  BY <1>2, SMT DEF Stop,
       text, reads, handler, exit, Owner, StoppedBehind, LengthFits, CopyIsOneMessage
<1>3. CASE Stopped(t)
  BY <1>3, SMT DEF Stopped, HasExited,
       text, reads, handler, exit, Owner, StoppedBehind, LengthFits, CopyIsOneMessage
<1>4. CASE AwaitMachine(t)
  BY <1>4, SMT DEF AwaitMachine,
       text, reads, handler, exit, Owner, StoppedBehind, LengthFits, CopyIsOneMessage
<1>5. CASE Quiet
  BY <1>5, SMT DEF Quiet,
       text, reads, handler, exit, Owner, StoppedBehind, LengthFits, CopyIsOneMessage
<1> QED BY <1>1, <1>2, <1>3, <1>4, <1>5

LEMMA NextInv == IInv /\ [Next]_vars => IInv'
<1> SUFFICES ASSUME IInv, [Next]_vars PROVE IInv'
  OBVIOUS
<1>1. CASE UNCHANGED vars
  BY <1>1 DEF vars, text, reads, handler, exit, IInv, Types, Owner, StoppedBehind, LengthFits,
              CopyIsOneMessage, Thread, Length
<1>2. ASSUME NEW t \in Thread, ThreadRuns(t) \/ Locks(t) \/ Call(t) PROVE IInv'
  BY <1>2, ThreadsInv, MachineInv, ReadersInv DEF ThreadRuns, Locks
<1>3. CASE HandlerRuns \/ PrintMessage \/ Expire \/ Press
  BY <1>3, HandlerInv DEF HandlerRuns
<1>4. CASE Rmmod \/ ExitRuns \/ Quiet
  <2>1. 1 \in Thread
    BY DEF Thread
  <2> QED BY <1>4, <2>1, ExitInv DEF ExitRuns
<1> QED BY <1>1, <1>2, <1>3, <1>4 DEF Next

LEMMA AlwaysIInv == Spec => []IInv
BY IInvInit, NextInv, PTL DEF Spec

(* What a read of my_spinlock.c copies out is one message with its length,  *)
(* for any number of presses and wherever the handler comes in between.     *)
THEOREM CopiesAreWhole == Spec => []CopyIsOneMessage
<1>1. IInv => CopyIsOneMessage
  BY DEF IInv
<1> QED BY AlwaysIInv, <1>1, PTL

(* Past the stopping calls of my_exit no thread, handler or callback of     *)
(* my_kthread.c, my_mutex.c, my_hrtimer.c and my_spinlock.c runs or holds   *)
(* the lock, and no sample was taken past the array, for any MAX_SAMPLE.    *)
THEOREM ExitComesLast == Spec => []ExitIsAlone
<1>1. ASSUME IInv PROVE ExitIsAlone
  <2> SUFFICES ASSUME unload = 3, driver # "machine" PROVE ExitIsAlone
    BY DEF ExitIsAlone
  <2> USE <1>1 DEF IInv, Types, Thread
  <2>1. \A t \in Thread : pc[t] \in {"exited", "idle"}
    BY SMT DEF StoppedBehind, Places
  <2>2. hard = "off"
    BY SMT DEF StoppedBehind, HardPlaces
  <2>3. lock = Nobody
    BY <2>1, <2>2, SMT DEF Owner, Nobody, Handler
  <2> QED BY <2>1, <2>2, <2>3, NumbersAssumption, SMT DEF ExitIsAlone
<1> QED BY AlwaysIInv, <1>1, PTL
-----------------------------------------------------------------------------
(* While the handler runs on a thread's processor, the thread is not in the *)
(* part of my_read that keeps interrupts away.                              *)
Interrupts ==
  /\ hard \notin {"spin", "strlen"} => on = Elsewhere
  /\ \A t \in Thread : on = t => pc[t] \notin {"lock", "memcpy"}

LEMMA InterruptsInit == Init => Interrupts
BY DEF Init, Interrupts, Elsewhere, Thread

LEMMA InterruptsNext == IInv /\ Interrupts /\ [Next]_vars => Interrupts'
<1> SUFFICES ASSUME IInv, Interrupts, [Next]_vars PROVE Interrupts'
  OBVIOUS
<1> USE DEF Interrupts, IInv, Types, Places, HardPlaces, Goto, Thread, Elsewhere, text, reads,
            handler, exit
<1>1. ASSUME NEW t \in Thread, ThreadRuns(t) \/ Locks(t) \/ Call(t) PROVE Interrupts'
  <2>1. CASE LoopTest(t) \/ MutexLock(t) \/ SleepEnds(t)
    BY <2>1, SMT DEF LoopTest, MutexLock, SleepEnds
  <2>2. CASE AwaitCrank \/ Announce(t) \/ ThreadExits(t)
    BY <2>2, SMT DEF AwaitCrank, Announce, ThreadExits
  <2>3. CASE Call(t) \/ SpinLock(t) \/ Memcpy(t) \/ CopyOut(t)
    BY <2>3, SMT DEF Call, SpinLock, Memcpy, CopyOut
  <2> QED BY <1>1, <2>1, <2>2, <2>3 DEF ThreadRuns, Locks
<1>2. CASE Press
  BY <1>2, SMT DEF Press, Masked
<1>3. CASE HandlerRuns \/ PrintMessage \/ Expire
  BY <1>3, SMT DEF HandlerRuns, Callback, IsrUnlock, PrintMessage, Expire
<1>4. CASE Rmmod \/ ExitRuns \/ Quiet \/ UNCHANGED vars
  BY <1>4, SMT DEF Rmmod, ExitRuns, Stop, Stopped, AwaitMachine, Quiet, vars
<1> QED BY <1>1, <1>2, <1>3, <1>4 DEF Next

(* The spinlock cannot be waited for by the handler that keeps its holder   *)
(* from running: spin_lock_irqsave is enough, and the plain spin_lock of    *)
(* the handler too (my_spinlock.c:54, 80).                                  *)
THEOREM SpinlockIsSafe == Spec => []SpinsForAnother
<1>1. IInv /\ Interrupts => SpinsForAnother
  BY DEF IInv, Types, HardPlaces, Owner, Interrupts, SpinsForAnother
<1> QED BY AlwaysIInv, InterruptsInit, InterruptsNext, <1>1, PTL DEF Spec

Announced == AnnouncementsLast /\ DOMAIN comp = Thread

LEMMA AnnouncementsNext ==
  IInv /\ Announced /\ [Next]_vars => Announced'
<1> SUFFICES ASSUME IInv, Announced, [Next]_vars PROVE Announced'
  OBVIOUS
<1> USE NumbersAssumption
<1> USE DEF Announced, AnnouncementsLast, IInv, Types, Places, HardPlaces, Goto, Thread, text, reads,
            handler, exit
<1>1. ASSUME NEW t \in Thread, Announce(t) PROVE Announced'
  BY <1>1, SMT DEF Announce, Announces, CompletedAll
<1>2. ASSUME NEW t \in Thread, AwaitMachine(t) \/ AwaitCrank PROVE Announced'
  BY <1>2, SMT DEF AwaitMachine, AwaitCrank, Awaited
<1>3. ASSUME NEW t \in Thread, LoopTest(t) \/ MutexLock(t) \/ SleepEnds(t) \/ ThreadExits(t) PROVE Announced'
  BY <1>3, SMT DEF LoopTest, MutexLock, SleepEnds, ThreadExits
<1>4. ASSUME NEW t \in Thread, Call(t) \/ SpinLock(t) \/ Memcpy(t) \/ CopyOut(t) PROVE Announced'
  BY <1>4, SMT DEF Call, SpinLock, Memcpy, CopyOut
<1>5. CASE HandlerRuns \/ PrintMessage \/ Expire \/ Press
  BY <1>5, SMT DEF HandlerRuns, Callback, IsrUnlock, PrintMessage, Expire, Press
<1>6. ASSUME \/ Rmmod \/ Quiet \/ UNCHANGED vars
             \/ \E t \in Thread : Stop(t) \/ Stopped(t)
      PROVE  Announced'
  BY <1>6, SMT DEF Rmmod, Quiet, Stop, Stopped, vars
<1> QED
  BY <1>1, <1>2, <1>3, <1>4, <1>5, <1>6 DEF Next, ThreadRuns, Locks, ExitRuns

(* In completions.c complete_all is what the waiters need: the crank's      *)
(* announcement serves the other thread and completions_exit, whoever comes *)
(* first, for any UINT_MAX (completions.c:29, 74).                          *)
THEOREM AnnouncementsStay == Spec => []AnnouncementsLast
<1>1. Init => Announced
  <2> SUFFICES ASSUME Init PROVE Announced
    OBVIOUS
  <2>1. comp = [c \in Thread |-> 0] /\ (driver = "machine" => pc = [t \in Thread |-> "start"])
    BY DEF Init, Entry
  <2> QED BY <2>1 DEF Announced, AnnouncementsLast
<1>2. Announced => AnnouncementsLast
  BY DEF Announced
<1> QED BY AlwaysIInv, AnnouncementsNext, <1>1, <1>2, PTL DEF Spec
=============================================================================
