------------------------------ MODULE OwnWork ------------------------------
(* Drivers whose work goes on by itself until the module is unloaded:       *)
(*   kthread   17_kernel_threads: two threads log and sleep,                *)
(*   mutex     19_kernel_synchronization/01_mutex: two threads write a      *)
(*             shared text in turn,                                         *)
(*   machine   lkmpg-master/examples/completions.c: a thread waits for      *)
(*             another,                                                     *)
(*   hrtimer   13_hrtimer: a periodic callback takes samples,               *)
(*   spinlock  19_kernel_synchronization/02_spinlock: a handler prints a    *)
(*             message that two user threads read.                          *)
(*                                                                          *)
(* A text is known by its number: that of the thread that wrote it, or of   *)
(* the press.  raced is a history variable: the readers whose message was   *)
(* replaced after they unlocked.                                            *)
EXTENDS Integers

CONSTANTS
  Drivers,      \* the drivers looked at
  MaxSample,    \* MAX_SAMPLE
  UintMax,      \* UINT_MAX in the kernel
  Longer,       \* the first press whose message is longer: 10 in the code
  MaxPresses    \* bound: the presses of one behaviour

ASSUME DriversAssumption ==
  Drivers \subseteq {"kthread", "mutex", "machine", "hrtimer", "spinlock"}
ASSUME NumbersAssumption ==
  MaxSample \in Nat /\ UintMax \in Nat \ {0} /\ Longer \in Nat /\ MaxPresses \in Nat

VARIABLES
  driver,        \* the driver that is loaded
  pc,            \* where its two threads are
  lock,          \* who holds my_mutex or my_spinlock: a thread, Handler or nobody
  shared_buffer, \* the text
  shared_len,    \* its length
  local,         \* local[t]: what t has copied under the lock: a text, a length
  hard,          \* where the handler or the timer's callback is
  on,            \* the thread whose processor it runs on, or another one
  count,         \* the presses
  index,         \* the samples
  comp,          \* crank_comp.done and flywheel_comp.done
  should_stop,   \* the threads kthread_stop was called for
  unload,        \* the call of my_exit that is next; 0: loaded, 3: past them
  raced

text == <<shared_buffer, shared_len>>
reads == <<local, raced>>
handler == <<hard, on, count, index>>
exit == <<should_stop, unload>>
vars == <<driver, pc, lock, text, reads, handler, comp, exit>>

Thread == 1 .. 2
Nobody == 0
Handler == 3
Elsewhere == 0

(* The length of a message. *)
Length(n) == IF n = 0 THEN 0 ELSE IF n < Longer THEN 1 ELSE 2

Entry == [kthread |-> "loop", mutex |-> "loop", machine |-> "start", hrtimer |-> "exited",
          spinlock |-> "idle"]

Init ==
  /\ driver \in Drivers
  /\ pc = [t \in Thread |-> Entry[driver]]
  /\ lock = Nobody
  /\ shared_buffer = 0
  /\ shared_len = 0
  /\ local = [t \in Thread |-> [text |-> 0, len |-> 0]]
  /\ hard = IF driver \in {"hrtimer", "spinlock"} THEN "armed" ELSE "off"
  /\ on = Elsewhere
  /\ count = 0
  /\ index = 0
  /\ comp = [c \in Thread |-> 0]
  /\ should_stop = {}
  /\ unload = 0
  /\ raced = [t \in Thread |-> FALSE]

Goto(t, l) == pc' = [pc EXCEPT ![t] = l]

(* Whether a thread finds the mutex free. *)
MutexFree == lock = Nobody

(* The lock while the handler measures its message; mutant: it has let go.  *)
LetGo == Nobody
HeldByHandler == Handler

(* Where spin_lock_irqsave keeps the handler away; mutant: plain spin_lock. *)
MasksNothing == {}
Masked == {t \in Thread : driver = "spinlock" /\ pc[t] \in {"lock", "memcpy"}}

(* What a callback adds to the samples. *)
Sampled == IF index < MaxSample THEN index + 1 ELSE index

(* complete_all, and what a wait leaves of a count that is not 0.           *)
CompletedAll == UintMax
Awaited(c) == IF comp[c] = UintMax THEN UintMax ELSE comp[c] - 1

(* What a machine thread announces; mutant: both announce the crank.        *)
AnnouncesCrank(t) == 1
Announces(t) == t

(* When kthread_stop returns; mutant: as soon as the thread is marked.      *)
MarkedOnly(t) == t \in should_stop
HasExited(t) == t \in should_stop /\ pc[t] = "exited"
-----------------------------------------------------------------------------
(* while (!kthread_should_stop()) *)
LoopTest(t) ==
  /\ pc[t] = "loop"
  /\ Goto(t, IF t \in should_stop THEN "exited"
             ELSE IF driver = "kthread" THEN "asleep" ELSE "lock")
  /\ UNCHANGED <<driver, lock, text, reads, handler, comp, exit>>

(* mutex_lock, which kthread_stop does not interrupt, and the text. *)
MutexLock(t) ==
  /\ driver = "mutex"
  /\ pc[t] = "lock"
  /\ MutexFree
  /\ lock' = t
  /\ shared_buffer' = t
  /\ Goto(t, "asleep")
  /\ UNCHANGED <<driver, shared_len, reads, handler, comp, exit>>

(* ssleep and msleep end when their time is up and not before; the text is  *)
(* logged once more, and the mutex unlocked.                                *)
SleepEnds(t) ==
  /\ pc[t] = "asleep"
  /\ lock' = IF driver = "mutex" THEN Nobody ELSE lock
  /\ Goto(t, "loop")
  /\ UNCHANGED <<driver, text, reads, handler, comp, exit>>
-----------------------------------------------------------------------------
(* machine_flywheel_spinup_thread waits for the crank. *)
AwaitCrank ==
  /\ pc[2] = "start"
  /\ comp[1] > 0
  /\ comp' = [comp EXCEPT ![1] = Awaited(1)]
  /\ Goto(2, "spin")
  /\ UNCHANGED <<driver, lock, text, reads, handler, exit>>

(* complete_all; the complete of kthread_complete_and_exit adds nothing.    *)
Announce(t) ==
  /\ pc[t] = IF t = 1 THEN "start" ELSE "spin"
  /\ comp' = [comp EXCEPT ![Announces(t)] = CompletedAll]
  /\ Goto(t, "leave")
  /\ UNCHANGED <<driver, lock, text, reads, handler, exit>>

ThreadExits(t) ==
  /\ pc[t] = "leave"
  /\ Goto(t, "exited")
  /\ UNCHANGED <<driver, lock, text, reads, handler, comp, exit>>
-----------------------------------------------------------------------------
(* hrtimer_callback: it runs, takes its sample and is armed again. *)
Expire ==
  /\ driver = "hrtimer"
  /\ hard = "armed"
  /\ hard' = "callback"
  /\ UNCHANGED <<driver, pc, lock, text, reads, on, count, index, comp, exit>>

Callback ==
  /\ hard = "callback"
  /\ index' = Sampled
  /\ hard' = "armed"
  /\ UNCHANGED <<driver, pc, lock, text, reads, on, count, comp, exit>>

(* A press: isr starts on any processor that takes interrupts ... *)
Press ==
  /\ driver = "spinlock"
  /\ hard = "armed"
  /\ count < MaxPresses
  /\ count' = count + 1
  /\ hard' = "spin"
  /\ on' \in {Elsewhere} \cup (Thread \ Masked)
  /\ UNCHANGED <<driver, pc, lock, text, reads, index, comp, exit>>

(* ... takes the spinlock and prints ... *)
PrintMessage ==
  /\ hard = "spin"
  /\ lock = Nobody
  /\ lock' = HeldByHandler
  /\ shared_buffer' = count
  /\ hard' = "strlen"
  /\ UNCHANGED <<driver, pc, shared_len, reads, on, count, index, comp, exit>>

(* ... measures and unlocks. *)
IsrUnlock ==
  /\ hard = "strlen"
  /\ shared_len' = Length(shared_buffer)
  /\ raced' = [t \in Thread |-> raced[t] \/ pc[t] = "copy"]
  /\ lock' = IF lock = Handler THEN Nobody ELSE lock
  /\ hard' = "armed"
  /\ on' = Elsewhere
  /\ UNCHANGED <<driver, pc, shared_buffer, local, count, index, comp, exit>>
-----------------------------------------------------------------------------
(* my_read: spin_lock_irqsave ... *)
Call(t) ==
  /\ pc[t] = "idle"
  /\ on # t
  /\ unload = 0
  /\ Goto(t, "lock")
  /\ UNCHANGED <<driver, lock, text, reads, handler, comp, exit>>

SpinLock(t) ==
  /\ driver = "spinlock"
  /\ pc[t] = "lock"
  /\ on # t
  /\ lock = Nobody
  /\ lock' = t
  /\ Goto(t, "memcpy")
  /\ UNCHANGED <<driver, text, reads, handler, comp, exit>>

(* ... memcpy and spin_unlock_irqrestore ... *)
Memcpy(t) ==
  /\ pc[t] = "memcpy"
  /\ on # t
  /\ local' = [local EXCEPT ![t] = [text |-> shared_buffer, len |-> shared_len]]
  /\ raced' = [raced EXCEPT ![t] = FALSE]
  /\ lock' = Nobody
  /\ Goto(t, "copy")
  /\ UNCHANGED <<driver, text, handler, comp, exit>>

(* ... and two more looks at shared_len, for copy_to_user and the result.   *)
CopyOut(t) ==
  /\ pc[t] = "copy"
  /\ on # t
  /\ Goto(t, "idle")
  /\ UNCHANGED <<driver, lock, text, reads, handler, comp, exit>>
-----------------------------------------------------------------------------
(* rmmod: not while a file is open. *)
Rmmod ==
  /\ unload = 0
  /\ driver = "spinlock" => \A t \in Thread : pc[t] = "idle"
  /\ unload' = 1
  /\ UNCHANGED <<driver, pc, lock, text, reads, handler, comp, should_stop>>

(* kthread_stop: the thread is marked, and waited for. *)
Stop(t) ==
  /\ driver \in {"kthread", "mutex"}
  /\ unload = t
  /\ t \notin should_stop
  /\ should_stop' = should_stop \cup {t}
  /\ UNCHANGED <<driver, pc, lock, text, reads, handler, comp, unload>>

Stopped(t) ==
  /\ unload = t
  /\ HasExited(t)
  /\ unload' = t + 1
  /\ UNCHANGED <<driver, pc, lock, text, reads, handler, comp, should_stop>>

(* completions_exit waits for what the threads announce. *)
AwaitMachine(t) ==
  /\ driver = "machine"
  /\ unload = t
  /\ comp[t] > 0
  /\ comp' = [comp EXCEPT ![t] = Awaited(t)]
  /\ unload' = t + 1
  /\ UNCHANGED <<driver, pc, lock, text, reads, handler, should_stop>>

(* hrtimer_cancel and free_irq wait for a function that is running. *)
Quiet ==
  /\ unload = 1
  /\ hard = "armed"
  /\ hard' = "off"
  /\ unload' = 3
  /\ UNCHANGED <<driver, pc, lock, text, reads, on, count, index, comp, should_stop>>
-----------------------------------------------------------------------------
ThreadRuns(t) ==
  \/ LoopTest(t) \/ SleepEnds(t) \/ Announce(t) \/ ThreadExits(t) \/ Memcpy(t) \/ CopyOut(t)
  \/ t = 2 /\ AwaitCrank
Locks(t) == MutexLock(t) \/ SpinLock(t)
HandlerRuns == Callback \/ IsrUnlock
ExitRuns == \E t \in Thread : Stop(t) \/ Stopped(t) \/ AwaitMachine(t)

Next ==
  \/ \E t \in Thread : ThreadRuns(t) \/ Locks(t) \/ Call(t)
  \/ HandlerRuns \/ PrintMessage \/ Expire \/ Press
  \/ Rmmod \/ ExitRuns \/ Quiet

Spec == Init /\ [][Next]_vars

(* Threads, handlers and an rmmod that has begun go on.  Those who wait for *)
(* a mutex or a spinlock get it in turn, and hrtimer_cancel finds its timer *)
(* between two callbacks.  Presses, calls and rmmod are up to the user.     *)
Fairness ==
  /\ \A t \in Thread : WF_vars(ThreadRuns(t)) /\ SF_vars(Locks(t))
  /\ WF_vars(HandlerRuns) /\ SF_vars(PrintMessage)
  /\ WF_vars(ExitRuns) /\ SF_vars(Quiet)

FairSpec == Spec /\ Fairness
-----------------------------------------------------------------------------
(* What my_read copies is one message with the length of that message; the  *)
(* length it looks at after the unlock is still that, unless a press came   *)
(* in between (my_spinlock.c:54-64, 80-85).                                 *)
CopyIsOneMessage ==
  driver = "spinlock" =>
    \A t \in Thread : pc[t] = "copy" =>
      /\ local[t].len = Length(local[t].text)
      /\ ~raced[t] => shared_len = local[t].len

(* Past the calls of my_exit that stop them no thread, handler or callback  *)
(* runs, and no lock is held: samples are read, the mutex destroyed and the *)
(* buffer freed when nobody uses them (my_hrtimer.c:41, my_mutex.c:96-102,  *)
(* my_kthread.c:60-66, my_spinlock.c:191).  The threads of completions.c    *)
(* are only waited for up to their announcement.                            *)
ExitIsAlone ==
  unload = 3 /\ driver # "machine" =>
    /\ \A t \in Thread : pc[t] \in {"exited", "idle"}
    /\ hard = "off"
    /\ lock = Nobody
    /\ index <= MaxSample

(* The handler never spins on the processor of the reader that holds the    *)
(* lock, which it would wait for forever (my_spinlock.c:54, 80).            *)
SpinsForAnother == hard = "spin" /\ lock \in Thread => on # lock

(* A thread of completions.c that is through has announced it, no one that  *)
(* waited for it used the announcement up, and no other is made             *)
(* (completions.c:19, 29, 33, 74-75).                                       *)
AnnouncementsLast ==
  driver = "machine" =>
    \A t \in Thread : comp[t] = IF pc[t] \in {"leave", "exited"} THEN UintMax ELSE 0

(* A read returns, whatever the handler does: it cannot interrupt the       *)
(* processor of a reader that holds the lock it wants (my_spinlock.c:54).   *)
ReadsReturn == \A t \in Thread : pc[t] = "lock" ~> pc[t] \in {"idle", "asleep"}

(* Unloading ends: no thread waits forever for a mutex that the other takes *)
(* again and again, and each announcement comes (my_mutex.c:45, 96;         *)
(* completions.c:33, 74).                                                   *)
UnloadEnds == unload > 0 ~> unload = 3
=============================================================================
