----------------------------- MODULE Completion -----------------------------
(* The drivers of 19_kernel_synchronization/03_completion: the interrupt    *)
(* handler counts a press and completes my_comp, kernel threads wait for    *)
(* it, and rmmod stops the threads one after the other.  my_completion.c    *)
(* has two threads that reinitialize the completion after each press,       *)
(* my_completion_ex1.c and _ex2.c have one that only waits.                 *)
(*                                                                          *)
(* presses and taken are history variables: the presses that were not       *)
(* taken for bouncing, and those the waits took from done.                  *)
EXTENDS Integers, Sequences, FiniteSets, SequencesExt

CONSTANTS
  Drivers,     \* the drivers looked at
  UintMax,     \* UINT_MAX in the kernel: done sticks there
  MaxPresses   \* bound: the presses of one behaviour

ASSUME DriversAssumption == Drivers \subseteq {"completion", "ex1"}
ASSUME UintMaxAssumption == UintMax \in Nat \ {0}
ASSUME MaxPressesAssumption == MaxPresses \in Nat

VARIABLES
  driver,        \* the driver that is loaded
  done,          \* my_comp.done
  queue,         \* my_comp.wait: the threads in line for a completion
  woken,         \* woken[t]: t is runnable again after it went to sleep
  should_stop,   \* the threads kthread_stop() was called for
  pc,            \* where each thread is
  unload,        \* the next thread my_exit stops; one past the last: free_irq
  irq,           \* whether isr is installed
  presses, taken

ghosts == <<presses, taken>>
vars == <<driver, done, queue, woken, should_stop, pc, unload, irq, presses, taken>>

Waiters == IF driver = "completion" THEN 1 .. 2 ELSE 1 .. 1

(* complete(): done++ unless it is UINT_MAX.                                *)
Completed == IF done = UintMax THEN done ELSE done + 1

(* What a wait that returns leaves of done. *)
Taken == IF done = UintMax THEN done ELSE done - 1

(* The thread complete() wakes, the first in line; mutant: nobody. *)
NotWoken == {}
FirstWoken == IF queue = <<>> THEN {} ELSE {Head(queue)}

(* reinit_completion(); mutant: it makes the completion ready.              *)
ReadyAgain == 1
Reinitialized == 0

Init ==
  /\ driver \in Drivers
  /\ done = 0
  /\ queue = <<>>
  /\ woken = [t \in Waiters |-> FALSE]
  /\ should_stop = {}
  /\ pc = [t \in Waiters |-> "loop"]
  /\ unload = 1
  /\ irq = TRUE
  /\ presses = 0
  /\ taken = 0

Goto(t, l) == pc' = [pc EXCEPT ![t] = l]

(* signal_pending_state(): kthread_stop() leaves its thread a notification  *)
(* signal, which ends an interruptible wait but not a plain one; only the   *)
(* threads of my_completion.c wait interruptibly.  Mutant: they do not.     *)
WaitsPlainly(t) == FALSE
Interrupted(t) == driver = "completion" /\ t \in should_stop
-----------------------------------------------------------------------------
(* while (!kthread_should_stop()) *)
LoopTest(t) ==
  /\ pc[t] = "loop"
  /\ Goto(t, IF t \in should_stop THEN "exited" ELSE "wait")
  /\ UNCHANGED <<driver, done, queue, woken, should_stop, unload, irq, ghosts>>

(* The line without t, which is in it at most once. *)
LineWithout(t) ==
  IF Contains(queue, t) THEN RemoveAt(queue, CHOOSE i \in DOMAIN queue : queue[i] = t)
                        ELSE queue

(* The wait returns: my_completion.c has the press to process and the       *)
(* completion to reinitialize, the others start over.                       *)
WaitReturns(t) ==
  /\ done' = Taken
  /\ queue' = LineWithout(t)
  /\ taken' = taken + (done - Taken)
  /\ Goto(t, IF driver = "completion" THEN "reinit" ELSE "loop")

(* The thread gets in line, unless it still is, and sleeps. *)
WaitSleeps(t) ==
  /\ queue' = IF Contains(queue, t) THEN queue ELSE Append(queue, t)
  /\ woken' = [woken EXCEPT ![t] = FALSE]
  /\ Goto(t, "sleep")

(* The interruptible wait returns -ERESTARTSYS: the thread leaves the line, *)
(* breaks out of its loop and exits.                                        *)
WaitFails(t) ==
  /\ queue' = LineWithout(t)
  /\ Goto(t, "exited")
  /\ UNCHANGED <<done, taken, woken>>

(* Under the lock of the completion: take it, or else see the signal, or    *)
(* else sleep.                                                              *)
Wait(t) ==
  \/ /\ done > 0
     /\ WaitReturns(t)
     /\ UNCHANGED woken
  \/ /\ done = 0
     /\ Interrupted(t)
     /\ WaitFails(t)
  \/ /\ done = 0
     /\ ~Interrupted(t)
     /\ WaitSleeps(t)
     /\ UNCHANGED <<done, taken>>

(* wait_for_completion() or wait_for_completion_interruptible().            *)
WaitEnter(t) ==
  /\ pc[t] = "wait"
  /\ Wait(t)
  /\ UNCHANGED <<driver, should_stop, unload, irq, presses>>

(* A thread that was woken, by complete() or by kthread_stop(), looks again.*)
WaitWakes(t) ==
  /\ pc[t] = "sleep"
  /\ woken[t]
  /\ Wait(t)
  /\ UNCHANGED <<driver, should_stop, unload, irq, presses>>

(* reinit_completion(&my_comp), a plain store. *)
Reinit(t) ==
  /\ pc[t] = "reinit"
  /\ done' = Reinitialized
  /\ Goto(t, "loop")
  /\ UNCHANGED <<driver, queue, woken, should_stop, unload, irq, ghosts>>
-----------------------------------------------------------------------------
(* isr: an edge that is not taken for bouncing.  One that is changes        *)
(* nothing.  complete() counts and wakes under the lock of the completion.  *)
Isr ==
  /\ irq
  /\ presses < MaxPresses
  /\ presses' = presses + 1
  /\ done' = Completed
  /\ woken' = [t \in Waiters |-> woken[t] \/ t \in FirstWoken]
  /\ queue' = IF FirstWoken = {} THEN queue ELSE Tail(queue)
  /\ UNCHANGED <<driver, should_stop, pc, unload, irq, taken>>

(* my_exit: kthread_stop(t) marks the thread, signals and wakes it (see     *)
(* Interrupted) ...                                                         *)
Stop(t) ==
  /\ unload = t
  /\ t \notin should_stop
  /\ should_stop' = should_stop \cup {t}
  /\ woken' = [woken EXCEPT ![t] = TRUE]
  /\ UNCHANGED <<driver, done, queue, pc, unload, irq, ghosts>>

(* ... and waits for it to exit. *)
Stopped(t) ==
  /\ unload = t
  /\ t \in should_stop
  /\ pc[t] = "exited"
  /\ unload' = t + 1
  /\ UNCHANGED <<driver, done, queue, woken, should_stop, pc, irq, ghosts>>

FreeIrq ==
  /\ unload = Cardinality(Waiters) + 1
  /\ irq' = FALSE
  /\ unload' = unload + 1
  /\ UNCHANGED <<driver, done, queue, woken, should_stop, pc, ghosts>>
-----------------------------------------------------------------------------
ThreadStep(t) == LoopTest(t) \/ WaitEnter(t) \/ WaitWakes(t) \/ Reinit(t)

Next ==
  \/ \E t \in Waiters : ThreadStep(t) \/ Stop(t) \/ Stopped(t)
  \/ Isr \/ FreeIrq

Spec == Init /\ [][Next]_vars

(* Runnable threads are scheduled and an rmmod that has begun goes on;      *)
(* presses and the first call of rmmod are up to the user.                  *)
Fairness ==
  /\ \A t \in 1 .. 2 : WF_vars(t \in Waiters /\ ThreadStep(t))
  /\ \A t \in 1 .. 2 : WF_vars(t \in Waiters /\ (Stopped(t) \/ (t > 1 /\ Stop(t))))
  /\ WF_vars(FreeIrq)

FairSpec == Spec /\ Fairness
-----------------------------------------------------------------------------
(* No press is processed twice, by one thread or by two; and in             *)
(* my_completion_ex1.c, which never reinitializes, none is lost, up to the  *)
(* press that would make done UINT_MAX (my_completion.c:56, 64, 123;        *)
(* my_completion_ex1.c:46, 78).                                             *)
EveryPressCounts ==
  presses < UintMax =>
    /\ taken + done <= presses
    /\ driver = "ex1" => taken + done = presses

(* No thread sleeps beside a completion unless another was woken to take it *)
(* or is about to reinitialize it (my_completion.c:56, 64, 123).            *)
CompletionHasATaker ==
  done > 0 /\ (\E t \in Waiters : pc[t] = "sleep" /\ ~woken[t])
    => \E u \in Waiters : pc[u] = "reinit" \/ (pc[u] = "sleep" /\ woken[u])

(* While the module is loaded its threads take every completion.            *)
CompletionIsTaken ==
  done > 0 ~> done = 0 \/ should_stop # {} \/ presses >= UintMax

(* In my_completion_ex1.c a press lets the thread rmmod waits for exit.     *)
PressUnblocksUnload ==
  driver = "ex1" /\ should_stop # {} /\ done > 0 ~> pc[1] = "exited"

(* In my_completion.c an rmmod that has begun ends without a further press, *)
(* wherever kthread_stop() finds the threads between their test and their   *)
(* sleep, as my_completion.c:50-55 says: "wait_for_completion_interruptible *)
(* () is used instead of wait_for_completion() so that kthread_stop()       *)
(* during rmmod can unblock this call cleanly".                             *)
UnloadFinishes ==
  driver = "completion" /\ should_stop # {} ~> unload > Cardinality(Waiters)
=============================================================================
