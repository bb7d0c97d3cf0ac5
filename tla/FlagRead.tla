------------------------------ MODULE FlagRead ------------------------------
(* The character devices of 18_wait_queue_poll_fasync/01_busy_wait,         *)
(* 02_wait_queue and 04_fasync: a GPIO interrupt raises data_available, and *)
(* read() waits for it, clears it and returns one message.  The drivers     *)
(* differ in how a reader learns of it: in a loop, on a wait queue, or by   *)
(* SIGIO, whose handler reads as that of test_fasync.c does; all threads    *)
(* share the flag.                                                          *)
(*                                                                          *)
(* presses, got and messages are history variables: the presses so far,     *)
(* those up to a thread's last message, and its messages.  Only the bound   *)
(* reads one of them.                                                       *)
EXTENDS Integers, FiniteSets

CONSTANTS
  Thread,      \* user threads, in 04 processes, each with its own file
  Drivers,     \* the drivers looked at
  MaxPresses   \* bound: the presses of one behaviour

ASSUME DriversAssumption == Drivers \subseteq {"busy_wait", "wait_queue", "fasync"}
ASSUME MaxPressesAssumption == MaxPresses \in Nat

VARIABLES
  loaded,           \* the driver that is loaded
  data_available,   \* the flag, an int
  isr,              \* where the interrupt handler is: "idle" or "wake"
  queue,            \* the threads with an entry on my_queue
  woken,            \* woken[t]: t was woken since it last set itself to sleep
  signal,           \* signal[t]: a signal is pending for t
  nonblock,         \* nonblock[t]: t reads with O_NONBLOCK
  async_queue,      \* the threads whose file wants SIGIO
  sigio,            \* the threads with SIGIO pending
  place,               \* where each thread is in my_read
  presses, got, messages

waits == <<queue, woken, signal>>
notice == <<async_queue, sigio>>
ghosts == <<presses, got, messages>>
flag_vars == <<loaded, data_available, isr, queue, woken, signal, nonblock,
          async_queue, sigio, place, presses, got, messages>>

Sleeps == loaded = "wait_queue"
Notifies == loaded = "fasync"

WaitSteps == IF Sleeps THEN {"prepare", "cond", "sched"} ELSE {"spin"}

TypeOK ==
  /\ loaded \in Drivers
  /\ data_available \in {0, 1}
  /\ isr \in {"idle", "wake"}
  /\ queue \subseteq Thread
  /\ woken \in [Thread -> BOOLEAN]
  /\ signal \in [Thread -> BOOLEAN]
  /\ nonblock \in [Thread -> BOOLEAN]
  /\ async_queue \subseteq Thread
  /\ sigio \subseteq Thread
  /\ place \in [Thread -> {"idle", "check", "clear"} \cup WaitSteps]
  /\ presses \in Nat
  /\ got \in [Thread -> Nat]
  /\ messages \in [Thread -> Nat]

(* The handler's store. *)
Raise == 1

(* The reader's store; mutant: it is missing. *)
LowerNot == data_available
Lower == 0

(* The condition of the loop and of wait_event; mutant: any wake-up will do.*)
ReadyOrWoken(t) == data_available # 0 \/ woken[t]
Ready(t) == data_available # 0

(* What ends the wait besides the condition. *)
Interrupted(t) == signal[t]

(* The threads wake_up_interruptible reaches; mutant: none.                 *)
WakeNone == {}
WakeAll == queue

(* The files kill_fasync finds; mutant: it is not called. *)
NotifyNone == {}
NotifyAll == async_queue

FlagInit ==
  /\ loaded \in Drivers
  /\ data_available = 0
  /\ isr = "idle"
  /\ queue = {}
  /\ woken = [t \in Thread |-> FALSE]
  /\ signal = [t \in Thread |-> FALSE]
  /\ nonblock = [t \in Thread |-> FALSE]
  /\ async_queue = {}
  /\ sigio = {}
  /\ place = [t \in Thread |-> "idle"]
  /\ presses = 0
  /\ got = [t \in Thread |-> 0]
  /\ messages = [t \in Thread |-> 0]

MoveTo(t, l) == place' = [place EXCEPT ![t] = l]

(* my_read returns; back in user space a pending signal is taken. *)
Return(t) ==
  /\ MoveTo(t, "idle")
  /\ signal' = [signal EXCEPT ![t] = FALSE]
-----------------------------------------------------------------------------
(* A thread in user space takes SIGIO before it does anything else. *)
InUser(t) == place[t] = "idle" /\ t \notin sigio

(* read(2) on a file opened with or without O_NONBLOCK. *)
CallRead(t) ==
  /\ InUser(t)
  /\ \E nb \in BOOLEAN : nonblock' = [nonblock EXCEPT ![t] = nb]
  /\ MoveTo(t, "check")
  /\ UNCHANGED <<loaded, data_available, isr, waits, ghosts, notice>>

(* my_read's first test: a message, -EAGAIN, which is all 04 knows, or the  *)
(* wait.                                                                    *)
ReadCheck(t) ==
  /\ place[t] = "check"
  /\ \/ /\ data_available # 0
        /\ MoveTo(t, "clear")
        /\ UNCHANGED signal
     \/ /\ data_available = 0
        /\ nonblock[t] \/ Notifies
        /\ Return(t)
     \/ /\ data_available = 0
        /\ ~nonblock[t] /\ ~Notifies
        /\ MoveTo(t, IF Sleeps THEN "prepare" ELSE "spin")
        /\ UNCHANGED signal
  /\ UNCHANGED <<loaded, data_available, isr, queue, woken, nonblock, ghosts, notice>>

(* while (!data_available) cpu_relax(): the turn that finds it set.         *)
Spin(t) ==
  /\ place[t] = "spin"
  /\ data_available # 0
  /\ MoveTo(t, "clear")
  /\ UNCHANGED <<loaded, data_available, isr, waits, nonblock, ghosts, notice>>

(* prepare_to_wait_event: join the queue and mark the task as sleeping.  A  *)
(* pending signal keeps the task runnable.                                  *)
WaitPrepare(t) ==
  /\ place[t] = "prepare"
  /\ queue' = queue \cup {t}
  /\ woken' = [woken EXCEPT ![t] = Interrupted(t)]
  /\ MoveTo(t, "cond")
  /\ UNCHANGED <<loaded, data_available, isr, signal, nonblock, ghosts, notice>>

(* wait_event_interruptible: the condition, then the signal, then sleep.    *)
WaitCondition(t) ==
  /\ place[t] = "cond"
  /\ \/ /\ Ready(t)
        /\ queue' = queue \ {t}
        /\ MoveTo(t, "clear")
        /\ UNCHANGED signal
     \/ /\ ~Ready(t)
        /\ Interrupted(t)
        /\ queue' = queue \ {t}
        /\ Return(t)
     \/ /\ ~Ready(t)
        /\ ~Interrupted(t)
        /\ MoveTo(t, "sched")
        /\ UNCHANGED <<queue, signal>>
  /\ UNCHANGED <<loaded, data_available, isr, woken, nonblock, ghosts, notice>>

(* schedule() comes back only after a wake-up. *)
WaitSchedule(t) ==
  /\ place[t] = "sched"
  /\ woken[t]
  /\ MoveTo(t, "prepare")
  /\ UNCHANGED <<loaded, data_available, isr, waits, nonblock, ghosts, notice>>

(* data_available = 0, and the message goes to the user; whether            *)
(* copy_to_user succeeds changes no state of the driver.                    *)
Clear(t) ==
  /\ place[t] = "clear"
  /\ data_available' = Lower
  /\ got' = [got EXCEPT ![t] = presses]
  /\ messages' = [messages EXCEPT ![t] = @ + 1]
  /\ Return(t)
  /\ UNCHANGED <<loaded, isr, queue, woken, nonblock, presses, notice>>
-----------------------------------------------------------------------------
(* A falling edge on the button: isr raises the flag ... *)
IsrRaise ==
  /\ isr = "idle"
  /\ presses < MaxPresses
  /\ data_available' = Raise
  /\ presses' = presses + 1
  /\ isr' = IF loaded = "busy_wait" THEN "idle" ELSE "wake"
  /\ UNCHANGED <<loaded, waits, nonblock, place, got, messages, notice>>

(* ... and, in 02_wait_queue, wakes the queue ... *)
IsrWake ==
  /\ isr = "wake"
  /\ Sleeps
  /\ woken' = [t \in Thread |-> woken[t] \/ t \in WakeAll]
  /\ queue' = queue \ WakeAll
  /\ isr' = "idle"
  /\ UNCHANGED <<loaded, data_available, signal, nonblock, place, ghosts, notice>>

(* ... or, in 04_fasync, sends SIGIO, which does not queue. *)
IsrNotify ==
  /\ isr = "wake"
  /\ Notifies
  /\ sigio' = sigio \cup NotifyAll
  /\ isr' = "idle"
  /\ UNCHANGED <<loaded, data_available, waits, nonblock, async_queue, place, ghosts>>

(* fcntl sets or clears O_ASYNC, or the file is closed, which clears it:    *)
(* my_fasync.                                                               *)
SetAsync(t) ==
  /\ Notifies
  /\ InUser(t)
  /\ async_queue' \in {async_queue \cup {t}, async_queue \ {t}}
  /\ UNCHANGED <<loaded, data_available, isr, waits, nonblock, sigio, place, ghosts>>

(* The process takes SIGIO: its handler reads. *)
TakeSigio(t) ==
  /\ t \in sigio
  /\ place[t] = "idle"
  /\ sigio' = sigio \ {t}
  /\ MoveTo(t, "check")
  /\ UNCHANGED <<loaded, data_available, isr, waits, nonblock, async_queue, ghosts>>

(* A signal for a thread in my_read; it ends an interruptible sleep only.   *)
Signal(t) ==
  /\ place[t] # "idle"
  /\ ~signal[t]
  /\ signal' = [signal EXCEPT ![t] = TRUE]
  /\ woken' = [woken EXCEPT ![t] = @ \/ Interrupted(t)']
  /\ UNCHANGED <<loaded, data_available, isr, queue, nonblock, place, ghosts, notice>>

ReadStep(t) ==
  \/ ReadCheck(t) \/ Spin(t) \/ Clear(t)
  \/ WaitPrepare(t) \/ WaitCondition(t) \/ WaitSchedule(t)

FlagNext ==
  \/ \E t \in Thread :
       CallRead(t) \/ ReadStep(t) \/ Signal(t) \/ SetAsync(t) \/ TakeSigio(t)
  \/ IsrRaise \/ IsrWake \/ IsrNotify

FlagSpec == FlagInit /\ [][FlagNext]_flag_vars

(* A runnable thread is scheduled, a started handler is finished, and a     *)
(* process takes a pending SIGIO; presses, other signals and calls are up   *)
(* to the user.                                                             *)
FlagFairness ==
  /\ \A t \in Thread : WF_flag_vars(ReadStep(t)) /\ WF_flag_vars(TakeSigio(t))
  /\ WF_flag_vars(IsrWake \/ IsrNotify)

FlagFairSpec == FlagSpec /\ FlagFairness
-----------------------------------------------------------------------------
Sleeping(t) == place[t] = "sched" /\ ~woken[t]

(* No reader sleeps on a raised flag unless the handler is about to wake    *)
(* it, whatever the other readers do (wait_queue.c:59, 97, 99).             *)
NoLostWakeup ==
  \A t \in Thread :
    Sleeping(t) /\ data_available = 1 => isr = "wake" /\ t \in queue

(* Each reader is a cursor into the presses: every message it gets stands   *)
(* for a press after its previous message, and is counted once, also when   *)
(* readers race for the flag and presses fall between the test and the      *)
(* reset (wait_queue.c:46, 59, 64; busy_wait.c:41; my_fasync.c:45, 50).     *)
Cursor == INSTANCE EventCursor WITH File <- Thread, cursor <- got
ImplementsCursor == Cursor!Spec

(* While a reader is in my_read a raised flag is taken by it or by another  *)
(* reader.                                                                  *)
PressIsTaken ==
  \A t \in Thread : place[t] # "idle" /\ data_available = 1 ~> data_available = 0

(* 04: a press is taken as long as a file keeps O_ASYNC, by that process or *)
(* another, although SIGIO does not queue and a press may fall anywhere     *)
(* into the read of the handler (my_fasync.c:45-50, 96-98;                  *)
(* test_fasync.c:11).                                                       *)
NotifiedPressIsTaken ==
  \A t \in Thread :
    Notifies /\ isr = "wake" /\ t \in async_queue
      ~> data_available = 0 \/ t \notin async_queue
=============================================================================
