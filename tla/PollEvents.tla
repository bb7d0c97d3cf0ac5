----------------------------- MODULE PollEvents -----------------------------
(* The character device of 18_wait_queue_poll_fasync/03_poll_select: a GPIO *)
(* interrupt counts button presses in event_count, every open file keeps    *)
(* the count it last read in last_event, and read() and poll() compare the  *)
(* two.  Threads, the interrupt handler and signals interleave at every     *)
(* load and store of shared memory.                                         *)
(*                                                                          *)
(* presses, seen and got are history variables: the press counts that       *)
(* event_count, last_event and a reader's register stand for, not reduced   *)
(* modulo the width of an unsigned int; messages counts the reads of a file *)
(* that returned the message.  No action reads them but to bound the        *)
(* presses of a run.                                                        *)
EXTENDS Integers, FiniteSets

CONSTANTS
  Thread,      \* user threads
  File,        \* open file descriptions the threads may create
  Users,       \* Users[f]: the threads that hold a descriptor of f
  Modulus,     \* 2^32 in the code: the values of an unsigned int
  MaxPresses   \* bound: the presses of one behaviour

ASSUME UsersAssumption == Users \in [File -> SUBSET Thread]
ASSUME ModulusAssumption == Modulus \in Nat /\ Modulus >= 2
ASSUME MaxPressesAssumption == MaxPresses \in Nat

VARIABLES
  event_count,   \* presses counted so far, an unsigned int
  isr,           \* where the interrupt handler is: "idle" or "wake"
  opened,        \* the files that are open
  nonblock,      \* nonblock[f]: f was opened with O_NONBLOCK
  last_event,    \* file->private_data->last_event
  queue,         \* the threads with an entry on my_wait_queue
  woken,         \* woken[t]: t was woken since it last set itself to sleep
  signal,        \* signal[t]: a signal is pending for t
  pc,            \* where each thread is in the driver
  file,          \* file[t]: the file of t's system call
  loaded,        \* loaded[t]: the event_count t loaded to store in last_event
  presses, seen, got, messages

device == <<event_count, last_event, opened, nonblock>>
waits  == <<queue, woken, signal>>
ghosts == <<presses, seen, got, messages>>
vars == <<event_count, isr, opened, nonblock, last_event, queue, woken,
          signal, pc, file, loaded, presses, seen, got, messages>>

Word == 0 .. Modulus - 1

ReadSteps == {"check", "prepare", "cond", "sched", "load", "store"}
PollSteps == {"p_register", "p_check", "p_sched", "p_last"}

TypeOK ==
  /\ event_count \in Word
  /\ isr \in {"idle", "wake"}
  /\ opened \subseteq File
  /\ nonblock \in [File -> BOOLEAN]
  /\ last_event \in [File -> Word]
  /\ queue \subseteq Thread
  /\ woken \in [Thread -> BOOLEAN]
  /\ signal \in [Thread -> BOOLEAN]
  /\ pc \in [Thread -> {"idle"} \cup ReadSteps \cup PollSteps]
  /\ file \in [Thread -> File]
  /\ loaded \in [Thread -> Word]
  /\ presses \in Nat
  /\ seen \in [File -> Nat]
  /\ got \in [Thread -> Nat]
  /\ messages \in [File -> Nat]

(* The condition of my_read's test, of its wait_event and of my_poll's mask *)
Unread(f) == last_event[f] # event_count

(* my_read's first test sends the caller to wait. *)
MustWait(t) == ~Unread(file[t])

(* wait_event's condition; mutant: a wake-up is enough. *)
ConditionOrWoken(t) == Unread(file[t]) \/ woken[t]
Condition(t) == Unread(file[t])

(* The count a new file starts from; mutant: all presses are new to it. *)
InitialEventZero == 0
InitialEvent == event_count

(* event_count++ on an unsigned int.                                         *)
Count == (event_count + 1) % Modulus

(* The threads wake_up_interruptible reaches; mutants: one only, none.      *)
WakeOne == IF queue = {} THEN {} ELSE {CHOOSE t \in queue : TRUE}
WakeNone == {}
WakeAll == queue

InCall(t, f) == pc[t] # "idle" /\ file[t] = f

(* The kernel keeps a file that a call is using. *)
Unused(f) == \A t \in Thread : ~InCall(t, f)

Init ==
  /\ event_count = 0
  /\ isr = "idle"
  /\ opened = {}
  /\ nonblock = [f \in File |-> FALSE]
  /\ last_event = [f \in File |-> 0]
  /\ queue = {}
  /\ woken = [t \in Thread |-> FALSE]
  /\ signal = [t \in Thread |-> FALSE]
  /\ pc = [t \in Thread |-> "idle"]
  /\ file \in [Thread -> File]
  /\ loaded = [t \in Thread |-> 0]
  /\ presses = 0
  /\ seen = [f \in File |-> 0]
  /\ got = [t \in Thread |-> 0]
  /\ messages = [f \in File |-> 0]

Goto(t, l) == pc' = [pc EXCEPT ![t] = l]

(* The system call returns to user space, where a pending signal is taken. *)
Return(t) ==
  /\ Goto(t, "idle")
  /\ signal' = [signal EXCEPT ![t] = FALSE]
-----------------------------------------------------------------------------
(* my_open: the new file starts at the current count.  The file is not      *)
(* reachable before open returns, so the load and the store are one step.   *)
Open(f) ==
  /\ f \notin opened
  /\ Users[f] # {}
  /\ opened' = opened \cup {f}
  /\ \E nb \in BOOLEAN : nonblock' = [nonblock EXCEPT ![f] = nb]
  /\ last_event' = [last_event EXCEPT ![f] = InitialEvent]
  /\ seen' = [seen EXCEPT ![f] = presses]
  /\ messages' = [messages EXCEPT ![f] = 0]
  /\ UNCHANGED <<event_count, isr, waits, pc, file, loaded, presses, got>>

(* my_release runs when the last descriptor is gone: no call is using f.    *)
(* The file's memory is freed; what it held does not matter any more.       *)
Release(f) ==
  /\ f \in opened
  /\ Unused(f)
  /\ opened' = opened \ {f}
  /\ nonblock' = [nonblock EXCEPT ![f] = FALSE]
  /\ last_event' = [last_event EXCEPT ![f] = 0]
  /\ seen' = [seen EXCEPT ![f] = 0]
  /\ messages' = [messages EXCEPT ![f] = 0]
  /\ UNCHANGED <<event_count, isr, waits, pc, file, loaded, presses, got>>

(* A thread enters my_read or, by way of poll(2), my_poll. *)
Call(t, f) ==
  /\ pc[t] = "idle"
  /\ f \in opened
  /\ t \in Users[f]
  /\ \E entry \in {"check", "p_register"} : Goto(t, entry)
  /\ file' = [file EXCEPT ![t] = f]
  /\ UNCHANGED <<device, isr, waits, loaded, ghosts>>
-----------------------------------------------------------------------------
(* my_read: the first test.  Nothing new: -EAGAIN or wait_event.            *)
ReadCheck(t) ==
  /\ pc[t] = "check"
  /\ \/ /\ ~MustWait(t)
        /\ Goto(t, "load")
        /\ UNCHANGED signal
     \/ /\ MustWait(t)
        /\ nonblock[file[t]]
        /\ Return(t)
     \/ /\ MustWait(t)
        /\ ~nonblock[file[t]]
        /\ Goto(t, "prepare")
        /\ UNCHANGED signal
  /\ UNCHANGED <<device, isr, queue, woken, file, loaded, ghosts>>

(* prepare_to_wait_event: join the queue and mark the task as sleeping.  A  *)
(* pending signal keeps the task runnable.                                  *)
WaitPrepare(t) ==
  /\ pc[t] = "prepare"
  /\ queue' = queue \cup {t}
  /\ woken' = [woken EXCEPT ![t] = signal[t]]
  /\ Goto(t, "cond")
  /\ UNCHANGED <<device, isr, signal, file, loaded, ghosts>>

(* wait_event_interruptible: test the condition once queued, then the       *)
(* signal, then give up the processor.  finish_wait leaves the queue.       *)
WaitCondition(t) ==
  /\ pc[t] = "cond"
  /\ \/ /\ Condition(t)
        /\ queue' = queue \ {t}
        /\ Goto(t, "load")
        /\ UNCHANGED signal
     \/ /\ ~Condition(t)
        /\ signal[t]
        /\ queue' = queue \ {t}
        /\ Return(t)
     \/ /\ ~Condition(t)
        /\ ~signal[t]
        /\ Goto(t, "sched")
        /\ UNCHANGED <<queue, signal>>
  /\ UNCHANGED <<device, isr, woken, file, loaded, ghosts>>

(* schedule() comes back only after a wake-up. *)
WaitSchedule(t) ==
  /\ pc[t] = "sched"
  /\ woken[t]
  /\ Goto(t, "prepare")
  /\ UNCHANGED <<device, isr, waits, file, loaded, ghosts>>

(* data->last_event = event_count: the load ...                             *)
ReadLoad(t) ==
  /\ pc[t] = "load"
  /\ loaded' = [loaded EXCEPT ![t] = event_count]
  /\ got' = [got EXCEPT ![t] = presses]
  /\ Goto(t, "store")
  /\ UNCHANGED <<device, isr, waits, file, presses, seen, messages>>

(* ... and the store.  copy_to_user follows; whether it succeeds changes no *)
(* state of the driver: the press is consumed even when -EFAULT is returned. *)
(* The register is dead from here on.                                       *)
ReadStore(t) ==
  /\ pc[t] = "store"
  /\ last_event' = [last_event EXCEPT ![file[t]] = loaded[t]]
  /\ seen' = [seen EXCEPT ![file[t]] = got[t]]
  /\ messages' = [messages EXCEPT ![file[t]] = @ + 1]
  /\ loaded' = [loaded EXCEPT ![t] = 0]
  /\ got' = [got EXCEPT ![t] = 0]
  /\ Return(t)
  /\ UNCHANGED <<event_count, isr, opened, nonblock, queue, woken, file,
                 presses>>
-----------------------------------------------------------------------------
(* poll_wait: the first call of my_poll queues the caller. *)
PollRegister(t) ==
  /\ pc[t] = "p_register"
  /\ queue' = queue \cup {t}
  /\ woken' = [woken EXCEPT ![t] = FALSE]
  /\ Goto(t, "p_check")
  /\ UNCHANGED <<device, isr, signal, file, loaded, ghosts>>

(* my_poll's mask; poll(2) returns on a mask or a signal, sleeps otherwise. *)
PollCheck(t) ==
  /\ pc[t] = "p_check"
  /\ \/ /\ Unread(file[t]) \/ signal[t]
        /\ queue' = queue \ {t}
        /\ Return(t)
     \/ /\ ~Unread(file[t])
        /\ ~signal[t]
        /\ Goto(t, "p_sched")
        /\ UNCHANGED <<queue, signal>>
  /\ UNCHANGED <<device, isr, woken, file, loaded, ghosts>>

(* poll(2) wakes up, forgets the wake-up and asks my_poll again. *)
PollSchedule(t) ==
  /\ pc[t] = "p_sched"
  /\ woken[t]
  /\ woken' = [woken EXCEPT ![t] = FALSE]
  /\ Goto(t, "p_check")
  /\ UNCHANGED <<device, isr, queue, signal, file, loaded, ghosts>>

(* The time-out of poll(2) expires: my_poll is asked once more ... *)
PollTimeout(t) ==
  /\ pc[t] = "p_sched"
  /\ Goto(t, "p_last")
  /\ UNCHANGED <<device, isr, waits, file, loaded, ghosts>>

(* ... and poll(2) returns whatever the mask is. *)
PollLast(t) ==
  /\ pc[t] = "p_last"
  /\ queue' = queue \ {t}
  /\ Return(t)
  /\ UNCHANGED <<device, isr, woken, file, loaded, ghosts>>
-----------------------------------------------------------------------------
(* A falling edge on the button: isr counts it ... *)
IsrCount ==
  /\ isr = "idle"
  /\ presses < MaxPresses
  /\ event_count' = Count
  /\ presses' = presses + 1
  /\ isr' = "wake"
  /\ UNCHANGED <<last_event, opened, nonblock, waits, pc, file, loaded,
                 seen, got, messages>>

(* ... and wakes every thread on the queue.  A reader's entry leaves the    *)
(* queue with the wake-up, a poller's stays.                                *)
IsrWake ==
  /\ isr = "wake"
  /\ woken' = [t \in Thread |-> woken[t] \/ t \in WakeAll]
  /\ queue' = {t \in queue : t \in WakeAll => pc[t] \in PollSteps}
  /\ isr' = "idle"
  /\ UNCHANGED <<device, signal, pc, file, loaded, ghosts>>

(* A signal for a thread that is in the driver makes it runnable. *)
Signal(t) ==
  /\ pc[t] # "idle"
  /\ ~signal[t]
  /\ signal' = [signal EXCEPT ![t] = TRUE]
  /\ woken' = [woken EXCEPT ![t] = TRUE]
  /\ UNCHANGED <<device, isr, queue, pc, file, loaded, ghosts>>
-----------------------------------------------------------------------------
ReadStep(t) ==
  \/ ReadCheck(t) \/ WaitPrepare(t) \/ WaitCondition(t) \/ WaitSchedule(t)
  \/ ReadLoad(t) \/ ReadStore(t)

PollStep(t) ==
  PollRegister(t) \/ PollCheck(t) \/ PollSchedule(t) \/ PollLast(t)

Next ==
  \/ \E f \in File : Open(f) \/ Release(f)
  \/ \E t \in Thread : ReadStep(t) \/ PollStep(t) \/ PollTimeout(t) \/ Signal(t)
  \/ \E t \in Thread, f \in File : Call(t, f)
  \/ IsrCount \/ IsrWake

Spec == Init /\ [][Next]_vars

(* A thread that can run is scheduled, and a handler that has started is    *)
(* finished.  Presses, signals, time-outs and new calls are up to the user. *)
Fairness ==
  /\ \A t \in Thread : WF_vars(ReadStep(t) \/ PollStep(t))
  /\ WF_vars(IsrWake)

FairSpec == Spec /\ Fairness
-----------------------------------------------------------------------------
(* A file only one thread uses: its calls do not overlap. *)
Private(f) == \E t \in Thread : Users[f] = {t}

Sleeping(t) == pc[t] \in {"sched", "p_sched"} /\ ~woken[t]

(* event_count and every last_event are the history's counts in an unsigned *)
(* int (my_poll.c:79, 111, 143): the presses an open file has not read show *)
(* in read() and in poll()'s mask unless their number is a multiple of 2^32.*)
UnreadExact ==
  \A f \in opened :
    /\ seen[f] <= presses
    /\ Unread(f) <=> (presses - seen[f]) % Modulus # 0

(* No press is missed by a sleeping reader or poller of its own file: when  *)
(* the file has an unread press, the handler is still about to wake it      *)
(* (wait_event at my_poll.c:72, poll_wait at 96, wake_up at 146).           *)
NoLostWakeup ==
  \A t \in Thread :
    Sleeping(t) /\ Private(file[t]) /\ Unread(file[t])
      => isr = "wake" /\ t \in queue

(* A read that returns the message on a private file consumes at least one  *)
(* press that no earlier read of the file consumed (my_poll.c:60, 72, 79);  *)
(* the runs see it as part of ImplementsCursor.                             *)
EachReadConsumes ==
  [][\A t \in Thread :
       pc[t] = "store" /\ pc'[t] # "store" /\ Private(file[t])
         => seen'[file[t]] > seen[file[t]]]_vars

(* A thread inside read() or poll() on its own file leaves the driver once  *)
(* the file has an unread press.  MaxPresses < Modulus: event_count does    *)
(* not come full circle while the thread waits to run.                      *)
BlockedCallReturns ==
  \A t \in Thread :
    pc[t] # "idle" /\ Private(file[t]) /\ Unread(file[t]) ~> pc[t] = "idle"
-----------------------------------------------------------------------------
(* The driver keeps the promise of EventCursor to every private file.       *)
Cursor == INSTANCE EventCursor
            WITH cursor <- [f \in {g \in opened : Private(g)} |-> seen[f]],
                 messages <- [f \in {g \in opened : Private(g)} |-> messages[f]]

ImplementsCursor == Cursor!Spec
=============================================================================
