--------------------------- MODULE ExclusiveOpen ---------------------------
(* Four drivers of lkmpg-master/examples that let one process in at a time  *)
(* with an atomic already_open: sleep.c puts those who open /proc/sleep     *)
(* meanwhile to sleep, chardev.c and static_key.c refuse them, and          *)
(* chardev2.c guards each ioctl, but neither read nor write.                *)
(*                                                                          *)
(* The device's text is two parts, each copied on its own; a part is known  *)
(* by the number of the text it belongs to (of static_key.c: by the state   *)
(* of the key).                                                             *)
EXTENDS Integers, Sequences, FiniteSets

CONSTANTS
  Thread,     \* processes, each with a descriptor of its own
  Drivers,    \* the drivers looked at
  MaxTexts    \* bound: so many texts are told apart

ASSUME DriversAssumption ==
  Drivers \subseteq {"sleep", "chardev", "static_key", "chardev2"}
ASSUME MaxTextsAssumption == MaxTexts \in Nat \ {0}

VARIABLES
  driver,         \* the driver that is loaded
  already_open,   \* the flag: 0 or 1
  msg,            \* the two parts of the text
  counter,        \* the number of the latest text
  fkey,           \* the static key
  finished,       \* sleep.c: the next read says end of file
  pc,             \* where each process is
  bypass,         \* bypass[t]: t is in read or write of chardev2.c
  nonblock,       \* nonblock[t]: t opens with O_NONBLOCK
  signal,         \* the signal that waits for t, see Signals
  queue, woken,   \* the processes on waitq, and those woken since they slept
  got,            \* the parts t has read since it came in or was told the end
  own,            \* history: the text that was made when t came in
  plain           \* history: write of chardev2.c was used

waits == <<queue, woken>>
text == <<msg, counter, fkey, finished>>
ghosts == <<own, plain>>
vars == <<driver, already_open, text, pc, bypass, nonblock, signal, waits, got, ghosts>>

(* "thread": queued for the thread itself, as a fatal one is; "process":    *)
(* queued for the process, as one with a handler or SIGTSTP is.             *)
Signals == {"none", "thread", "process"}

Waiting == {"loop", "prepare", "cond", "sched", "sig"}
Inside == {"fill", "open", "put1", "put2", "get1", "get2", "leave"}

Init ==
  /\ driver \in Drivers
  /\ already_open = 0
  /\ msg = [i \in 1 .. 2 |-> 0]
  /\ counter = 0
  /\ fkey = 0
  /\ finished = 0
  /\ pc = [t \in Thread |-> "idle"]
  /\ bypass = [t \in Thread |-> FALSE]
  /\ nonblock = [t \in Thread |-> FALSE]
  /\ signal = [t \in Thread |-> "none"]
  /\ queue = {}
  /\ woken = [t \in Thread |-> FALSE]
  /\ got = [t \in Thread |-> <<>>]
  /\ own = [t \in Thread |-> 0]
  /\ plain = FALSE
-----------------------------------------------------------------------------
Goto(t, l) == pc' = [pc EXCEPT ![t] = l]

(* Back in user space a pending signal is taken. *)
Return(t) ==
  /\ Goto(t, "idle")
  /\ signal' = [signal EXCEPT ![t] = "none"]

(* What a process that finds the flag clear leaves in it; mutant: it tests  *)
(* it and does not set it.                                                  *)
OnlyTested == already_open
Taken == 1

(* The processes module_close wakes; mutant: none. *)
WakeNone == {}
WakeAll == queue

(* What is_sig is computed from. *)
Seen(t) == signal[t] = "thread"

(* Where the loop of module_open goes on; mutant: it waits without trying.  *)
AgainWaits == "prepare"
Again == "loop"

(* The text open of chardev.c and static_key.c makes; mutant: it is made of *)
(* what the last caller left.                                               *)
TextOld == msg[1]
TextNew == IF driver = "static_key" THEN fkey ELSE counter'

(* sleep.c after the end of file. *)
FinishedReset == 0

(* The texts are numbered; the numbers come round again. *)
NextText == (counter % MaxTexts) + 1
-----------------------------------------------------------------------------
(* open, or of chardev2.c an ioctl. *)
Call(t) ==
  /\ pc[t] = "idle"
  /\ \E nb \in BOOLEAN : nonblock' = [nonblock EXCEPT ![t] = nb /\ driver = "sleep"]
  /\ Goto(t, "try")
  /\ UNCHANGED <<driver, already_open, text, bypass, signal, waits, got, ghosts>>

(* atomic_cmpxchg(&already_open, 0, 1) succeeds, at once or after a wait.   *)
Enter(t) ==
  /\ pc[t] \in {"try", "loop"}
  /\ already_open = 0
  /\ already_open' = Taken
  /\ got' = [got EXCEPT ![t] = <<>>]
  /\ own' = [own EXCEPT ![t] = msg[1]]
  /\ Goto(t, IF driver \in {"chardev", "static_key"} THEN "fill" ELSE "open")
  /\ UNCHANGED <<driver, text, bypass, nonblock, signal, waits, plain>>

(* It fails: -EBUSY or -EAGAIN, or the process of sleep.c waits. *)
Refused(t) ==
  /\ already_open = 1
  /\ \/ /\ pc[t] = "try"
        /\ IF driver = "sleep" /\ ~nonblock[t]
             THEN Goto(t, "loop") /\ UNCHANGED signal
             ELSE Return(t)
     \/ pc[t] = "loop" /\ Goto(t, "prepare") /\ UNCHANGED signal
  /\ UNCHANGED <<driver, already_open, text, bypass, nonblock, waits, got, ghosts>>

(* wait_event_interruptible: join waitq and mark the task as sleeping ...   *)
Prepare(t) ==
  /\ pc[t] = "prepare"
  /\ queue' = queue \cup {t}
  /\ woken' = [woken EXCEPT ![t] = signal[t] # "none"]
  /\ Goto(t, "cond")
  /\ UNCHANGED <<driver, already_open, text, bypass, nonblock, signal, got, ghosts>>

(* ... the condition, then any pending signal, then sleep ... *)
Condition(t) ==
  /\ pc[t] = "cond"
  /\ IF already_open = 0 \/ signal[t] # "none"
       THEN queue' = queue \ {t} /\ Goto(t, "sig")
       ELSE Goto(t, "sched") /\ UNCHANGED queue
  /\ UNCHANGED <<driver, already_open, text, bypass, nonblock, signal, woken, got, ghosts>>

(* ... until a wake-up. *)
Schedule(t) ==
  /\ pc[t] = "sched"
  /\ woken[t]
  /\ Goto(t, "prepare")
  /\ UNCHANGED <<driver, already_open, text, bypass, nonblock, signal, waits, got, ghosts>>

(* is_sig: only current->pending is looked at, and its low half at that.    *)
TestSignal(t) ==
  /\ pc[t] = "sig"
  /\ IF Seen(t) THEN Return(t) ELSE Goto(t, Again) /\ UNCHANGED signal
  /\ UNCHANGED <<driver, already_open, text, bypass, nonblock, waits, got, ghosts>>

(* The rest of open in chardev.c and static_key.c. *)
Fill(t) ==
  /\ pc[t] = "fill"
  /\ counter' = IF driver = "chardev" THEN NextText ELSE counter
  /\ msg' = [i \in 1 .. 2 |-> TextNew]
  /\ own' = [own EXCEPT ![t] = IF driver = "static_key" THEN fkey ELSE counter']
  /\ Goto(t, "open")
  /\ UNCHANGED <<driver, already_open, fkey, finished, bypass, nonblock, signal, waits,
                 got, plain>>
-----------------------------------------------------------------------------
Opened(t, ds) == pc[t] = "open" /\ driver \in ds

(* device_read of chardev.c and static_key.c: the part at the offset, or    *)
(* the end of file, which rewinds.                                          *)
Read(t) ==
  /\ Opened(t, {"chardev", "static_key"})
  /\ got' = [got EXCEPT ![t] = IF Len(@) = 2 THEN <<>> ELSE Append(@, msg[Len(@) + 1])]
  /\ UNCHANGED <<driver, already_open, text, pc, bypass, nonblock, signal, waits, ghosts>>

(* module_output: the message, or as much of it as the caller asked for,    *)
(* and, at the next call, the end of file.                                  *)
Output(t) ==
  /\ Opened(t, {"sleep"})
  /\ \/ /\ finished = 0
        /\ finished' = 1
        /\ \E n \in 0 .. 2 : got' = [got EXCEPT ![t] = [i \in 1 .. n |-> msg[i]]]
     \/ /\ finished = 1
        /\ finished' = FinishedReset
        /\ got' = [got EXCEPT ![t] = <<>>]
  /\ UNCHANGED <<driver, already_open, msg, counter, fkey, pc, bypass, nonblock, signal,
                 waits, ghosts>>

(* device_write of static_key.c: "enable" or "disable"; anything else is    *)
(* refused.                                                                 *)
Switch(t) ==
  /\ Opened(t, {"static_key"})
  /\ \E on \in {0, 1} : fkey' = on
  /\ UNCHANGED <<driver, already_open, msg, counter, finished, pc, bypass, nonblock,
                 signal, waits, got, ghosts>>

(* The copying calls start: module_input of sleep.c, and one command of     *)
(* device_ioctl.  IOCTL_GET_NTH_BYTE looks at one part, or with an index    *)
(* out of range at no part; an unknown command and an empty message change  *)
(* nothing.                                                                 *)
StartCopy(t) ==
  /\ \/ /\ Opened(t, {"sleep", "chardev2"})
        /\ counter' = NextText
        /\ own' = [own EXCEPT ![t] = counter']
        /\ Goto(t, "put1")
        /\ UNCHANGED got
     \/ /\ Opened(t, {"chardev2"})
        /\ \/ Goto(t, "get1") /\ UNCHANGED got
           \/ /\ Goto(t, "leave")
              /\ \/ \E i \in 1 .. 2 : got' = [got EXCEPT ![t] = <<msg[i]>>]
                 \/ UNCHANGED got
        /\ UNCHANGED <<counter, own>>
  /\ UNCHANGED <<driver, already_open, msg, fkey, finished, bypass, nonblock, signal,
                 waits, plain>>

(* read and write of chardev2.c, which do not look at the flag. *)
StartPlain(t) ==
  /\ driver = "chardev2"
  /\ pc[t] = "idle"
  /\ bypass' = [bypass EXCEPT ![t] = TRUE]
  /\ got' = [got EXCEPT ![t] = <<>>]
  /\ \/ /\ counter < MaxTexts
        /\ counter' = counter + 1
        /\ own' = [own EXCEPT ![t] = counter']
        /\ plain' = TRUE
        /\ Goto(t, "put1")
     \/ Goto(t, "get1") /\ UNCHANGED <<counter, own, plain>>
  /\ UNCHANGED <<driver, already_open, msg, fkey, finished, nonblock, signal, waits>>

(* Where a process is once its copying is done. *)
AfterCopy(t) ==
  IF bypass[t] THEN "idle" ELSE IF driver = "chardev2" THEN "leave" ELSE "open"

Put(t) ==
  /\ pc[t] \in {"put1", "put2"}
  /\ LET i == IF pc[t] = "put1" THEN 1 ELSE 2
     IN /\ msg' = [msg EXCEPT ![i] = own[t]]
        /\ Goto(t, IF i = 1 THEN "put2" ELSE AfterCopy(t))
        /\ bypass' = [bypass EXCEPT ![t] = @ /\ i = 1]
  /\ UNCHANGED <<driver, already_open, counter, fkey, finished, nonblock, signal, waits,
                 got, ghosts>>

Get(t) ==
  /\ pc[t] \in {"get1", "get2"}
  /\ LET i == IF pc[t] = "get1" THEN 1 ELSE 2
     IN /\ got' = [got EXCEPT ![t] = Append(@, msg[i])]
        /\ Goto(t, IF i = 1 THEN "get2" ELSE AfterCopy(t))
        /\ bypass' = [bypass EXCEPT ![t] = @ /\ i = 1]
  /\ UNCHANGED <<driver, already_open, text, nonblock, signal, waits, ghosts>>

(* close, or the end of an ioctl. *)
Leave(t) ==
  /\ pc[t] = IF driver = "chardev2" THEN "leave" ELSE "open"
  /\ already_open' = 0
  /\ IF driver = "sleep" THEN Goto(t, "wake") /\ UNCHANGED signal ELSE Return(t)
  /\ UNCHANGED <<driver, text, bypass, nonblock, waits, got, own, plain>>

(* module_close: wake_up(&waitq). *)
Wake(t) ==
  /\ pc[t] = "wake"
  /\ woken' = [u \in Thread |-> woken[u] \/ u \in WakeAll]
  /\ queue' = queue \ WakeAll
  /\ Return(t)
  /\ UNCHANGED <<driver, already_open, text, bypass, nonblock, got, ghosts>>

(* A signal for a process in open of sleep.c; either kind ends its sleep.   *)
Signal(t) ==
  /\ driver = "sleep"
  /\ pc[t] \in Waiting
  /\ signal[t] = "none"
  /\ \E k \in Signals \ {"none"} : signal' = [signal EXCEPT ![t] = k]
  /\ woken' = [woken EXCEPT ![t] = TRUE]
  /\ UNCHANGED <<driver, already_open, text, pc, bypass, nonblock, queue, got, ghosts>>
-----------------------------------------------------------------------------
(* What the driver does on its own once called. *)
Runs(t) ==
  \/ Enter(t) \/ Refused(t) \/ Prepare(t) \/ Condition(t) \/ Schedule(t)
  \/ TestSignal(t) \/ Fill(t) \/ Put(t) \/ Get(t) \/ Wake(t)
  \/ driver = "chardev2" /\ (StartCopy(t) \/ Leave(t))

(* What the user decides. *)
Asks(t) ==
  \/ Call(t) \/ StartPlain(t) \/ Signal(t) \/ Read(t) \/ Output(t) \/ Switch(t)
  \/ driver # "chardev2" /\ (StartCopy(t) \/ Leave(t))

Next == \E t \in Thread : Runs(t) \/ Asks(t)

Spec == Init /\ [][Next]_vars

(* A process inside a call runs on; which calls are made, and when a file   *)
(* is closed, is up to the user.                                            *)
Fairness == \A t \in Thread : WF_vars(Runs(t))

FairSpec == Spec /\ Fairness
-----------------------------------------------------------------------------
Holders == {t \in Thread : pc[t] \in Inside /\ ~bypass[t]}

(* One process at most is let in, and the flag is set exactly while one is: *)
(* no interleaving lets two in, and none leaves the flag set with nobody    *)
(* there to clear it (sleep.c:96, 108, 144; chardev.c:100; chardev2.c:129). *)
FlagMeansHolder ==
  /\ \A t, u \in Holders : t = u
  /\ already_open = 1 <=> Holders # {}

(* Who is inside reads one text, not parts of two, and of chardev.c and     *)
(* static_key.c the one made when it came in; write of chardev2.c does not  *)
(* ask, and then nothing is promised (chardev2.c:105, 129; chardev.c:143).  *)
OneText ==
  ~plain =>
    \A t \in Holders :
      /\ \A i, j \in DOMAIN got[t] : got[t][i] = got[t][j]
      /\ driver \in {"chardev", "static_key"} => \A i \in DOMAIN got[t] : got[t][i] = own[t]

(* Nobody sleeps on waitq while the file is free, unless the process that   *)
(* freed it is about to wake everyone (sleep.c:118, 144, 149).              *)
NoLostWakeup ==
  already_open = 0 =>
    \A t \in Thread : pc[t] = "sched" /\ ~woken[t] =>
      t \in queue /\ \E u \in Thread : pc[u] = "wake"

(* A file that becomes free while somebody waits for it is opened, unless   *)
(* the waiting ends otherwise (sleep.c:139-142).                            *)
FreeFileIsOpened ==
  (already_open = 0 /\ \E t \in Thread : pc[t] \in Waiting)
    ~> (already_open = 1 \/ \A t \in Thread : pc[t] \notin Waiting)
=============================================================================
