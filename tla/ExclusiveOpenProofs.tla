------------------------ MODULE ExclusiveOpenProofs ------------------------
(* Proofs about ExclusiveOpen, for any number of processes.                 *)
EXTENDS ExclusiveOpen, SequenceTheorems, TLAPS

Copying == {"put1", "put2", "get1", "get2"}

Types ==
  /\ already_open \in {0, 1}
  /\ pc \in [Thread -> {"idle", "try", "wake"} \cup Waiting \cup Inside]
  /\ bypass \in [Thread -> BOOLEAN]
  /\ queue \subseteq Thread
  /\ woken \in [Thread -> BOOLEAN]

(* Only a call that copies goes past the flag. *)
Bypassers == \A t \in Thread : bypass[t] => pc[t] \in Copying

(* Only sleep.c makes processes wait, and wakes them. *)
Sleepers == \A t \in Thread : pc[t] \in Waiting \cup {"wake"} => driver = "sleep"

(* Who is about to sleep is on the queue, unless a wake-up came already.    *)
Queued == \A t \in Thread : pc[t] \in {"cond", "sched"} => t \in queue \/ woken[t]

IInv == Types /\ Bypassers /\ Sleepers /\ Queued /\ FlagMeansHolder /\ NoLostWakeup

Relevant == <<driver, already_open, pc, bypass, queue, woken>>

LEMMA InitInv == Init => IInv
<1> SUFFICES ASSUME Init PROVE IInv
  OBVIOUS
<1>1. Types
  <2>1. bypass \in [Thread -> BOOLEAN] /\ woken \in [Thread -> BOOLEAN]
    BY Zenon DEF Init
  <2> QED BY <2>1, SMT DEF Init, Types
<1>2. Bypassers /\ Sleepers /\ Queued /\ NoLostWakeup
  BY SMT DEF Init, Bypassers, Sleepers, Queued, NoLostWakeup, Waiting
<1>3. FlagMeansHolder
  BY SMT DEF Init, FlagMeansHolder, Holders, Inside
<1> QED BY <1>1, <1>2, <1>3 DEF IInv

LEMMA SameInv == ASSUME IInv, UNCHANGED Relevant PROVE IInv'
BY DEF IInv, Relevant, Types, Bypassers, Sleepers, Queued, FlagMeansHolder, NoLostWakeup, Holders
-----------------------------------------------------------------------------
(* A step that neither lets t in or out nor touches the queue.              *)
LEMMA MoveInv ==
  ASSUME IInv, NEW t \in Thread, NEW l \in {"idle", "try"} \cup Waiting \cup Inside,
         pc' = [pc EXCEPT ![t] = l],
         UNCHANGED <<driver, already_open, bypass, queue, woken>>,
         pc[t] # "wake",
         pc[t] \in Inside <=> l \in Inside,
         l \in Waiting => driver = "sleep",
         l \in {"cond", "sched"} => pc[t] = "cond" /\ (l = "sched" => already_open # 0),
         bypass[t] => l \in Copying
  PROVE  IInv'
<1> USE DEF IInv
<1>1. /\ pc' \in [Thread -> {"idle", "try", "wake"} \cup Waiting \cup Inside]
      /\ pc'[t] = l
      /\ \A u \in Thread \ {t} : pc'[u] = pc[u]
  BY SMT DEF Types
<1>2. Types' /\ Bypassers'
  BY <1>1, Zenon DEF Types, Bypassers
<1>3. l # "wake"
  BY SMT DEF Waiting, Inside
<1>4. Sleepers'
  BY <1>1, <1>3, SMT DEF Sleepers
<1>5. Queued'
  BY <1>1, Zenon DEF Queued
<1>6. FlagMeansHolder'
  <2>1. Holders' = Holders
    BY <1>1, SMT DEF Holders
  <2> QED BY <2>1 DEF FlagMeansHolder
<1>7. NoLostWakeup'
  <2> SUFFICES ASSUME already_open = 0, NEW u \in Thread, pc'[u] = "sched", ~woken[u]
               PROVE  u \in queue /\ \E v \in Thread : pc'[v] = "wake"
    BY DEF NoLostWakeup
  <2>1. pc[u] = "sched"
    BY <1>1
  <2>2. u \in queue /\ \E v \in Thread : pc[v] = "wake"
    BY <2>1 DEF NoLostWakeup
  <2> QED BY <1>1, <2>2
<1> QED BY <1>2, <1>4, <1>5, <1>6, <1>7

LEMMA CallInv == ASSUME IInv, NEW t \in Thread, Call(t) PROVE IInv'
<1>1. /\ pc[t] = "idle" /\ pc' = [pc EXCEPT ![t] = "try"]
      /\ UNCHANGED <<driver, already_open, bypass, queue, woken>>
  BY DEF Call, Goto, waits
<1>2. ~bypass[t]
  BY <1>1, SMT DEF IInv, Bypassers, Copying
<1>3. /\ "try" \in {"idle", "try"} \cup Waiting \cup Inside
      /\ pc[t] # "wake"
      /\ pc[t] \in Inside <=> "try" \in Inside
      /\ "try" \in Waiting => driver = "sleep"
      /\ "try" \notin {"cond", "sched"}
  BY <1>1, <1>2, SMT DEF Inside, Waiting
<1> QED BY <1>1, <1>2, <1>3, MoveInv, Zenon

LEMMA RefusedInv == ASSUME IInv, NEW t \in Thread, Refused(t) PROVE IInv'
<1>1. PICK l \in {"idle", "loop", "prepare"} :
        /\ pc[t] \in {"try", "loop"} /\ pc' = [pc EXCEPT ![t] = l]
        /\ l # "idle" => driver = "sleep"
        /\ UNCHANGED <<driver, already_open, bypass, queue, woken>>
  <2>1. CASE pc[t] = "loop" /\ Goto(t, "prepare")
    BY <2>1, SMT DEF Refused, Goto, waits, IInv, Sleepers, Waiting
  <2>2. CASE /\ pc[t] = "try"
             /\ IF driver = "sleep" /\ ~nonblock[t]
                  THEN Goto(t, "loop") /\ UNCHANGED signal
                  ELSE Return(t)
    BY <2>2, SMT DEF Refused, Goto, Return, waits
  <2> QED BY <2>1, <2>2 DEF Refused
<1>2. ~bypass[t]
  BY <1>1, SMT DEF IInv, Bypassers, Copying
<1>3. /\ l \in {"idle", "try"} \cup Waiting \cup Inside
      /\ pc[t] # "wake"
      /\ pc[t] \in Inside <=> l \in Inside
      /\ l \in Waiting => driver = "sleep"
      /\ l \notin {"cond", "sched"}
  BY <1>1, <1>2, SMT DEF Inside, Waiting
<1> QED BY <1>1, <1>2, <1>3, MoveInv, Zenon

LEMMA ScheduleInv == ASSUME IInv, NEW t \in Thread, Schedule(t) PROVE IInv'
<1>1. /\ pc[t] = "sched" /\ pc' = [pc EXCEPT ![t] = "prepare"]
      /\ UNCHANGED <<driver, already_open, bypass, queue, woken>>
  BY DEF Schedule, Goto, waits
<1>2. ~bypass[t] /\ driver = "sleep"
  BY <1>1, SMT DEF IInv, Bypassers, Copying, Sleepers, Waiting
<1>3. /\ "prepare" \in {"idle", "try"} \cup Waiting \cup Inside
      /\ pc[t] # "wake"
      /\ pc[t] \in Inside <=> "prepare" \in Inside
      /\ "prepare" \in Waiting => driver = "sleep"
      /\ "prepare" \notin {"cond", "sched"}
  BY <1>1, <1>2, SMT DEF Inside, Waiting
<1> QED BY <1>1, <1>2, <1>3, MoveInv, Zenon

LEMMA TestSignalInv == ASSUME IInv, NEW t \in Thread, TestSignal(t) PROVE IInv'
<1>1. PICK l \in {"idle", "loop"} :
        /\ pc[t] = "sig" /\ pc' = [pc EXCEPT ![t] = l]
        /\ UNCHANGED <<driver, already_open, bypass, queue, woken>>
  BY SMT DEF TestSignal, Goto, Return, Again, waits
<1>2. ~bypass[t] /\ driver = "sleep"
  BY <1>1, SMT DEF IInv, Bypassers, Copying, Sleepers, Waiting
<1>3. /\ l \in {"idle", "try"} \cup Waiting \cup Inside
      /\ pc[t] # "wake"
      /\ pc[t] \in Inside <=> l \in Inside
      /\ l \in Waiting => driver = "sleep"
      /\ l \notin {"cond", "sched"}
  BY <1>1, <1>2, SMT DEF Inside, Waiting
<1> QED BY <1>1, <1>2, <1>3, MoveInv, Zenon

LEMMA FillInv == ASSUME IInv, NEW t \in Thread, Fill(t) PROVE IInv'
<1>1. /\ pc[t] = "fill" /\ pc' = [pc EXCEPT ![t] = "open"]
      /\ UNCHANGED <<driver, already_open, bypass, queue, woken>>
  BY DEF Fill, Goto, waits
<1>2. ~bypass[t]
  BY <1>1, SMT DEF IInv, Bypassers, Copying
<1>3. /\ "open" \in {"idle", "try"} \cup Waiting \cup Inside
      /\ pc[t] # "wake"
      /\ pc[t] \in Inside <=> "open" \in Inside
      /\ "open" \in Waiting => driver = "sleep"
      /\ "open" \notin {"cond", "sched"}
  BY <1>1, <1>2, SMT DEF Inside, Waiting
<1> QED BY <1>1, <1>2, <1>3, MoveInv, Zenon

LEMMA StartCopyInv == ASSUME IInv, NEW t \in Thread, StartCopy(t) PROVE IInv'
<1>1. PICK l \in {"put1", "get1", "leave"} :
        /\ pc[t] = "open" /\ pc' = [pc EXCEPT ![t] = l]
        /\ UNCHANGED <<driver, already_open, bypass, queue, woken>>
  BY SMT DEF StartCopy, Opened, Goto, waits
<1>2. ~bypass[t]
  BY <1>1, SMT DEF IInv, Bypassers, Copying
<1>3. /\ l \in {"idle", "try"} \cup Waiting \cup Inside
      /\ pc[t] # "wake"
      /\ pc[t] \in Inside <=> l \in Inside
      /\ l \in Waiting => driver = "sleep"
      /\ l \notin {"cond", "sched"}
  BY <1>1, <1>2, SMT DEF Inside, Waiting
<1> QED BY <1>1, <1>2, <1>3, MoveInv, Zenon
-----------------------------------------------------------------------------
(* The process that finds the flag clear is the only one inside. *)
LEMMA EnterInv == ASSUME IInv, NEW t \in Thread, Enter(t) PROVE IInv'
<1> USE DEF IInv
<1> DEFINE l == IF driver \in {"chardev", "static_key"} THEN "fill" ELSE "open"
<1>1. /\ pc[t] \in {"try", "loop"} /\ pc' = [pc EXCEPT ![t] = l]
      /\ already_open = 0 /\ already_open' = 1
      /\ UNCHANGED <<driver, bypass, queue, woken>>
  BY DEF Enter, Goto, waits, Taken
<1>2. /\ pc' \in [Thread -> {"idle", "try", "wake"} \cup Waiting \cup Inside]
      /\ pc'[t] = l /\ l \in Inside /\ l \notin Waiting
      /\ \A u \in Thread \ {t} : pc'[u] = pc[u]
  BY <1>1, SMT DEF Types, Inside, Waiting
<1>3. ~bypass[t]
  BY <1>1, SMT DEF Bypassers, Copying
<1>4. Types' /\ Bypassers'
  BY <1>1, <1>2, <1>3, Zenon DEF Types, Bypassers
<1>5. Sleepers' /\ Queued' /\ NoLostWakeup'
  BY <1>1, <1>2, SMT DEF Sleepers, Queued, NoLostWakeup
<1>6. FlagMeansHolder'
  <2>1. Holders = {}
    BY <1>1 DEF FlagMeansHolder
  <2>2. Holders' = {t}
    BY <1>1, <1>2, <1>3, <2>1, Zenon DEF Holders
  <2> QED BY <1>1, <2>2 DEF FlagMeansHolder
<1> QED BY <1>4, <1>5, <1>6

(* The one inside leaves: from now on either nobody sleeps or it will wake  *)
(* those who do.                                                            *)
LEMMA LeaveInv == ASSUME IInv, NEW t \in Thread, Leave(t) PROVE IInv'
<1> USE DEF IInv
<1> DEFINE l == IF driver = "sleep" THEN "wake" ELSE "idle"
<1>1. /\ pc[t] \in {"open", "leave"} /\ pc' = [pc EXCEPT ![t] = l]
      /\ already_open' = 0
      /\ UNCHANGED <<driver, bypass, queue, woken>>
  BY SMT DEF Leave, Goto, Return, waits
<1>2. /\ pc' \in [Thread -> {"idle", "try", "wake"} \cup Waiting \cup Inside]
      /\ pc'[t] = l
      /\ \A u \in Thread \ {t} : pc'[u] = pc[u]
  BY <1>1, SMT DEF Types
<1>3. ~bypass[t] /\ t \in Holders
  BY <1>1, SMT DEF Bypassers, Copying, Holders, Inside
<1>4. Types'
  BY <1>1, <1>2, Zenon DEF Types
<1>5. Bypassers' /\ Sleepers' /\ Queued'
  BY <1>1, <1>2, <1>3, SMT DEF Bypassers, Sleepers, Queued, Waiting
<1>6. FlagMeansHolder'
  <2>1. t \notin Holders' /\ Holders' \subseteq Holders
    BY <1>1, <1>2, SMT DEF Holders, Inside
  <2>2. Holders' = {}
    BY <1>3, <2>1 DEF FlagMeansHolder
  <2> QED BY <1>1, <2>2 DEF FlagMeansHolder
<1>7. NoLostWakeup'
  <2> SUFFICES ASSUME NEW u \in Thread, pc'[u] = "sched", ~woken[u]
               PROVE  u \in queue /\ \E v \in Thread : pc'[v] = "wake"
    BY <1>1 DEF NoLostWakeup
  <2>1. pc[u] = "sched"
    BY <1>2
  <2>2. u \in queue /\ driver = "sleep"
    BY <2>1, SMT DEF Queued, Sleepers, Waiting
  <2> QED BY <1>2, <2>2
<1> QED BY <1>4, <1>5, <1>6, <1>7
-----------------------------------------------------------------------------
(* Joining the queue, leaving it, and the wake-ups. *)
LEMMA PrepareInv == ASSUME IInv, NEW t \in Thread, Prepare(t) PROVE IInv'
<1> USE DEF IInv
<1>1. /\ pc[t] = "prepare" /\ pc' = [pc EXCEPT ![t] = "cond"]
      /\ queue' = queue \cup {t}
      /\ woken' = [woken EXCEPT ![t] = signal[t] # "none"]
      /\ UNCHANGED <<driver, already_open, bypass>>
  BY DEF Prepare, Goto
<1>2. /\ pc' \in [Thread -> {"idle", "try", "wake"} \cup Waiting \cup Inside]
      /\ pc'[t] = "cond"
      /\ \A u \in Thread \ {t} : pc'[u] = pc[u]
  BY <1>1, SMT DEF Types, Waiting
<1>3. /\ woken' \in [Thread -> BOOLEAN]
      /\ \A u \in Thread \ {t} : woken'[u] = woken[u]
  BY <1>1, Zenon DEF Types
<1>4. ~bypass[t] /\ driver = "sleep"
  BY <1>1, SMT DEF Bypassers, Copying, Sleepers, Waiting
<1>5. Types'
  BY <1>1, <1>2, <1>3, Zenon DEF Types
<1>6. Bypassers' /\ Sleepers' /\ Queued'
  BY <1>1, <1>2, <1>3, <1>4, Zenon DEF Bypassers, Sleepers, Queued
<1>7. FlagMeansHolder'
  <2>1. Holders' = Holders
    BY <1>1, <1>2, SMT DEF Holders, Inside
  <2> QED BY <1>1, <2>1 DEF FlagMeansHolder
<1>8. NoLostWakeup'
  <2> SUFFICES ASSUME already_open = 0, NEW u \in Thread, pc'[u] = "sched", ~woken'[u]
               PROVE  u \in queue' /\ \E v \in Thread : pc'[v] = "wake"
    BY <1>1 DEF NoLostWakeup
  <2>1. pc[u] = "sched" /\ ~woken[u]
    BY <1>2, <1>3
  <2>2. u \in queue /\ \E v \in Thread : pc[v] = "wake"
    BY <2>1 DEF NoLostWakeup
  <2> QED BY <1>1, <1>2, <2>2
<1> QED BY <1>5, <1>6, <1>7, <1>8

LEMMA ConditionInv == ASSUME IInv, NEW t \in Thread, Condition(t) PROVE IInv'
<1> USE DEF IInv
<1>1. pc[t] = "cond" /\ UNCHANGED <<driver, already_open, bypass, woken>>
  BY DEF Condition
<1>2. ~bypass[t] /\ driver = "sleep"
  BY <1>1, SMT DEF Bypassers, Copying, Sleepers, Waiting
<1>3. CASE already_open = 0 \/ signal[t] # "none"
  <2>1. pc' = [pc EXCEPT ![t] = "sig"] /\ queue' = queue \ {t}
    BY <1>3 DEF Condition, Goto
  <2>2. /\ pc' \in [Thread -> {"idle", "try", "wake"} \cup Waiting \cup Inside]
        /\ pc'[t] = "sig"
        /\ \A u \in Thread \ {t} : pc'[u] = pc[u]
    BY <2>1, SMT DEF Types, Waiting
  <2>3. Types' /\ Bypassers' /\ Sleepers' /\ Queued'
    BY <1>1, <1>2, <2>1, <2>2, Zenon DEF Types, Bypassers, Sleepers, Queued
  <2>4. FlagMeansHolder'
    <3>1. Holders' = Holders
      BY <1>1, <2>2, SMT DEF Holders, Inside
    <3> QED BY <1>1, <3>1 DEF FlagMeansHolder
  <2>5. NoLostWakeup'
    <3> SUFFICES ASSUME already_open = 0, NEW u \in Thread, pc'[u] = "sched", ~woken[u]
                 PROVE  u \in queue' /\ \E v \in Thread : pc'[v] = "wake"
      BY <1>1 DEF NoLostWakeup
    <3>1. pc[u] = "sched" /\ u # t
      BY <2>2
    <3>2. u \in queue /\ \E v \in Thread : pc[v] = "wake"
      BY <3>1 DEF NoLostWakeup
    <3> QED BY <1>1, <2>1, <2>2, <3>1, <3>2
  <2> QED BY <2>3, <2>4, <2>5
<1>4. CASE ~(already_open = 0 \/ signal[t] # "none")
  <2>1. pc' = [pc EXCEPT ![t] = "sched"] /\ queue' = queue
    BY <1>4 DEF Condition, Goto
  <2>2. /\ "sched" \in {"idle", "try"} \cup Waiting \cup Inside
        /\ pc[t] # "wake"
        /\ pc[t] \in Inside <=> "sched" \in Inside
        /\ already_open # 0
    BY <1>1, <1>4, SMT DEF Inside, Waiting
  <2> QED BY <1>1, <1>2, <2>1, <2>2, MoveInv, Zenon
<1> QED BY <1>3, <1>4

LEMMA WakeInv == ASSUME IInv, NEW t \in Thread, Wake(t) PROVE IInv'
<1> USE DEF IInv
<1>1. /\ pc[t] = "wake" /\ pc' = [pc EXCEPT ![t] = "idle"]
      /\ woken' = [u \in Thread |-> woken[u] \/ u \in queue]
      /\ queue' = {}
      /\ UNCHANGED <<driver, already_open, bypass>>
  BY DEF Wake, Goto, Return, WakeAll
<1>2. /\ pc' \in [Thread -> {"idle", "try", "wake"} \cup Waiting \cup Inside]
      /\ pc'[t] = "idle"
      /\ \A u \in Thread \ {t} : pc'[u] = pc[u]
  BY <1>1, SMT DEF Types
<1>3. ~bypass[t]
  BY <1>1, SMT DEF Bypassers, Copying
<1>4. Types'
  BY <1>1, <1>2, Zenon DEF Types
<1>5. Bypassers' /\ Sleepers'
  BY <1>1, <1>2, <1>3, SMT DEF Bypassers, Sleepers, Waiting
<1>6. \A u \in Thread : pc'[u] \in {"cond", "sched"} => woken'[u]
  BY <1>1, <1>2, Zenon DEF Queued
<1>7. Queued' /\ NoLostWakeup'
  BY <1>6, Zenon DEF Queued, NoLostWakeup
<1>8. FlagMeansHolder'
  <2>1. Holders' = Holders
    BY <1>1, <1>2, SMT DEF Holders, Inside
  <2> QED BY <1>1, <2>1 DEF FlagMeansHolder
<1> QED BY <1>4, <1>5, <1>7, <1>8

LEMMA SignalInv == ASSUME IInv, NEW t \in Thread, Signal(t) PROVE IInv'
<1> USE DEF IInv
<1>1. woken' = [woken EXCEPT ![t] = TRUE] /\ UNCHANGED <<driver, already_open, pc, bypass, queue>>
  BY DEF Signal
<1>2. woken' \in [Thread -> BOOLEAN] /\ \A u \in Thread : woken[u] => woken'[u]
  BY <1>1, Zenon DEF Types
<1>3. Types' /\ Bypassers' /\ Sleepers' /\ Queued' /\ NoLostWakeup'
  BY <1>1, <1>2, Zenon DEF Types, Bypassers, Sleepers, Queued, NoLostWakeup
<1>4. FlagMeansHolder'
  BY <1>1 DEF FlagMeansHolder, Holders
<1> QED BY <1>3, <1>4
-----------------------------------------------------------------------------
(* The calls that go past the flag, and the copies of those inside. *)
LEMMA StartPlainInv == ASSUME IInv, NEW t \in Thread, StartPlain(t) PROVE IInv'
<1> USE DEF IInv
<1>1. PICK l \in {"put1", "get1"} :
        /\ pc[t] = "idle" /\ pc' = [pc EXCEPT ![t] = l]
        /\ bypass' = [bypass EXCEPT ![t] = TRUE]
        /\ UNCHANGED <<driver, already_open, queue, woken>>
  BY DEF StartPlain, Goto, waits
<1>2. /\ pc' \in [Thread -> {"idle", "try", "wake"} \cup Waiting \cup Inside]
      /\ pc'[t] = l
      /\ \A u \in Thread \ {t} : pc'[u] = pc[u]
  BY <1>1, SMT DEF Types, Inside
<1>3. /\ bypass' \in [Thread -> BOOLEAN] /\ bypass'[t]
      /\ \A u \in Thread \ {t} : bypass'[u] = bypass[u]
  BY <1>1, Zenon DEF Types
<1>4. Types'
  BY <1>1, <1>2, <1>3, Zenon DEF Types
<1>5. l \in Copying /\ l \notin Waiting /\ l # "wake" /\ l # "cond" /\ l # "sched"
  BY SMT DEF Copying, Waiting
<1>6. Bypassers' /\ Sleepers' /\ Queued'
  BY <1>1, <1>2, <1>3, <1>5, Zenon DEF Bypassers, Sleepers, Queued
<1>7. FlagMeansHolder'
  <2>1. pc[t] \notin Inside
    BY <1>1, SMT DEF Inside
  <2>2. Holders' = Holders
    BY <1>2, <1>3, <2>1, Zenon DEF Holders
  <2> QED BY <1>1, <2>2 DEF FlagMeansHolder
<1>8. NoLostWakeup'
  BY <1>1, <1>2, SMT DEF NoLostWakeup
<1> QED BY <1>4, <1>6, <1>7, <1>8

LEMMA CopyInv == ASSUME IInv, NEW t \in Thread, Put(t) \/ Get(t) PROVE IInv'
<1> USE DEF IInv
<1>1. UNCHANGED <<driver, already_open, queue, woken>>
  BY DEF Put, Get, waits
<1>2. CASE pc[t] \in {"put1", "get1"}
  <2>1. PICK l \in {"put2", "get2"} : pc' = [pc EXCEPT ![t] = l]
    BY <1>2, SMT DEF Put, Get, Goto
  <2>2. bypass' = bypass
    <3>1. bypass' = [bypass EXCEPT ![t] = @ /\ TRUE]
      BY <1>2, SMT DEF Put, Get
    <3> QED BY <3>1, Zenon DEF Types
  <2>3. /\ l \in {"idle", "try"} \cup Waiting \cup Inside
        /\ pc[t] # "wake"
        /\ pc[t] \in Inside <=> l \in Inside
        /\ l \notin Waiting /\ l \notin {"cond", "sched"}
        /\ l \in Copying
    BY <1>2, SMT DEF Inside, Waiting, Copying
  <2> QED BY <1>1, <2>1, <2>2, <2>3, MoveInv, Zenon
<1>3. CASE pc[t] \in {"put2", "get2"}
  <2>1. pc' = [pc EXCEPT ![t] = AfterCopy(t)]
    BY <1>3, SMT DEF Put, Get, Goto
  <2>2. bypass' = [bypass EXCEPT ![t] = @ /\ FALSE]
    BY <1>3, SMT DEF Put, Get
  <2>3. /\ bypass' \in [Thread -> BOOLEAN] /\ ~bypass'[t]
        /\ \A u \in Thread \ {t} : bypass'[u] = bypass[u]
    BY <2>2, Zenon DEF Types
  <2>4. /\ bypass[t] => AfterCopy(t) = "idle"
        /\ ~bypass[t] => AfterCopy(t) \in {"leave", "open"}
        /\ AfterCopy(t) \in {"idle", "leave", "open"}
    BY Zenon DEF AfterCopy
  <2>5. /\ pc' \in [Thread -> {"idle", "try", "wake"} \cup Waiting \cup Inside]
        /\ pc'[t] = AfterCopy(t)
        /\ \A u \in Thread \ {t} : pc'[u] = pc[u]
    BY <2>1, <2>4, SMT DEF Types, Inside
  <2>6. AfterCopy(t) \notin Waiting \cup {"wake"} /\ AfterCopy(t) \notin {"cond", "sched"}
    BY <2>4, SMT DEF Waiting
  <2>7. Types' /\ Bypassers' /\ Sleepers' /\ Queued'
    BY <1>1, <2>3, <2>5, <2>6, Zenon DEF Types, Bypassers, Sleepers, Queued
  <2>8. FlagMeansHolder'
    <3>1. pc[t] \in Inside /\ (pc'[t] \in Inside <=> ~bypass[t])
      BY <1>3, <2>4, <2>5, SMT DEF Inside
    <3>2. Holders' = Holders
      BY <2>3, <2>5, <3>1, Zenon DEF Holders
    <3> QED BY <1>1, <3>2 DEF FlagMeansHolder
  <2>9. NoLostWakeup'
    BY <1>1, <1>3, <2>5, <2>6, SMT DEF NoLostWakeup
  <2> QED BY <2>7, <2>8, <2>9
<1> QED BY <1>2, <1>3 DEF Put, Get
-----------------------------------------------------------------------------
(* What is read: the values, and what each place in the code knows of them. *)
Values ==
  /\ msg \in [1 .. 2 -> Nat] /\ counter \in Nat /\ fkey \in Nat
  /\ own \in [Thread -> Nat]
  /\ got \in [Thread -> Seq(Nat)]

(* write of chardev2.c is marked, at least as long as it copies. *)
Marked ==
  /\ plain => driver = "chardev2"
  /\ \A t \in Thread : bypass[t] /\ pc[t] \in {"put1", "put2"} => plain

(* The message is one text unless who is inside is half through a copy.     *)
Whole == ~plain /\ (\A t \in Holders : pc[t] # "put2") => msg[1] = msg[2]

(* What each place inside has read, and the text it was promised.           *)
Place(t) ==
  /\ pc[t] = "fill" => got[t] = <<>>
  /\ driver \in {"chardev", "static_key"} =>
       /\ pc[t] \in {"fill", "open"}
       /\ pc[t] = "open" => msg[1] = own[t] /\ msg[2] = own[t]
       /\ Len(got[t]) <= 2
  /\ driver = "chardev2" /\ pc[t] \in {"open", "put1", "put2", "get1"} => got[t] = <<>>
  /\ pc[t] \in {"get1", "get2"} => driver = "chardev2"
  /\ pc[t] = "get2" => got[t] = <<msg[1]>>
  /\ pc[t] = "put2" => msg[1] = own[t]

Progress == ~plain => \A t \in Holders : Place(t)

(* OneText of one process. *)
Reads(t) ==
  /\ \A i, j \in DOMAIN got[t] : got[t][i] = got[t][j]
  /\ driver \in {"chardev", "static_key"} => \A i \in DOMAIN got[t] : got[t][i] = own[t]

Texts == Values /\ Marked /\ Whole /\ Progress /\ OneText

LEMMA ShortSeq == ASSUME NEW s \in Seq(Nat), Len(s) <= 2 PROVE Len(s) \in 0 .. 2
<1> DEFINE n == Len(s)
<1>1. n \in Nat /\ n <= 2
  BY LenProperties
<1> HIDE DEF n
<1>2. n \in 0 .. 2
  BY <1>1, SMT
<1> QED BY <1>2 DEF n

LEMMA AppendPair == ASSUME NEW a \in Nat, NEW b \in Nat PROVE Append(<<a>>, b) = <<a, b>>
<1>1. <<a>> \in Seq(Nat) /\ Len(<<a>>) = 1 /\ <<a>>[1] = a
  BY SMT
<1>2. <<a, b>> \in Seq(Nat) /\ Len(<<a, b>>) = 2 /\ <<a, b>>[1] = a /\ <<a, b>>[2] = b
  BY SMT
<1> DEFINE p == Append(<<a>>, b)
           q == <<a, b>>
<1>3. p \in Seq(Nat) /\ Len(p) = 2 /\ p[1] = a /\ p[2] = b
  BY <1>1, AppendProperties
<1> HIDE DEF p, q
<1>4. q \in Seq(Nat) /\ Len(q) = 2 /\ q[1] = a /\ q[2] = b
  BY <1>2 DEF q
<1>5. \A k \in 1 .. 2 : p[k] = q[k]
  BY <1>3, <1>4, SMT
<1>6. p = q
  BY <1>3, <1>4, <1>5, SeqEqual
<1> QED BY <1>6 DEF p, q

LEMMA TextsInit == Init => Texts
<1> SUFFICES ASSUME Init PROVE Texts
  OBVIOUS
<1>1. Values
  <2>1. /\ msg \in [1 .. 2 -> Nat]
        /\ own \in [Thread -> Nat]
    BY SMT DEF Init
  <2>2. got \in [Thread -> Seq(Nat)]
    <3>1. <<>> \in Seq(Nat)
      BY SMT
    <3> QED BY <3>1, Zenon DEF Init
  <2> QED BY <2>1, <2>2, SMT DEF Init, Values
<1>2. Holders = {}
  BY SMT DEF Init, Holders, Inside
<1>3. Marked /\ Progress /\ OneText
  BY <1>2, SMT DEF Init, Marked, Progress, OneText
<1>4. Whole
  BY SMT DEF Init, Whole
<1> QED BY <1>1, <1>3, <1>4 DEF Texts

Memory == <<driver, msg, counter, fkey, own, got, plain>>

(* A step outside the file touches no text. *)
LEMMA OutsideTexts ==
  ASSUME Texts, Types, NEW t \in Thread, NEW l,
         pc' = [pc EXCEPT ![t] = l], UNCHANGED Memory, UNCHANGED bypass,
         pc[t] \notin Inside, l \notin Inside
  PROVE  Texts'
<1>1. pc'[t] = l /\ \A u \in Thread \ {t} : pc'[u] = pc[u]
  BY Zenon DEF Types
<1>2. Holders' = Holders /\ \A u \in Holders : u # t
  BY <1>1, Zenon DEF Holders
<1>3. \A u \in Holders : u \in Thread /\ pc'[u] = pc[u]
  BY <1>1, <1>2, Zenon DEF Holders
<1> USE DEF Memory, Texts
<1>4. Values'
  BY DEF Values
<1>5. OneText'
  BY <1>2 DEF OneText
<1>6. Whole'
  BY <1>2, <1>3, Zenon DEF Whole
<1>7. Progress'
  BY <1>2, <1>3, Zenon DEF Progress, Place
<1>8. l # "put1" /\ l # "put2"
  BY SMT DEF Inside
<1>9. Marked'
  BY <1>1, <1>8, Zenon DEF Marked
<1> QED BY <1>4, <1>5, <1>6, <1>7, <1>9

(* A step of the one inside that stays inside. *)
LEMMA InsideTexts ==
  ASSUME IInv, Texts, NEW t \in Holders, NEW l \in Inside,
         pc' = [pc EXCEPT ![t] = l], UNCHANGED <<driver, bypass, plain>>,
         Values',
         ~plain => Place(t)' /\ Reads(t)' /\ (l # "put2" => msg'[1] = msg'[2])
  PROVE  Texts'
<1> USE DEF IInv, Texts
<1>1. t \in Thread /\ ~bypass[t] /\ \A u \in Holders : u = t
  BY DEF Holders, FlagMeansHolder
<1>2. pc'[t] = l /\ \A u \in Thread \ {t} : pc'[u] = pc[u]
  BY <1>1, Zenon DEF Types
<1>3. \A u \in Holders' : u = t
  BY <1>1, <1>2, Zenon DEF Holders
<1>4. t \in Holders'
  BY <1>1, <1>2, Zenon DEF Holders
<1>5. Whole'
  BY <1>2, <1>4, Zenon DEF Whole
<1>6. Progress'
  BY <1>3, Zenon DEF Progress
<1>7. OneText'
  <2>1. plain' = plain
    OBVIOUS
  <2>2. ~plain' => Reads(t)'
    BY <2>1
  <2>3. OneText' <=> (~plain' => \A u \in Holders' : Reads(u)')
    BY Zenon DEF OneText, Reads
  <2> HIDE DEF Reads, OneText
  <2> QED BY <1>3, <2>2, <2>3, Zenon
<1>8. Marked'
  BY <1>1, <1>2, Zenon DEF Marked
<1> QED BY <1>5, <1>6, <1>7, <1>8

LEMMA QuietTexts ==
  ASSUME IInv, Texts, NEW t \in Thread,
         \/ Call(t) \/ Refused(t) \/ Prepare(t) \/ Condition(t) \/ Schedule(t)
         \/ TestSignal(t) \/ Wake(t) \/ Signal(t)
  PROVE  Texts'
<1>1. UNCHANGED Memory /\ UNCHANGED bypass
  BY DEF Call, Refused, Prepare, Condition, Schedule, TestSignal, Wake, Signal, Memory,
         text, ghosts
<1>2. PICK l \in {"idle", "try"} \cup Waiting : pc' = [pc EXCEPT ![t] = l]
  <2>1. CASE Signal(t)
    <3>1. pc[t] \in Waiting /\ pc' = [pc EXCEPT ![t] = pc[t]]
      BY <2>1, Zenon DEF Signal, IInv, Types
    <3> QED BY <3>1
  <2>2. CASE Call(t) \/ Prepare(t) \/ Condition(t) \/ Schedule(t) \/ Wake(t)
    BY <2>2, SMT DEF Call, Prepare, Condition, Schedule, Wake, Goto, Return, Waiting
  <2>3. CASE Refused(t)
    BY <2>3, SMT DEF Refused, Goto, Return, Waiting
  <2>4. CASE TestSignal(t)
    BY <2>4, SMT DEF TestSignal, Goto, Return, Waiting, Again
  <2> QED BY <2>1, <2>2, <2>3, <2>4
<1>3. pc[t] \in {"idle", "try", "wake"} \cup Waiting
  BY SMT DEF Call, Refused, Prepare, Condition, Schedule, TestSignal, Wake, Signal, Waiting
<1>4. pc[t] \notin Inside /\ l \notin Inside
  BY <1>3, SMT DEF Waiting, Inside
<1> QED BY <1>1, <1>2, <1>4, OutsideTexts DEF IInv

(* Who comes in finds the file without a holder, its message whole. *)
LEMMA EnterTexts == ASSUME IInv, Texts, NEW t \in Thread, Enter(t) PROVE Texts'
<1> USE DEF IInv, Texts
<1> DEFINE l == IF driver \in {"chardev", "static_key"} THEN "fill" ELSE "open"
<1>1. /\ pc[t] \in {"try", "loop"} /\ pc' = [pc EXCEPT ![t] = l] /\ already_open = 0
      /\ got' = [got EXCEPT ![t] = <<>>] /\ own' = [own EXCEPT ![t] = msg[1]]
      /\ UNCHANGED <<driver, msg, counter, fkey, bypass, plain>>
  BY DEF Enter, Goto, text
<1>2. ~bypass[t]
  BY <1>1, SMT DEF Bypassers, Copying
<1>3. Holders = {}
  BY <1>1 DEF FlagMeansHolder
<1>4. pc'[t] = l /\ \A u \in Thread \ {t} : pc'[u] = pc[u]
  BY <1>1, Zenon DEF Types
<1>5. Values'
  <2>1. got' \in [Thread -> Seq(Nat)]
    <3>1. <<>> \in Seq(Nat)
      BY SMT
    <3> QED BY <1>1, <3>1, Zenon DEF Values
  <2>2. own' \in [Thread -> Nat]
    BY <1>1, SMT DEF Values
  <2> QED BY <1>1, <2>1, <2>2 DEF Values
<1>6. \A u \in Holders' : u = t
  BY <1>1, <1>3, <1>4, Zenon DEF Holders
<1>7. got'[t] = <<>>
  BY <1>1, Zenon DEF Values
<1>8. Marked'
  BY <1>1, <1>2, <1>4, Zenon DEF Marked
<1>9. Whole'
  BY <1>1, <1>3, Zenon DEF Whole
<1>10. OneText'
  <2>1. Reads(t)'
    BY <1>7, SMT DEF Reads
  <2> QED BY <1>6, <2>1, Zenon DEF OneText, Reads
<1>11. Progress'
  <2>1. Place(t)'
    BY <1>1, <1>4, <1>7, SMT DEF Place
  <2> QED BY <1>6, <2>1, Zenon DEF Progress
<1> QED BY <1>5, <1>8, <1>9, <1>10, <1>11

LEMMA LeaveTexts == ASSUME IInv, Texts, NEW t \in Thread, Leave(t) PROVE Texts'
<1> USE DEF IInv, Texts
<1> DEFINE l == IF driver = "sleep" THEN "wake" ELSE "idle"
<1>1. /\ pc[t] \in {"open", "leave"} /\ pc' = [pc EXCEPT ![t] = l]
      /\ UNCHANGED Memory /\ UNCHANGED bypass
  BY SMT DEF Leave, Goto, Return, Memory, text
<1>2. ~bypass[t] /\ t \in Holders
  BY <1>1, SMT DEF Bypassers, Copying, Holders, Inside
<1>3. \A u \in Holders : u = t
  BY <1>2 DEF FlagMeansHolder
<1>4. pc'[t] = l /\ \A u \in Thread \ {t} : pc'[u] = pc[u]
  BY <1>1, Zenon DEF Types
<1>5. l \notin Inside /\ l # "put1" /\ l # "put2"
  BY SMT DEF Inside
<1>6. Holders' = {}
  BY <1>1, <1>3, <1>4, <1>5, Zenon DEF Holders
<1>7. Progress' /\ OneText'
  BY <1>6 DEF Progress, OneText
<1>8. Whole'
  BY <1>1, <1>3, SMT DEF Whole, Memory
<1>9. Marked'
  BY <1>1, <1>4, <1>5, Zenon DEF Marked, Memory
<1>10. Values'
  BY <1>1 DEF Values, Memory
<1> QED BY <1>7, <1>8, <1>9, <1>10

(* open of chardev.c and static_key.c makes the text it promises. *)
LEMMA FillTexts == ASSUME IInv, Texts, NEW t \in Thread, Fill(t) PROVE Texts'
<1> USE DEF IInv, Texts
<1>1. /\ pc[t] = "fill" /\ pc' = [pc EXCEPT ![t] = "open"]
      /\ counter' = IF driver = "chardev" THEN NextText ELSE counter
      /\ msg' = [i \in 1 .. 2 |-> TextNew]
      /\ own' = [own EXCEPT ![t] = TextNew]
      /\ UNCHANGED <<driver, fkey, bypass, got, plain>>
  BY Zenon DEF Fill, Goto, TextNew
<1>2. t \in Holders
  BY <1>1, SMT DEF Bypassers, Copying, Holders, Inside
<1>3. counter' \in Nat /\ TextNew \in Nat
  BY <1>1, MaxTextsAssumption, SMT DEF Values, NextText, TextNew
<1>4. Values'
  <2>1. msg' \in [1 .. 2 -> Nat] /\ own' \in [Thread -> Nat]
    BY <1>1, <1>3, Zenon DEF Values
  <2> QED BY <1>1, <1>3, <2>1 DEF Values
<1>5. msg'[1] = TextNew /\ msg'[2] = TextNew /\ own'[t] = TextNew
  BY <1>1, <1>3, SMT DEF Values
<1>6. ~plain => got'[t] = <<>>
  BY <1>1, <1>2, Zenon DEF Progress, Place
<1>7. pc'[t] = "open"
  BY <1>1, Zenon DEF Types
<1>8. ~plain => Place(t)' /\ Reads(t)'
  BY <1>1, <1>5, <1>6, <1>7, SMT DEF Place, Reads
<1>9. "open" \in Inside
  BY DEF Inside
<1> QED BY <1>1, <1>2, <1>4, <1>5, <1>8, <1>9, InsideTexts

LEMMA ReadTexts == ASSUME IInv, Texts, NEW t \in Thread, Read(t) PROVE Texts'
<1> USE DEF IInv, Texts
<1> DEFINE g == IF Len(got[t]) = 2 THEN <<>> ELSE Append(got[t], msg[Len(got[t]) + 1])
<1>1. /\ pc[t] = "open" /\ driver \in {"chardev", "static_key"}
      /\ got' = [got EXCEPT ![t] = g]
      /\ UNCHANGED <<driver, msg, counter, fkey, own, pc, bypass, plain>>
  BY DEF Read, Opened, text, ghosts
<1>2. t \in Holders
  BY <1>1, SMT DEF Bypassers, Copying, Holders, Inside
<1>3. ~plain
  BY <1>1, SMT DEF Marked
<1>4. Place(t) /\ Reads(t)
  BY <1>2, <1>3, Zenon DEF Progress, OneText, Reads
<1>5. /\ msg[1] = own[t] /\ msg[2] = own[t] /\ own[t] \in Nat
      /\ got[t] \in Seq(Nat) /\ Len(got[t]) \in 0 .. 2
      /\ \A i \in DOMAIN got[t] : got[t][i] = own[t]
  <2>1. got[t] \in Seq(Nat) /\ own[t] \in Nat
    BY Zenon DEF Values
  <2>2. msg[1] = own[t] /\ msg[2] = own[t] /\ Len(got[t]) <= 2
    BY <1>1, <1>4, Zenon DEF Place
  <2>3. \A i \in DOMAIN got[t] : got[t][i] = own[t]
    BY <1>1, <1>4, Zenon DEF Reads
  <2>4. Len(got[t]) \in 0 .. 2
    BY <2>1, <2>2, ShortSeq
  <2> QED BY <2>1, <2>2, <2>3, <2>4, Zenon
<1>6. /\ g \in Seq(Nat) /\ Len(g) <= 2
      /\ \A i \in DOMAIN g : g[i] = own[t]
  <2>1. CASE Len(got[t]) = 2
    BY <2>1, SMT
  <2>2. CASE Len(got[t]) # 2
    <3>1. msg[Len(got[t]) + 1] = own[t]
      BY <1>5, <2>2, SMT
    <3>2. g = Append(got[t], own[t])
      BY <2>2, <3>1
    <3> DEFINE s == got[t]
               o == own[t]
    <3>3. /\ s \in Seq(Nat) /\ o \in Nat /\ Len(s) \in {0, 1}
          /\ \A i \in DOMAIN s : s[i] = o
      BY <1>5, <2>2, SMT
    <3> HIDE DEF s, o
    <3>4. Append(s, o) \in Seq(Nat) /\ Len(Append(s, o)) = Len(s) + 1
      BY <3>3, SMT
    <3>5. \A i \in DOMAIN Append(s, o) : Append(s, o)[i] = o
      BY <3>3, SMT
    <3>6. Len(Append(s, o)) <= 2
      BY <3>3, <3>4, SMT
    <3> QED BY <3>2, <3>4, <3>5, <3>6, Zenon DEF s, o
  <2> QED BY <2>1, <2>2
<1>7. got'[t] = g
  BY <1>1, Zenon DEF Values
<1>8. Values'
  <2>1. got' \in [Thread -> Seq(Nat)]
    BY <1>1, <1>6, Zenon DEF Values
  <2> QED BY <1>1, <2>1 DEF Values
<1>9. Place(t)'
  BY <1>1, <1>5, <1>6, <1>7, SMT DEF Place
<1>10. Reads(t)'
  <2>1. own'[t] = own[t]
    BY <1>1
  <2> HIDE DEF g
  <2> QED BY <1>6, <1>7, <2>1, Zenon DEF Reads
<1>11. pc' = [pc EXCEPT ![t] = "open"] /\ "open" \in Inside
  BY <1>1, Zenon DEF Types, Inside
<1> QED BY <1>1, <1>2, <1>5, <1>8, <1>9, <1>10, <1>11, InsideTexts

LEMMA OutputTexts == ASSUME IInv, Texts, NEW t \in Thread, Output(t) PROVE Texts'
<1> USE DEF IInv, Texts
<1>1. /\ pc[t] = "open" /\ driver = "sleep"
      /\ UNCHANGED <<driver, msg, counter, fkey, own, pc, bypass, plain>>
  BY DEF Output, Opened, ghosts
<1>2. PICK g : /\ got' = [got EXCEPT ![t] = g]
               /\ \/ g = <<>>
                  \/ \E n \in 0 .. 2 : g = [i \in 1 .. n |-> msg[i]]
  BY Zenon DEF Output
<1>3. t \in Holders
  BY <1>1, SMT DEF Bypassers, Copying, Holders, Inside
<1>4. ~plain => msg[1] = msg[2]
  <2>1. \A u \in Holders : pc[u] # "put2"
    BY <1>1, <1>3, Zenon DEF FlagMeansHolder
  <2> QED BY <2>1 DEF Whole
<1>5. /\ g \in Seq(Nat)
      /\ ~plain => \A i, j \in DOMAIN g : g[i] = g[j]
  <2>1. CASE g = <<>>
    BY <2>1
  <2>2. ASSUME NEW n \in 0 .. 2, g = [i \in 1 .. n |-> msg[i]]
        PROVE  /\ g \in Seq(Nat)
               /\ ~plain => \A i, j \in DOMAIN g : g[i] = g[j]
    <3>1. n \in Nat /\ 1 .. n \subseteq {1, 2}
      BY <2>2
    <3>2. \A i \in 1 .. n : msg[i] \in Nat
      BY <3>1 DEF Values
    <3>3. g \in Seq(Nat)
      BY <2>2, <3>1, <3>2, SMT
    <3>4. DOMAIN g \subseteq {1, 2} /\ \A i \in DOMAIN g : g[i] = msg[i]
      BY <2>2, <3>1, Zenon
    <3>5. ASSUME ~plain, NEW i \in DOMAIN g, NEW j \in DOMAIN g PROVE g[i] = g[j]
      BY <1>4, <3>4, <3>5
    <3> QED BY <3>3, <3>5
  <2> QED BY <1>2, <2>1, <2>2
<1>6. got'[t] = g
  BY <1>2, Zenon DEF Values
<1>7. Values'
  <2>1. got' \in [Thread -> Seq(Nat)]
    BY <1>2, <1>5, Zenon DEF Values
  <2> QED BY <1>1, <2>1 DEF Values
<1>8. ~plain => Place(t)' /\ Reads(t)'
  <2>1. Place(t)'
    BY <1>1, SMT DEF Place
  <2>2. ~plain => Reads(t)'
    BY <1>1, <1>5, <1>6, Zenon DEF Reads
  <2> QED BY <2>1, <2>2
<1>9. pc' = [pc EXCEPT ![t] = "open"] /\ "open" \in Inside
  BY <1>1, Zenon DEF Types, Inside
<1> QED BY <1>1, <1>3, <1>4, <1>7, <1>8, <1>9, InsideTexts

LEMMA SwitchTexts == ASSUME Texts, NEW t \in Thread, Switch(t) PROVE Texts'
<1> USE DEF Texts
<1>1. fkey' \in Nat /\ UNCHANGED <<driver, msg, counter, own, pc, bypass, got, plain>>
  BY SMT DEF Switch, ghosts
<1>2. Holders' = Holders
  BY <1>1 DEF Holders
<1>3. Values' /\ Marked' /\ Whole' /\ Progress'
  BY <1>1, <1>2 DEF Values, Marked, Whole, Progress, Place
<1>4. OneText'
  BY <1>1, <1>2 DEF OneText
<1> QED BY <1>3, <1>4

(* A copy begins, or a command looks at one part. *)
LEMMA StartCopyTexts == ASSUME IInv, Texts, NEW t \in Thread, StartCopy(t) PROVE Texts'
<1> USE DEF IInv, Texts
<1>1. PICK l \in {"put1", "get1", "leave"} :
        /\ pc[t] = "open" /\ driver \in {"sleep", "chardev2"}
        /\ pc' = [pc EXCEPT ![t] = l]
        /\ \/ /\ l = "put1" /\ got' = got
              /\ counter' = NextText /\ own' = [own EXCEPT ![t] = NextText]
           \/ /\ l \in {"get1", "leave"} /\ got' = got /\ driver = "chardev2"
              /\ UNCHANGED <<counter, own>>
           \/ /\ l = "leave" /\ driver = "chardev2"
              /\ \E i \in 1 .. 2 : got' = [got EXCEPT ![t] = <<msg[i]>>]
              /\ UNCHANGED <<counter, own>>
        /\ UNCHANGED <<driver, msg, fkey, bypass, plain>>
  BY SMT DEF StartCopy, Opened, Goto
<1>2. t \in Holders
  BY <1>1, SMT DEF Bypassers, Copying, Holders, Inside
<1>3. ~plain => msg[1] = msg[2] /\ Place(t) /\ Reads(t)
  <2>1. \A u \in Holders : pc[u] # "put2"
    BY <1>1, <1>2, Zenon DEF FlagMeansHolder
  <2> QED BY <1>2, <2>1, Zenon DEF Whole, Progress, OneText, Reads
<1>4. pc'[t] = l /\ l \in Inside
  BY <1>1, SMT DEF Types, Inside
<1>5. Values'
  <2>1. counter' \in Nat /\ own' \in [Thread -> Nat]
    <3>1. NextText \in Nat /\ counter \in Nat /\ own \in [Thread -> Nat]
      BY MaxTextsAssumption, SMT DEF Values, NextText
    <3> HIDE DEF Values
    <3> QED BY <1>1, <3>1, Zenon
  <2>2. \A i \in 1 .. 2 : <<msg[i]>> \in Seq(Nat)
    BY SMT DEF Values
  <2>3. got' \in [Thread -> Seq(Nat)]
    BY <1>1, <2>2, Zenon DEF Values
  <2> QED BY <1>1, <2>1, <2>3 DEF Values
<1>6. CASE got' # got
  <2>1. PICK i \in 1 .. 2 : l = "leave" /\ got' = [got EXCEPT ![t] = <<msg[i]>>]
    BY <1>1, <1>6
  <2>2. got'[t] = <<msg[i]>>
    BY <2>1, Zenon DEF Values
  <2>3. Place(t)' /\ Reads(t)'
    BY <1>1, <1>4, <2>1, <2>2, SMT DEF Place, Reads
  <2> QED BY <1>1, <1>2, <1>3, <1>4, <1>5, <2>3, InsideTexts
<1>7. CASE got' = got
  <2>1. got' = got
    BY <1>7
  <2>2. ~plain => Place(t)'
    BY <1>1, <1>3, <1>4, <2>1, SMT DEF Place
  <2>3. ~plain => Reads(t)'
    BY <1>1, <1>3, <2>1, Zenon DEF Reads
  <2> QED BY <1>1, <1>2, <1>3, <1>4, <1>5, <2>2, <2>3, InsideTexts
<1> QED BY <1>6, <1>7

(* A call that does not ask for the flag changes nothing of those who do    *)
(* but by a write, which is marked.                                         *)
LEMMA BypassTexts ==
  ASSUME IInv, Texts, NEW t \in Thread,
         Holders' = Holders, t \notin Holders,
         \A u \in Thread \ {t} : pc'[u] = pc[u] /\ got'[u] = got[u] /\ own'[u] = own[u],
         driver' = driver, Values', Marked',
         ~plain' => ~plain /\ msg' = msg
  PROVE  Texts'
<1> USE DEF IInv, Texts
<1>1. CASE plain'
  BY <1>1 DEF Whole, Progress, OneText
<1>2. CASE ~plain'
  <2>1. \A u \in Holders : u \in Thread \ {t}
    BY Zenon DEF Holders
  <2>2. \A u \in Holders : pc'[u] = pc[u] /\ got'[u] = got[u] /\ own'[u] = own[u]
    BY <2>1
  <2>3. Whole'
    BY <1>2, <2>2, Zenon DEF Whole
  <2>4. Progress'
    <3> SUFFICES ASSUME NEW u \in Holders PROVE Place(u)'
      BY DEF Progress
    <3>1. Place(u)
      BY <1>2, Zenon DEF Progress
    <3> QED BY <1>2, <2>2, <3>1, SMT DEF Place
  <2>5. OneText'
    <3> SUFFICES ASSUME NEW u \in Holders PROVE Reads(u)'
      BY DEF OneText, Reads
    <3>1. Reads(u)
      BY <1>2, Zenon DEF OneText, Reads
    <3> QED BY <2>2, <3>1 DEF Reads
  <2> QED BY <2>3, <2>4, <2>5
<1> QED BY <1>1, <1>2

LEMMA StartPlainTexts == ASSUME IInv, Texts, NEW t \in Thread, StartPlain(t) PROVE Texts'
<1> USE DEF IInv, Texts
<1>1. PICK l \in {"put1", "get1"} :
        /\ pc[t] = "idle" /\ driver = "chardev2" /\ pc' = [pc EXCEPT ![t] = l]
        /\ bypass' = [bypass EXCEPT ![t] = TRUE]
        /\ got' = [got EXCEPT ![t] = <<>>]
        /\ \/ /\ l = "put1" /\ plain' = TRUE
              /\ counter' = counter + 1 /\ own' = [own EXCEPT ![t] = counter + 1]
           \/ l = "get1" /\ UNCHANGED <<counter, own, plain>>
        /\ UNCHANGED <<driver, msg, fkey>>
  BY Zenon DEF StartPlain, Goto
<1>2. /\ pc'[t] = l /\ bypass'[t]
      /\ \A u \in Thread \ {t} : pc'[u] = pc[u] /\ bypass'[u] = bypass[u]
  BY <1>1, Zenon DEF Types
<1>3. \A u \in Thread \ {t} : got'[u] = got[u] /\ own'[u] = own[u]
  BY <1>1, Zenon DEF Values
<1>4. t \notin Holders
  BY <1>1, SMT DEF Holders, Inside
<1>5. Holders' = Holders
  BY <1>2, <1>4, Zenon DEF Holders
<1>6. Values'
  <2>1. <<>> \in Seq(Nat) /\ counter + 1 \in Nat
    BY SMT DEF Values
  <2>2. got' \in [Thread -> Seq(Nat)]
    BY <1>1, <2>1, Zenon DEF Values
  <2>3. own' \in [Thread -> Nat] /\ counter' \in Nat
    BY <1>1, <2>1, Zenon DEF Values
  <2> QED BY <1>1, <2>2, <2>3 DEF Values
<1>7. Marked'
  <2>1. CASE plain'
    BY <1>1, <2>1 DEF Marked
  <2>2. CASE ~plain'
    <3>1. l = "get1" /\ plain' = plain
      BY <1>1, <2>2
    <3>2. l \notin {"put1", "put2"}
      BY <3>1, SMT
    <3> QED BY <1>2, <2>2, <3>1, <3>2, Zenon DEF Marked
  <2> QED BY <2>1, <2>2
<1>8. ~plain' => ~plain /\ msg' = msg
  BY <1>1
<1> QED BY <1>1, <1>2, <1>3, <1>4, <1>5, <1>6, <1>7, <1>8, BypassTexts

LEMMA PutTexts == ASSUME IInv, Texts, NEW t \in Thread, Put(t) PROVE Texts'
<1> USE DEF IInv, Texts
<1> DEFINE i == IF pc[t] = "put1" THEN 1 ELSE 2
           l == IF i = 1 THEN "put2" ELSE AfterCopy(t)
<1>1. /\ pc[t] \in {"put1", "put2"}
      /\ msg' = [msg EXCEPT ![i] = own[t]]
      /\ pc' = [pc EXCEPT ![t] = l]
      /\ bypass' = [bypass EXCEPT ![t] = @ /\ i = 1]
      /\ UNCHANGED <<driver, counter, fkey, got, own, plain>>
  BY DEF Put, Goto, ghosts
<1>2. Values'
  <2>1. i \in 1 .. 2 /\ own[t] \in Nat
    BY SMT DEF Values
  <2>2. msg' \in [1 .. 2 -> Nat]
    BY <1>1, <2>1, Zenon DEF Values
  <2> QED BY <1>1, <2>2 DEF Values
<1>3. /\ pc'[t] = l
      /\ \A u \in Thread \ {t} : pc'[u] = pc[u] /\ bypass'[u] = bypass[u]
      /\ bypass'[t] => bypass[t]
  BY <1>1, Zenon DEF Types
<1>4. CASE bypass[t]
  <2>1. plain /\ plain'
    BY <1>1, <1>4 DEF Marked
  <2>2. Marked'
    BY <1>1, <2>1 DEF Marked
  <2> QED BY <1>2, <2>1, <2>2 DEF Whole, Progress, OneText
<1>5. CASE ~bypass[t]
  <2>1. t \in Holders
    BY <1>1, <1>5, SMT DEF Holders, Inside
  <2>2. bypass' = bypass
    BY <1>1, <1>5, Zenon DEF Types
  <2>3. l \in Inside
    BY <1>5, SMT DEF AfterCopy, Inside
  <2>4. ~plain => Place(t) /\ Reads(t)
    BY <2>1, Zenon DEF Progress, OneText, Reads
  <2>5. ~plain => (l # "put2" => msg'[1] = msg'[2])
    <3>1. CASE i = 1
      BY <3>1
    <3>2. CASE i = 2
      <4>1. pc[t] = "put2"
        BY <1>1, <3>2, SMT
      <4> QED BY <1>1, <2>4, <3>2, <4>1, SMT DEF Place, Values
    <3> QED BY <3>1, <3>2
  <2>6. ~plain => Reads(t)'
    BY <1>1, <2>4, Zenon DEF Reads
  <2>7. ~plain => Place(t)'
    <3>1. CASE i = 1
      BY <1>1, <1>3, <2>4, <3>1, SMT DEF Place, Values
    <3>2. CASE i = 2
      <4>1. pc[t] = "put2" /\ l = AfterCopy(t)
        BY <1>1, <3>2, SMT
      <4>2. /\ l \in {"open", "leave"}
            /\ l = "open" => driver # "chardev2"
        BY <1>5, <4>1, Zenon DEF AfterCopy
      <4>3. ~plain => driver \notin {"chardev", "static_key"}
        BY <2>4, <4>1, SMT DEF Place
      <4> QED BY <1>1, <1>3, <4>2, <4>3, SMT DEF Place
    <3> QED BY <3>1, <3>2
  <2> HIDE DEF l
  <2> QED BY <1>1, <1>2, <2>1, <2>2, <2>3, <2>5, <2>6, <2>7, InsideTexts
<1> QED BY <1>4, <1>5

LEMMA GetTexts == ASSUME IInv, Texts, NEW t \in Thread, Get(t) PROVE Texts'
<1> USE DEF IInv, Texts
<1> DEFINE i == IF pc[t] = "get1" THEN 1 ELSE 2
           l == IF i = 1 THEN "get2" ELSE AfterCopy(t)
<1>1. /\ pc[t] \in {"get1", "get2"}
      /\ got' = [got EXCEPT ![t] = Append(got[t], msg[i])]
      /\ pc' = [pc EXCEPT ![t] = l]
      /\ bypass' = [bypass EXCEPT ![t] = @ /\ i = 1]
      /\ UNCHANGED <<driver, msg, counter, fkey, own, plain>>
  BY DEF Get, Goto, text, ghosts
<1>2. Values' /\ got'[t] = Append(got[t], msg[i])
  <2>1. got[t] \in Seq(Nat) /\ msg[i] \in Nat
    BY SMT DEF Values
  <2>2. Append(got[t], msg[i]) \in Seq(Nat)
    BY <2>1, SMT
  <2>3. got' \in [Thread -> Seq(Nat)] /\ got'[t] = Append(got[t], msg[i])
    BY <1>1, <2>2, Zenon DEF Values
  <2> QED BY <1>1, <2>3 DEF Values
<1>3. /\ pc'[t] = l
      /\ \A u \in Thread \ {t} : pc'[u] = pc[u] /\ bypass'[u] = bypass[u] /\ got'[u] = got[u]
      /\ bypass'[t] <=> (bypass[t] /\ i = 1)
  <2>1. \A u \in Thread \ {t} : got'[u] = got[u]
    BY <1>1, Zenon DEF Values
  <2> QED BY <1>1, <2>1, Zenon DEF Types
<1>4. CASE bypass[t]
  <2>1. t \notin Holders
    BY <1>4 DEF Holders
  <2>2. \/ l = "get2" /\ i = 1
        \/ l = "idle" /\ i = 2
    <3>1. AfterCopy(t) = "idle"
      BY <1>4, Zenon DEF AfterCopy
    <3>2. CASE pc[t] = "get1"
      <4>1. i = 1
        BY <3>2, Zenon
      <4>2. l = "get2"
        BY <4>1, Zenon
      <4> HIDE DEF i, l
      <4> QED BY <4>1, <4>2
    <3>3. CASE pc[t] # "get1"
      <4>1. i = 2
        BY <3>3, Zenon
      <4> QED BY <3>1, <4>1, 2 # 1, Zenon
    <3> QED BY <3>2, <3>3, Zenon
  <2>3. "idle" \notin Inside
    BY SMT DEF Inside
  <2>4. Holders' = Holders
    BY <1>3, <1>4, <2>1, <2>2, <2>3, Zenon DEF Holders
  <2>5. Marked'
    BY <1>1, <1>3, <2>2, Zenon DEF Marked
  <2> QED BY <1>1, <1>2, <1>3, <2>1, <2>4, <2>5, BypassTexts
<1>5. CASE ~bypass[t]
  <2>1. t \in Holders
    BY <1>1, <1>5, SMT DEF Holders, Inside
  <2>2. bypass' = bypass
    BY <1>1, <1>5, Zenon DEF Types
  <2>3. ~plain => msg[1] = msg[2] /\ Place(t)
    <3>1. \A u \in Holders : pc[u] # "put2"
      BY <1>1, <2>1, SMT DEF FlagMeansHolder
    <3> QED BY <2>1, <3>1, Zenon DEF Whole, Progress
  <2>4. CASE i = 1
    <3>1. pc[t] = "get1" /\ l = "get2" /\ l \in Inside
      BY <1>1, <2>4, SMT DEF Inside
    <3>2. ~plain => got'[t] = <<msg[1]>> /\ driver = "chardev2"
      <4>1. ~plain => got[t] = <<>> /\ driver = "chardev2"
        BY <2>3, <3>1, SMT DEF Place
      <4> QED BY <1>2, <2>4, <4>1, SMT DEF Values
    <3>3. ~plain => Place(t)' /\ Reads(t)'
      BY <1>1, <1>3, <3>1, <3>2, SMT DEF Place, Reads
    <3> HIDE DEF l
    <3> QED BY <1>1, <1>2, <2>1, <2>2, <2>3, <3>1, <3>3, InsideTexts
  <2>5. CASE i = 2
    <3>1. pc[t] = "get2"
      BY <1>1, <2>5, SMT
    <3>2. l \in {"open", "leave"} /\ l \in Inside /\ (driver = "chardev2" => l = "leave")
      BY <1>5, <2>5, SMT DEF AfterCopy, Inside
    <3>3. ~plain => got'[t] = <<msg[1], msg[2]>> /\ driver = "chardev2"
      <4>1. ~plain => got[t] = <<msg[1]>> /\ driver = "chardev2"
        BY <2>3, <3>1, SMT DEF Place
      <4>2. msg[1] \in Nat /\ msg[2] \in Nat
        BY SMT DEF Values
      <4>3. got'[t] = Append(got[t], msg[2])
        BY <1>2, <2>5
      <4> QED BY <4>1, <4>2, <4>3, AppendPair
    <3> HIDE DEF l
    <3>4. ~plain => Place(t)' /\ Reads(t)'
      BY <1>1, <1>3, <2>3, <3>2, <3>3, SMT DEF Place, Reads
    <3> QED BY <1>1, <1>2, <2>1, <2>2, <2>3, <3>2, <3>4, InsideTexts
  <2> QED BY <2>4, <2>5
<1> QED BY <1>4, <1>5

LEMMA NextTexts == IInv /\ Texts /\ [Next]_vars => Texts'
<1> SUFFICES ASSUME IInv, Texts, [Next]_vars PROVE Texts'
  OBVIOUS
<1>1. CASE UNCHANGED vars
  BY <1>1 DEF vars, text, ghosts, Texts, Values, Marked, Whole, Progress, Place, OneText, Holders
<1>2. ASSUME NEW t \in Thread, Runs(t) PROVE Texts'
  BY <1>2, QuietTexts, EnterTexts, FillTexts, PutTexts, GetTexts, StartCopyTexts, LeaveTexts,
     Zenon DEF Runs
<1>3. ASSUME NEW t \in Thread, Asks(t) PROVE Texts'
  BY <1>3, QuietTexts, StartPlainTexts, ReadTexts, OutputTexts, SwitchTexts, StartCopyTexts,
     LeaveTexts, Zenon DEF Asks
<1> QED BY <1>1, <1>2, <1>3 DEF Next
-----------------------------------------------------------------------------
LEMMA NextInv == IInv /\ [Next]_vars => IInv'
<1> SUFFICES ASSUME IInv, [Next]_vars PROVE IInv'
  OBVIOUS
<1>1. CASE UNCHANGED vars
  BY <1>1, SameInv DEF vars, waits, Relevant
<1>2. ASSUME NEW t \in Thread, Read(t) \/ Output(t) \/ Switch(t) PROVE IInv'
  BY <1>2, SameInv DEF Read, Output, Switch, waits, Relevant
<1>3. ASSUME NEW t \in Thread, Runs(t) PROVE IInv'
  BY <1>3, EnterInv, RefusedInv, PrepareInv, ConditionInv, ScheduleInv, TestSignalInv, FillInv,
     CopyInv, WakeInv, StartCopyInv, LeaveInv, Zenon DEF Runs
<1>4. ASSUME NEW t \in Thread, Asks(t) PROVE IInv'
  BY <1>2, <1>4, CallInv, StartPlainInv, SignalInv, StartCopyInv, LeaveInv, Zenon DEF Asks
<1> QED BY <1>1, <1>3, <1>4 DEF Next

LEMMA Invariance == Spec => []IInv
BY InitInv, NextInv, PTL DEF Spec

(* Of any number of processes one at a time is inside, and the flag is set  *)
(* exactly while one is (sleep.c:96, 108, 144; chardev.c:100).              *)
THEOREM OneAtATime == Spec => []FlagMeansHolder
BY Invariance, PTL DEF IInv

(* Of any number of sleepers none misses the wake-up of the close that      *)
(* freed the file (sleep.c:118, 144, 149).                                  *)
THEOREM WakeupsAreNotLost == Spec => []NoLostWakeup
BY Invariance, PTL DEF IInv

(* Who is inside reads one text, and of chardev.c and static_key.c the one  *)
(* made for it, for any number of processes (chardev.c:100, 143;            *)
(* chardev2.c:105, 129).                                                    *)
THEOREM TextsAreWhole == Spec => []OneText
<1>1. Texts => OneText
  BY DEF Texts
<1> QED BY Invariance, TextsInit, NextTexts, <1>1, PTL DEF Spec
=============================================================================
