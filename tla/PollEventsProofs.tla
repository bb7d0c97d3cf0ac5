-------------------------- MODULE PollEventsProofs --------------------------
(* Proofs about PollEvents for every set of threads and files, every width  *)
(* of event_count and every number of presses.                              *)
EXTENDS PollEvents, TLAPS

(* The counts the code keeps are the history's counts, in an unsigned int.  *)
Counts ==
  /\ event_count = presses % Modulus
  /\ \A f \in opened : last_event[f] = seen[f] % Modulus /\ seen[f] <= presses
  /\ \A t \in Thread :
       pc[t] = "store" => loaded[t] = got[t] % Modulus /\ got[t] <= presses

(* A thread in the driver uses an open file it holds a descriptor of. *)
Calls ==
  \A t \in Thread : pc[t] # "idle" => file[t] \in opened /\ t \in Users[file[t]]

(* A reader that is about to sleep, or sleeps and was not woken, is on the  *)
(* queue; a poller stays on it until poll(2) returns.                       *)
Queued ==
  \A t \in Thread :
    /\ pc[t] \in {"cond", "sched"} /\ ~woken[t] => t \in queue
    /\ pc[t] \in {"p_check", "p_sched"} => t \in queue

(* Who found a press to read has one the file has not consumed. *)
Consumable ==
  \A t \in Thread :
    Private(file[t]) =>
      /\ pc[t] = "load" => seen[file[t]] < presses
      /\ pc[t] = "store" => seen[file[t]] < got[t]

IInv == TypeOK /\ Counts /\ Calls /\ Queued /\ NoLostWakeup /\ Consumable
-----------------------------------------------------------------------------
(* Arithmetic modulo a width that is not fixed: division with remainder,    *)
(* its uniqueness, and what the driver relies on.                           *)

LEMMA ModDef ==
  ASSUME NEW a \in Int, NEW M \in Nat, M > 0
  PROVE  a % M \in 0..M-1 /\ a \div M \in Int /\ a = M * (a \div M) + (a % M)
  <1>1. a % M \in 0..M-1 BY SMT
  <1>2. a \div M \in Int BY SMT
  <1>3. a = M * (a \div M) + (a % M) BY SMT
  <1> QED BY <1>1, <1>2, <1>3

LEMMA MulStep ==
  ASSUME NEW M \in Nat, M > 0, NEW p \in Int, NEW q \in Int, p > q
  PROVE  M*p >= M*q + M
  <1>1. M * (p - (q+1)) >= 0 BY SMT
  <1>2. M * (p - (q+1)) = M*p - (M*q + M) BY SMT
  <1> QED BY <1>1, <1>2, SMT

LEMMA Uniq ==
  ASSUME NEW M \in Nat, M > 0, NEW p \in Int, NEW q \in Int,
         NEW r \in 0..M-1, NEW s \in 0..M-1, M*p + r = M*q + s
  PROVE  r = s /\ p = q
  <1>1. ~(p > q) 
    <2> SUFFICES ASSUME p > q PROVE FALSE
      OBVIOUS
    <2>1. M*p >= M*q + M BY MulStep
    <2> QED BY <2>1, SMT
  <1>2. ~(q > p) 
    <2> SUFFICES ASSUME q > p PROVE FALSE
      OBVIOUS
    <2>1. M*q >= M*p + M BY MulStep
    <2> QED BY <2>1, SMT
  <1>3. p = q BY <1>1, <1>2, SMT
  <1> QED BY <1>3, SMT

LEMMA ModUniq ==
  ASSUME NEW M \in Nat, M > 0, NEW q \in Int, NEW s \in 0..M-1
  PROVE  (M*q+s) % M = s
  <1> DEFINE a == M*q+s
  <1>1. a \in Int BY SMT
  <1>2. a % M \in 0..M-1 /\ a \div M \in Int /\ a = M * (a \div M) + (a % M) BY <1>1, ModDef
  <1> HIDE DEF a
  <1>3. a = M*q+s BY DEF a
  <1> QED BY <1>2, <1>3, Uniq

LEMMA ModSucc ==
  ASSUME NEW M \in Nat, M > 0, NEW a \in Int
  PROVE  (a+1) % M = ((a % M) + 1) % M
  <1> DEFINE q == a \div M
  <1> DEFINE r == a % M
  <1>1. q \in Int /\ r \in 0..M-1 /\ a = M*q + r BY ModDef
  <1> HIDE DEF q, r
  <1>2. CASE r = M-1
    <2>1. a + 1 = M*(q+1)+0 BY <1>1, <1>2, SMT
    <2>2. (a+1) % M = 0 BY <2>1, <1>1, ModUniq
    <2>3. r+1 = M*1 + 0 BY <1>2, <1>1, SMT
    <2>4. (r+1)%M = 0 BY <2>3, ModUniq
    <2> QED BY <2>2, <2>4 DEF r
  <1>3. CASE r # M-1
    <2>0. r+1 \in 0..M-1 BY <1>1, <1>3, SMT
    <2>1. a + 1 = M*q+(r+1) BY <1>1, SMT
    <2>2. (a+1) % M = r+1 BY <2>0, <2>1, <1>1, ModUniq
    <2>3. r+1 = M*0 + (r+1) BY <1>1, SMT
    <2>4. (r+1)%M = r+1 BY <2>0, <2>3, ModUniq
    <2> QED BY <2>2, <2>4 DEF r
  <1> QED BY <1>2, <1>3

LEMMA ModDiff ==
  ASSUME NEW M \in Nat, M > 0, NEW a \in Int, NEW b \in Int
  PROVE  (a % M = b % M) <=> (b-a)%M = 0
  <1> DEFINE qa == a \div M
  <1> DEFINE ra == a % M
  <1> DEFINE qb == b \div M
  <1> DEFINE rb == b % M
  <1> DEFINE qd == (b-a) \div M
  <1> DEFINE rd == (b-a) % M
  <1>1. qa \in Int /\ ra \in 0..M-1 /\ a = M*qa + ra BY ModDef
  <1>2. qb \in Int /\ rb \in 0..M-1 /\ b = M*qb + rb BY ModDef
  <1>3. b-a \in Int BY SMT
  <1>4. qd \in Int /\ rd \in 0..M-1 /\ b-a = M*qd + rd BY <1>3, ModDef
  <1> HIDE DEF qa, ra, qb, rb, qd, rd
  <1>5. ASSUME ra = rb PROVE rd = 0
    <2>1. M*qd + rd = M*(qb-qa) + 0 BY <1>1, <1>2, <1>4, <1>5, SMT
    <2>2. qb - qa \in Int BY <1>1, <1>2, SMT
    <2>3. 0 \in 0..M-1 BY SMT
    <2> QED BY <2>1, <2>2, <2>3, <1>4, Uniq
  <1>6. ASSUME rd = 0 PROVE ra = rb
    <2>1. M*qb + rb = M*(qa+qd) + ra BY <1>1, <1>2, <1>4, <1>6, SMT
    <2>2. qa + qd \in Int BY <1>1, <1>4, SMT
    <2> QED BY <2>1, <2>2, <1>1, <1>2, Uniq
  <1> QED BY <1>5, <1>6 DEF ra, rb, rd
-----------------------------------------------------------------------------
LEMMA TypeInit == Init => TypeOK
  <1>1. 0 \in Word BY ModulusAssumption DEF Word
  <1> QED BY <1>1 DEF Init, TypeOK

LEMMA TypeNext == TypeOK /\ [Next]_vars => TypeOK'
  <1> SUFFICES ASSUME TypeOK, [Next]_vars PROVE TypeOK'
    OBVIOUS
  <1> USE DEF TypeOK, device, waits, ghosts, Goto, Return, ReadSteps, PollSteps
  <1>0. 0 \in Word BY ModulusAssumption DEF Word
  <1>1. ASSUME NEW f \in File, Open(f) PROVE TypeOK'
    BY <1>1 DEF Open, InitialEvent
  <1>2. ASSUME NEW f \in File, Release(f) PROVE TypeOK'
    BY <1>0, <1>2 DEF Release
  <1>3. ASSUME NEW t \in Thread, NEW f \in File, Call(t, f) PROVE TypeOK'
    BY <1>3 DEF Call
  <1>4. ASSUME NEW t \in Thread, ReadCheck(t) PROVE TypeOK'
    BY <1>4 DEF ReadCheck
  <1>5. ASSUME NEW t \in Thread, WaitPrepare(t) PROVE TypeOK'
    BY <1>5 DEF WaitPrepare
  <1>6. ASSUME NEW t \in Thread, WaitCondition(t) PROVE TypeOK'
    BY <1>6 DEF WaitCondition
  <1>7. ASSUME NEW t \in Thread, WaitSchedule(t) PROVE TypeOK'
    BY <1>7 DEF WaitSchedule
  <1>8. ASSUME NEW t \in Thread, ReadLoad(t) PROVE TypeOK'
    BY <1>8 DEF ReadLoad
  <1>9. ASSUME NEW t \in Thread, ReadStore(t) PROVE TypeOK'
    BY <1>9, <1>0 DEF ReadStore
  <1>10. ASSUME NEW t \in Thread, PollStep(t) PROVE TypeOK'
    BY <1>10 DEF PollStep, PollRegister, PollCheck, PollSchedule, PollLast
  <1>11. ASSUME NEW t \in Thread, PollTimeout(t) PROVE TypeOK'
    BY <1>11 DEF PollTimeout
  <1>12. ASSUME NEW t \in Thread, Signal(t) PROVE TypeOK'
    BY <1>12 DEF Signal
  <1>13. CASE IsrCount
    <2>1. Count \in Word BY ModulusAssumption DEF Count, Word
    <2> QED BY <1>13, <2>1 DEF IsrCount
  <1>14. CASE IsrWake
    BY <1>14 DEF IsrWake
  <1>15. CASE UNCHANGED vars
    BY <1>15 DEF vars
  <1> QED
    BY <1>1, <1>2, <1>3, <1>4, <1>5, <1>6, <1>7, <1>8, <1>9, <1>10, <1>11,
       <1>12, <1>13, <1>14, <1>15 DEF Next, ReadStep

(* Every variable keeps its type: event_count, last_event and the registers *)
(* stay unsigned ints of the given width (my_poll.c:30, 44).                *)
THEOREM TypeCorrect == Spec => []TypeOK
  <1> QED BY TypeInit, TypeNext, PTL DEF Spec
-----------------------------------------------------------------------------
LEMMA CountsNext == TypeOK /\ Counts /\ Calls /\ [Next]_vars => Counts'
  <1> SUFFICES ASSUME TypeOK, Counts, Calls, [Next]_vars PROVE Counts'
    OBVIOUS
  <1> USE DEF TypeOK, Counts, device, waits, ghosts, Goto, Return
  <1>1. ASSUME NEW f \in File, Open(f) PROVE Counts'
    BY <1>1 DEF Open, InitialEvent
  <1>2. ASSUME NEW f \in File, Release(f) PROVE Counts'
    BY <1>2 DEF Release
  <1>3. ASSUME NEW t \in Thread, NEW f \in File, Call(t, f) PROVE Counts'
    BY <1>3 DEF Call
  <1>4. ASSUME NEW t \in Thread,
               \/ ReadCheck(t) \/ WaitPrepare(t) \/ WaitCondition(t)
               \/ WaitSchedule(t) \/ PollStep(t) \/ PollTimeout(t) \/ Signal(t)
        PROVE  Counts'
    BY <1>4 DEF ReadCheck, WaitPrepare, WaitCondition, WaitSchedule, PollStep,
                PollRegister, PollCheck, PollSchedule, PollLast, PollTimeout,
                Signal
  <1>5. ASSUME NEW t \in Thread, ReadLoad(t) PROVE Counts'
    BY <1>5 DEF ReadLoad
  <1>6. ASSUME NEW t \in Thread, ReadStore(t) PROVE Counts'
    BY <1>6 DEF ReadStore
  <1>7. CASE IsrCount
    <2>1. presses \in Int /\ Modulus \in Nat /\ Modulus > 0
      BY ModulusAssumption
    <2>2. (presses + 1) % Modulus = ((presses % Modulus) + 1) % Modulus
      BY <2>1, ModSucc
    <2>3. event_count' = presses' % Modulus
      BY <1>7, <2>2 DEF IsrCount, Count
    <2> QED BY <1>7, <2>3 DEF IsrCount
  <1>8. CASE IsrWake
    BY <1>8 DEF IsrWake
  <1>9. CASE UNCHANGED vars
    BY <1>9 DEF vars
  <1> QED
    BY <1>1, <1>2, <1>3, <1>4, <1>5, <1>6, <1>7, <1>8, <1>9 DEF Next, ReadStep

LEMMA CallsNext == TypeOK /\ Calls /\ [Next]_vars => Calls'
  <1> SUFFICES ASSUME TypeOK, Calls, [Next]_vars PROVE Calls'
    OBVIOUS
  <1> USE DEF TypeOK, Calls, device, waits, ghosts, Goto, Return
  <1>1. ASSUME NEW f \in File, Open(f) \/ Release(f) PROVE Calls'
    BY <1>1 DEF Open, Release, Unused, InCall
  <1>2. ASSUME NEW t \in Thread, NEW f \in File, Call(t, f) PROVE Calls'
    BY <1>2 DEF Call
  <1>3. ASSUME NEW t \in Thread, ReadStep(t) PROVE Calls'
    BY <1>3 DEF ReadStep, ReadCheck, WaitPrepare, WaitCondition, WaitSchedule,
                ReadLoad, ReadStore
  <1>4. ASSUME NEW t \in Thread, PollStep(t) \/ PollTimeout(t) \/ Signal(t)
        PROVE  Calls'
    BY <1>4 DEF PollStep, PollRegister, PollCheck, PollSchedule, PollLast,
                PollTimeout, Signal
  <1>5. CASE IsrCount \/ IsrWake \/ UNCHANGED vars
    BY <1>5 DEF IsrCount, IsrWake, vars
  <1> QED BY <1>1, <1>2, <1>3, <1>4, <1>5 DEF Next

LEMMA QueuedNext == TypeOK /\ Queued /\ [Next]_vars => Queued'
  <1> SUFFICES ASSUME TypeOK, Queued, [Next]_vars PROVE Queued'
    OBVIOUS
  <1> USE DEF TypeOK, Queued, device, waits, ghosts, Goto, Return
  <1>1. ASSUME NEW f \in File, Open(f) \/ Release(f) PROVE Queued'
    BY <1>1 DEF Open, Release
  <1>2. ASSUME NEW t \in Thread, NEW f \in File, Call(t, f) PROVE Queued'
    BY <1>2 DEF Call
  <1>3. ASSUME NEW t \in Thread, ReadStep(t) PROVE Queued'
    BY <1>3 DEF ReadStep, ReadCheck, WaitPrepare, WaitCondition, WaitSchedule,
                ReadLoad, ReadStore
  <1>4. ASSUME NEW t \in Thread, PollStep(t) PROVE Queued'
    <2>1. CASE PollRegister(t) BY <2>1 DEF PollRegister
    <2>2. CASE PollCheck(t) BY <2>2 DEF PollCheck
    <2>3. CASE PollSchedule(t) BY <2>3 DEF PollSchedule
    <2>4. CASE PollLast(t) BY <2>4 DEF PollLast
    <2> QED BY <1>4, <2>1, <2>2, <2>3, <2>4 DEF PollStep
  <1>7. ASSUME NEW t \in Thread, PollTimeout(t) \/ Signal(t) PROVE Queued'
    BY <1>7 DEF PollTimeout, Signal
  <1>5. CASE IsrWake
    BY <1>5 DEF IsrWake, WakeAll, PollSteps
  <1>6. CASE IsrCount \/ UNCHANGED vars
    BY <1>6 DEF IsrCount, vars
  <1> QED BY <1>1, <1>2, <1>3, <1>4, <1>5, <1>6, <1>7 DEF Next
-----------------------------------------------------------------------------
(* Two threads in calls on a private file are the same thread. *)
LEMMA PrivateUser ==
  ASSUME Calls, NEW t \in Thread, NEW u \in Thread, pc[t] # "idle",
         pc[u] # "idle", file[t] = file[u], Private(file[t])
  PROVE  t = u
  BY DEF Calls, Private

LEMMA NoLostWakeupNext ==
  TypeOK /\ Calls /\ Queued /\ NoLostWakeup /\ [Next]_vars => NoLostWakeup'
  <1> SUFFICES ASSUME TypeOK, Calls, Queued, NoLostWakeup, [Next]_vars,
                      NEW s \in Thread, Sleeping(s)', Private(file[s])',
                      Unread(file[s])'
               PROVE  isr' = "wake" /\ s \in queue'
    BY DEF NoLostWakeup
  <1>0. Queued' BY QueuedNext
  <1>q. s \in queue' BY <1>0 DEF Queued, Sleeping
  <1> USE DEF TypeOK, Sleeping, Unread, Private, device, waits, ghosts, Goto,
              Return
  <1>1. ASSUME NEW f \in File, Open(f) \/ Release(f) PROVE isr' = "wake"
    BY <1>1 DEF Open, Release, Unused, InCall, Calls, NoLostWakeup
  <1>2. ASSUME NEW t \in Thread, NEW f \in File, Call(t, f) PROVE isr' = "wake"
    BY <1>2 DEF Call, NoLostWakeup
  <1>3. ASSUME NEW t \in Thread, ReadStore(t) PROVE isr' = "wake"
    <2>1. s # t BY <1>3 DEF ReadStore
    <2>2. pc[s] # "idle" /\ pc[t] # "idle" /\ Private(file[s])
      BY <1>3, <2>1 DEF ReadStore
    <2>3. file[s] # file[t] BY <2>1, <2>2, PrivateUser
    <2>4. Unread(file[s]) /\ Sleeping(s) BY <1>3, <2>1, <2>3 DEF ReadStore, Calls
    <2> QED BY <1>3, <2>2, <2>4 DEF ReadStore, NoLostWakeup
  <1>4. ASSUME NEW t \in Thread,
               \/ ReadCheck(t) \/ WaitPrepare(t) \/ WaitCondition(t)
               \/ WaitSchedule(t) \/ ReadLoad(t)
        PROVE  isr' = "wake"
    BY <1>4 DEF ReadCheck, WaitPrepare, WaitCondition, WaitSchedule, ReadLoad,
                Condition, NoLostWakeup
  <1>5. ASSUME NEW t \in Thread, PollStep(t) \/ PollTimeout(t) \/ Signal(t)
        PROVE  isr' = "wake"
    BY <1>5 DEF PollStep, PollRegister, PollCheck, PollSchedule, PollLast,
                PollTimeout, Signal, NoLostWakeup
  <1>6. CASE IsrCount
    BY <1>q, <1>6 DEF IsrCount
  <1>7. CASE IsrWake
    BY <1>q, <1>7 DEF IsrWake, WakeAll, Queued
  <1>8. CASE UNCHANGED vars
    BY <1>q, <1>8 DEF vars, NoLostWakeup
  <1> QED
    BY <1>q, <1>1, <1>2, <1>3, <1>4, <1>5, <1>6, <1>7, <1>8 DEF Next, ReadStep

LEMMA ConsumableNext ==
  TypeOK /\ Counts /\ Calls /\ Consumable /\ [Next]_vars => Consumable'
  <1> SUFFICES ASSUME TypeOK, Counts, Calls, Consumable, [Next]_vars,
                      NEW s \in Thread, Private(file[s])'
               PROVE  /\ pc'[s] = "load" => seen'[file'[s]] < presses'
                      /\ pc'[s] = "store" => seen'[file'[s]] < got'[s]
    BY DEF Consumable
  <1> DEFINE Goal == /\ pc'[s] = "load" => seen'[file'[s]] < presses'
                     /\ pc'[s] = "store" => seen'[file'[s]] < got'[s]
  <1> USE DEF TypeOK, device, waits, ghosts, Goto, Return
  <1>0. ASSUME NEW f \in opened, Unread(f) PROVE seen[f] < presses
    BY <1>0 DEF Counts, Unread
  <1>1. ASSUME NEW f \in File, Open(f) \/ Release(f) PROVE Goal
    BY <1>1 DEF Open, Release, Calls, Consumable, Private
  <1>2. ASSUME NEW t \in Thread, NEW f \in File, Call(t, f) PROVE Goal
    BY <1>2 DEF Call, Consumable, Private
  <1>3. ASSUME NEW t \in Thread, ReadCheck(t) PROVE Goal
    BY <1>0, <1>3 DEF ReadCheck, MustWait, Calls, Consumable, Private
  <1>4. ASSUME NEW t \in Thread, WaitCondition(t) PROVE Goal
    BY <1>0, <1>4 DEF WaitCondition, Condition, Calls, Consumable, Private
  <1>5. ASSUME NEW t \in Thread, ReadLoad(t) PROVE Goal
    BY <1>5 DEF ReadLoad, Consumable, Private
  <1>6. ASSUME NEW t \in Thread, ReadStore(t) PROVE Goal
    <2>1. CASE s = t BY <1>6, <2>1 DEF ReadStore
    <2>2. CASE s # t /\ pc[s] \in {"load", "store"}
      <3>1. Private(file[s]) /\ pc[s] # "idle" /\ pc[t] # "idle"
        BY <1>6, <2>2 DEF ReadStore, Private
      <3>2. file[s] # file[t] BY <2>2, <3>1, PrivateUser
      <3> QED BY <1>6, <2>2, <3>1, <3>2 DEF ReadStore, Consumable
    <2>3. CASE s # t /\ pc[s] \notin {"load", "store"}
      BY <1>6, <2>3 DEF ReadStore
    <2> QED BY <2>1, <2>2, <2>3
  <1>7. ASSUME NEW t \in Thread, WaitPrepare(t) \/ WaitSchedule(t) PROVE Goal
    BY <1>7 DEF WaitPrepare, WaitSchedule, Consumable, Private
  <1>8. ASSUME NEW t \in Thread, PollStep(t) \/ PollTimeout(t) \/ Signal(t)
        PROVE  Goal
    BY <1>8 DEF PollStep, PollRegister, PollCheck, PollSchedule, PollLast,
                PollTimeout, Signal, Consumable, Private
  <1>9. ASSUME IsrCount \/ IsrWake \/ UNCHANGED vars PROVE Goal
    BY <1>9 DEF IsrCount, IsrWake, vars, Consumable, Private
  <1> QED
    BY <1>1, <1>2, <1>3, <1>4, <1>5, <1>6, <1>7, <1>8, <1>9 DEF Next, ReadStep
-----------------------------------------------------------------------------
LEMMA IInvInit == Init => IInv
  <1> SUFFICES ASSUME Init PROVE IInv
    OBVIOUS
  <1>1. 0 % Modulus = 0 BY ModulusAssumption
  <1> QED
    BY <1>1, TypeInit DEF Init, IInv, Counts, Calls, Queued, NoLostWakeup,
                          Sleeping, Consumable

LEMMA IInvNext == IInv /\ [Next]_vars => IInv'
  BY TypeNext, CountsNext, CallsNext, QueuedNext, NoLostWakeupNext,
     ConsumableNext DEF IInv

LEMMA Invariance == Spec => []IInv
  <1> QED BY IInvInit, IInvNext, PTL DEF Spec

(* No press is missed by a sleeping reader or poller of its own file.  The  *)
(* argument needs Queued (whoever sleeps is reached by the wake-up), Calls  *)
(* (nobody else stores to a private file's last_event).                     *)
THEOREM WakeupsAreNotLost == Spec => []NoLostWakeup
  <1> QED BY Invariance, PTL DEF IInv

(* The presses a file has not read show in its mask unless their number is  *)
(* a multiple of the counter's range, also for a file several threads share. *)
THEOREM MaskIsExact == Spec => []UnreadExact
  <1>1. IInv => UnreadExact
    <2> SUFFICES ASSUME IInv, NEW f \in opened
                 PROVE  /\ seen[f] <= presses
                        /\ Unread(f) <=> (presses - seen[f]) % Modulus # 0
      BY DEF UnreadExact
    <2>1. seen[f] \in Int /\ presses \in Int /\ Modulus \in Nat /\ Modulus > 0
      BY ModulusAssumption DEF IInv, TypeOK
    <2>2. seen[f] % Modulus = presses % Modulus
            <=> (presses - seen[f]) % Modulus = 0
      BY <2>1, ModDiff
    <2> QED BY <2>2 DEF IInv, Counts, Unread
  <1> QED BY Invariance, <1>1, PTL

(* Every read of a private file consumes a press no earlier read of it did. *)
THEOREM ReadsConsume == Spec => EachReadConsumes
  <1>1. IInv /\ [Next]_vars =>
          [\A t \in Thread :
             pc[t] = "store" /\ pc'[t] # "store" /\ Private(file[t])
               => seen'[file[t]] > seen[file[t]]]_vars
    <2> SUFFICES ASSUME IInv, Next, NEW t \in Thread, pc[t] = "store",
                        pc'[t] # "store", Private(file[t])
                 PROVE  seen'[file[t]] > seen[file[t]]
      OBVIOUS
    <2> USE DEF IInv, TypeOK, Goto, Return
    <2>1. ReadStore(t)
      BY DEF Next, ReadStep, PollStep, Open, Release, Call, ReadCheck,
             WaitPrepare, WaitCondition, WaitSchedule, ReadLoad, ReadStore,
             PollRegister, PollCheck, PollSchedule, PollLast, PollTimeout,
             Signal, IsrCount, IsrWake
    <2> QED BY <2>1 DEF ReadStore, Consumable
  <1> QED BY Invariance, <1>1, PTL DEF Spec, EachReadConsumes
-----------------------------------------------------------------------------
(* The private open files, and the abstract cursor of each. *)
PrivateOpen == {g \in opened : Private(g)}
Cursors == [f \in PrivateOpen |-> seen[f]]
Messages == [f \in PrivateOpen |-> messages[f]]
Mapped == <<presses, Cursors, Messages>>

LEMMA CursorInit == Init => Cursor!Init
  <1> SUFFICES ASSUME Init PROVE Cursor!Init
    OBVIOUS
  <1>1. {g \in opened : Private(g)} = {} BY DEF Init
  <1>2. {} \in SUBSET File OBVIOUS
  <1> QED BY <1>1, <1>2 DEF Init, Cursor!Init

(* Every step of the driver is a step of the cursors or leaves them alone:  *)
(* open, release, press and the store that ends a read are the steps.       *)
LEMMA CursorStep == IInv /\ [Next]_vars => [Cursor!Next]_Mapped
  <1> SUFFICES ASSUME IInv, [Next]_vars
               PROVE  Cursor!Next \/ UNCHANGED Mapped
    OBVIOUS
  <1> USE DEF IInv, TypeOK, device, waits, ghosts, Goto, Return
  <1> USE DEF Mapped, Cursors, Messages, PrivateOpen, Cursor!Put, Cursor!Drop
  <1>1. ASSUME NEW f \in File, Open(f) PROVE Cursor!Next \/ UNCHANGED Mapped
    <2>1. CASE Private(f)
      <3>1. PrivateOpen' = PrivateOpen \cup {f} /\ f \notin PrivateOpen
        BY <1>1, <2>1 DEF Open, Private
      <3>2. Cursors' = Cursor!Put(Cursors, f, presses)
        BY <1>1, <3>1 DEF Open
      <3>3. Messages' = Cursor!Put(Messages, f, 0)
        BY <1>1, <3>1 DEF Open
      <3>4. Cursor!Open(f)
        BY <1>1, <3>1, <3>2, <3>3 DEF Open, Cursor!Open
      <3> QED BY <3>4 DEF Cursor!Next
    <2>2. CASE ~Private(f)
      <3>1. PrivateOpen' = PrivateOpen /\ f \notin PrivateOpen
        BY <1>1, <2>2 DEF Open, Private
      <3> QED BY <1>1, <3>1 DEF Open
    <2> QED BY <2>1, <2>2
  <1>2. ASSUME NEW f \in File, Release(f) PROVE Cursor!Next \/ UNCHANGED Mapped
    <2>1. PrivateOpen' = PrivateOpen \ {f} /\ presses' = presses
      BY <1>2 DEF Release, Private
    <2>2. CASE Private(f)
      <3>1. Cursors' = Cursor!Drop(Cursors, f)
        BY <1>2, <2>1 DEF Release
      <3>2. Messages' = Cursor!Drop(Messages, f)
        BY <1>2, <2>1 DEF Release
      <3>3. Cursor!Close(f)
        BY <1>2, <2>1, <2>2, <3>1, <3>2 DEF Release, Cursor!Close
      <3> QED BY <3>3 DEF Cursor!Next
    <2>3. CASE ~Private(f)
      <3>1. PrivateOpen' = PrivateOpen /\ f \notin PrivateOpen
        BY <2>1, <2>3
      <3> QED BY <1>2, <2>1, <3>1 DEF Release
    <2> QED BY <2>2, <2>3
  <1>3. ASSUME NEW t \in Thread, ReadStore(t)
        PROVE  Cursor!Next \/ UNCHANGED Mapped
    <2>1. /\ PrivateOpen' = PrivateOpen /\ presses' = presses
          /\ seen' = [seen EXCEPT ![file[t]] = got[t]]
          /\ messages' = [messages EXCEPT ![file[t]] = @ + 1]
      BY <1>3 DEF ReadStore, Private
    <2>2. CASE file[t] \in PrivateOpen
      <3>1. PICK f \in PrivateOpen : f = file[t] BY <2>2
      <3>2. got[t] \in seen[f] + 1 .. presses
        BY <1>3, <3>1 DEF ReadStore, Consumable, Counts
      <3>3. Cursors' = [Cursors EXCEPT ![f] = got[t]]
        BY <2>1, <3>1
      <3>4. Messages' = [Messages EXCEPT ![f] = @ + 1]
        BY <2>1, <3>1
      <3>5. Cursor!Read(f)
        BY <2>1, <3>1, <3>2, <3>3, <3>4 DEF Cursor!Read
      <3> QED BY <3>5 DEF Cursor!Next
    <2>3. CASE file[t] \notin PrivateOpen
      BY <2>1, <2>3
    <2> QED BY <2>2, <2>3
  <1>4. CASE IsrCount
    <2>1. Cursors' = Cursors /\ Messages' = Messages
      BY <1>4 DEF IsrCount, Private
    <2>2. Cursor!Press
      BY <1>4, <2>1 DEF IsrCount, Cursor!Press
    <2> QED BY <2>2 DEF Cursor!Next
  <1>5. ASSUME \/ \E t \in Thread, f \in File : Call(t, f)
               \/ \E t \in Thread :
                    \/ ReadCheck(t) \/ WaitPrepare(t) \/ WaitCondition(t)
                    \/ WaitSchedule(t) \/ ReadLoad(t) \/ PollStep(t)
                    \/ PollTimeout(t) \/ Signal(t)
               \/ IsrWake \/ UNCHANGED vars
        PROVE  UNCHANGED Mapped
    <2>1. UNCHANGED <<opened, seen, presses, messages>>
      BY <1>5 DEF Call, ReadCheck, WaitPrepare, WaitCondition, WaitSchedule,
                  ReadLoad, PollStep, PollRegister, PollCheck, PollSchedule,
                  PollLast, PollTimeout, Signal, IsrWake, vars
    <2> QED BY <2>1 DEF Private
  <1> QED BY <1>1, <1>2, <1>3, <1>4, <1>5 DEF Next, ReadStep

(* The driver implements EventCursor for the files one thread uses, whatever *)
(* the threads that share other files do.                                   *)
THEOREM DriverImplementsCursor == Spec => ImplementsCursor
  <1>1. IInv /\ [Next]_vars =>
          [Cursor!Next]_<<presses,
                          [f \in {g \in opened : Private(g)} |-> seen[f]],
                          [f \in {g \in opened : Private(g)} |-> messages[f]]>>
    BY CursorStep DEF Mapped, Cursors, Messages, PrivateOpen
  <1> QED
    BY CursorInit, Invariance, <1>1, PTL DEF Spec, ImplementsCursor, Cursor!Spec

(* What the promise means for a private file: its read returns the message  *)
(* no more often than there were presses.                                   *)
THEOREM NoMessageWithoutPress == Spec => []Cursor!NoMoreMessagesThanPresses
  <1> DEFINE AtMost == Cursor!NoMoreMessagesThanPresses
  <1> USE DEF IInv, TypeOK, Mapped, Cursors, Messages, PrivateOpen
  <1>1. Init => AtMost
    <2> SUFFICES ASSUME Init PROVE AtMost
      OBVIOUS
    <2>1. {g \in opened : Private(g)} = {} BY DEF Init
    <2> QED BY <2>1 DEF Cursor!NoMoreMessagesThanPresses
  <1>2. IInv /\ AtMost /\ [Next]_vars => AtMost'
    <2> SUFFICES ASSUME IInv, AtMost, [Next]_vars PROVE AtMost'
      OBVIOUS
    <2>1. [Cursor!Next]_Mapped
      BY CursorStep
    <2>2. /\ presses \in Nat
          /\ \A f \in PrivateOpen : Cursors[f] \in Nat /\ Messages[f] \in Nat
          /\ \A f \in PrivateOpen : Messages[f] <= Cursors[f] /\ Cursors[f] <= presses
          /\ DOMAIN Cursors = PrivateOpen /\ DOMAIN Messages = PrivateOpen
      BY DEF Cursor!NoMoreMessagesThanPresses
    <2>q. AtMost' <=> \A f \in DOMAIN Cursors' :
                        Messages'[f] <= Cursors'[f] /\ Cursors'[f] <= presses'
      BY DEF Cursor!NoMoreMessagesThanPresses
    <2> HIDE DEF AtMost
    <2>3. CASE Cursor!Press
      <3>1. Cursors' = Cursors /\ Messages' = Messages /\ presses' = presses + 1
        BY <2>3 DEF Cursor!Press
      <3> HIDE DEF Cursors, Messages, PrivateOpen
      <3> QED BY <2>2, <2>q, <3>1, SMT
    <2>4. ASSUME NEW f \in File, Cursor!Open(f) PROVE AtMost'
      <3>1. /\ Cursors' = Cursor!Put(Cursors, f, presses)
            /\ Messages' = Cursor!Put(Messages, f, 0) /\ presses' = presses
        BY <2>4 DEF Cursor!Open
      <3> HIDE DEF Cursors, Messages, PrivateOpen
      <3> QED BY <2>2, <2>q, <3>1, SMT DEF Cursor!Put
    <2>5. ASSUME NEW f \in File, Cursor!Close(f) PROVE AtMost'
      <3>1. /\ Cursors' = Cursor!Drop(Cursors, f)
            /\ Messages' = Cursor!Drop(Messages, f) /\ presses' = presses
        BY <2>5 DEF Cursor!Close
      <3> HIDE DEF Cursors, Messages, PrivateOpen
      <3> QED BY <2>2, <2>q, <3>1, SMT DEF Cursor!Drop
    <2>6. ASSUME NEW f \in File, Cursor!Read(f) PROVE AtMost'
      <3>1. PICK k \in Cursors[f] + 1 .. presses :
                /\ f \in DOMAIN Cursors
                /\ Cursors' = [Cursors EXCEPT ![f] = k]
                /\ Messages' = [Messages EXCEPT ![f] = @ + 1] /\ presses' = presses
        BY <2>6 DEF Cursor!Read
      <3> HIDE DEF Cursors, Messages, PrivateOpen
      <3> QED BY <2>2, <2>q, <3>1, SMT
    <2>7. CASE UNCHANGED Mapped
      <3>1. Cursors' = Cursors /\ Messages' = Messages /\ presses' = presses
        BY <2>7
      <3> HIDE DEF Cursors, Messages, PrivateOpen
      <3> QED BY <2>2, <2>q, <3>1
    <2> QED BY <2>1, <2>3, <2>4, <2>5, <2>6, <2>7 DEF Cursor!Next
  <1> QED BY Invariance, <1>1, <1>2, PTL DEF Spec
=============================================================================
