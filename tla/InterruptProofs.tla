-------------------------- MODULE InterruptProofs --------------------------
(* Proofs about the two models in which a handler hands its work to others: *)
(* ToggleLed, for any delay and however the button bounces, and Completion, *)
(* for any number of presses.  The two share no name.                       *)
EXTENDS ToggleLed, Completion, SequenceTheorems, TLAPS

(* While the module is loaded the LED shows the parity of the toggles, and  *)
(* the callback, which runs once at a time, has read it.                    *)
LedRead ==
  phase = "live" => led = toggles % 2 /\ (cb = "set" => val = led)

IInv == TypeOK /\ OneTogglePerInterrupt /\ LedRead

LEMMA Parity == ASSUME NEW n \in Nat PROVE (n + 1) % 2 = 1 - (n % 2)
BY SMT

LEMMA InitInv == LedInit => IInv
<1> SUFFICES ASSUME LedInit PROVE IInv
  OBVIOUS
<1> USE DelayAssumption DEF LedInit
<1>1. TypeOK
  <2>1. 0 \in 0 .. Delay /\ Delay \in 0 .. Delay /\ 0 \in Nat
    BY SMT
  <2> QED BY <2>1 DEF TypeOK, Bit
<1>2. OneTogglePerInterrupt
  BY SMT DEF OneTogglePerInterrupt, Active
<1>3. LedRead
  BY SMT DEF LedRead
<1> QED BY <1>1, <1>2, <1>3 DEF IInv

LEMMA StepInv == IInv /\ [LedNext]_led_vars => IInv'
<1> SUFFICES ASSUME IInv, [LedNext]_led_vars PROVE IInv'
  OBVIOUS
<1> USE DelayAssumption
<1> USE DEF IInv, TypeOK, Bit, OneTogglePerInterrupt, Active, LedRead,
            button, deferred, callback, history
<1>1. CASE Flip
  <2>1. level' \in Bit /\ edges' \in Nat
    BY <1>1, SMT DEF Flip
  <2>2. raised' \in BOOLEAN
    BY <1>1 DEF Flip
  <2>3. UNCHANGED <<loaded, isr, last_button_state, deferred, callback, led, phase, history>>
    BY <1>1 DEF Flip
  <2> QED BY <2>1, <2>2, <2>3
<1>2. CASE IsrEnter
  BY <1>2 DEF IsrEnter
<1>3. CASE IsrSample
  BY <1>3 DEF IsrSample
<1>4. CASE IsrDefer
  <2>1. TypeOK'
    <3>1. left' \in 0 .. Delay /\ quiet' \in 0 .. Delay /\ handled' \in Nat
      BY <1>4, SMT DEF IsrDefer, Expiry
    <3>2. pending' \in BOOLEAN /\ isr' = "idle" /\ unserved' = TRUE
      BY <1>4 DEF IsrDefer, Scheduled
    <3>3. UNCHANGED <<loaded, button, raised, last_button_state, callback, led, phase, toggles>>
      BY <1>4 DEF IsrDefer
    <3> QED BY <3>1, <3>2, <3>3
  <2>2. OneTogglePerInterrupt'
    BY <1>4, SMT DEF IsrDefer, Expiry, Scheduled
  <2>3. LedRead'
    BY <1>4 DEF IsrDefer, Expiry, Scheduled
  <2> QED BY <2>1, <2>2, <2>3
<1>5. CASE Tick
  BY <1>5, SMT DEF Tick
<1>6. CASE Start
  <2>1. TypeOK'
    BY <1>6 DEF Start, Dequeued
  <2>2. OneTogglePerInterrupt'
    BY <1>6, SMT DEF Start, Dequeued
  <2>3. LedRead'
    BY <1>6 DEF Start, Dequeued
  <2> QED BY <2>1, <2>2, <2>3
<1>7. CASE ReadButton
  BY <1>7 DEF ReadButton
<1>8. CASE Compare
  BY <1>8, SMT DEF Compare
<1>9. CASE GetLed
  BY <1>9, SMT DEF GetLed
<1>10. CASE SetLed
  BY <1>10, Parity, SMT DEF SetLed, Toggled
<1>11. CASE ExitLed
  BY <1>11 DEF ExitLed
<1>12. CASE ExitFreeIrq
  BY <1>12 DEF ExitFreeIrq, ShutsDown
<1>13. CASE CancelSync
  <2>1. TypeOK'
    <3>1. left' \in 0 .. Delay
      BY <1>13, SMT DEF CancelSync
    <3>2. pending' = FALSE /\ phase' \in {"second", "gone"}
      BY <1>13 DEF CancelSync
    <3>3. UNCHANGED <<loaded, button, raised, isr, last_button_state, callback, led, history>>
      BY <1>13 DEF CancelSync
    <3> QED BY <3>1, <3>2, <3>3
  <2>2. OneTogglePerInterrupt'
    BY <1>13, SMT DEF CancelSync, ShutsDown
  <2>3. LedRead'
    BY <1>13 DEF CancelSync, ShutsDown
  <2> QED BY <2>1, <2>2, <2>3
<1>14. CASE UNCHANGED led_vars
  BY <1>14 DEF led_vars
<1> QED
  BY <1>1, <1>2, <1>3, <1>4, <1>5, <1>6, <1>7, <1>8, <1>9, <1>10, <1>11, <1>12,
     <1>13, <1>14 DEF LedNext, ButtonIsr, Callback, Exit

LEMMA Invariance == LedSpec => []IInv
<1> QED BY InitInv, StepInv, PTL DEF LedSpec

(* Every variable of the two drivers keeps its type.                        *)
THEOREM TypeCorrect == LedSpec => []TypeOK
<1>1. IInv => TypeOK
  BY DEF IInv
<1> QED BY Invariance, <1>1, PTL

(* However the button bounces and whatever the delay, no interrupt toggles  *)
(* the LED twice, in either driver.                                         *)
THEOREM TogglesAreBounded == LedSpec => []OneTogglePerInterrupt
<1>1. IInv => OneTogglePerInterrupt
  BY DEF IInv
<1> QED BY Invariance, <1>1, PTL

(* Until rmmod the LED shows the parity of the toggles: none is lost        *)
(* between the read and the write of the LED.                               *)
THEOREM NoToggleIsLost == LedSpec => []LedCountsToggles
<1>1. IInv => LedCountsToggles
  BY DEF IInv, LedRead, LedCountsToggles
<1> QED BY Invariance, <1>1, PTL

(* An armed timer still has to wait for what the last handled interrupt's   *)
(* quiet lacks of the delay.                                                *)
Debounced == loaded = "debounce" /\ pending => left + quiet = Delay

LEMMA DebouncedInit == LedInit => Debounced
BY DEF LedInit, Debounced

LEMMA DebouncedNext == TypeOK /\ Debounced /\ [LedNext]_led_vars => Debounced'
<1> SUFFICES ASSUME TypeOK, Debounced, [LedNext]_led_vars PROVE Debounced'
  OBVIOUS
<1>0. loaded' = loaded
  BY DEF LedNext, ButtonIsr, Callback, Exit, Flip, IsrEnter, IsrSample, IsrDefer, Tick, Start,
         ReadButton, Compare, GetLed, SetLed, ExitLed, ExitFreeIrq, CancelSync, led_vars
<1>1. CASE IsrDefer
  BY <1>0, <1>1, DelayAssumption, SMT DEF IsrDefer, Expiry, Debounced
<1>2. CASE Tick
  BY <1>0, <1>2, DelayAssumption, SMT DEF Tick, TypeOK, Debounced
<1>3. CASE Start \/ CancelSync
  <2>1. pending' = FALSE
    BY <1>3 DEF Start, CancelSync, Dequeued
  <2> QED BY <2>1 DEF Debounced
<1>4. CASE UNCHANGED <<deferred, quiet>>
  BY <1>0, <1>4 DEF Debounced, deferred
<1> QED
  BY <1>1, <1>2, <1>3, <1>4 DEF LedNext, ButtonIsr, Callback, Exit, Flip, IsrEnter, IsrSample,
     ReadButton, Compare, GetLed, SetLed, ExitLed, ExitFreeIrq, history, deferred, led_vars

(* The debounce callback starts only after the whole delay has passed       *)
(* without a handled interrupt, for any delay (irq/irq.c:62).               *)
THEOREM DebounceWaits == LedSpec => StartsWhenQuiet
<1>1. TypeOK /\ Debounced /\ [LedNext]_led_vars
        => [loaded = "debounce" /\ cb = "idle" /\ cb' = "read" => quiet = Delay]_led_vars
  <2> SUFFICES ASSUME TypeOK, Debounced, LedNext,
                      loaded = "debounce", cb = "idle", cb' = "read"
               PROVE  quiet = Delay
    OBVIOUS
  <2>1. Start
    BY DEF LedNext, ButtonIsr, Callback, Exit, Flip, IsrEnter, IsrSample, IsrDefer, Tick,
           ReadButton, Compare, GetLed, SetLed, ExitLed, ExitFreeIrq, CancelSync, callback
  <2> QED BY <2>1, DelayAssumption, SMT DEF Start, Debounced, TypeOK
<1> QED
  BY <1>1, TypeCorrect, DebouncedInit, DebouncedNext, PTL DEF LedSpec, StartsWhenQuiet

(* What has to be started is not forgotten: between the handler's           *)
(* mod_timer or schedule_work and the start of the function, the timer or   *)
(* the item is pending until my_exit cancels it.                            *)
THEOREM InterruptsStayPending == LedSpec => []UnservedIsPending
<1>1. LedInit => UnservedIsPending
  BY DEF LedInit, UnservedIsPending
<1>2. UnservedIsPending /\ [LedNext]_led_vars => UnservedIsPending'
  <2> SUFFICES ASSUME UnservedIsPending, [LedNext]_led_vars PROVE UnservedIsPending'
    OBVIOUS
  <2> USE DEF UnservedIsPending, deferred, history
  <2>1. CASE ButtonIsr
    BY <2>1 DEF ButtonIsr, IsrEnter, IsrSample, IsrDefer, Scheduled
  <2>2. CASE Callback
    BY <2>2 DEF Callback, Start, ReadButton, Compare, GetLed, SetLed
  <2>3. CASE Exit
    BY <2>3 DEF Exit, ExitFreeIrq, CancelSync, ShutsDown
  <2>4. CASE Flip \/ Tick \/ ExitLed \/ UNCHANGED led_vars
    BY <2>4 DEF Flip, Tick, ExitLed, led_vars
  <2> QED BY <2>1, <2>2, <2>3, <2>4 DEF LedNext
<1> QED BY <1>1, <1>2, PTL DEF LedSpec
-----------------------------------------------------------------------------
(* The counters and the threads' places are in their types. *)
Counters ==
  /\ done \in 0 .. UintMax
  /\ presses \in Nat
  /\ taken \in Nat
  /\ DOMAIN pc = Waiters

(* Only the threads of my_completion.c reinitialize the completion.         *)
Reinitializers == \A t \in Waiters : pc[t] = "reinit" => driver = "completion"

CompInv == Counters /\ Reinitializers /\ EveryPressCounts

LEMMA CompInvInit == Init => CompInv
BY UintMaxAssumption DEF Init, CompInv, Counters, Reinitializers, EveryPressCounts

LEMMA CompInvNext == CompInv /\ [Next]_vars => CompInv'
<1> SUFFICES ASSUME CompInv, [Next]_vars PROVE CompInv'
  OBVIOUS
<1> USE UintMaxAssumption
<1> USE DEF CompInv, Counters, Reinitializers, EveryPressCounts, ghosts
<1>1. ASSUME NEW t \in Waiters, LoopTest(t) PROVE CompInv'
  BY <1>1 DEF LoopTest, Goto, Waiters
<1>2. ASSUME NEW t \in Waiters, WaitEnter(t) \/ WaitWakes(t) PROVE CompInv'
  <2>1. UNCHANGED <<driver, presses>>
    BY <1>2 DEF WaitEnter, WaitWakes
  <2>2. CASE WaitReturns(t) /\ done > 0
    <3>1. done' \in 0 .. UintMax /\ taken' \in Nat /\ taken' + done' = taken + done
      BY <2>2, SMT DEF WaitReturns, Taken
    <3>2. pc' = [pc EXCEPT ![t] = IF driver = "completion" THEN "reinit" ELSE "loop"]
      BY <2>2 DEF WaitReturns, Goto
    <3>3. Counters'
      BY <2>1, <3>1, <3>2, SMT DEF Waiters
    <3>4. Reinitializers'
      BY <2>1, <3>2, SMT DEF Waiters
    <3>5. EveryPressCounts'
      <4>1. taken' + done' = taken + done /\ presses' = presses /\ driver' = driver
        BY <2>1, <3>1
      <4> QED BY <4>1
    <3> QED BY <3>3, <3>4, <3>5
  <2>3. CASE WaitSleeps(t) /\ UNCHANGED <<done, taken>>
    <3>1. pc' = [pc EXCEPT ![t] = "sleep"]
      BY <2>3 DEF WaitSleeps, Goto
    <3> QED BY <2>1, <2>3, <3>1, SMT DEF Waiters
  <2>4. CASE WaitFails(t)
    <3>1. pc' = [pc EXCEPT ![t] = "exited"] /\ UNCHANGED <<done, taken>>
      BY <2>4 DEF WaitFails, Goto
    <3> QED BY <2>1, <3>1, SMT DEF Waiters
  <2> QED BY <1>2, <2>2, <2>3, <2>4 DEF WaitEnter, WaitWakes, Wait
<1>3. ASSUME NEW t \in Waiters, Reinit(t) PROVE CompInv'
  BY <1>3, SMT DEF Reinit, Reinitialized, Goto, Waiters
<1>4. ASSUME NEW t \in Waiters, Stop(t) \/ Stopped(t) PROVE CompInv'
  BY <1>4, SMT DEF Stop, Stopped, Waiters
<1>5. ASSUME Isr PROVE CompInv'
  <2>1. UNCHANGED <<driver, pc, taken>> /\ presses' = presses + 1 /\ done' = Completed
    BY <1>5 DEF Isr
  <2> QED BY <2>1, SMT DEF Completed, Waiters
<1>6. CASE FreeIrq
  BY <1>6, SMT DEF FreeIrq, Waiters
<1>7. CASE UNCHANGED vars
  BY <1>7, SMT DEF vars, Waiters
<1> QED
  BY <1>1, <1>2, <1>3, <1>4, <1>5, <1>6, <1>7 DEF Next, ThreadStep

(* No press is processed twice, and the thread of my_completion_ex1.c       *)
(* processes every one, for any number of presses below UINT_MAX.           *)
THEOREM PressesAreAccounted == Spec => []EveryPressCounts
<1>1. CompInv => EveryPressCounts
  BY DEF CompInv
<1> QED BY CompInvInit, CompInvNext, <1>1, PTL DEF Spec

-----------------------------------------------------------------------------
NoTwice(q) == \A i, j \in 1 .. Len(q) : q[i] = q[j] => i = j

(* A sequence without its i-th element has the others and nothing else.     *)
LEMMA RemoveAtProperties ==
  ASSUME NEW S, NEW q \in Seq(S), NoTwice(q), NEW i \in 1 .. Len(q)
  PROVE  /\ RemoveAt(q, i) \in Seq(S)
         /\ NoTwice(RemoveAt(q, i))
         /\ \A x : Contains(RemoveAt(q, i), x) <=> Contains(q, x) /\ x # q[i]
<1> DEFINE a == SubSeq(q, 1, i-1)
           b == SubSeq(q, i+1, Len(q))
           r == a \o b
<1>0. Len(q) \in Nat /\ i \in Nat /\ \A k \in 1 .. Len(q) : q[k] \in S
  BY LenProperties
<1>1. a \in Seq(S) /\ Len(a) = i-1 /\ \A j \in 1 .. i-1 : a[j] = q[j]
  BY <1>0, SubSeqProperties
<1>2. b \in Seq(S) /\ Len(b) = Len(q)-i /\ \A j \in 1 .. Len(q)-i : b[j] = q[i+j]
  <2>1. \A j \in i+1 .. Len(q) : q[j] \in S
    BY <1>0
  <2> QED BY <1>0, <2>1, SubSeqProperties
<1> HIDE DEF a, b
<1>3. /\ r \in Seq(S) /\ Len(r) = Len(a) + Len(b)
      /\ \A j \in 1 .. Len(a) + Len(b) : r[j] = IF j <= Len(a) THEN a[j] ELSE b[j - Len(a)]
  BY <1>1, <1>2, ConcatProperties
<1> HIDE DEF r
<1>4. r \in Seq(S) /\ Len(r) = Len(q)-1
  BY <1>0, <1>1, <1>2, <1>3
<1>5. ASSUME NEW j \in 1 .. Len(q)-1 PROVE r[j] = IF j < i THEN q[j] ELSE q[j+1]
  <2>1. r[j] = IF j <= Len(a) THEN a[j] ELSE b[j - Len(a)]
    BY <1>0, <1>1, <1>2, <1>3
  <2>2. CASE j < i
    BY <1>0, <1>1, <2>1, <2>2
  <2>3. CASE j >= i
    <3>1. j - (i-1) \in 1 .. Len(q)-i /\ i + (j - (i-1)) = j+1
      BY <1>0, <2>3
    <3>2. b[j - (i-1)] = q[i + (j - (i-1))]
      BY <1>2, <3>1
    <3> QED BY <1>0, <1>1, <2>1, <2>3, <3>1, <3>2
  <2> QED BY <1>0, <2>2, <2>3
<1>6. r = RemoveAt(q, i)
  BY DEF r, a, b, RemoveAt
<1>7. ASSUME NEW x, Contains(q, x), x # q[i] PROVE Contains(r, x)
  <2>1. PICK k \in 1 .. Len(q) : q[k] = x /\ k # i
    BY <1>7 DEF Contains
  <2>2. CASE k < i
    BY <1>0, <1>4, <1>5, <2>1, <2>2 DEF Contains
  <2>3. CASE k > i
    <3>1. k-1 \in 1 .. Len(q)-1 /\ r[k-1] = x
      BY <1>0, <1>5, <2>1, <2>3
    <3> QED BY <1>4, <3>1 DEF Contains
  <2> QED BY <1>0, <2>1, <2>2, <2>3
<1>8. ASSUME NEW x, Contains(r, x) PROVE Contains(q, x) /\ x # q[i]
  <2>1. PICK j \in 1 .. Len(q)-1 : r[j] = x
    BY <1>4, <1>8 DEF Contains
  <2>2. CASE j < i
    BY <1>0, <1>5, <2>1, <2>2 DEF Contains, NoTwice
  <2>3. CASE j >= i
    <3>1. j+1 \in 1 .. Len(q) /\ q[j+1] = x /\ j+1 # i
      BY <1>0, <1>5, <2>1, <2>3
    <3> QED BY <3>1 DEF Contains, NoTwice
  <2> QED BY <1>0, <2>1, <2>2, <2>3
<1>9. NoTwice(r)
  <2> SUFFICES ASSUME NEW j \in 1 .. Len(q)-1, NEW k \in 1 .. Len(q)-1, r[j] = r[k]
               PROVE  j = k
    BY <1>4 DEF NoTwice
  <2> DEFINE At(l) == IF l < i THEN l ELSE l+1
  <2>1. At(j) \in 1 .. Len(q) /\ At(k) \in 1 .. Len(q)
    BY <1>0
  <2>2. r[j] = q[At(j)] /\ r[k] = q[At(k)]
    BY <1>5
  <2>3. At(j) = At(k)
    BY <2>1, <2>2 DEF NoTwice
  <2> QED BY <1>0, <2>3
<1> QED BY <1>3, <1>6, <1>7, <1>8, <1>9

(* The line for the completion after each step that changes it.             *)
LEMMA WithoutProperties ==
  ASSUME queue \in Seq(Waiters), NoTwice(queue), NEW t \in Waiters
  PROVE  /\ LineWithout(t) \in Seq(Waiters)
         /\ NoTwice(LineWithout(t))
         /\ \A u : Contains(LineWithout(t), u) <=> Contains(queue, u) /\ u # t
<1>0. DOMAIN queue = 1 .. Len(queue)
  BY LenProperties
<1>1. CASE Contains(queue, t)
  <2> DEFINE i == CHOOSE i \in DOMAIN queue : queue[i] = t
  <2>1. i \in 1 .. Len(queue) /\ queue[i] = t
    BY <1>0, <1>1 DEF Contains
  <2>2. LineWithout(t) = RemoveAt(queue, i)
    BY <1>1 DEF LineWithout
  <2> HIDE DEF i
  <2> QED BY <2>1, <2>2, RemoveAtProperties
<1>2. CASE ~Contains(queue, t)
  BY <1>2 DEF LineWithout
<1> QED BY <1>1, <1>2

LEMMA AppendedProperties ==
  ASSUME NEW S, NEW q \in Seq(S), NoTwice(q), NEW t \in S, ~Contains(q, t)
  PROVE  /\ Append(q, t) \in Seq(S)
         /\ NoTwice(Append(q, t))
         /\ \A u : Contains(Append(q, t), u) <=> Contains(q, u) \/ u = t
<1>1. /\ Len(q) \in Nat /\ Append(q, t) \in Seq(S)
      /\ Len(Append(q, t)) = Len(q) + 1
      /\ \A i \in 1 .. Len(q) : Append(q, t)[i] = q[i]
      /\ Append(q, t)[Len(q) + 1] = t
  BY AppendProperties, LenProperties
<1>2. NoTwice(Append(q, t))
  BY <1>1 DEF NoTwice, Contains
<1>3. ASSUME NEW u, Contains(q, u) \/ u = t PROVE Contains(Append(q, t), u)
  BY <1>1, <1>3 DEF Contains
<1>4. ASSUME NEW u, Contains(Append(q, t), u) PROVE Contains(q, u) \/ u = t
  BY <1>1, <1>4 DEF Contains
<1> QED BY <1>1, <1>2, <1>3, <1>4

LEMMA TailProperties ==
  ASSUME NEW S, NEW q \in Seq(S), NoTwice(q), q # <<>>
  PROVE  /\ Head(q) \in S /\ Contains(q, Head(q))
         /\ Tail(q) \in Seq(S)
         /\ NoTwice(Tail(q))
         /\ \A u : Contains(Tail(q), u) <=> Contains(q, u) /\ u # Head(q)
<1>1. /\ Len(q) \in Nat \ {0} /\ Head(q) = q[1] /\ Head(q) \in S /\ Tail(q) \in Seq(S)
      /\ Len(Tail(q)) = Len(q) - 1
      /\ \A i \in 1 .. Len(q) - 1 : Tail(q)[i] = q[i+1]
  BY HeadTailProperties, LenProperties
<1>2. NoTwice(Tail(q))
  <2> SUFFICES ASSUME NEW i \in 1 .. Len(q) - 1, NEW j \in 1 .. Len(q) - 1, Tail(q)[i] = Tail(q)[j]
               PROVE  i = j
    BY <1>1 DEF NoTwice
  <2>1. i+1 \in 1 .. Len(q) /\ j+1 \in 1 .. Len(q) /\ q[i+1] = q[j+1]
    BY <1>1
  <2> QED BY <2>1 DEF NoTwice
<1>3. ASSUME NEW u, Contains(q, u), u # Head(q) PROVE Contains(Tail(q), u)
  <2>1. PICK k \in 1 .. Len(q) : q[k] = u /\ k # 1
    BY <1>1, <1>3 DEF Contains
  <2>2. k-1 \in 1 .. Len(q) - 1 /\ Tail(q)[k-1] = q[(k-1)+1] /\ (k-1)+1 = k
    BY <1>1, <2>1
  <2> QED BY <1>1, <2>1, <2>2 DEF Contains
<1>4. ASSUME NEW u, Contains(Tail(q), u) PROVE Contains(q, u) /\ u # Head(q)
  <2>1. PICK i \in 1 .. Len(q) - 1 : Tail(q)[i] = u
    BY <1>1, <1>4 DEF Contains
  <2>2. i+1 \in 1 .. Len(q) /\ q[i+1] = u /\ i+1 # 1 /\ 1 \in 1 .. Len(q)
    BY <1>1, <2>1
  <2> QED BY <1>1, <2>2 DEF Contains, NoTwice
<1> QED BY <1>1, <1>2, <1>3, <1>4 DEF Contains
-----------------------------------------------------------------------------
(* Who is in line sleeps, and who sleeps without having been woken is in it.*)
Lined ==
  /\ DOMAIN woken = Waiters
  /\ queue \in Seq(Waiters) /\ NoTwice(queue)
  /\ \A t \in Waiters :
       /\ Contains(queue, t) => pc[t] = "sleep"
       /\ pc[t] = "sleep" /\ ~woken[t] => Contains(queue, t)

LineInv == Lined /\ CompletionHasATaker

LEMMA LineInvInit == Init => LineInv
BY DEF Init, LineInv, Lined, NoTwice, Contains, CompletionHasATaker

LEMMA ReturnsInv ==
  ASSUME CompInv, LineInv, NEW t \in Waiters, WaitReturns(t),
         UNCHANGED <<driver, woken>>
  PROVE  LineInv'
<1>0. Waiters' = Waiters
  BY DEF Waiters
<1>1. /\ queue' \in Seq(Waiters) /\ NoTwice(queue')
      /\ \A u : Contains(queue', u) <=> Contains(queue, u) /\ u # t
  BY WithoutProperties DEF LineInv, Lined, WaitReturns
<1>2. /\ pc'[t] = IF driver = "completion" THEN "reinit" ELSE "loop"
      /\ \A u \in Waiters : u # t => pc'[u] = pc[u]
  BY DEF CompInv, Counters, WaitReturns, Goto
<1>3. Lined'
  BY <1>0, <1>1, <1>2 DEF LineInv, Lined
<1>4. CompletionHasATaker'
  <2>1. CASE driver = "completion"
    BY <1>0, <1>2, <2>1 DEF CompletionHasATaker
  <2>2. CASE driver # "completion"
    <3>1. \A u \in Waiters : u = t
      BY <2>2 DEF Waiters
    <3> QED BY <1>0, <1>2, <2>2, <3>1 DEF CompletionHasATaker
  <2> QED BY <2>1, <2>2
<1> QED BY <1>3, <1>4 DEF LineInv

LEMMA SleepsInv ==
  ASSUME CompInv, LineInv, NEW t \in Waiters, WaitSleeps(t),
         done = 0, UNCHANGED <<driver, done>>
  PROVE  LineInv'
<1>0. Waiters' = Waiters
  BY DEF Waiters
<1>1. /\ queue' \in Seq(Waiters) /\ NoTwice(queue')
      /\ \A u : Contains(queue', u) <=> Contains(queue, u) \/ u = t
  BY AppendedProperties DEF LineInv, Lined, WaitSleeps
<1>2. /\ pc'[t] = "sleep" /\ ~woken'[t] /\ DOMAIN woken' = Waiters
      /\ \A u \in Waiters : u # t => pc'[u] = pc[u] /\ woken'[u] = woken[u]
  BY DEF CompInv, Counters, LineInv, Lined, WaitSleeps, Goto
<1>3. Lined'
  BY <1>0, <1>1, <1>2 DEF LineInv, Lined
<1>4. CompletionHasATaker'
  BY DEF CompletionHasATaker
<1> QED BY <1>3, <1>4 DEF LineInv

LEMMA FailsInv ==
  ASSUME CompInv, LineInv, NEW t \in Waiters, WaitFails(t), done = 0, UNCHANGED driver
  PROVE  LineInv'
<1>0. Waiters' = Waiters
  BY DEF Waiters
<1>1. /\ queue' \in Seq(Waiters) /\ NoTwice(queue')
      /\ \A u : Contains(queue', u) <=> Contains(queue, u) /\ u # t
  BY WithoutProperties DEF LineInv, Lined, WaitFails
<1>2. /\ pc'[t] = "exited" /\ woken' = woken /\ done' = 0
      /\ \A u \in Waiters : u # t => pc'[u] = pc[u]
  BY DEF CompInv, Counters, WaitFails, Goto
<1>3. Lined'
  BY <1>0, <1>1, <1>2 DEF LineInv, Lined
<1>4. CompletionHasATaker'
  BY <1>2 DEF CompletionHasATaker
<1> QED BY <1>3, <1>4 DEF LineInv

LEMMA IsrInv ==
  ASSUME CompInv, LineInv, Isr PROVE LineInv'
<1>0. Waiters' = Waiters /\ pc' = pc
  BY DEF Isr, Waiters
<1>1. CASE queue = <<>>
  <2>1. queue' = queue /\ FirstWoken = {}
    BY <1>1 DEF Isr, FirstWoken
  <2>2. \A u \in Waiters : woken'[u] <=> woken[u]
    BY <2>1 DEF Isr
  <2>3. \A u : ~Contains(queue, u)
    BY <1>1 DEF Contains
  <2>4. \A u \in Waiters : ~(pc[u] = "sleep" /\ ~woken[u])
    BY <2>3 DEF LineInv, Lined
  <2>5. DOMAIN woken' = Waiters
    BY DEF Isr
  <2>6. Lined'
    BY <1>0, <2>1, <2>2, <2>5 DEF LineInv, Lined
  <2> QED BY <1>0, <2>2, <2>4, <2>6 DEF LineInv, CompletionHasATaker
<1>2. CASE queue # <<>>
  <2>1. queue' = Tail(queue) /\ FirstWoken = {Head(queue)}
    BY <1>2 DEF Isr, FirstWoken
  <2>2. \A u \in Waiters : woken'[u] <=> (woken[u] \/ u = Head(queue))
    BY <2>1 DEF Isr
  <2>3. /\ Head(queue) \in Waiters /\ Contains(queue, Head(queue))
        /\ queue' \in Seq(Waiters) /\ NoTwice(queue')
        /\ \A u : Contains(queue', u) <=> Contains(queue, u) /\ u # Head(queue)
    BY <1>2, <2>1, TailProperties DEF LineInv, Lined
  <2>5. DOMAIN woken' = Waiters
    BY DEF Isr
  <2>6. Lined'
    BY <1>0, <2>2, <2>3, <2>5 DEF LineInv, Lined
  <2>7. pc[Head(queue)] = "sleep" /\ woken'[Head(queue)]
    BY <2>2, <2>3 DEF LineInv, Lined
  <2> QED BY <1>0, <2>3, <2>6, <2>7 DEF LineInv, CompletionHasATaker
<1> QED BY <1>1, <1>2

LEMMA LineInvNext == CompInv /\ LineInv /\ [Next]_vars => LineInv'
<1> SUFFICES ASSUME CompInv, LineInv, [Next]_vars PROVE LineInv'
  OBVIOUS
<1>1. ASSUME NEW t \in Waiters, LoopTest(t) PROVE LineInv'
  <2>1. /\ UNCHANGED <<driver, done, queue, woken>> /\ pc[t] = "loop"
        /\ pc'[t] \in {"exited", "wait"} /\ \A u \in Waiters : u # t => pc'[u] = pc[u]
    BY <1>1 DEF LoopTest, Goto, CompInv, Counters
  <2> QED BY <2>1 DEF LineInv, Lined, CompletionHasATaker, Waiters
<1>2. ASSUME NEW t \in Waiters, WaitEnter(t) \/ WaitWakes(t) PROVE LineInv'
  BY <1>2, ReturnsInv, SleepsInv, FailsInv DEF WaitEnter, WaitWakes, Wait
<1>3. ASSUME NEW t \in Waiters, Reinit(t) PROVE LineInv'
  <2>1. /\ UNCHANGED <<driver, queue, woken>> /\ pc[t] = "reinit" /\ done' = 0
        /\ pc'[t] = "loop" /\ \A u \in Waiters : u # t => pc'[u] = pc[u]
    BY <1>3 DEF Reinit, Reinitialized, Goto, CompInv, Counters
  <2> QED BY <2>1 DEF LineInv, Lined, CompletionHasATaker, Waiters
<1>4. ASSUME NEW t \in Waiters, Stop(t) PROVE LineInv'
  <2>1. /\ UNCHANGED <<driver, done, queue, pc>> /\ DOMAIN woken' = Waiters
        /\ \A u \in Waiters : woken'[u] <=> (woken[u] \/ u = t)
    BY <1>4 DEF Stop, LineInv, Lined
  <2> QED BY <2>1 DEF LineInv, Lined, CompletionHasATaker, Waiters
<1>5. CASE Isr
  BY <1>5, IsrInv
<1>6. ASSUME \/ \E t \in Waiters : Stopped(t)
             \/ FreeIrq \/ UNCHANGED vars
      PROVE  LineInv'
  <2>1. UNCHANGED <<driver, done, queue, woken, pc>>
    BY <1>6 DEF Stopped, FreeIrq, vars
  <2> QED BY <2>1 DEF LineInv, Lined, CompletionHasATaker, Waiters
<1> QED BY <1>1, <1>2, <1>3, <1>4, <1>5, <1>6 DEF Next, ThreadStep

(* A completion is never left beside threads that all sleep: one of them    *)
(* was woken for it, or one that took another is about to reinitialize it.  *)
(* It is what makes CompletionIsTaken live: some thread is runnable.        *)
THEOREM CompletionsHaveTakers == Spec => []CompletionHasATaker
<1>1. LineInv => CompletionHasATaker
  BY DEF LineInv
<1> QED BY CompInvInit, CompInvNext, LineInvInit, LineInvNext, <1>1, PTL DEF Spec
=============================================================================
