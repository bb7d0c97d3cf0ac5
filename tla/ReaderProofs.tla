---------------------------- MODULE ReaderProofs ----------------------------
(* Proofs about the two models in which readers compete for what a device   *)
(* tells them: Bmp180, for any number of readers and any calibration, and   *)
(* FlagRead, for any set of threads and each way to wait.  The two share no *)
(* name.                                                                    *)
EXTENDS Bmp180, FlagRead, TLAPS

(* The two files are there exactly while the device is bound, and the       *)
(* calibration from before that until the device is released.               *)
Bound ==
  /\ group <=> device = "bound"
  /\ device \in {"calibrated", "bound", "removing"} => calib = Calibration
  /\ device \in {"none", "allocated", "calibrated", "bound", "removing"}

(* Whoever is inside came through one of the files, and holds up remove.    *)
Inside ==
  /\ DOMAIN pc = Reader
  /\ \A t \in Reader : pc[t] # "idle" => device \in {"bound", "removing"}

IInv == Bound /\ Inside

LEMMA InitInv == Init => IInv
BY DEF Init, IInv, Bound, Inside

(* What probe and remove do, seen by the readers. *)
LEMMA DeviceInv ==
  ASSUME IInv,
         Allocate \/ ReadCalibration \/ ProbeFails \/ CreateGroup \/ Remove \/ Removed
  PROVE  IInv'
<1> USE DEF IInv, Bound, Inside, calls
<1>1. CASE Allocate
  BY <1>1 DEF Allocate
<1>2. CASE ReadCalibration
  BY <1>2 DEF ReadCalibration
<1>3. CASE ProbeFails
  BY <1>3 DEF ProbeFails, Released
<1>4. CASE CreateGroup
  BY <1>4 DEF CreateGroup, ReadyForGroup
<1>5. CASE Remove
  BY <1>5 DEF Remove
<1>6. CASE Removed
  BY <1>6 DEF Removed, Released
<1> QED BY <1>1, <1>2, <1>3, <1>4, <1>5, <1>6

(* A step of a reader that is inside, or comes in, leaves the device alone. *)
LEMMA ReaderInv ==
  ASSUME IInv, NEW t \in Reader, UNCHANGED driver, NEW l, Goto(t, l),
         pc[t] # "idle" \/ group
  PROVE  IInv'
<1>1. Bound'
  BY DEF IInv, Bound, driver
<1>2. device \in {"bound", "removing"}
  BY DEF IInv, Bound, Inside
<1>3. Inside'
  BY <1>2 DEF IInv, Inside, driver, Goto
<1> QED BY <1>1, <1>3 DEF IInv

LEMMA NextInv == IInv /\ [Next]_vars => IInv'
<1> SUFFICES ASSUME IInv, [Next]_vars PROVE IInv'
  OBVIOUS
<1>1. CASE Allocate \/ ReadCalibration \/ ProbeFails \/ CreateGroup \/ Remove \/ Removed
  BY <1>1, DeviceInv
<1>2. ASSUME NEW t \in Reader, Call(t) PROVE IInv'
  BY <1>2, ReaderInv DEF Call
<1>3. ASSUME NEW t \in Reader, ReaderStep(t) PROVE IInv'
  <2>1. CASE StartTemp(t) \/ ReadTemp(t)
    BY <2>1, ReaderInv DEF StartTemp, ReadTemp
  <2>2. CASE StartPres(t) \/ ReadPres(t)
    BY <2>2, ReaderInv DEF StartPres, ReadPres
  <2>3. CASE TransferFails(t) \/ LateFailure(t) \/ Show(t)
    BY <2>3, ReaderInv DEF TransferFails, LateFailure, Show
  <2> QED BY <1>3, <2>1, <2>2, <2>3 DEF ReaderStep
<1>4. CASE ConversionEnds \/ WeatherChanges
  BY <1>4 DEF ConversionEnds, WeatherChanges, driver, calls, IInv, Bound, Inside
<1>5. CASE UNCHANGED vars
  BY <1>5 DEF vars, IInv, Bound, Inside
<1> QED BY <1>1, <1>2, <1>3, <1>4, <1>5 DEF Next

(* However many readers there are, none is in the driver before the sensor's *)
(* calibration was read or after the memory that holds it was freed         *)
(* (bmp180_i2c_driver.c:281-304, 312).                                      *)
THEOREM ReadersHaveCalibration == Spec => []ReadersAreCalibrated
<1>1. IInv => ReadersAreCalibrated
  BY DEF IInv, Bound, Inside, ReadersAreCalibrated
<1> QED BY InitInv, NextInv, <1>1, PTL DEF Spec
-----------------------------------------------------------------------------
(* The protocol between the driver and the sensor.                          *)
Places == {"idle", "temp", "get_temp", "pres", "get_pres", "done"}

Typed ==
  /\ pc \in [Reader -> Places]
  /\ DOMAIN UT = Reader
  /\ DOMAIN UP = Reader
  /\ DOMAIN disturbed = Reader
  /\ weather \in Weather
  /\ device # "none" => oversample = 3

(* The conversion a waiting reader has asked for. *)
Own(t) == [cmd |-> IF pc[t] = "get_temp" THEN "temp" ELSE "pres", by |-> t]

(* An undisturbed reader that waits is the only one that does, and if the   *)
(* sensor is at work it is for this reader.                                 *)
Alone == \A t \in Reader : t \in Waiting /\ ~disturbed[t] => Waiting = {t}
Awaited ==
  \A t \in Reader : t \in Waiting /\ ~disturbed[t] /\ conv # Idle => conv = Own(t)

(* What an undisturbed reader finds in the result, and what it has read. *)
Finds(t) ==
  /\ pc[t] = "get_temp" /\ conv = Idle => reg = weather.ut * 256
  /\ pc[t] = "get_pres" /\ conv = Idle => reg = weather.up * 32
Holds(t) ==
  /\ pc[t] \in {"pres", "get_pres", "done"} => UT[t] = weather.ut
  /\ pc[t] = "done" => UP[t] = weather.up
OwnResult == \A t \in Reader : ~disturbed[t] => Finds(t) /\ Holds(t)

PInv == Typed /\ Awaited /\ Alone /\ OwnResult

LEMMA PInvInit == Init => PInv
BY DEF Init, PInv, Typed, Places, Awaited, Alone, OwnResult, Finds, Holds, Waiting

(* Probe and remove do not disturb the calls that are under way.            *)
LEMMA DeviceProtocol ==
  ASSUME PInv,
         Allocate \/ ReadCalibration \/ ProbeFails \/ CreateGroup \/ Remove \/ Removed
  PROVE  PInv'
<1>1. UNCHANGED <<weather, conv, reg, pc, attr, UT, UP, disturbed>>
  BY DEF Allocate, ReadCalibration, ProbeFails, CreateGroup, Remove, Removed, sensor, calls
<1>2. Waiting' = Waiting
  BY <1>1 DEF Waiting
<1>3. Typed'
  <2>1. device' # "none" => oversample' = 3
    BY DEF PInv, Typed, Allocate, ReadCalibration, ProbeFails, CreateGroup, Remove, Removed,
           Released, ReadyForGroup
  <2> QED BY <1>1, <2>1 DEF PInv, Typed
<1>4. Awaited' /\ Alone' /\ OwnResult'
  BY <1>1, <1>2 DEF PInv, Awaited, Own, Alone, OwnResult, Finds, Holds
<1> QED BY <1>3, <1>4 DEF PInv

(* The sleep that has ended was long enough: the conversion is not this     *)
(* reader's any more.                                                       *)
LEMMA SleepOutlasts ==
  ASSUME PInv, IInv, NEW t \in Reader,
         \/ pc[t] = "get_temp" /\ Slept(t, "temp")
         \/ pc[t] = "get_pres" /\ Slept(t, "pres")
  PROVE  conv # Own(t)
<1>1. oversample = 3
  BY DEF PInv, Typed, IInv, Inside
<1> QED BY <1>1 DEF Slept, Sleep, Conversion, Own

LEMMA UndisturbedFindsIdle ==
  ASSUME PInv, NEW t \in Reader, t \in Waiting, ~disturbed[t], conv # Own(t)
  PROVE  conv = Idle
BY DEF PInv, Awaited

(* A command: whoever waits is disturbed by another's.                      *)
LEMMA StartProtocol ==
  ASSUME PInv, NEW t \in Reader, NEW cmd,
         \/ pc[t] = "temp" /\ cmd = "temp" /\ Goto(t, "get_temp")
         \/ pc[t] = "pres" /\ cmd = "pres" /\ Goto(t, "get_pres"),
         StartConversion(t, cmd),
         UNCHANGED <<driver, weather, attr, UT, UP>>
  PROVE  PInv'
<1>1. /\ Waiting' = Waiting \cup {t}
      /\ t \notin Waiting
  BY DEF PInv, Typed, Waiting, Goto
<1>2. \A u \in Reader :
        disturbed'[u] <=> \/ disturbed[u] \/ u \in Waiting
                          \/ u = t /\ (Waiting # {} \/ conv # Idle)
  BY <1>1 DEF StartConversion
<1>3. Typed'
  BY DEF PInv, Typed, Places, Goto, StartConversion, driver
<1>4. \A u \in Reader \ {t} : pc'[u] = pc[u]
  BY DEF PInv, Typed, Goto
<1>5. Awaited'
  <2> SUFFICES ASSUME NEW u \in Reader, u \in Waiting', ~disturbed'[u]
               PROVE  conv' = Own(u)'
    BY DEF Awaited
  <2>1. u = t /\ conv = Idle
    BY <1>1, <1>2
  <2>2. conv' = [cmd |-> cmd, by |-> t]
    BY <2>1 DEF StartConversion
  <2> QED BY <2>1, <2>2 DEF Own, PInv, Typed, Goto
<1>6. Alone'
  BY <1>1, <1>2 DEF PInv, Alone, Waiting
<1>7. OwnResult'
  <2> SUFFICES ASSUME NEW u \in Reader, ~disturbed'[u] PROVE Finds(u)' /\ Holds(u)'
    BY DEF OwnResult
  <2>1. CASE u = t
    <3>1. Waiting = {}
      BY <1>2, <2>1
    <3>2. conv = Idle
      BY <1>2, <2>1
    <3>3. conv'.by = t /\ conv' # Idle
      <4>1. conv' = [cmd |-> cmd, by |-> t]
        BY <3>2 DEF StartConversion
      <4> QED BY <4>1 DEF Idle
    <3>4. Finds(t)'
      BY <3>3 DEF Finds
    <3>5. Holds(t) /\ pc'[t] # "done" /\ (pc'[t] = "get_pres" => pc[t] = "pres")
      BY <1>2, <2>1 DEF PInv, OwnResult, Typed, Goto
    <3> QED BY <2>1, <3>4, <3>5 DEF Holds, PInv, Typed, Goto
  <2>2. CASE u # t
    <3>1. pc'[u] = pc[u] /\ u \notin Waiting /\ ~disturbed[u]
      BY <1>2, <1>4, <2>2
    <3> QED BY <3>1 DEF PInv, OwnResult, Finds, Holds, Waiting
  <2> QED BY <2>1, <2>2
<1> QED BY <1>3, <1>5, <1>6, <1>7 DEF PInv

(* A call comes in. *)
LEMMA CallProtocol ==
  ASSUME PInv, NEW t \in Reader, Call(t)
  PROVE  PInv'
<1>1. Waiting' = Waiting
  BY DEF PInv, Typed, Waiting, Call, Goto
<1>2. Typed'
  BY DEF PInv, Typed, Places, Call, Goto, driver
<1>3. Awaited'
  BY <1>1 DEF PInv, Typed, Waiting, Awaited, Own, Call, Goto, sensor
<1>4. Alone'
  BY <1>1 DEF PInv, Typed, Waiting, Alone, Call, Goto
<1>5. OwnResult'
  BY DEF PInv, Typed, OwnResult, Finds, Holds, Call, Goto, sensor
<1> QED BY <1>2, <1>3, <1>4, <1>5 DEF PInv

(* A result is fetched when its reader has slept. *)
LEMMA ReadProtocol ==
  ASSUME PInv, IInv, NEW t \in Reader, ReadTemp(t) \/ ReadPres(t)
  PROVE  PInv'
<1>1. /\ t \in Waiting
      /\ Waiting' = Waiting \ {t}
      /\ conv # Own(t)
      /\ UNCHANGED <<driver, weather, sensor, attr, disturbed>>
  <2>1. conv # Own(t)
    BY SleepOutlasts DEF ReadTemp, ReadPres
  <2> QED BY <2>1 DEF PInv, Typed, Waiting, ReadTemp, ReadPres, Goto
<1>2. Typed'
  BY <1>1 DEF PInv, Typed, Places, ReadTemp, ReadPres, Goto, driver
<1>3. Awaited'
  <2>1. \A u \in Reader : u \in Waiting' => disturbed'[u]
    BY <1>1 DEF PInv, Alone
  <2> QED BY <2>1 DEF Awaited
<1>4. Alone'
  <2> SUFFICES ASSUME NEW u \in Reader, u \in Waiting', ~disturbed'[u]
               PROVE  Waiting' = {u}
    BY DEF Alone
  <2>1. u \in Waiting /\ ~disturbed[u]
    BY <1>1
  <2> QED BY <1>1, <2>1 DEF PInv, Alone
<1>5. OwnResult'
  <2> SUFFICES ASSUME NEW u \in Reader, ~disturbed[u] PROVE Finds(u)' /\ Holds(u)'
    BY <1>1 DEF OwnResult
  <2>1. CASE u # t
    BY <1>1, <2>1 DEF PInv, Typed, OwnResult, Finds, Holds, ReadTemp, ReadPres, Goto, sensor
  <2>2. CASE u = t
    <3>1. conv = Idle
      BY <1>1, <2>2, UndisturbedFindsIdle
    <3>2. Finds(t) /\ Holds(t) /\ weather.ut \in Nat /\ weather.up \in Nat
      BY <2>2, WeatherAssumption DEF PInv, Typed, OwnResult
    <3>3. CASE ReadTemp(t)
      <4>1. UT'[t] = reg \div 256 /\ pc'[t] = "pres" /\ reg = weather.ut * 256
        BY <3>1, <3>2, <3>3 DEF ReadTemp, Goto, PInv, Typed, Finds
      <4>2. UT'[t] = weather.ut
        BY <3>2, <4>1
      <4> QED BY <1>1, <2>2, <4>1, <4>2 DEF Finds, Holds
    <3>4. CASE ReadPres(t)
      <4>1. oversample = 3
        BY <3>4 DEF PInv, Typed, IInv, Inside, ReadPres
      <4>2. UP'[t] = reg \div 2^(8 - oversample) /\ pc'[t] = "done" /\ reg = weather.up * 32
        BY <3>1, <3>2, <3>4 DEF ReadPres, Goto, PInv, Typed, Finds
      <4>3. UP'[t] = weather.up
        <5>1. 2^(8 - oversample) = 32
          BY <4>1
        <5> QED BY <3>2, <4>2, <5>1
      <4>4. UT'[t] = weather.ut
        BY <3>2, <3>4 DEF Holds, ReadPres
      <4> QED BY <1>1, <2>2, <4>2, <4>3, <4>4 DEF Finds, Holds
    <3> QED BY <3>3, <3>4
  <2> QED BY <2>1, <2>2
<1> QED BY <1>2, <1>3, <1>4, <1>5 DEF PInv

(* A call ends, in an answer or in a failed transfer.                       *)
LEMMA EndProtocol ==
  ASSUME PInv, NEW t \in Reader, TransferFails(t) \/ Show(t)
  PROVE  PInv'
<1>1. /\ UNCHANGED <<driver, weather, sensor, attr, disturbed>>
      /\ Goto(t, "idle")
      /\ Forget(t)
  BY DEF TransferFails, Show, AfterFailure
<1>2. Waiting' = Waiting \ {t}
  BY <1>1 DEF PInv, Typed, Goto, Waiting
<1>3. Typed'
  BY <1>1 DEF PInv, Typed, Places, Goto, Forget, driver
<1>4. ASSUME NEW u \in Reader, u \in Waiting', ~disturbed'[u]
      PROVE  Waiting' = {u} /\ (conv' # Idle => conv' = Own(u)')
  <2>1. u \in Waiting /\ ~disturbed[u] /\ u # t
    BY <1>1, <1>2, <1>4
  <2>2. Waiting = {u} /\ (conv # Idle => conv = Own(u))
    BY <2>1 DEF PInv, Alone, Awaited
  <2>3. pc'[u] = pc[u]
    BY <1>1, <2>1 DEF PInv, Typed, Goto
  <2> QED BY <1>1, <1>2, <2>1, <2>2, <2>3 DEF Own, sensor
<1>5. Awaited' /\ Alone'
  BY <1>4 DEF Awaited, Alone
<1>6. OwnResult'
  <2> SUFFICES ASSUME NEW u \in Reader, ~disturbed'[u] PROVE Finds(u)' /\ Holds(u)'
    BY DEF OwnResult
  <2>1. CASE u = t
    BY <1>1, <2>1 DEF PInv, Typed, Finds, Holds, Goto
  <2>2. CASE u # t
    BY <1>1, <2>2 DEF PInv, Typed, OwnResult, Finds, Holds, Goto, Forget, sensor
  <2> QED BY <2>1, <2>2
<1> QED BY <1>3, <1>5, <1>6 DEF PInv

(* A command arrives and its call fails: all who wait are disturbed.        *)
LEMMA LateFailureProtocol ==
  ASSUME PInv, NEW t \in Reader, LateFailure(t)
  PROVE  PInv'
<1>1. /\ UNCHANGED <<driver, weather, attr, reg>>
      /\ Goto(t, "idle")
      /\ Forget(t)
      /\ t \notin Waiting
  BY DEF LateFailure, AfterFailure, StartConversion, Waiting
<1>2. Waiting' = Waiting
  BY <1>1 DEF PInv, Typed, Goto, Waiting
<1>3. DOMAIN disturbed' = Reader
  BY <1>1 DEF LateFailure, StartConversion
<1>4. ASSUME NEW u \in Reader, ~disturbed'[u] PROVE u \notin Waiting /\ ~disturbed[u]
  BY <1>1, <1>4 DEF LateFailure, StartConversion
<1>5. Typed'
  BY <1>1, <1>3 DEF PInv, Typed, Places, Goto, Forget, driver
<1>6. Awaited' /\ Alone'
  <2>1. ASSUME NEW u \in Reader, ~disturbed'[u] PROVE u \notin Waiting'
    BY <1>2, <1>4, <2>1
  <2> QED BY <2>1, Zenon DEF Awaited, Alone
<1>7. OwnResult'
  <2> SUFFICES ASSUME NEW u \in Reader, ~disturbed'[u] PROVE Finds(u)' /\ Holds(u)'
    BY DEF OwnResult
  <2>1. CASE u = t
    BY <1>1, <2>1 DEF PInv, Typed, Finds, Holds, Goto
  <2>2. CASE u # t
    <3>1. pc'[u] = pc[u] /\ UT'[u] = UT[u] /\ UP'[u] = UP[u]
      BY <1>1, <2>2, Zenon DEF PInv, Typed, Goto, Forget
    <3>2. u \notin Waiting /\ Holds(u)
      BY <1>4, Zenon DEF PInv, OwnResult
    <3> QED BY <1>1, <3>1, <3>2 DEF Finds, Holds, Waiting
  <2> QED BY <2>1, <2>2
<1> QED BY <1>5, <1>6, <1>7 DEF PInv

(* The sensor finishes a conversion; the weather changes between calls.     *)
LEMMA SensorProtocol ==
  ASSUME PInv, ConversionEnds \/ WeatherChanges
  PROVE  PInv'
<1>1. UNCHANGED <<driver, pc, attr, UT, UP, disturbed>> /\ Waiting' = Waiting
  BY DEF ConversionEnds, WeatherChanges, calls, Waiting
<1>2. Typed' /\ Alone'
  BY <1>1 DEF PInv, Typed, Alone, driver, ConversionEnds, WeatherChanges
<1>3. CASE WeatherChanges
  BY <1>1, <1>2, <1>3 DEF PInv, Awaited, Own, Waiting, OwnResult, Finds, Holds,
                          WeatherChanges, sensor
<1>4. CASE ConversionEnds
  <2>1. Awaited'
    BY <1>4 DEF Awaited, ConversionEnds
  <2>2. OwnResult'
    <3> SUFFICES ASSUME NEW t \in Reader, ~disturbed[t] PROVE Finds(t)' /\ Holds(t)'
      BY <1>1 DEF OwnResult
    <3>1. Holds(t)'
      BY <1>1, <1>4 DEF PInv, OwnResult, Holds, ConversionEnds
    <3>2. ASSUME t \in Waiting PROVE conv = Own(t)
      BY <1>4, <3>2, UndisturbedFindsIdle DEF ConversionEnds
    <3>3. Finds(t)'
      BY <1>1, <1>4, <3>2 DEF Own, Waiting, Finds, ConversionEnds
    <3> QED BY <3>1, <3>3
  <2> QED BY <1>2, <2>1, <2>2 DEF PInv
<1> QED BY <1>3, <1>4

LEMMA PInvNext == PInv /\ IInv /\ [Next]_vars => PInv'
<1> SUFFICES ASSUME PInv, IInv, [Next]_vars PROVE PInv'
  OBVIOUS
<1>1. CASE Allocate \/ ReadCalibration \/ ProbeFails \/ CreateGroup \/ Remove \/ Removed
  BY <1>1, DeviceProtocol
<1>2. ASSUME NEW t \in Reader, Call(t) PROVE PInv'
  BY <1>2, CallProtocol
<1>3. ASSUME NEW t \in Reader, ReaderStep(t) PROVE PInv'
  <2>1. CASE StartTemp(t)
    BY <2>1, StartProtocol DEF StartTemp
  <2>2. CASE StartPres(t)
    BY <2>2, StartProtocol DEF StartPres
  <2>3. CASE ReadTemp(t) \/ ReadPres(t)
    BY <2>3, ReadProtocol
  <2>4. CASE TransferFails(t) \/ Show(t)
    BY <2>4, EndProtocol
  <2>5. CASE LateFailure(t)
    BY <2>5, LateFailureProtocol
  <2> QED BY <1>3, <2>1, <2>2, <2>3, <2>4, <2>5 DEF ReaderStep
<1>4. CASE ConversionEnds \/ WeatherChanges
  BY <1>4, SensorProtocol
<1>5. CASE UNCHANGED vars
  BY <1>5 DEF vars, PInv, Typed, Awaited, Own, Alone, OwnResult, Finds, Holds, Waiting
<1> QED BY <1>1, <1>2, <1>3, <1>4, <1>5 DEF Next

(* An undisturbed reader compensates the raw values of this weather with    *)
(* the sensor's calibration at the oversampling the formula is told, for    *)
(* any number of readers and whatever failures came before; so where the    *)
(* integer formulas fit the calibration, it prints the weather              *)
(* (bmp180_i2c_driver.c:97-149).                                            *)
THEOREM UndisturbedIsRight ==
  ASSUME FormulasFit
  PROVE  Spec => []UndisturbedReadsTheWeather
<1>1. PInv /\ IInv => UndisturbedReadsTheWeather
  <2> SUFFICES ASSUME PInv, IInv, NEW t \in Reader, pc[t] = "done", ~disturbed[t]
               PROVE  Near(t)
    BY DEF UndisturbedReadsTheWeather
  <2>1. calib = Calibration /\ oversample = 3
    BY DEF IInv, Bound, Inside, PInv, Typed
  <2>2. UT[t] = weather.ut /\ UP[t] = weather.up
    BY DEF PInv, OwnResult, Holds
  <2>3. weather \in Weather
    BY DEF PInv, Typed
  <2> QED BY <2>1, <2>2, <2>3 DEF Near, Answer, FormulasFit
<1> QED BY InitInv, NextInv, PInvInit, PInvNext, <1>1, PTL DEF Spec
-----------------------------------------------------------------------------
(* A thread on its way to sleep is on the queue or has been woken.          *)
Queued == \A t \in Thread : place[t] \in {"cond", "sched"} => t \in queue \/ woken[t]

(* Whoever is about to take a message, and everyone while the flag is up,   *)
(* has a press to take it for.                                              *)
Owed ==
  \A t \in Thread :
    /\ got[t] <= presses
    /\ place[t] = "clear" \/ data_available = 1 => presses > got[t]

FlagInv == TypeOK /\ Queued /\ NoLostWakeup /\ Owed

LEMMA FlagInvInit == FlagInit => FlagInv
BY SMT DEF FlagInit, Sleeps, TypeOK, WaitSteps, NoLostWakeup,
           Sleeping, FlagInv, Queued, Owed

(* Each step of a thread, and each half of the handler, keeps FlagInv.      *)
LEMMA FlagInvNext == FlagInv /\ [FlagNext]_flag_vars => FlagInv'
<1> SUFFICES ASSUME FlagInv, [FlagNext]_flag_vars PROVE FlagInv'
  OBVIOUS
<1> USE DEF Sleeps, TypeOK, WaitSteps, NoLostWakeup, Sleeping,
            waits, ghosts, notice, FlagInv, Queued, Owed
<1>1. ASSUME NEW t \in Thread, CallRead(t) PROVE FlagInv'
  BY <1>1, SMT DEF CallRead, InUser, MoveTo
<1>2. ASSUME NEW t \in Thread, ReadCheck(t) PROVE FlagInv'
  <2> USE <1>2 DEF ReadCheck, MoveTo, Return
  <2>1. CASE data_available # 0
    BY <2>1, SMT
  <2>2. CASE data_available = 0 /\ (nonblock[t] \/ Notifies)
    <3>1. place' = [place EXCEPT ![t] = "idle"] /\ signal' = [signal EXCEPT ![t] = FALSE]
      BY <2>2
    <3>2. UNCHANGED <<loaded, data_available, isr, queue, woken, nonblock, ghosts,
                      notice>>
      BY <2>2
    <3> QED BY <2>2, <3>1, <3>2, SMT
  <2>3. CASE data_available = 0 /\ ~nonblock[t] /\ ~Notifies /\ Sleeps
    BY <2>3, SMT
  <2>4. CASE data_available = 0 /\ ~nonblock[t] /\ ~Notifies /\ ~Sleeps
    BY <2>4, SMT
  <2> QED BY <2>1, <2>2, <2>3, <2>4
<1>3. ASSUME NEW t \in Thread, Spin(t) PROVE FlagInv'
  BY <1>3, SMT DEF Spin, MoveTo
<1>4. ASSUME NEW t \in Thread, WaitPrepare(t) PROVE FlagInv'
  BY <1>4, SMT DEF WaitPrepare, MoveTo, Interrupted
<1>5. ASSUME NEW t \in Thread, WaitCondition(t) PROVE FlagInv'
  <2> USE <1>5 DEF WaitCondition, MoveTo, Return, Ready, Interrupted
  <2>1. CASE data_available # 0
    BY <2>1, SMT
  <2>2. CASE data_available = 0 /\ signal[t]
    <3>1. place' = [place EXCEPT ![t] = "idle"] /\ signal' = [signal EXCEPT ![t] = FALSE]
      BY <2>2
    <3>2. queue' = queue \ {t}
      BY <2>2
    <3>3. UNCHANGED <<loaded, data_available, isr, woken, nonblock, ghosts,
                      notice>>
      BY <2>2
    <3> QED BY <3>1, <3>2, <3>3, SMT
  <2>3. CASE data_available = 0 /\ ~signal[t]
    BY <2>3, SMT
  <2> QED BY <2>1, <2>2, <2>3
<1>6. ASSUME NEW t \in Thread, WaitSchedule(t) PROVE FlagInv'
  BY <1>6, SMT DEF WaitSchedule, MoveTo
<1>7. ASSUME NEW t \in Thread, Clear(t) PROVE FlagInv'
  BY <1>7, SMT DEF Clear, MoveTo, Return, Lower
<1>8. ASSUME NEW t \in Thread, Signal(t) PROVE FlagInv'
  BY <1>8, SMT DEF Signal, Interrupted
<1>9. ASSUME IsrRaise PROVE FlagInv'
  BY <1>9, SMT DEF IsrRaise, Raise
<1>10. ASSUME IsrWake PROVE FlagInv'
  <2> USE <1>10 DEF IsrWake, WakeAll
  <2>1. TypeOK'
    BY SMT
  <2>2. ASSUME NEW t \in Thread PROVE woken'[t] = (woken[t] \/ t \in queue)
    BY <2>2, Zenon
  <2>3. place' = place /\ data_available' = data_available
    BY DEF ghosts
  <2>4. Queued'
    BY <2>2, <2>3, Zenon
  <2>5. NoLostWakeup'
    BY <2>2, <2>3, Zenon
  <2>6. Owed'
    BY SMT
  <2> QED BY <2>1, <2>4, <2>5, <2>6
<1>11. ASSUME IsrNotify PROVE FlagInv'
  BY <1>11, SMT DEF IsrNotify, NotifyAll, Notifies
<1>12. ASSUME NEW t \in Thread, SetAsync(t) PROVE FlagInv'
  BY <1>12, SMT DEF SetAsync, InUser
<1>13. ASSUME NEW t \in Thread, TakeSigio(t) PROVE FlagInv'
  BY <1>13, SMT DEF TakeSigio, MoveTo
<1>14. CASE UNCHANGED flag_vars
  BY <1>14, SMT DEF flag_vars
<1> QED
  BY <1>1, <1>2, <1>3, <1>4, <1>5, <1>6, <1>7, <1>8, <1>9, <1>10, <1>11,
     <1>12, <1>13, <1>14
  DEF FlagNext, ReadStep

LEMMA AlwaysFlagInv == FlagSpec => []FlagInv
<1> QED BY FlagInvInit, FlagInvNext, PTL DEF FlagSpec

(* The flag, the queue and every thread's place in my_read stay in their    *)
(* types (wait_queue.c, busy_wait.c).                                       *)
THEOREM FlagTypeCorrect == FlagSpec => []TypeOK
<1>1. FlagInv => TypeOK
  BY DEF FlagInv
<1> QED BY AlwaysFlagInv, <1>1, PTL

(* No reader of wait_queue.c sleeps on a raised flag without a wake-up on   *)
(* its way, for any number of competing readers.                            *)
THEOREM WakeupsAreNotLost == FlagSpec => []NoLostWakeup
<1>1. FlagInv => NoLostWakeup
  BY DEF FlagInv
<1> QED BY AlwaysFlagInv, <1>1, PTL

LEMMA CursorInit == FlagInit => Cursor!Init
<1> SUFFICES ASSUME FlagInit PROVE Cursor!Init
  OBVIOUS
<1>1. got = [f \in Thread |-> 0] /\ messages = [f \in Thread |-> 0] /\ presses = 0
  BY DEF FlagInit
<1> QED BY <1>1 DEF Cursor!Init

(* The interrupt's first half is a press, the reset of the flag a read; no  *)
(* other step moves a cursor.                                               *)
LEMMA CursorStep ==
  FlagInv /\ [FlagNext]_flag_vars => [Cursor!Next]_<<presses, got, messages>>
<1> SUFFICES ASSUME FlagInv, [FlagNext]_flag_vars
             PROVE  Cursor!Next \/ UNCHANGED ghosts
  BY DEF ghosts
<1>1. CASE IsrRaise
  BY <1>1 DEF IsrRaise, Cursor!Next, Cursor!Press
<1>2. ASSUME NEW t \in Thread, Clear(t) PROVE Cursor!Next
  <2>1. presses \in got[t] + 1 .. presses /\ t \in DOMAIN got
    BY <1>2, SMT DEF FlagInv, TypeOK, Owed, Clear
  <2>2. Cursor!Read(t)
    BY <1>2, <2>1 DEF Clear, Cursor!Read
  <2> QED BY <2>2 DEF Cursor!Next
<1>3. ASSUME NEW t \in Thread, ReadCheck(t) \/ Spin(t) \/ WaitPrepare(t)
                                \/ WaitCondition(t) \/ WaitSchedule(t)
      PROVE  UNCHANGED ghosts
  BY <1>3 DEF ReadCheck, Spin, WaitPrepare, WaitCondition, WaitSchedule
<1>4. ASSUME NEW t \in Thread, CallRead(t) \/ Signal(t) \/ SetAsync(t) \/ TakeSigio(t)
      PROVE  UNCHANGED ghosts
  BY <1>4 DEF CallRead, Signal, SetAsync, TakeSigio
<1>5. CASE IsrWake \/ IsrNotify \/ UNCHANGED flag_vars
  BY <1>5 DEF IsrWake, IsrNotify, flag_vars, ghosts
<1> QED BY <1>1, <1>2, <1>3, <1>4, <1>5 DEF FlagNext, ReadStep

(* Every message stands for a press since the thread's previous message,    *)
(* with each way to learn of the press and for any number of racing readers *)
(* (wait_queue.c:46, 59, 64; busy_wait.c:41; my_fasync.c:45, 50).           *)
THEOREM ReadersAreCursors == FlagSpec => ImplementsCursor
<1> QED
  BY CursorInit, AlwaysFlagInv, CursorStep, PTL DEF FlagSpec, ImplementsCursor, Cursor!Spec

(* What the promise means for a reader: it gets no more messages than there *)
(* were presses, however many others race with it for the flag.             *)
THEOREM NoMessageWithoutPress == FlagSpec => []Cursor!NoMoreMessagesThanPresses
<1> USE DEF Cursor!NoMoreMessagesThanPresses
<1>1. FlagInit => Cursor!NoMoreMessagesThanPresses
  BY SMT DEF FlagInit
<1>2. FlagInv /\ Cursor!NoMoreMessagesThanPresses /\ [Cursor!Next]_<<presses, got, messages>>
        => Cursor!NoMoreMessagesThanPresses'
  <2> SUFFICES ASSUME FlagInv, Cursor!NoMoreMessagesThanPresses,
                      [Cursor!Next]_<<presses, got, messages>>
               PROVE  Cursor!NoMoreMessagesThanPresses'
    OBVIOUS
  <2> USE DEF FlagInv, TypeOK
  <2>1. CASE Cursor!Press
    BY <2>1, SMT DEF Cursor!Press
  <2>2. ASSUME NEW t \in Thread, Cursor!Read(t) PROVE Cursor!NoMoreMessagesThanPresses'
    BY <2>2, SMT DEF Cursor!Read
  <2>3. ASSUME NEW t \in Thread, Cursor!Close(t) PROVE Cursor!NoMoreMessagesThanPresses'
    BY <2>3, SMT DEF Cursor!Close, Cursor!Drop
  <2>4. ASSUME NEW t \in Thread, Cursor!Open(t) PROVE FALSE
    BY <2>4 DEF Cursor!Open
  <2> QED BY <2>1, <2>2, <2>3, <2>4 DEF Cursor!Next
<1> QED BY AlwaysFlagInv, CursorStep, <1>1, <1>2, PTL DEF FlagSpec
=============================================================================
