-------------------------------- MODULE Bmp180 --------------------------------
(* The driver of 15_bmp180_i2c_sensor/sensor_read: probe reads the          *)
(* calibration and creates temp_input and pressure_input; each read of      *)
(* either file starts a temperature conversion, sleeps, fetches it, does    *)
(* the same for the pressure and compensates.  Readers of the two files     *)
(* share one sensor with one result register, and take no lock.             *)
(*                                                                          *)
(* disturbed is a history variable: the readers into whose conversion       *)
(* another fell.  Bound: the weather changes between calls only.            *)
EXTENDS Integers, Sequences

CONSTANTS
  Reader,     \* threads that read the two files
  Eeprom,     \* the 22 bytes of calibration
  Weather     \* raw values of the sensor, and what they mean by the formulas
              \* of the data sheet in real numbers

ASSUME EepromAssumption == Eeprom \in [1 .. 22 -> 0 .. 255]
ASSUME WeatherAssumption == Weather \subseteq [ut : Nat, up : Nat, temp : Int, pres : Int]

VARIABLES
  device,      \* what probe and remove have done so far
  calib,       \* bc->calib
  oversample,  \* bc->oversample
  group,       \* whether the two files are there
  weather,     \* the weather
  conv,        \* the sensor's conversion in progress: a command and its writer
  reg,         \* the three result bytes as one number
  pc, attr,    \* where each reader is, and in which file
  UT, UP,      \* the raw values it has read
  disturbed

driver == <<device, calib, oversample, group>>
sensor == <<conv, reg>>
calls == <<pc, attr, UT, UP, disturbed>>
vars == <<device, calib, oversample, group, weather, conv, reg,
          pc, attr, UT, UP, disturbed>>

Idle == [cmd |-> "none", by |-> "nobody"]

(* The coefficients in the order of the sensor's words, each with its type. *)
Signed == {"AC1", "AC2", "AC3", "B1", "B2", "MB", "MC", "MD"}
Coefficient ==
  <<"AC1", "AC2", "AC3", "AC4", "AC5", "AC6", "B1", "B2", "MB", "MC", "MD">>

(* devm_kzalloc. *)
Zeros == [c \in Signed \cup {"AC4", "AC5", "AC6"} |-> 0]

(* A coefficient from its big-endian pair of bytes.                         *)
WordOf(c) ==
  LET i == CHOOSE i \in DOMAIN Coefficient : Coefficient[i] = c
  IN (Eeprom[2 * i - 1] * 256) + Eeprom[2 * i]
Parsed(c) ==
  IF c \in Signed /\ WordOf(c) >= 32768 THEN WordOf(c) - 65536 ELSE WordOf(c)

Calibration == [c \in DOMAIN Zeros |-> Parsed(c)]
-----------------------------------------------------------------------------
Magnitude(n) == IF n < 0 THEN -n ELSE n

(* C divides towards zero; >> is \div by a power of two. *)
Quotient(a, b) ==
  LET q == Magnitude(a) \div Magnitude(b)
  IN IF (a < 0) = (b < 0) THEN q ELSE -q

(* B7 * 2 / B4 and B7 / B4 * 2 without numbers above 2^31. *)
Ratio(B7, B4) ==
  IF B7 \div 2 < 2^30
  THEN (B7 \div B4) * 2 + ((B7 % B4) * 2) \div B4
  ELSE (B7 \div B4) * 2

(* B5, the temperature both formulas start from. *)
B5(c, ut) ==
  LET X1 == ((ut - c.AC6) * c.AC5) \div 32768
  IN X1 + Quotient(c.MC * 2048, X1 + c.MD)

CompensatedTemp(c, ut) == (B5(c, ut) + 8) \div 16

CompensatedPres(c, oss, ut, up) ==
  LET B6 == B5(c, ut) - 4000
      Square == (B6 * B6) \div 4096
      X3 == (c.B2 * Square) \div 2048 + (c.AC2 * B6) \div 2048
      B3 == ((c.AC1 * 4 + X3) * 2^oss + 2) \div 4
      Y3 == ((c.AC3 * B6) \div 8192 + (c.B1 * Square) \div 65536 + 2) \div 4
      B4 == (c.AC4 * (Y3 + 32768)) \div 32768
      p == Ratio((up - B3) * (50000 \div 2^oss), B4)
      X1 == ((p \div 256) * (p \div 256) * 3038) \div 65536
      X2 == (-7357 * p) \div 65536
  IN p + (X1 + X2 + 3791) \div 16

(* What reader t prints. *)
Answer(t) ==
  IF attr[t] = "temp_input" THEN CompensatedTemp(calib, UT[t])
  ELSE CompensatedPres(calib, oversample, UT[t], UP[t])
-----------------------------------------------------------------------------
Init ==
  /\ device = "none"
  /\ calib = Zeros
  /\ oversample = 0
  /\ group = FALSE
  /\ weather \in Weather
  /\ conv = Idle
  /\ reg = 32768 * 256
  /\ pc = [t \in Reader |-> "idle"]
  /\ attr = [t \in Reader |-> "temp_input"]
  /\ UT = [t \in Reader |-> 0]
  /\ UP = [t \in Reader |-> 0]
  /\ disturbed = [t \in Reader |-> FALSE]

(* How long each msleep is, and the conversion it waits for, in half        *)
(* milliseconds; mutant: the pressure's sleep is that of oversample 0.      *)
SleepOfZero(cmd) == 10
Sleep(cmd) ==
  IF cmd = "temp" THEN 10
  ELSE CASE oversample = 0 -> 10 [] oversample = 1 -> 16
         [] oversample = 2 -> 28 [] OTHER -> 52
Conversion(cmd) ==
  IF cmd = "temp" THEN 9 ELSE <<9, 15, 27, 51>>[oversample + 1]

(* Probe's last step waits for the calibration; mutant: for the memory.     *)
AllocatedIsEnough == {"allocated", "calibrated"}
ReadyForGroup == {"calibrated"}

(* What a failed transfer does to the call. *)
AfterFailure(t) == "idle"
-----------------------------------------------------------------------------
(* bmp180_probe: the zeroed bmp_client; without memory nothing changes.     *)
Allocate ==
  /\ device = "none"
  /\ device' = "allocated"
  /\ calib' = Zeros
  /\ oversample' = 3
  /\ UNCHANGED <<group, weather, sensor, calls>>

(* bmp_read_calib. *)
ReadCalibration ==
  /\ device = "allocated"
  /\ calib' = Calibration
  /\ device' = "calibrated"
  /\ UNCHANGED <<oversample, group, weather, sensor, calls>>

(* The device is released with its bmp_client. *)
Released ==
  /\ device' = "none"
  /\ calib' = Zeros
  /\ oversample' = 0

(* The transfer or sysfs_create_group fails: probe returns the error, and   *)
(* the memory goes with the device.                                         *)
ProbeFails ==
  /\ device \in {"allocated", "calibrated"}
  /\ ~group
  /\ Released
  /\ UNCHANGED <<group, weather, sensor, calls>>

CreateGroup ==
  /\ device \in ReadyForGroup
  /\ group' = TRUE
  /\ device' = "bound"
  /\ UNCHANGED <<calib, oversample, weather, sensor, calls>>

(* bmp180_remove: sysfs_remove_group lets no further call in ... *)
Remove ==
  /\ device = "bound"
  /\ device' = "removing"
  /\ group' = FALSE
  /\ UNCHANGED <<calib, oversample, weather, sensor, calls>>

(* ... and waits for those inside; then bmp_client is freed. *)
Removed ==
  /\ device = "removing"
  /\ \A t \in Reader : pc[t] = "idle"
  /\ Released
  /\ UNCHANGED <<group, weather, sensor, calls>>
-----------------------------------------------------------------------------
Goto(t, l) == pc' = [pc EXCEPT ![t] = l]

(* A read of temp_input or pressure_input. *)
Call(t) ==
  /\ pc[t] = "idle"
  /\ group
  /\ \E a \in {"temp_input", "pressure_input"} : attr' = [attr EXCEPT ![t] = a]
  /\ Goto(t, "temp")
  /\ disturbed' = [disturbed EXCEPT ![t] = FALSE]
  /\ UNCHANGED <<driver, weather, sensor, UT, UP>>

Waiting == {t \in Reader : pc[t] \in {"get_temp", "get_pres"}}

(* The command byte reaches the sensor, which starts over or, if it is      *)
(* busy, may go on with what it was doing.                                  *)
StartConversion(t, cmd) ==
  /\ \/ conv' = [cmd |-> cmd, by |-> t]
     \/ conv # Idle /\ conv' = conv
  /\ LET others == Waiting \ {t}
     IN disturbed' = [u \in Reader |->
          disturbed[u] \/ u \in others \/ (u = t /\ (others # {} \/ conv # Idle))]
  /\ UNCHANGED reg

(* The call's registers are gone. *)
Forget(t) ==
  /\ UT' = [UT EXCEPT ![t] = 0]
  /\ UP' = [UP EXCEPT ![t] = 0]

(* The sleep is over: this conversion of the reader has ended by now if the *)
(* sleep is long enough.                                                    *)
Slept(t, cmd) == conv = [cmd |-> cmd, by |-> t] => Sleep(cmd) < Conversion(cmd)

(* bmp_read_raw_temp: command and sleep ... *)
StartTemp(t) ==
  /\ pc[t] = "temp"
  /\ StartConversion(t, "temp")
  /\ Goto(t, "get_temp")
  /\ UNCHANGED <<driver, weather, attr, UT, UP>>

(* ... and two bytes of the result. *)
ReadTemp(t) ==
  /\ pc[t] = "get_temp"
  /\ Slept(t, "temp")
  /\ UT' = [UT EXCEPT ![t] = reg \div 256]
  /\ Goto(t, "pres")
  /\ UNCHANGED <<driver, weather, sensor, attr, UP, disturbed>>

(* bmp_read_raw_pres: command and sleep ... *)
StartPres(t) ==
  /\ pc[t] = "pres"
  /\ StartConversion(t, "pres")
  /\ Goto(t, "get_pres")
  /\ UNCHANGED <<driver, weather, attr, UT, UP>>

(* ... and three bytes. *)
ReadPres(t) ==
  /\ pc[t] = "get_pres"
  /\ Slept(t, "pres")
  /\ UP' = [UP EXCEPT ![t] = reg \div 2^(8 - oversample)]
  /\ Goto(t, "done")
  /\ UNCHANGED <<driver, weather, sensor, attr, UT, disturbed>>

(* A transfer fails, or returns fewer bytes than asked for ... *)
TransferFails(t) ==
  /\ \/ pc[t] \in {"temp", "pres"}
     \/ pc[t] = "get_temp" /\ Slept(t, "temp")
     \/ pc[t] = "get_pres" /\ Slept(t, "pres")
  /\ Goto(t, AfterFailure(t))
  /\ Forget(t)
  /\ UNCHANGED <<driver, weather, sensor, attr, disturbed>>

(* ... or the write of a command is reported as failed though it arrived.   *)
LateFailure(t) ==
  /\ pc[t] \in {"temp", "pres"}
  /\ StartConversion(t, pc[t])
  /\ Goto(t, AfterFailure(t))
  /\ Forget(t)
  /\ UNCHANGED <<driver, weather, attr>>

(* The value is compensated, printed and returned: Answer(t). *)
Show(t) ==
  /\ pc[t] = "done"
  /\ Goto(t, "idle")
  /\ Forget(t)
  /\ UNCHANGED <<driver, weather, sensor, attr, disturbed>>

(* The sensor ends a conversion. *)
ConversionEnds ==
  /\ conv # Idle
  /\ reg' = IF conv.cmd = "temp" THEN weather.ut * 256 ELSE weather.up * 32
  /\ conv' = Idle
  /\ UNCHANGED <<driver, weather, calls>>

WeatherChanges ==
  /\ \A t \in Reader : pc[t] = "idle"
  /\ weather' \in Weather \ {weather}
  /\ UNCHANGED <<driver, sensor, calls>>

ReaderStep(t) ==
  StartTemp(t) \/ ReadTemp(t) \/ StartPres(t) \/ ReadPres(t) \/ TransferFails(t)
  \/ LateFailure(t) \/ Show(t)

Next ==
  \/ Allocate \/ ReadCalibration \/ ProbeFails \/ CreateGroup \/ Remove \/ Removed
  \/ \E t \in Reader : Call(t) \/ ReaderStep(t)
  \/ ConversionEnds \/ WeatherChanges

Spec == Init /\ [][Next]_vars
-----------------------------------------------------------------------------
(* The driver's integer formulas fit this sensor: within a tenth of a       *)
(* degree and 10 Pa of the data sheet's, at the oversampling of probe.      *)
FormulasFit ==
  \A w \in Weather :
    /\ CompensatedTemp(Calibration, w.ut) - w.temp \in -1 .. 1
    /\ CompensatedPres(Calibration, 3, w.ut, w.up) - w.pres \in -10 .. 10

Near(t) ==
  IF attr[t] = "temp_input" THEN Answer(t) - weather.temp \in -1 .. 1
  ELSE Answer(t) - weather.pres \in -10 .. 10

(* A reader whose conversions no other conversion fell into prints the        *)
(* temperature within a tenth of a degree, and the pressure within 10 Pa,   *)
(* of the data sheet's formulas, whatever calls and failures came before or *)
(* in between: commands, sleeps, byte order, shifts and coefficients all    *)
(* fit together (bmp180_i2c_driver.c:68-94, 97-149, 157-205).               *)
UndisturbedReadsTheWeather ==
  \A t \in Reader : pc[t] = "done" /\ ~disturbed[t] => Near(t)

(* No reader is in the driver without a calibration that was read from this *)
(* sensor, however its call interleaves with probe and remove               *)
(* (bmp180_i2c_driver.c:281-304, 312).                                      *)
ReadersAreCalibrated ==
  \A t \in Reader :
    pc[t] # "idle" => device \in {"bound", "removing"} /\ calib = Calibration
=============================================================================
