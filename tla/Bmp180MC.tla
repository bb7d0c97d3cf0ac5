------------------------------- MODULE Bmp180MC -------------------------------
(* An instance of Bmp180: the calibration of the data sheet's example, and  *)
(* three kinds of weather, with temperature and pressure by the data        *)
(* sheet's formulas in real numbers, rounded.                               *)
EXTENDS Bmp180

CONSTANTS r1, r2

SampleEeprom ==
  <<1, 152, 255, 184, 199, 209, 127, 229, 127, 245, 90, 113,
    24, 46, 0, 4, 128, 0, 221, 249, 11, 52>>

Fair   == [ut |-> 27898, up |-> 190747, temp |-> 150, pres |-> 69963]
Hot    == [ut |-> 30117, up |-> 282144, temp |-> 322, pres |-> 108132]
Frosty == [ut |-> 25400, up |-> 150000, temp |-> -78, pres |-> 51961]
SomeWeather == {Fair, Hot, Frosty}

ASSUME FormulasFitAssumption == FormulasFit
=============================================================================
