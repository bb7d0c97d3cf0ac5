SPECIFICATION Spec
CONSTANTS
  r1 = r1
  r2 = r2
  Reader = {r1, r2}
  Eeprom <- SampleEeprom
  Weather <- SomeWeather
INVARIANTS
  ReadersAreCalibrated
  UndisturbedReadsTheWeather
