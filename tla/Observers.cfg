\* The flight controller and the arbiter of the core; assertions on the Status of
\* the model; the clock and the lease of a source; and compiled timetables.
SPECIFICATION MCSpec
CONSTANTS
  imu = imu
  gps = gps
  Sensors = {imu, gps}
  Limit <- MCLimit
  Delay = 1
  FaultNames = {"blind", "delay", "rollback"}
  MaxNow = 3
  MaxSteps = 2
  MaxReloads = 1
  MaxFaults = 2
  Timeout = 1
  MaxTime3 = 4
  MaxSelections = 3
  assert = assert
  wait = wait
  Specs <- MCSpecs
  Handles <- MCHandles
  ModeOf <- MCModeOf
  CountOf <- MCCountOf
  TimeoutOf <- MCTimeoutOf
  Validity = 1
  ReaderRecords = 2
  Records = 5
  None = None
  MaxSamples = 3
  MaxStep = 2
  MaxClock = 1
  StatusValid = 2
  ControlTimeout = 2
  SampleValid = 1
  Fragments = 2
  Unset = Unset
  MaxSent = 2
  LastClock = 2
  LastModelStep = 1
  MaxMoves = 2
  Quarter = 10
  Shapes <- MCShapes
  FirstSteps = {0, 1, 2}
  Priorities = {0, 1}
  Windows <- MCWindows
  LowValue = 0
  HighValue = 8
  LastStep = 9
INVARIANTS AssertionSound ClockSound TimetableSound
PROPERTY ControlSafe
CHECK_DEADLOCK FALSE
