\* The uploads that the count of the request takes for smaller than they are.
CONSTANTS
  Names <- AllNames
  MaxCells = 6
  MaxRows = 4
  Eans = {"a", "b", "p", "x"}
  OwnEans = {"a", "b", "p"}
  Times = {0, 1, 2}
  Midnight <- Midnights
  Gross <- MeterGross
  Inj <- MeterInj
  Trim <- Stripped
  MaxReadingRows = 9
  Keys <- AskedKeys
  Periods <- AskedPeriods
  Uploads <- AskedFiles
  InjectionNames = {"inj", "prod"}
  MaxChanges = 2
SPECIFICATION Spec
INVARIANT OversizeIsUncounted
CHECK_DEADLOCK FALSE
