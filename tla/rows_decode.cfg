SPECIFICATION RowsSpec
CONSTANTS
  NULL = NULL
  k1 = k1
  k2 = k2
  clocked = clocked
  far = far
  Keys = {k1, k2}
  UlidText <- MCUlidText
  UlidOf <- MCUlidOf
  Instants = {clocked, far}
  Now = {clocked}
  Rfc3339 <- MCRfc3339
  InstantOf <- MCInstantOf
  Garbage = {"garbage"}
  Half = 2
  Inputs <- MCInputs
  MaxAttempts = 3
  MaxEdits = 1
CHECK_DEADLOCK FALSE
INVARIANTS ReadsBack BothSidesAgree ScanFindsTheUnfinished
