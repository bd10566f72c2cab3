SPECIFICATION Spec
CONSTANTS
  NULL = NULL
  MaxChars = 2
  U32Bound = 4
  Lines <- EveryLine
  ExitCodes = {0, 1}
  MaxLines = 2
CHECK_DEADLOCK FALSE
INVARIANTS ExitCodeDecides RejectionsExplain TestcaseIsPrinted StrayKeysCostNothing
