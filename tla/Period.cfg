SPECIFICATION Spec
CONSTANTS
  MaxTxs = 1
  Period = 15
PROPERTY PeriodKept
