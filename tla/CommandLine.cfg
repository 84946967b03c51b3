\* Up to five words after the program's name; "a" is a text without a numeral.
CONSTANTS
  None = None
  Anything = Anything
  Words = {"-i", "--buffer_size", "--thread_count", "--queue_depth", "a", "2", "5", "-1", "9"}
  Numeral <- MCNumeral
  UllongMax = 7
  SizeMax = 3
  MaxArguments = 6
SPECIFICATION Spec
INVARIANTS TypeOK ReadsPairs RangeErrorEndsParse
PROPERTIES FirstErrorReported
CHECK_DEADLOCK FALSE
