\* size_t and int are narrower than in the program, wider than every limit.
CONSTANTS
  Requests <- MCRequests
  Answers = {0, 1, 2, 255, 256}
  Unknown = "-99"
  SizeMax = 1048575
  IntMax = 65535
  None = None
SPECIFICATION Spec
INVARIANTS NothingTruncated RefusedUntouched FailuresTold
