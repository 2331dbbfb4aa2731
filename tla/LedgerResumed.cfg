\* The process dies after a video job was submitted.
CONSTANT MaxReboots = 1
SPECIFICATION LedgerSpec
CHECK_DEADLOCK FALSE
INVARIANT SuccessIsRecorded
