CONSTANT Never = Never
INIT Init
NEXT Next
INVARIANTS ParCredited LastProfileEditKept DifficultyAsked DoneStaysDone DialogStays ExportKept LateCounted SweepReaches FreeHasNoRow
CHECK_DEADLOCK FALSE
