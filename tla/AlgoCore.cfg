CONSTANT Never = Never
INIT Init
NEXT Next
INVARIANTS PlannerSound ReviewSound EntrySound FocusSound ScreensSound PassSound GoogleSound
CHECK_DEADLOCK FALSE
