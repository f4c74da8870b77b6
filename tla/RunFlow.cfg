SPECIFICATION Spec
CHECK_DEADLOCK FALSE
CONSTANT Latencies <- MCLatencies
INVARIANTS TypeOK OutputAgreesWithExit ExitTellsOutcome ReportIsOneStory
