\* One run with any caller's signal.
SPECIFICATION FairSpec
CONSTANT Signals = {"absent", "live", "aborted"}
INVARIANT NoProcessLeftBehind
PROPERTY StopIsReported
PROPERTY EveryRunSettles
CHECK_DEADLOCK FALSE
