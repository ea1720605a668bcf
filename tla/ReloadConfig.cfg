SPECIFICATION MCSpec
INVARIANT ConfiguredTunnelsServe
CHECK_DEADLOCK FALSE
