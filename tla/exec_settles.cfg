SPECIFICATION FairSpec
CONSTANTS
    Instances = {home, other}
    Home = home
    Stoppers = {stop1}
    Readers = {read1}
    Strategies = {"image", "agent-chat", "agent-workspace"}
    Deployments = {"redis", "noRedis"}
    CanCrash = FALSE
    MaxOutages = 1
    MaxErrors = 0
PROPERTIES
    StopInFlightIsFinal
    ExecutedTaskSettles
CHECK_DEADLOCK FALSE
