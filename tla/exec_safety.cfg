SPECIFICATION Spec
CONSTANTS
    Instances = {home, other}
    Home = home
    Stoppers = {stop1}
    Readers = {read1}
    Strategies = {"image", "agent-chat", "agent-workspace"}
    Deployments = {"redis", "noRedis"}
    CanCrash = TRUE
    MaxOutages = 1
    MaxErrors = 2
INVARIANTS
    RefundedAtMostOnce
    NoFreeDelivery
    RunnerSettlesItsCharge
    
    SubscribersAreTold
CHECK_DEADLOCK FALSE
