SPECIFICATION FairSpec
CONSTANTS
    Home = home
    Away = {away}
    Nowhere = nowhere
    NEvents = 4
    Cap = 2
    MaxDrops = 1
    MaxLosses = 1
INVARIANTS
    TypeOK
    OnceAndInOrder
    NothingIsBehind
    
PROPERTIES
    ClientLearnsTheEnd
CHECK_DEADLOCK FALSE
