\* Two requests while the mutex property is flipped at any time.
SPECIFICATION FairSpec
CONSTANTS
    admin = admin
    ann = ann
    bob = bob
    staff = staff
    plain = plain
    secret = secret
    NoRoom = NoRoom
    Nobody = Nobody
    Original = Original
    r1 = r1
    r2 = r2
    Jids <- MCJids
    Groups <- MCGroups
    DefaultOwner = admin
    Confs <- MCConfs
    DefaultConf = plain
    Requests <- MCToggleRequests
    InitialRooms <- MCToggleRooms
    Reqs <- TwoReqs
    MutexSettings = {TRUE, FALSE}
INVARIANTS
    MutexHeldInside
    LastSyncWins
PROPERTY
    EveryRequestAnswered
