\* A create meets a room that exists.
SPECIFICATION Spec
CONSTANTS
    admin = admin
    ann = ann
    bob = bob
    staff = staff
    plain = plain
    secret = secret
    NoRoom = NoRoom
    Nobody = Nobody
    Original = Original
    r1 = r1
    r2 = r2
    Jids <- MCJids
    Groups <- MCGroups
    DefaultOwner = admin
    Confs <- MCConfs
    DefaultConf = plain
    Requests <- MCRequests
    InitialRooms <- MCInitialRooms
    Reqs <- TwoReqs
    MutexSettings = {TRUE}
INVARIANT
    CreateMakesTheRoom
