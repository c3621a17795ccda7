\* A replace races a request that gives a user another affiliation.
SPECIFICATION Spec
CONSTANTS
    admin = admin
    ann = ann
    bob = bob
    staff = staff
    plain = plain
    secret = secret
    NoRoom = NoRoom
    Nobody = Nobody
    Original = Original
    r1 = r1
    r2 = r2
    Jids <- MCJids
    Groups <- MCGroups
    DefaultOwner = admin
    Confs <- MCConfs
    DefaultConf = plain
    Requests <- MCRequests
    InitialRooms <- MCInitialRooms
    Reqs <- TwoReqs
    MutexSettings = {TRUE}
PROPERTY
    ReplaceStripsOnlyItsType
