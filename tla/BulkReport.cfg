\* Three requests, at least as many as it takes to make, race and destroy.
SPECIFICATION FairSpec
CONSTANTS
    lobby = lobby
    annex = annex
    r1 = r1
    r2 = r2
    r3 = r3
    Reqs <- MCReqs
    RoomNames <- MCRoomNames
    Requests <- MCRequests
INVARIANTS
    TypeOK
    CreatedRoomsAreOpen
    FailuresAreOwn
    LostRaceOnce
PROPERTY
    EveryBatchEnds
