\* A batch that loses the race for the service.
SPECIFICATION FairSpec
CONSTANTS
    lobby = lobby
    annex = annex
    r1 = r1
    r2 = r2
    r3 = r3
    Reqs <- MCReqs
    RoomNames <- MCRoomNames
    Requests <- MCRequests
PROPERTY
    ExistedMeansRoom
