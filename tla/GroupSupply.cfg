\* A group that is not there when a user is added to it.
SPECIFICATION Spec
CONSTANTS
    ann = ann
    beth = beth
    carl = carl
    crew = crew
    staff = staff
    guild = guild
    r1 = r1
    r2 = r2
    r3 = r3
    s1 = s1
    s2 = s2
    Users <- MCUsers
    Groups <- MCGroups
    Reqs <- MCReqs
    Earlier <- MCEarlier
    World <- MCWorld
    Requests <- MCRequests
INVARIANT
    MissingGroupsAreMade
