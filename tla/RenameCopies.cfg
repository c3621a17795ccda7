\* A rename among two other requests.
SPECIFICATION Spec
CONSTANTS
    ann = ann
    beth = beth
    carl = carl
    dora = dora
    eve = eve
    remote = remote
    crew = crew
    staff = staff
    key = key
    r1 = r1
    r2 = r2
    r3 = r3
    Names <- MCNames
    Remotes <- MCRemotes
    Groups <- MCGroups
    Props <- MCProps
    World <- MCWorld
    Reqs <- MCReqs
    Requests <- MCRequests
INVARIANTS
    TypeOK
    NothingLeftBehind
    ContactsFollow
    PropertiesAreReplaced
