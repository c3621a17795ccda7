\* Saves of the page, writes of properties, reloads and a stop of the server.
SPECIFICATION Spec
CONSTANTS
    r1 = r1
    r2 = r2
    r3 = r3
    Reqs <- MCReqs
    Requests <- MCRequests
    Stores <- MCStores
    MaxStops = 1
INVARIANTS
    TypeOK
    QuietSettingsAgree
    FilterIsTheStoredOne
