--------------------- MODULE RoomRequests_refinement ---------------------
(***************************************************************************)
(* While the room mutex is on, RoomRequests implements ClusterView: the    *)
(* other cluster nodes see each request's outcome in one step or not at    *)
(* all, for every set of requests, addresses and initial rooms.            *)
(***************************************************************************)
EXTENDS RoomRequests_proofs

\* Every room that was ever made has an owner.
OwnersInv == \A i \in Insts : life[i] # "unborn" => Holding(aff[i], "owner") # {}

\* Which labels the requests other than puts come to, and that inside a section
\* they work on the room that the name yields.
SectionInv(r) ==
    ~IsPut(r) =>
        /\ pc[r] \notin {"service", "mkservice", "configure", "compare", "open"}
        /\ pc[r] = "assign" => IsDelta(r)
        /\ pc[r] = "strip" => IsDelta(r) \/ req[r].kind = "remove"
        /\ pc[r] = "check" => req[r].kind = "remove"
        /\ pc[r] = "destroy" => req[r].kind = "destroy"
        /\ pc[r] \in {"diffAdd", "diffRemove"} => IsDelta(r)
        /\ pc[r] = "read" => req[r].kind = "get"
        /\ pc[r] \in {"sync", "invite"} => req[r].kind # "get"
        /\ pc[r] = "release" /\ req[r].kind = "get" => result[r] # "ok"
        /\ pc[r] = "release" /\ result[r] = "none" => IsDelta(r) \/ req[r].kind = "get"
        /\ pc[r] \notin {"invite", "release", "done"} => result[r] = "none"
        /\ pc[r] \in {"assign", "strip", "check", "destroy"} => current = room[r]
        /\ pc[r] = "sync" =>
               IF req[r].kind = "destroy"
               THEN current = NoRoom /\ life[room[r]] = "destroyed"
               ELSE current = room[r]
        /\ req[r].kind = "remove" /\ pc[r] \in {"strip", "sync"} =>
               \A j \in req[r].jids :
                   aff[room[r]][j] = "none" \/ (pc[r] = "strip" /\ j \in reset[r])

\* The room as it is, for whoever looks it up.
Actual == IF current = NoRoom THEN NoRoom ELSE Snapshot(current)

PublishedInv(r) ==
    pc[r] = "invite" \/ (pc[r] = "release" /\ result[r] = "ok") => published = Actual

ViewInv ==
    /\ IInv /\ OwnersInv
    /\ \A r \in Reqs : SectionInv(r) /\ PublishedInv(r)

\* It all holds at first.
LEMMA InitView == Init => OwnersInv /\ \A r \in Reqs : SectionInv(r) /\ PublishedInv(r)
<1> SUFFICES ASSUME Init PROVE OwnersInv /\ \A r \in Reqs : SectionInv(r) /\ PublishedInv(r)
  OBVIOUS
<1>1. OwnersInv
  BY RequestAssumption DEF Init, OwnersInv, Insts
<1>2. QED
  BY <1>1 DEF Init, SectionInv, PublishedInv

-----------------------------------------------------------------------------
(* Owners. *)

\* A call of MUCRoom that does not conflict leaves an owner.
LEMMA MoveKeepsAnOwner ==
    ASSUME NEW a \in [Jids -> Affs], NEW j \in Jids, NEW l \in Affs,
           Holding(a, "owner") # {}, ~Conflicts(a, j, l)
    PROVE  Holding(Move(a, j, l), "owner") # {}
<1>1. CASE l = "owner"
  BY <1>1 DEF Holding, Move
<1>2. CASE l # "owner"
  <2>1. PICK k \in Jids : a[k] = "owner" /\ k # j
    BY <1>2 DEF Holding, Conflicts
  <2>2. Move(a, j, l)[k] = "owner"
    BY <2>1 DEF Move
  <2>3. QED
    BY <2>2 DEF Holding
<1>3. QED
  BY <1>1, <1>2

\* A thread that opens or destroys a room has one that was made.
LEMMA RoomIsMade ==
    ASSUME ViewInv, NEW r \in Reqs, pc[r] \in {"open", "destroy"}
    PROVE  room[r] \in Insts /\ life[room[r]] # "unborn"
<1> USE DEF ViewInv, IInv, TypeInv
<1>1. room[r] \in Insts /\ room[r] # NoRoom
  BY RequestAssumption DEF RoomKnown, Insts
<1>2. CASE IsPut(r)
  BY <1>1, <1>2 DEF RoomInv, PutInv, Working
<1>3. CASE ~IsPut(r)
  BY <1>1, <1>3 DEF SectionInv, RoomInv, CurrentAlive
<1>4. QED
  BY <1>1, <1>2, <1>3

\* No step leaves a room without an owner.
LEMMA OwnersStep ==
    ASSUME ViewInv, NEW r \in Reqs, Receive(r) \/ Step(r)
    PROVE  OwnersInv'
<1> USE DEF OwnersInv, Goto, Leave, Reject, node
<1>1. TypeOK /\ OwnersInv /\ RoomKnown
  BY DEF ViewInv, IInv, TypeInv
<1>2. CASE OpenNew(r)
  <2>1. PICK first \in Wanted(r)["owner"] \ Groups :
          aff' = [aff EXCEPT ![r] = Move(Unaffiliated, first, "owner")]
    BY <1>2 DEF OpenNew
  <2>2. first \in Jids
    BY <1>1, <2>1, WantedType DEF Lists
  <2>3. Holding(Move(Unaffiliated, first, "owner"), "owner") # {}
    BY <2>2 DEF Holding, Move, Unaffiliated
  <2>4. QED
    BY <1>1, <1>2, <2>1, <2>3 DEF OpenNew, TypeOK, Insts
<1>3. CASE Open(r)
  BY <1>1, <1>3, RoomIsMade DEF Open, TypeOK
<1>4. CASE DestroyRoom(r)
  BY <1>1, <1>4, RoomIsMade DEF DestroyRoom, TypeOK
<1>5. CASE Assign(r)
  <2>1. PICK j \in work[r] :
          /\ ~Conflicts(aff[room[r]], j, list[r])
          /\ aff' = [aff EXCEPT ![room[r]] = Move(@, j, list[r])]
    BY <1>5 DEF Assign
  <2>2. room[r] \in Insts /\ j \in Jids /\ list[r] \in Affs
    BY <1>1, <1>5, <2>1 DEF Assign, RoomKnown, TypeOK, Affs
  <2>3. life[room[r]] # "unborn" => Holding(Move(aff[room[r]], j, list[r]), "owner") # {}
    BY <1>1, <2>1, <2>2, MoveKeepsAnOwner DEF TypeOK
  <2>4. QED
    BY <1>1, <1>5, <2>1, <2>2, <2>3 DEF Assign, TypeOK
<1>6. CASE Strip(r)
  <2>1. PICK j \in reset[r] :
          /\ ~Conflicts(aff[room[r]], j, "none")
          /\ aff' = [aff EXCEPT ![room[r]] = Move(@, j, "none")]
    BY <1>6 DEF Strip
  <2>2. room[r] \in Insts /\ j \in Jids /\ "none" \in Affs
    BY <1>1, <1>6, <2>1 DEF Strip, RoomKnown, TypeOK, Affs
  <2>3. life[room[r]] # "unborn" => Holding(Move(aff[room[r]], j, "none"), "owner") # {}
    BY <1>1, <2>1, <2>2, MoveKeepsAnOwner DEF TypeOK
  <2>4. QED
    BY <1>1, <1>6, <2>1, <2>2, <2>3 DEF Strip, TypeOK
<1>7. CASE UNCHANGED <<aff, life>>
  BY <1>1, <1>7
<1>8. ~OpenNew(r) /\ ~Open(r) /\ ~DestroyRoom(r) /\ ~Assign(r) /\ ~Strip(r)
      => UNCHANGED <<aff, life>>
  BY DEF Step, Receive, RejectDuplicates, CheckService, CreateService, LoseServiceRace,
         NoService, GetLock, Lock, Release, FindRoom, NoSuchRoom, OpenExisting, RefuseNew,
         Configure, KeepRoles, SetRoles, NextList, AssignConflict, AssignRefused,
         AssignDone, StripConflict, SendFails, StripDone, DiffAdd, DiffRemove,
         CheckAffiliation,
         ReadList, Sync, Invite
<1>9. QED
  BY <1>2, <1>3, <1>4, <1>5, <1>6, <1>7, <1>8

-----------------------------------------------------------------------------
(* Sections. *)

\* A step of another request: it is outside when this one is inside.
LEMMA OtherSectionInv ==
    ASSUME ViewInv, NEW r \in Reqs, Receive(r) \/ Step(r), NEW s \in Reqs \ {r}
    PROVE  SectionInv(s)' /\ PublishedInv(s)'
<1>1. Thread(s)' = Thread(s) /\ req' = req
  BY OtherThreads DEF ViewInv, IInv
<1>2. IsPut(s)' = IsPut(s) /\ IsDelta(s)' = IsDelta(s)
  BY <1>1 DEF IsPut, IsDelta
<1>3. SectionInv(s) /\ PublishedInv(s)
  BY DEF ViewInv
<1>4. CASE pc[s] \in Inside
  <2>1. pc[r] \notin Inside
    BY <1>4, Exclusion DEF ViewInv, IInv, MutualExclusion
  <2>2. UNCHANGED <<current, aff, conf, life, published>>
    BY <2>1, OutsideSteps DEF ViewInv, IInv
  <2>3. SectionInv(s)'
    BY <1>1, <1>2, <1>3, <2>2 DEF SectionInv, Thread
  <2>4. Actual' = Actual
    BY <2>2 DEF Actual, Snapshot
  <2>5. PublishedInv(s)'
    BY <1>1, <1>3, <2>2, <2>4 DEF PublishedInv, Thread
  <2>6. QED
    BY <2>3, <2>5
<1>5. CASE pc[s] \notin Inside
  BY <1>1, <1>2, <1>3, <1>5 DEF SectionInv, PublishedInv, Thread, Inside
<1>6. QED
  BY <1>4, <1>5

\* What a request asks for stays.
LEMMA AskedStays ==
    ASSUME NEW r \in Reqs, Receive(r) \/ Step(r)
    PROVE  req' = req
BY DEF Step, Receive, Reject, RejectDuplicates, CheckService, CreateService,
   LoseServiceRace,
       NoService, GetLock, Lock, Release, FindRoom, NoSuchRoom, OpenExisting, OpenNew,
       RefuseNew, Configure, KeepRoles, SetRoles, NextList, Open, Assign, AssignConflict,
       AssignRefused, AssignDone, Strip, StripConflict, SendFails, StripDone, DiffAdd,
       DiffRemove,
       CheckAffiliation, DestroyRoom, ReadList, Sync, Invite

\* A step of the request itself.
LEMMA OwnSectionInv ==
    ASSUME ViewInv, NEW r \in Reqs, Receive(r) \/ Step(r), ~IsPut(r)
    PROVE  SectionInv(r)'
<1> USE DEF SectionInv, Goto, Leave, Reject, node, locals
<1>1. TypeOK /\ RoomKnown /\ RoomInv
  BY DEF ViewInv, IInv, TypeInv
<1>2. /\ req[r].kind \in {"replace", "add", "remove", "destroy", "get"}
      /\ IsDelta(r) <=> req[r].kind \in {"replace", "add"}
      /\ req' = req /\ IsPut(r)' = IsPut(r) /\ IsDelta(r)' = IsDelta(r)
  BY <1>1, WantedType, AskedStays DEF RequestType, Kinds, IsPut, IsDelta
<1>3. SectionInv(r) /\ ~IsPut(r)
  BY DEF ViewInv
<1> USE DEF TypeOK, RoomKnown
<1>4. CASE Receive(r)
  BY <1>1, <1>2, <1>3, <1>4 DEF Receive
<1>5. CASE RejectDuplicates(r)
  BY <1>1, <1>2, <1>3, <1>5 DEF RejectDuplicates
<1>6. CASE CheckService(r)
  BY <1>1, <1>3, <1>6 DEF CheckService
<1>7. CASE CreateService(r)
  BY <1>1, <1>3, <1>7 DEF CreateService
<1>8. CASE LoseServiceRace(r)
  BY <1>1, <1>3, <1>8 DEF LoseServiceRace
<1>9. CASE NoService(r)
  BY <1>1, <1>2, <1>3, <1>9 DEF NoService
<1>10. CASE GetLock(r)
  BY <1>1, <1>2, <1>3, <1>10 DEF GetLock
<1>11. CASE Lock(r)
  BY <1>1, <1>2, <1>3, <1>11 DEF Lock
<1>12. CASE Release(r)
  BY <1>1, <1>2, <1>3, <1>12 DEF Release
<1>13. CASE FindRoom(r)
  BY <1>1, <1>2, <1>3, <1>13 DEF FindRoom
<1>14. CASE NoSuchRoom(r)
  BY <1>1, <1>2, <1>3, <1>14 DEF NoSuchRoom
<1>15. CASE OpenExisting(r)
  BY <1>1, <1>2, <1>3, <1>15 DEF OpenExisting
<1>16. CASE OpenNew(r)
  BY <1>1, <1>2, <1>3, <1>16 DEF OpenNew
<1>17. CASE RefuseNew(r)
  BY <1>1, <1>2, <1>3, <1>17 DEF RefuseNew
<1>18. CASE Configure(r)
  BY <1>1, <1>3, <1>18 DEF Configure
<1>19. CASE KeepRoles(r)
  BY <1>1, <1>3, <1>19 DEF KeepRoles
<1>20. CASE SetRoles(r)
  BY <1>1, <1>3, <1>20 DEF SetRoles
<1>21. CASE NextList(r)
  BY <1>1, <1>2, <1>3, <1>21 DEF NextList, BeginList
<1>22. CASE Open(r)
  BY <1>1, <1>3, <1>22 DEF Open
<1>23. CASE Assign(r)
  BY <1>1, <1>2, <1>3, <1>23 DEF Assign
<1>24. CASE AssignConflict(r)
  BY <1>1, <1>2, <1>3, <1>24 DEF AssignConflict
<1>25. CASE AssignRefused(r)
  BY <1>1, <1>2, <1>3, <1>25 DEF AssignRefused
<1>26. CASE AssignDone(r)
  BY <1>1, <1>2, <1>3, <1>26 DEF AssignDone
<1>27. CASE Strip(r)
  <2>1. PICK j \in reset[r] :
          /\ aff' = [aff EXCEPT ![room[r]] = Move(@, j, "none")]
          /\ reset' = [reset EXCEPT ![r] = @ \ {j}]
    BY <1>27 DEF Strip
  <2>2. room[r] \in Insts /\ UNCHANGED <<current, life, room, pc, result>>
    BY <1>1, <1>27 DEF Strip
  <2>3. \A k \in Jids : aff'[room[r]][k] = IF k = j THEN "none" ELSE aff[room[r]][k]
    BY <1>1, <2>1, <2>2 DEF Move
  <2>4. req[r].jids \subseteq Jids
    BY <1>1, WantedType DEF RequestType
  <2>5. req[r].kind = "remove" /\ pc[r] = "strip" =>
          \A k \in req[r].jids : aff'[room[r]][k] = "none" \/ k \in reset'[r]
    BY <1>1, <1>3, <2>1, <2>3, <2>4
  <2>6. QED
    BY <1>1, <1>2, <1>3, <1>27, <2>1, <2>2, <2>5 DEF Strip
<1>28. CASE StripConflict(r)
  BY <1>1, <1>2, <1>3, <1>28 DEF StripConflict
<1>29. CASE StripDone(r)
  BY <1>1, <1>2, <1>3, <1>29 DEF StripDone
<1>30. CASE DiffAdd(r)
  BY <1>1, <1>2, <1>3, <1>30 DEF DiffAdd
<1>31. CASE DiffRemove(r)
  BY <1>1, <1>2, <1>3, <1>31 DEF DiffRemove
<1>32. CASE CheckAffiliation(r)
  BY <1>1, <1>2, <1>3, <1>32 DEF CheckAffiliation
<1>33. CASE DestroyRoom(r)
  BY <1>1, <1>2, <1>3, <1>33 DEF DestroyRoom
<1>34. CASE ReadList(r)
  BY <1>1, <1>2, <1>3, <1>34 DEF ReadList
<1>35. CASE Sync(r)
  BY <1>1, <1>2, <1>3, <1>35 DEF Sync
<1>36. CASE Invite(r)
  BY <1>1, <1>2, <1>3, <1>36 DEF Invite
<1>37. CASE SendFails(r)
  BY <1>1, <1>2, <1>3, <1>37 DEF SendFails
<1>38. QED
  BY <1>4, <1>5, <1>6, <1>7, <1>8, <1>9, <1>10, <1>11, <1>12, <1>13, <1>14, <1>15,
     <1>16, <1>17, <1>18, <1>19, <1>20, <1>21, <1>22, <1>23, <1>24, <1>25, <1>26,
     <1>27, <1>28, <1>29, <1>30, <1>31, <1>32, <1>33, <1>34, <1>35, <1>36, <1>37 DEF
     Step

\* Only synchronising leads to a success, and it publishes the room as it is.
LEMMA OwnPublishedInv ==
    ASSUME ViewInv, NEW r \in Reqs, Receive(r) \/ Step(r)
    PROVE  PublishedInv(r)'
<1> USE DEF PublishedInv, Goto, Leave, Reject, node, locals
<1>1. TypeOK /\ RoomKnown /\ RoomInv /\ SectionInv(r) /\ PublishedInv(r) /\ PutInv(r)
  BY DEF ViewInv, IInv, TypeInv, RoomInv
<1>2. CASE Sync(r)
  <2>1. published' = Snapshot(room[r]) /\ UNCHANGED <<current, aff, conf, life>>
    BY <1>2 DEF Sync
  <2>2. Actual' = Actual
    BY <2>1 DEF Actual, Snapshot
  <2>3. Snapshot(room[r]) = Actual
    <3>1. CASE IsPut(r)
      BY <1>1, <1>2, <3>1, RequestAssumption DEF PutInv, Working, Sync, Actual
    <3>2. CASE ~IsPut(r) /\ req[r].kind = "destroy"
      BY <1>1, <1>2, <3>2 DEF SectionInv, Sync, Actual, Snapshot
    <3>3. CASE ~IsPut(r) /\ req[r].kind # "destroy"
      BY <1>1, <1>2, <3>3, RequestAssumption DEF SectionInv, RoomKnown, Sync, Actual,
         Insts
    <3>4. QED
      BY <3>1, <3>2, <3>3
  <2>4. QED
    BY <2>1, <2>2, <2>3
<1>3. CASE Invite(r)
  <2>1. UNCHANGED <<current, aff, conf, life, published>>
    BY <1>3 DEF Invite
  <2>2. Actual' = Actual
    BY <2>1 DEF Actual, Snapshot
  <2>3. QED
    BY <1>1, <1>3, <2>1, <2>2 DEF Invite
<1>4. ~Sync(r) /\ ~Invite(r) => pc'[r] # "invite" /\ ~(pc'[r] = "release" /\ result'[r] = "ok")
  <2> SUFFICES ASSUME ~Sync(r), ~Invite(r)
               PROVE  pc'[r] # "invite" /\ ~(pc'[r] = "release" /\ result'[r] = "ok")
    OBVIOUS
  <2>1. pc[r] \notin {"invite", "release", "done"} => result[r] = "none"
    BY <1>1 DEF SectionInv, PutInv
  <2>2. pc[r] # "invite"
    BY DEF Step, Receive, Reject, RejectDuplicates, CheckService, CreateService,
           LoseServiceRace, NoService, GetLock, Lock, Release, FindRoom, NoSuchRoom,
           OpenExisting, OpenNew, RefuseNew, Configure, KeepRoles, SetRoles, NextList,
           Open, Assign, AssignConflict, AssignRefused, AssignDone, Strip,
           StripConflict, SendFails, StripDone, DiffAdd, DiffRemove, CheckAffiliation,
           DestroyRoom, ReadList
  <2> USE DEF TypeOK
  <2>3. CASE Receive(r)
    BY <1>1, <2>1, <2>2, <2>3 DEF Receive
  <2>4. CASE RejectDuplicates(r)
    BY <1>1, <2>1, <2>2, <2>4 DEF RejectDuplicates
  <2>5. CASE CheckService(r)
    BY <1>1, <2>1, <2>2, <2>5 DEF CheckService
  <2>6. CASE CreateService(r)
    BY <1>1, <2>1, <2>2, <2>6 DEF CreateService
  <2>7. CASE LoseServiceRace(r)
    BY <1>1, <2>1, <2>2, <2>7 DEF LoseServiceRace
  <2>8. CASE NoService(r)
    BY <1>1, <2>1, <2>2, <2>8 DEF NoService
  <2>9. CASE GetLock(r)
    BY <1>1, <2>1, <2>2, <2>9 DEF GetLock
  <2>10. CASE Lock(r)
    BY <1>1, <2>1, <2>2, <2>10 DEF Lock
  <2>11. CASE Release(r)
    BY <1>1, <2>1, <2>2, <2>11 DEF Release
  <2>12. CASE FindRoom(r)
    BY <1>1, <2>1, <2>2, <2>12, WantedType DEF FindRoom, RequestType, Kinds, IsPut,
       IsDelta
  <2>13. CASE NoSuchRoom(r)
    BY <1>1, <2>1, <2>2, <2>13 DEF NoSuchRoom
  <2>14. CASE OpenExisting(r)
    BY <1>1, <2>1, <2>2, <2>14 DEF OpenExisting
  <2>15. CASE OpenNew(r)
    BY <1>1, <2>1, <2>2, <2>15 DEF OpenNew
  <2>16. CASE RefuseNew(r)
    BY <1>1, <2>1, <2>2, <2>16 DEF RefuseNew
  <2>17. CASE Configure(r)
    BY <1>1, <2>1, <2>2, <2>17 DEF Configure
  <2>18. CASE KeepRoles(r)
    BY <1>1, <2>1, <2>2, <2>18 DEF KeepRoles
  <2>19. CASE SetRoles(r)
    BY <1>1, <2>1, <2>2, <2>19 DEF SetRoles, BeginList
  <2>20. CASE NextList(r)
    BY <1>1, <2>1, <2>2, <2>20 DEF NextList, BeginList
  <2>21. CASE Open(r)
    BY <1>1, <2>1, <2>2, <2>21 DEF Open
  <2>22. CASE Assign(r)
    BY <1>1, <2>1, <2>2, <2>22 DEF Assign
  <2>23. CASE AssignConflict(r)
    BY <1>1, <2>1, <2>2, <2>23 DEF AssignConflict
  <2>24. CASE AssignRefused(r)
    BY <1>1, <2>1, <2>2, <2>24 DEF AssignRefused
  <2>25. CASE AssignDone(r)
    BY <1>1, <2>1, <2>2, <2>25 DEF AssignDone
  <2>26. CASE Strip(r)
    BY <1>1, <2>1, <2>2, <2>26 DEF Strip
  <2>27. CASE StripConflict(r)
    BY <1>1, <2>1, <2>2, <2>27 DEF StripConflict
  <2>28. CASE StripDone(r)
    BY <1>1, <2>1, <2>2, <2>28 DEF StripDone
  <2>29. CASE DiffAdd(r)
    BY <1>1, <2>1, <2>2, <2>29 DEF DiffAdd
  <2>30. CASE DiffRemove(r)
    BY <1>1, <2>1, <2>2, <2>30 DEF DiffRemove
  <2>31. CASE CheckAffiliation(r)
    BY <1>1, <2>1, <2>2, <2>31 DEF CheckAffiliation
  <2>32. CASE DestroyRoom(r)
    BY <1>1, <2>1, <2>2, <2>32 DEF DestroyRoom
  <2>33. CASE ReadList(r)
    BY <1>1, <2>1, <2>2, <2>33 DEF ReadList
  <2>34. CASE SendFails(r)
    BY <1>1, <2>1, <2>2, <2>34 DEF SendFails
  <2>35. QED
    BY <2>3, <2>4, <2>5, <2>6, <2>7, <2>8, <2>9, <2>10, <2>11, <2>12, <2>13, <2>14,
       <2>15, <2>16, <2>17, <2>18, <2>19, <2>20, <2>21, <2>22, <2>23, <2>24, <2>25,
       <2>26, <2>27, <2>28, <2>29, <2>30, <2>31, <2>32, <2>33, <2>34 DEF Step
<1>5. QED
  BY <1>2, <1>3, <1>4

\* The invariant that the refinement rests on holds throughout.
LEMMA ViewInvariant ==
    ASSUME MutexSettings = {TRUE}
    PROVE  Spec => []ViewInv
<1>1. Init => OwnersInv /\ \A r \in Reqs : SectionInv(r) /\ PublishedInv(r)
  BY InitView
<1>2. ViewInv /\ [Next]_vars
      => OwnersInv' /\ (\A r \in Reqs : SectionInv(r) /\ PublishedInv(r))'
  <2> SUFFICES ASSUME ViewInv, [Next]_vars
               PROVE  OwnersInv' /\ (\A r \in Reqs : SectionInv(r) /\ PublishedInv(r))'
    OBVIOUS
  <2>1. ASSUME NEW r \in Reqs, Receive(r) \/ Step(r)
        PROVE  OwnersInv' /\ (\A s \in Reqs : SectionInv(s) /\ PublishedInv(s))'
    <3>1. ASSUME NEW s \in Reqs, s # r PROVE SectionInv(s)' /\ PublishedInv(s)'
      BY <2>1, <3>1, OtherSectionInv
    <3>2. SectionInv(r)'
      <4>1. CASE IsPut(r)
        <5>1. IsPut(r)'
          BY <2>1, <4>1, AskedStays DEF IsPut
        <5>2. QED
          BY <5>1 DEF SectionInv
      <4>2. CASE ~IsPut(r)
        BY <2>1, <4>2, OwnSectionInv
      <4>3. QED
        BY <4>1, <4>2
    <3>3. PublishedInv(r)'
      BY <2>1, OwnPublishedInv
    <3>4. OwnersInv'
      BY <2>1, OwnersStep
    <3>5. QED
      BY <3>1, <3>2, <3>3, <3>4
  <2>2. CASE UNCHANGED <<node, req, pc, locals, result>>
    <3> USE <2>2 DEF node, locals
    <3>1. OwnersInv'
      BY DEF ViewInv, OwnersInv
    <3>2. Actual' = Actual
      BY DEF Actual, Snapshot
    <3>3. ASSUME NEW s \in Reqs PROVE SectionInv(s)' /\ PublishedInv(s)'
      <4>1. IsPut(s)' = IsPut(s) /\ IsDelta(s)' = IsDelta(s)
        BY DEF IsPut, IsDelta
      <4>2. QED
        BY <3>2, <4>1 DEF ViewInv, SectionInv, PublishedInv
    <3>4. QED
      BY <3>1, <3>3
  <2>3. QED
    BY <2>1, <2>2 DEF Next, SetMutex, Drained, vars
<1>3. QED
  BY <1>1, <1>2, TypeCorrect, LockInvariant, AllMutexInvariant, RoomInvariant, PTL
     DEF Spec, ViewInv, IInv

\* While the property stays on, whatever a request changed is what the other nodes
\* see when it reports success, a destroyed room included.
THEOREM SuccessIsSeen ==
    ASSUME MutexSettings = {TRUE}
    PROVE  Spec => []SuccessIsPublished
<1>1. ViewInv => SuccessIsPublished
  BY DEF ViewInv, PublishedInv, Actual, SuccessIsPublished
<1>2. QED
  BY <1>1, ViewInvariant, PTL

\* While the property stays on, no section changes an instance that the name does
\* not yield any more, in the second section of a replace or add included.
THEOREM ChangesAreMadeWhereTheyCount ==
    ASSUME MutexSettings = {TRUE}
    PROVE  Spec => []ChangesTheRoomThatIs
<1>1. ViewInv => ChangesTheRoomThatIs
  <2> SUFFICES ASSUME ViewInv, NEW r \in Reqs,
                      \/ pc[r] \in {"configure", "compare", "assign", "strip", "open",
                                    "check", "destroy"}
                      \/ pc[r] = "sync" /\ req[r].kind # "destroy"
               PROVE  room[r] = current
    BY DEF ChangesTheRoomThatIs
  <2>1. SectionInv(r) /\ PutInv(r)
    BY DEF ViewInv, IInv, RoomInv
  <2>2. CASE IsPut(r)
    BY <2>1, <2>2 DEF PutInv, Working
  <2>3. CASE ~IsPut(r)
    BY <2>1, <2>3 DEF SectionInv
  <2>4. QED
    BY <2>2, <2>3
<1>2. QED
  BY <1>1, ViewInvariant, PTL

-----------------------------------------------------------------------------
(* The refinement. *)

\* ClusterView speaks of affiliations as RoomRequests does.
LEMMA SameOperators ==
    /\ Cluster!Lists = Lists /\ Cluster!Affs = Affs
    /\ \A a, l : Cluster!Holding(a, l) = Holding(a, l)
    /\ \A w : Cluster!WithDefaultOwner(w) = WithDefaultOwner(w)
    /\ \A a, w : Cluster!EqualToAffiliations(a, w) = EqualToAffiliations(a, w)
BY DEF Cluster!Lists, Lists, Cluster!Affs, Affs, Cluster!Holding, Holding,
       Cluster!WithDefaultOwner, WithDefaultOwner, Cluster!EqualToAffiliations,
       EqualToAffiliations

\* Initial states map to initial states.
LEMMA InitMaps == Init => Cluster!Init
<1> SUFFICES ASSUME Init PROVE Cluster!Init
  OBVIOUS
<1>1. TypeOK
  BY InitTypes DEF TypeInv
<1>2. QED
  BY <1>1, SameOperators DEF Init, TypeOK, Cluster!Init, Cluster!Rooms

\* What a request shows when it synchronises the room is one of its outcomes.
LEMMA SyncShowsAnOutcome ==
    ASSUME ViewInv, NEW r \in Reqs, Sync(r)
    PROVE  published' \in Cluster!Outcomes(req[r]) /\ req[r].kind # "get" /\ result[r] = "none"
<1>1. TypeOK /\ RoomKnown /\ RoomInv /\ OwnersInv /\ SectionInv(r) /\ PutInv(r)
  BY DEF ViewInv, IInv, TypeInv, RoomInv
<1>2. /\ pc[r] = "sync" /\ published' = Snapshot(room[r])
      /\ room[r] \in Insts /\ room[r] # NoRoom
  BY <1>1, RequestAssumption DEF Sync, RoomKnown, Insts
<1>3. req[r].kind # "get" /\ result[r] = "none"
  BY <1>1, <1>2 DEF SectionInv, PutInv, IsPut
<1>4. CASE req[r].kind = "destroy"
  <2>1. ~IsPut(r)
    BY <1>4 DEF IsPut
  <2>2. Snapshot(room[r]) = NoRoom
    BY <1>1, <1>2, <1>4, <2>1 DEF SectionInv, Snapshot
  <2>3. QED
    BY <1>2, <1>3, <1>4, <2>2 DEF Cluster!Outcomes
<1>5. CASE req[r].kind # "destroy"
  <2>1. current = room[r]
    BY <1>1, <1>2, <1>5 DEF SectionInv, PutInv, Working
  <2>2. life[room[r]] \in {"locked", "open"}
    BY <1>1, <1>2, <2>1 DEF RoomInv, CurrentAlive
  <2>3. published' = [aff |-> aff[room[r]], conf |-> conf[room[r]]]
    BY <1>2, <2>2 DEF Snapshot
  <2>4. published' \in Cluster!Rooms
    BY <1>1, <1>2, <2>3, SameOperators DEF TypeOK, Cluster!Rooms
  <2>5. Holding(published'.aff, "owner") # {}
    BY <1>1, <1>2, <2>2, <2>3 DEF OwnersInv
  <2>6. ASSUME req[r].kind \in {"create", "update"} PROVE Cluster!Exact(req[r], published')
    <3>1. IsPut(r)
      BY <2>6 DEF IsPut
    <3>2. conf[room[r]] = req[r].conf
      BY <1>1, <1>2, <3>1 DEF PutInv, Working
    <3>3. Disjoint(Wanted(r)) => EqualToAffiliations(aff[room[r]], Wanted(r))
      BY <1>1, <1>2, <3>1 DEF PutInv, Progress, Working
    <3>4. QED
      BY <2>3, <3>2, <3>3, SameOperators
         DEF Cluster!Exact, Cluster!HasExactRoom, Disjoint, Wanted
  <2>7. ASSUME req[r].kind = "remove"
        PROVE  \A j \in req[r].jids : published'.aff[j] = "none"
    BY <1>1, <1>2, <2>3, <2>7 DEF SectionInv, IsPut
  <2>8. QED
    BY <1>3, <1>5, <2>4, <2>5, <2>6, <2>7, SameOperators DEF Cluster!Outcomes
<1>6. QED
  BY <1>4, <1>5

\* A step of a request maps to its success, to its failure or to no step.
LEMMA StepMaps ==
    ASSUME ViewInv, NEW r \in Reqs, Receive(r) \/ Step(r)
    PROVE  Cluster!Succeed(r) \/ Cluster!Fail(r) \/ UNCHANGED Cluster!vars
<1> USE DEF Goto, Leave, Reject, node, locals, Cluster!vars, Cluster!Failures
<1>1. TypeOK /\ SectionInv(r) /\ PutInv(r) /\ RoomKnown
  BY DEF ViewInv, IInv, TypeInv, RoomInv
<1>2. pc[r] \notin {"invite", "release", "done"} => result[r] = "none"
  BY <1>1 DEF SectionInv, PutInv
<1>3. CASE Sync(r)
  BY <1>3, SyncShowsAnOutcome DEF Sync, Cluster!Succeed
<1>4. CASE ReadList(r)
  <2>1. req[r].kind = "get" /\ result[r] = "none" /\ UNCHANGED <<published, req>>
    BY <1>1, <1>2, <1>4 DEF ReadList, SectionInv, PutInv
  <2>2. CASE list[r] = "outcast"
    BY <1>4, <2>1, <2>2 DEF ReadList, Cluster!Succeed
  <2>3. CASE list[r] # "outcast"
    BY <1>4, <2>1, <2>3 DEF ReadList
  <2>4. QED
    BY <2>2, <2>3
<1>5. CASE Configure(r)
  BY <1>2, <1>5 DEF Configure, Cluster!Fail
<1>6. CASE CheckAffiliation(r)
  BY <1>2, <1>6 DEF CheckAffiliation, Cluster!Fail
<1>7. CASE \/ RejectDuplicates(r) \/ LoseServiceRace(r) \/ NoService(r) \/ NoSuchRoom(r)
           \/ RefuseNew(r) \/ AssignConflict(r) \/ AssignRefused(r) \/ StripConflict(r)
           \/ SendFails(r)
  BY <1>2, <1>7 DEF RejectDuplicates, LoseServiceRace, NoService, NoSuchRoom, RefuseNew,
     AssignConflict, AssignRefused, StripConflict, SendFails, Cluster!Fail
<1>8. CASE \/ Receive(r) \/ CheckService(r) \/ CreateService(r) \/ GetLock(r) \/ Lock(r)
           \/ Release(r) \/ FindRoom(r) \/ OpenExisting(r) \/ OpenNew(r) \/ KeepRoles(r)
           \/ SetRoles(r) \/ NextList(r) \/ Open(r) \/ Assign(r) \/ AssignDone(r)
           \/ Strip(r) \/ StripDone(r) \/ DiffAdd(r) \/ DiffRemove(r) \/ DestroyRoom(r)
           \/ Invite(r)
  BY <1>8 DEF Receive, CheckService, CreateService, GetLock, Lock, Release, FindRoom,
     OpenExisting, OpenNew, KeepRoles, SetRoles, NextList, Open, Assign, AssignDone, Strip,
     StripDone, DiffAdd, DiffRemove, DestroyRoom, Invite
<1>9. QED
  BY <1>3, <1>4, <1>5, <1>6, <1>7, <1>8 DEF Step

\* While the property stays on, the other nodes see every request as one step.
THEOREM ShowsAtomically ==
    ASSUME MutexSettings = {TRUE}
    PROVE  Spec => ShownAtomically
<1>1. ViewInv /\ [Next]_vars => [Cluster!Next]_(Cluster!vars)
  <2> SUFFICES ASSUME ViewInv, [Next]_vars PROVE [Cluster!Next]_(Cluster!vars)
    OBVIOUS
  <2>1. ASSUME NEW r \in Reqs, Receive(r) \/ Step(r)
        PROVE  [Cluster!Next]_(Cluster!vars)
    BY <2>1, StepMaps DEF Cluster!Next
  <2>2. CASE UNCHANGED <<node, req, pc, locals, result>>
    BY <2>2 DEF node, Cluster!vars
  <2>3. QED
    BY <2>1, <2>2 DEF Next, SetMutex, Drained, vars
<1>2. QED
  BY <1>1, InitMaps, ViewInvariant, PTL DEF Spec, ShownAtomically, Cluster!Spec
=============================================================================
