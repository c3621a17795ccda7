------------------------ MODULE RoomRequests_proofs ------------------------
(***************************************************************************)
(* Proofs about RoomRequests, for every set of requests, addresses,        *)
(* configurations and initial rooms.                                       *)
(***************************************************************************)
EXTENDS RoomRequests, TLAPS

-----------------------------------------------------------------------------
(* Types.  That a published snapshot is a snapshot of a room needs one more
   fact: a thread that works on a room has one. *)

RoomKnown ==
    \A r \in Reqs :
        /\ pc[r] \in {"configure", "compare", "assign", "strip", "open", "check",
                      "destroy", "sync", "invite", "read"}
           => room[r] \in Insts
        /\ pc[r] \in {"diffAdd", "diffRemove"} => old[r] \in Insts
        /\ pc[r] = "invite" => result[r] = "ok"
        /\ pc[r] = "release" /\ result[r] = "none"
           => /\ req[r].kind = "get" => room[r] \in Insts
              /\ req[r].kind # "get" => old[r] \in Insts

TypeInv == TypeOK /\ RoomKnown

\* The lists that are computed are lists of addresses.
LEMMA ListTypes ==
    /\ \A l \in Lists : NextOf(l) \in Lists /\ InviteAfter(l) \in Lists
    /\ \A w \in [Lists -> SUBSET Jids] : WithDefaultOwner(w) \in [Lists -> SUBSET Jids]
    /\ \A a, l : Holding(a, l) \subseteq Jids /\ Affiliated(a) \subseteq Jids
    /\ \A a \in [Jids -> Affs], j \in Jids, l \in Affs : Move(a, j, l) \in [Jids -> Affs]
BY JidAssumption
   DEF Lists, Affs, NextOf, InviteAfter, WithDefaultOwner, Holding, Affiliated, Move

\* What a put wants, and what is asked, have their types.
LEMMA WantedType ==
    ASSUME TypeOK, NEW r \in Reqs
    PROVE  /\ Wanted(r) \in [Lists -> SUBSET Jids]
           /\ req[r] \in RequestType
BY ListTypes, RequestAssumption DEF TypeOK, Wanted, RequestType

\* The types hold at first.
LEMMA InitTypes == Init => TypeInv
<1> SUFFICES ASSUME Init PROVE TypeInv
  OBVIOUS
<1>1. Unaffiliated \in [Jids -> Affs]
  BY DEF Unaffiliated, Affs
<1>2. RoomKnown
  BY DEF Init, RoomKnown
<1>3. /\ registered \in BOOLEAN /\ current \in Insts \cup {NoRoom}
      /\ aff \in [Insts -> [Jids -> Affs]]
      /\ life \in [Insts -> {"unborn", "locked", "open", "destroyed"}]
      /\ published \in [aff : [Jids -> Affs], conf : Confs] \cup {NoRoom}
  <2>1. PICK a \in InitialRooms :
          IF a = NoRoom
          THEN /\ registered \in BOOLEAN /\ current = NoRoom
               /\ aff = [i \in Insts |-> Unaffiliated]
               /\ life = [i \in Insts |-> "unborn"]
               /\ published = NoRoom
          ELSE /\ registered = TRUE /\ current = Original
               /\ aff = [i \in Insts |-> IF i = Original THEN a ELSE Unaffiliated]
               /\ life = [i \in Insts |-> IF i = Original THEN "open" ELSE "unborn"]
               /\ published = [aff |-> a, conf |-> DefaultConf]
    BY DEF Init
  <2>2. CASE a = NoRoom
    BY <1>1, <2>1, <2>2
  <2>3. CASE a # NoRoom
    <3>1. a \in [Jids -> Affs] /\ DefaultConf \in Confs
      BY <2>3, RequestAssumption
    <3>2. QED
      BY <1>1, <2>1, <2>3, <3>1 DEF Insts
  <2>4. QED
    BY <2>2, <2>3
<1>4. QED
  BY <1>2, <1>3, RequestAssumption DEF Init, TypeInv, TypeOK, Insts, Labels, Codes,
     Lists

\* Each step keeps the types.  (ListTypes and WantedType: the new values.)
LEMMA RequestStepTypes ==
    ASSUME TypeInv, NEW r \in Reqs, Receive(r) \/ Step(r)
    PROVE  TypeInv'
<1> USE DEF TypeInv, TypeOK, RoomKnown, node, locks, locals, Goto, Leave, Reject,
            Labels, Codes
<1>1. /\ Wanted(r) \in [Lists -> SUBSET Jids] /\ req[r] \in RequestType
      /\ Insts = Reqs \cup {Original}
  BY WantedType DEF Insts
<1>2. CASE Receive(r)
  BY <1>1, <1>2 DEF Receive
<1>3. CASE RejectDuplicates(r)
  BY <1>1, <1>3 DEF RejectDuplicates
<1>4. CASE CheckService(r)
  BY <1>1, <1>4 DEF CheckService
<1>5. CASE CreateService(r)
  BY <1>1, <1>5 DEF CreateService
<1>6. CASE LoseServiceRace(r)
  BY <1>1, <1>6 DEF LoseServiceRace
<1>7. CASE NoService(r)
  BY <1>1, <1>7 DEF NoService
<1>8. CASE GetLock(r)
  BY <1>1, <1>8 DEF GetLock
<1>9. CASE Lock(r)
  BY <1>1, <1>9 DEF Lock
<1>10. CASE Release(r)
  BY <1>1, <1>10 DEF Release
<1>11. CASE FindRoom(r)
  <2>1. current \in Insts
    BY <1>11, <1>1 DEF FindRoom
  <2>2. req[r].kind \in {"replace", "add", "remove", "destroy", "get"}
    BY <1>11, <1>1 DEF FindRoom, IsPut, RequestType, Kinds
  <2>3. /\ pc' \in [Reqs -> Labels]
        /\ pc'[r] \in {"release", "assign", "check", "destroy"}
        /\ pc'[r] = "release" => req[r].kind = "get" \/ old'[r] = current
    BY <1>11, <2>1, <2>2 DEF FindRoom, IsDelta
  <2>4. list' \in [Reqs -> Lists]
    BY <1>11, <1>1 DEF FindRoom, RequestType, Lists
  <2>5. room' \in [Reqs -> Insts \cup {NoRoom}] /\ old' \in [Reqs -> Insts \cup {NoRoom}]
    BY <1>11, <1>1, <2>1 DEF FindRoom
  <2>6. TypeOK'
    BY <1>11, <1>1, <2>3, <2>4, <2>5 DEF FindRoom
  <2>7. /\ room'[r] = current
        /\ \A s \in Reqs \ {r} : pc'[s] = pc[s] /\ room'[s] = room[s] /\ old'[s] = old[s]
    BY <1>11 DEF FindRoom
  <2>8. RoomKnown'
    <3>1. UNCHANGED <<req, result>>
      BY <1>11 DEF FindRoom
    <3>2. ASSUME NEW s \in Reqs, s # r PROVE RoomKnown!(s)'
      BY <2>7, <3>1, <3>2
    <3>3. RoomKnown!(r)'
      BY <2>1, <2>3, <2>7, <3>1
    <3>4. QED
      BY <3>2, <3>3
  <2>9. QED
    BY <2>6, <2>8
<1>12. CASE NoSuchRoom(r)
  BY <1>1, <1>12 DEF NoSuchRoom
<1>13. CASE OpenExisting(r)
  BY <1>1, <1>13 DEF OpenExisting
<1>14. CASE OpenNew(r)
  <2>1. PICK first \in Wanted(r)["owner"] \ Groups :
          aff' = [aff EXCEPT ![r] = Move(Unaffiliated, first, "owner")]
    BY <1>14 DEF OpenNew
  <2>2. first \in Jids
    BY <1>1, <2>1 DEF Lists
  <2>3. Move(Unaffiliated, first, "owner") \in [Jids -> Affs]
    BY <2>2 DEF Move, Unaffiliated, Affs, Lists
  <2>4. QED
    BY <1>14, <1>1, <2>1, <2>3 DEF OpenNew
<1>15. CASE RefuseNew(r)
  BY <1>1, <1>15 DEF RefuseNew
<1>16. CASE Configure(r)
  <2>1. req[r].conf \in Confs
    BY <1>1 DEF RequestType
  <2>2. conf' \in [Insts -> Confs] /\ room[r] \in Insts
    BY <1>16, <1>1, <2>1 DEF Configure
  <2>3. \/ pc' = [pc EXCEPT ![r] = "compare"] /\ result' = result
        \/ /\ pc' = [pc EXCEPT ![r] = "release"]
           /\ result' = [result EXCEPT ![r] = "500"]
    BY <1>16 DEF Configure
  <2>4. TypeOK'
    BY <1>16, <2>2, <2>3 DEF Configure
  <2>5. RoomKnown'
    BY <1>16, <2>2, <2>3 DEF Configure
  <2>6. QED
    BY <2>4, <2>5
<1>17. CASE KeepRoles(r)
  BY <1>1, <1>17 DEF KeepRoles
<1>18. CASE SetRoles(r)
  <2>1. /\ list' \in [Reqs -> Lists]
        /\ work' \in [Reqs -> SUBSET Jids] /\ reset' \in [Reqs -> SUBSET Jids]
    BY <1>18, <1>1, ListTypes DEF SetRoles, BeginList, Lists
  <2>2. QED
    BY <1>18, <1>1, <2>1 DEF SetRoles
<1>19. CASE NextList(r)
  <2>1. NextOf(list[r]) \in Lists
    BY ListTypes
  <2>2. /\ list' \in [Reqs -> Lists]
        /\ work' \in [Reqs -> SUBSET Jids] /\ reset' \in [Reqs -> SUBSET Jids]
    BY <1>19, <1>1, <2>1, ListTypes DEF NextList, BeginList
  <2>3. QED
    BY <1>19, <1>1, <2>2 DEF NextList
<1>20. CASE Open(r)
  BY <1>1, <1>20 DEF Open
<1>21. CASE Assign(r)
  <2>1. PICK j \in work[r] :
          /\ aff' = [aff EXCEPT ![room[r]] = Move(@, j, list[r])]
          /\ work' = [work EXCEPT ![r] = @ \ {j}]
          /\ added' = [added EXCEPT ![r] = @ \cup {j}]
    BY <1>21 DEF Assign
  <2>2. j \in Jids /\ list[r] \in Affs
    BY <2>1 DEF Affs
  <2>3. aff' \in [Insts -> [Jids -> Affs]]
    BY <2>1, <2>2 DEF Move
  <2>4. QED
    BY <1>21, <1>1, <2>1, <2>2, <2>3 DEF Assign
<1>22. CASE AssignConflict(r)
  BY <1>1, <1>22 DEF AssignConflict
<1>23. CASE AssignRefused(r)
  BY <1>1, <1>23 DEF AssignRefused
<1>24. CASE AssignDone(r)
  BY <1>1, <1>24 DEF AssignDone
<1>25. CASE Strip(r)
  <2>1. PICK j \in reset[r] :
          /\ aff' = [aff EXCEPT ![room[r]] = Move(@, j, "none")]
          /\ reset' = [reset EXCEPT ![r] = @ \ {j}]
    BY <1>25 DEF Strip
  <2>2. aff' \in [Insts -> [Jids -> Affs]]
    BY <2>1 DEF Move, Affs
  <2>3. QED
    BY <1>25, <1>1, <2>1, <2>2 DEF Strip
<1>26. CASE StripConflict(r)
  BY <1>1, <1>26 DEF StripConflict
<1>27. CASE StripDone(r)
  BY <1>1, <1>27 DEF StripDone
<1>28. CASE DiffAdd(r)
  <2>1. work' \in [Reqs -> SUBSET Jids]
    BY <1>28, <1>1 DEF DiffAdd, RequestType
  <2>2. QED
    BY <1>28, <1>1, <2>1 DEF DiffAdd
<1>29. CASE DiffRemove(r)
  <2>1. reset' \in [Reqs -> SUBSET Jids]
    BY <1>29, <1>1, ListTypes DEF DiffRemove
  <2>2. QED
    BY <1>29, <1>1, <2>1 DEF DiffRemove
<1>30. CASE CheckAffiliation(r)
  <2>1. reset' \in [Reqs -> SUBSET Jids]
    BY <1>30, <1>1 DEF CheckAffiliation, RequestType
  <2>2. \/ pc' = [pc EXCEPT ![r] = "strip"] /\ result' = result
        \/ /\ pc' = [pc EXCEPT ![r] = "release"]
           /\ result' = [result EXCEPT ![r] = "409"]
    BY <1>30 DEF CheckAffiliation
  <2>3. TypeOK'
    BY <1>30, <2>1, <2>2 DEF CheckAffiliation
  <2>4. RoomKnown'
    BY <1>30, <2>2 DEF CheckAffiliation
  <2>5. QED
    BY <2>3, <2>4
<1>31. CASE DestroyRoom(r)
  BY <1>1, <1>31 DEF DestroyRoom
<1>32. CASE ReadList(r)
  <2>1. list' \in [Reqs -> Lists]
    BY <1>32, ListTypes DEF ReadList
  <2>2. view' \in [Reqs -> [Lists -> SUBSET Jids]]
    BY <1>32, ListTypes DEF ReadList
  <2>3. \/ pc' = pc /\ result' = result
        \/ /\ pc' = [pc EXCEPT ![r] = "done"]
           /\ result' = [result EXCEPT ![r] = "ok"]
    BY <1>32 DEF ReadList
  <2>4. TypeOK'
    BY <1>32, <2>1, <2>2, <2>3 DEF ReadList
  <2>5. RoomKnown'
    BY <1>32, <2>3 DEF ReadList
  <2>6. QED
    BY <2>4, <2>5
<1>33. CASE Sync(r)
  <2>1. published' \in [aff : [Jids -> Affs], conf : Confs] \cup {NoRoom}
    BY <1>33, <1>1 DEF Sync, Snapshot
  <2>2. list' \in [Reqs -> Lists]
    BY <1>33 DEF Sync, Lists
  <2>3. QED
    BY <1>33, <1>1, <2>1, <2>2 DEF Sync
<1>34. CASE Invite(r)
  <2>1. list' \in [Reqs -> Lists]
    BY <1>34, ListTypes DEF Invite
  <2>2. (added[r] \cap Holding(aff[room[r]], list[r])) \X {list[r]} \subseteq Jids \X Lists
    BY ListTypes
  <2>3. invited' \in [Reqs -> SUBSET (Jids \X Lists)]
    BY <1>34, <2>2 DEF Invite
  <2>4. QED
    BY <1>34, <1>1, <2>1, <2>3 DEF Invite
<1>35. CASE SendFails(r)
  BY <1>1, <1>35 DEF SendFails
<1>36. QED
  BY <1>2, <1>3, <1>4, <1>5, <1>6, <1>7, <1>8, <1>9, <1>10, <1>11, <1>12, <1>13, <1>14,
     <1>15, <1>16, <1>17, <1>18, <1>19, <1>20, <1>21, <1>22, <1>23, <1>24, <1>25,
     <1>26, <1>27, <1>28, <1>29, <1>30, <1>31, <1>32, <1>33, <1>34, <1>35 DEF Step

\* Every step, a flip of the property included, keeps the types.
LEMMA NextTypes == TypeInv /\ [Next]_vars => TypeInv'
<1> SUFFICES ASSUME TypeInv, [Next]_vars PROVE TypeInv'
  OBVIOUS
<1>1. ASSUME NEW r \in Reqs, Receive(r) \/ Step(r) PROVE TypeInv'
  BY <1>1, RequestStepTypes
<1>2. CASE SetMutex
  BY <1>2 DEF SetMutex, TypeInv, TypeOK, RoomKnown, node, locals
<1>3. CASE UNCHANGED vars
  BY <1>3 DEF vars, node, locks, locals, TypeInv, TypeOK, RoomKnown
<1>4. QED
  BY <1>1, <1>2, <1>3 DEF Next, Drained

\* Type correctness: every variable keeps its type in every behaviour, and a
\* thread that works on a room has one.
THEOREM TypeCorrect == Spec => []TypeInv
BY InitTypes, NextTypes, PTL DEF Spec

\* The type invariant that the runs check.
THEOREM TypeSafety == Spec => []TypeOK
<1>1. TypeInv => TypeOK
  BY DEF TypeInv
<1>2. QED
  BY <1>1, TypeCorrect, PTL

-----------------------------------------------------------------------------
(* The mutex. *)

\* A request has a lock, granted or not yet, exactly at the labels between
\* getLock and the end of unlock; it owns the mutex exactly inside.
LockInv ==
    \A r \in Reqs :
        /\ pc[r] \in Inside \cup {"lock"} <=> token[r] # "none"
        /\ (pc[r] \in Inside /\ token[r] = "mutex") <=> mutex = r

\* A step of r that neither asks for, takes nor returns a lock.
SameSide(r) ==
    /\ UNCHANGED <<useMutex, mutex, token>>
    /\ \A s \in Reqs \ {r} : pc'[s] = pc[s]
    /\ pc[r] # "lock" /\ pc'[r] # "lock"
    /\ pc[r] \in Inside <=> pc'[r] \in Inside

\* A step that neither takes nor gives back a lock stays on its side of it.
LEMMA SameSideSteps ==
    ASSUME TypeInv, NEW r \in Reqs, Receive(r) \/ Step(r),
           ~GetLock(r), ~Lock(r), ~Release(r)
    PROVE  SameSide(r)
<1> USE DEF SameSide, Inside, locks, Goto, Leave, Reject
<1>1. /\ pc \in [Reqs -> Labels] /\ req[r].kind \in Kinds
  BY WantedType DEF TypeInv, TypeOK, RequestType
<1>2. CASE Receive(r)
  BY <1>1, <1>2 DEF Receive
<1>3. CASE RejectDuplicates(r)
  BY <1>1, <1>3 DEF RejectDuplicates
<1>4. CASE CheckService(r)
  BY <1>1, <1>4 DEF CheckService
<1>5. CASE CreateService(r)
  BY <1>1, <1>5 DEF CreateService
<1>6. CASE LoseServiceRace(r)
  BY <1>1, <1>6 DEF LoseServiceRace
<1>7. CASE NoService(r)
  BY <1>1, <1>7 DEF NoService
<1>8. CASE FindRoom(r)
  BY <1>1, <1>8 DEF FindRoom, IsPut, IsDelta, Kinds
<1>9. CASE NoSuchRoom(r)
  BY <1>1, <1>9 DEF NoSuchRoom
<1>10. CASE OpenExisting(r)
  BY <1>1, <1>10 DEF OpenExisting
<1>11. CASE OpenNew(r)
  BY <1>1, <1>11 DEF OpenNew
<1>12. CASE RefuseNew(r)
  BY <1>1, <1>12 DEF RefuseNew
<1>13. CASE Configure(r)
  BY <1>1, <1>13 DEF Configure
<1>14. CASE KeepRoles(r)
  BY <1>1, <1>14 DEF KeepRoles
<1>15. CASE SetRoles(r)
  BY <1>1, <1>15 DEF SetRoles
<1>16. CASE NextList(r)
  BY <1>1, <1>16 DEF NextList
<1>17. CASE Open(r)
  BY <1>1, <1>17 DEF Open
<1>18. CASE Assign(r)
  BY <1>1, <1>18 DEF Assign
<1>19. CASE AssignConflict(r)
  BY <1>1, <1>19 DEF AssignConflict
<1>20. CASE AssignRefused(r)
  BY <1>1, <1>20 DEF AssignRefused
<1>21. CASE AssignDone(r)
  BY <1>1, <1>21 DEF AssignDone
<1>22. CASE Strip(r)
  BY <1>1, <1>22 DEF Strip
<1>23. CASE StripConflict(r)
  BY <1>1, <1>23 DEF StripConflict
<1>24. CASE StripDone(r)
  BY <1>1, <1>24 DEF StripDone
<1>25. CASE DiffAdd(r)
  BY <1>1, <1>25 DEF DiffAdd
<1>26. CASE DiffRemove(r)
  BY <1>1, <1>26 DEF DiffRemove
<1>27. CASE CheckAffiliation(r)
  BY <1>1, <1>27 DEF CheckAffiliation
<1>28. CASE DestroyRoom(r)
  BY <1>1, <1>28 DEF DestroyRoom
<1>29. CASE ReadList(r)
  BY <1>1, <1>29 DEF ReadList
<1>30. CASE Sync(r)
  BY <1>1, <1>30 DEF Sync
<1>31. CASE Invite(r)
  BY <1>1, <1>31 DEF Invite
<1>32. CASE SendFails(r)
  BY <1>1, <1>32 DEF SendFails
<1>33. QED
  BY <1>2, <1>3, <1>4, <1>5, <1>6, <1>7, <1>8, <1>9, <1>10, <1>11, <1>12, <1>13, <1>14,
     <1>15, <1>16, <1>17, <1>18, <1>19, <1>20, <1>21, <1>22, <1>23, <1>24, <1>25,
     <1>26, <1>27, <1>28, <1>29, <1>30, <1>31, <1>32 DEF Step

\* A step of a request keeps what is said of the locks.
LEMMA RequestStepLocks ==
    ASSUME TypeInv, LockInv, NEW r \in Reqs, Receive(r) \/ Step(r)
    PROVE  LockInv'
<1> USE DEF LockInv, Inside
<1>1. CASE GetLock(r)
  BY <1>1 DEF GetLock, Goto, TypeInv, TypeOK
<1>2. CASE Lock(r)
  BY <1>2, RequestAssumption DEF Lock, Goto, TypeInv, TypeOK
<1>3. CASE Release(r)
  BY <1>3, RequestAssumption DEF Release, Goto, TypeInv, TypeOK
<1>4. CASE SameSide(r)
  BY <1>4 DEF SameSide
<1>5. QED
  BY <1>1, <1>2, <1>3, <1>4, SameSideSteps

\* However the property is flipped, the locks are as LockInv says.
LEMMA LockInvariant == Spec => []LockInv
<1>1. Init => LockInv
  BY RequestAssumption DEF Init, LockInv, Inside
<1>2. TypeInv /\ LockInv /\ [Next]_vars => LockInv'
  <2> SUFFICES ASSUME TypeInv, LockInv, [Next]_vars PROVE LockInv'
    OBVIOUS
  <2>1. ASSUME NEW r \in Reqs, Receive(r) \/ Step(r) PROVE LockInv'
    BY <2>1, RequestStepLocks
  <2>2. CASE SetMutex
    BY <2>2 DEF SetMutex, LockInv
  <2>3. CASE UNCHANGED vars
    BY <2>3 DEF vars, locks, LockInv
  <2>4. QED
    BY <2>1, <2>2, <2>3 DEF Next, Drained
<1>3. QED
  BY <1>1, <1>2, TypeCorrect, PTL DEF Spec

\* However often the property is flipped, the mutex is owned exactly by the
\* request that took it, exactly while it is between lock and unlock.
THEOREM MutexIsHeldInside == Spec => []MutexHeldInside
<1>1. LockInv => MutexHeldInside
  BY DEF LockInv, MutexHeldInside
<1>2. QED
  BY <1>1, LockInvariant, PTL

-----------------------------------------------------------------------------
(* Exclusion: with the property on throughout, every lock is the mutex. *)

AllMutex == useMutex = TRUE /\ \A r \in Reqs : token[r] # "private"

\* With the property on throughout, getLock hands out nothing but the mutex.
LEMMA AllMutexInvariant ==
    ASSUME MutexSettings = {TRUE}
    PROVE  Spec => []AllMutex
<1>1. Init => AllMutex
  BY DEF Init, AllMutex
<1>2. TypeInv /\ AllMutex /\ [Next]_vars => AllMutex'
  <2> SUFFICES ASSUME TypeInv, AllMutex, [Next]_vars PROVE AllMutex'
    OBVIOUS
  <2> USE DEF AllMutex, TypeInv, TypeOK
  <2>1. ASSUME NEW r \in Reqs, Receive(r) \/ Step(r) PROVE AllMutex'
    <3>1. CASE GetLock(r)
      BY <3>1 DEF GetLock
    <3>2. CASE Lock(r)
      BY <3>2 DEF Lock
    <3>3. CASE Release(r)
      BY <3>3 DEF Release
    <3>4. CASE UNCHANGED <<useMutex, token>>
      BY <3>4
    <3>5. ~GetLock(r) /\ ~Lock(r) /\ ~Release(r) => UNCHANGED <<useMutex, token>>
      BY <2>1, SameSideSteps DEF SameSide
    <3>6. QED
      BY <3>1, <3>2, <3>3, <3>4, <3>5
  <2>2. CASE SetMutex
    BY <2>2 DEF SetMutex
  <2>3. CASE UNCHANGED vars
    BY <2>3 DEF vars, locks
  <2>4. QED
    BY <2>1, <2>2, <2>3 DEF Next, Drained
<1>3. QED
  BY <1>1, <1>2, TypeCorrect, PTL DEF Spec

\* When every lock is the mutex, one request at most is inside a section.
LEMMA Exclusion == TypeInv /\ LockInv /\ AllMutex => MutualExclusion
BY DEF TypeInv, TypeOK, LockInv, AllMutex, MutualExclusion, Inside

\* While the property stays on, at most one request is inside a section.
THEOREM MutexExcludes ==
    ASSUME MutexSettings = {TRUE}
    PROVE  Spec => []MutualExclusion
BY Exclusion, TypeCorrect, LockInvariant, AllMutexInvariant, PTL

-----------------------------------------------------------------------------
(* What a step leaves alone. *)

\* The variables of the thread of s.
Thread(s) == <<pc[s], room[s], list[s], work[s], reset[s], added[s], invited[s], result[s]>>

\* A step of r leaves the threads of the others alone.
LEMMA OtherThreads ==
    ASSUME TypeInv, NEW r \in Reqs, Receive(r) \/ Step(r), NEW s \in Reqs \ {r}
    PROVE  Thread(s)' = Thread(s) /\ req' = req
<1> USE DEF Thread, TypeInv, TypeOK, locals, Goto, Leave, Reject
<1>1. CASE Receive(r)
  BY <1>1 DEF Receive
<1>2. CASE RejectDuplicates(r)
  BY <1>2 DEF RejectDuplicates
<1>3. CASE CheckService(r)
  BY <1>3 DEF CheckService
<1>4. CASE CreateService(r)
  BY <1>4 DEF CreateService
<1>5. CASE LoseServiceRace(r)
  BY <1>5 DEF LoseServiceRace
<1>6. CASE NoService(r)
  BY <1>6 DEF NoService
<1>7. CASE GetLock(r)
  BY <1>7 DEF GetLock
<1>8. CASE Lock(r)
  BY <1>8 DEF Lock
<1>9. CASE Release(r)
  BY <1>9 DEF Release
<1>10. CASE FindRoom(r)
  BY <1>10 DEF FindRoom
<1>11. CASE NoSuchRoom(r)
  BY <1>11 DEF NoSuchRoom
<1>12. CASE OpenExisting(r)
  BY <1>12 DEF OpenExisting
<1>13. CASE OpenNew(r)
  BY <1>13 DEF OpenNew
<1>14. CASE RefuseNew(r)
  BY <1>14 DEF RefuseNew
<1>15. CASE Configure(r)
  BY <1>15 DEF Configure
<1>16. CASE KeepRoles(r)
  BY <1>16 DEF KeepRoles
<1>17. CASE SetRoles(r)
  BY <1>17 DEF SetRoles, BeginList
<1>18. CASE NextList(r)
  BY <1>18 DEF NextList, BeginList
<1>19. CASE Open(r)
  BY <1>19 DEF Open
<1>20. CASE Assign(r)
  BY <1>20 DEF Assign
<1>21. CASE AssignConflict(r)
  BY <1>21 DEF AssignConflict
<1>22. CASE AssignRefused(r)
  BY <1>22 DEF AssignRefused
<1>23. CASE AssignDone(r)
  BY <1>23 DEF AssignDone
<1>24. CASE Strip(r)
  BY <1>24 DEF Strip
<1>25. CASE StripConflict(r)
  BY <1>25 DEF StripConflict
<1>26. CASE StripDone(r)
  BY <1>26 DEF StripDone
<1>27. CASE DiffAdd(r)
  BY <1>27 DEF DiffAdd
<1>28. CASE DiffRemove(r)
  BY <1>28 DEF DiffRemove
<1>29. CASE CheckAffiliation(r)
  BY <1>29 DEF CheckAffiliation
<1>30. CASE DestroyRoom(r)
  BY <1>30 DEF DestroyRoom
<1>31. CASE ReadList(r)
  BY <1>31 DEF ReadList
<1>32. CASE Sync(r)
  BY <1>32 DEF Sync
<1>33. CASE Invite(r)
  BY <1>33 DEF Invite
<1>34. CASE SendFails(r)
  BY <1>34 DEF SendFails
<1>35. QED
  BY <1>1, <1>2, <1>3, <1>4, <1>5, <1>6, <1>7, <1>8, <1>9, <1>10, <1>11, <1>12, <1>13,
     <1>14, <1>15, <1>16, <1>17, <1>18, <1>19, <1>20, <1>21, <1>22, <1>23, <1>24,
     <1>25, <1>26, <1>27, <1>28, <1>29, <1>30, <1>31, <1>32, <1>33, <1>34 DEF Step

\* A request that is not inside a section does not touch the room.
LEMMA OutsideSteps ==
    ASSUME TypeInv, NEW r \in Reqs, Receive(r) \/ Step(r), pc[r] \notin Inside
    PROVE  UNCHANGED <<current, aff, conf, life, published>>
<1>1. \/ Receive(r) \/ RejectDuplicates(r) \/ CheckService(r) \/ CreateService(r)
      \/ LoseServiceRace(r) \/ NoService(r) \/ GetLock(r) \/ Lock(r)
      \/ DiffAdd(r) \/ DiffRemove(r) \/ ReadList(r)
  BY DEF Step, Inside, Release, FindRoom, NoSuchRoom, OpenExisting, OpenNew,
     RefuseNew, Configure, KeepRoles, SetRoles, NextList, Open, Assign,
     AssignConflict, AssignRefused, AssignDone, Strip, StripConflict, SendFails,
     StripDone,
     CheckAffiliation, DestroyRoom, Sync, Invite
<1>2. QED
  BY <1>1 DEF node, Reject, CheckService, CreateService, LoseServiceRace, NoService,
     GetLock, Lock, DiffAdd, DiffRemove, ReadList, Receive, RejectDuplicates

-----------------------------------------------------------------------------
(* The progress of a put.  createRoom goes through the lists in order; the
   invariant says what each of them has achieved so far. *)

\* A room that a lookup yields is alive.
CurrentAlive ==
    current # NoRoom => current \in Insts /\ life[current] \in {"locked", "open"}

Upto(l) == CASE l = "owner"   -> {"owner"}
             [] l = "admin"   -> {"owner", "admin"}
             [] l = "member"  -> {"owner", "admin", "member"}
             [] l = "outcast" -> Lists

Disjoint(w) == \A l, m \in Lists : l # m => w[l] \cap w[m] = {}

\* Room r's thread works on: a put has it from getChatRoom to its unlock.
Working(r) ==
    \/ pc[r] \in {"configure", "compare", "assign", "strip", "open", "sync", "invite"}
    \/ pc[r] = "release" /\ result[r] = "ok"

\* The owners a put names (users: groups may be on two lists) are owners.
OwnersKept(r) == \A u \in Wanted(r)["owner"] \ Groups : aff[room[r]][u] = "owner"

\* Lists ls are settled: their addresses are not to be reset, every other
\* affiliated address is, and (no address on two lists) each has its place.
Settled(r, ls) ==
    /\ \A m \in ls : reset[r] \cap Wanted(r)[m] = {}
    /\ \A j \in Jids : aff[room[r]][j] # "none" =>
           j \in reset[r] \/ \E m \in ls : j \in Wanted(r)[m]

Placed(r, ls) ==
    Disjoint(Wanted(r)) => \A m \in ls : \A j \in Wanted(r)[m] : aff[room[r]][j] = m

Progress(r) ==
    /\ pc[r] = "assign" =>
        /\ work[r] \subseteq Wanted(r)[list[r]]
        /\ \A j \in Wanted(r)[list[r]] \ work[r] : aff[room[r]][j] = list[r]
        /\ Settled(r, Upto(list[r]))
        /\ Placed(r, Upto(list[r]) \ {list[r]})
        /\ list[r] # "owner" => OwnersKept(r)
    /\ pc[r] = "strip" => Settled(r, Lists) /\ Placed(r, Lists) /\ OwnersKept(r)
    /\ Working(r) /\ pc[r] \in {"open", "sync", "invite", "release"} /\ Disjoint(Wanted(r))
       => EqualToAffiliations(aff[room[r]], Wanted(r))

PutInv(r) ==
    IsPut(r) =>
        /\ pc[r] \notin {"idle", "done"} => Duplicates(Wanted(r)) = {}
        /\ pc[r] \notin {"invite", "release", "done"} => result[r] = "none"
        /\ pc[r] = "invite" => result[r] = "ok"
        /\ pc[r] = "release" => result[r] \in {"ok", "403", "500"}
        /\ pc[r] \notin {"check", "destroy", "read", "diffAdd", "diffRemove"}
        /\ Working(r) => current = room[r] /\ room[r] \in Insts
        /\ Working(r) => life[room[r]] \in {"locked", "open"}
        /\ Working(r) /\ pc[r] # "configure" => conf[room[r]] = req[r].conf
        /\ Working(r) /\ pc[r] \in {"sync", "invite", "release"} => life[room[r]] = "open"
        /\ Progress(r)

RoomInv == CurrentAlive /\ \A r \in Reqs : PutInv(r)

\* Everything the exactness of a put rests on.
IInv == TypeInv /\ LockInv /\ AllMutex /\ RoomInv

\* No put has begun at first.
LEMMA InitRoomInv == Init => RoomInv
BY RequestAssumption
   DEF Init, RoomInv, CurrentAlive, PutInv, Progress, Working, Insts

\* A room that is destroyed is no longer what its name yields.
LEMMA AliveStep ==
    ASSUME TypeInv, CurrentAlive, NEW r \in Reqs, Receive(r) \/ Step(r)
    PROVE  CurrentAlive'
<1> USE DEF CurrentAlive, TypeInv, TypeOK, RoomKnown, Goto, Leave, Reject, node
<1>1. CASE OpenNew(r)
  BY <1>1, RequestAssumption DEF OpenNew, Insts
<1>2. CASE Open(r)
  BY <1>2 DEF Open
<1>3. CASE DestroyRoom(r)
  BY <1>3 DEF DestroyRoom
<1>4. CASE UNCHANGED <<current, life>>
  BY <1>4
<1>5. ~OpenNew(r) /\ ~Open(r) /\ ~DestroyRoom(r) => UNCHANGED <<current, life>>
  BY DEF Step, Receive, RejectDuplicates, CheckService, CreateService,
     LoseServiceRace, NoService, GetLock, Lock, Release, FindRoom, NoSuchRoom,
     OpenExisting, RefuseNew, Configure, KeepRoles, SetRoles, NextList, Assign,
     AssignConflict, AssignRefused, AssignDone, Strip, StripConflict, SendFails,
     StripDone,
     DiffAdd, DiffRemove, CheckAffiliation, ReadList, Sync, Invite
<1>6. QED
  BY <1>1, <1>2, <1>3, <1>4, <1>5

\* A step of another request: it is outside when this one is inside.
LEMMA OtherPutInv ==
    ASSUME IInv, NEW r \in Reqs, Receive(r) \/ Step(r), NEW s \in Reqs \ {r}
    PROVE  PutInv(s)'
<1>1. Thread(s)' = Thread(s) /\ req' = req
  BY OtherThreads DEF IInv
<1>2. CASE pc[s] \in Inside
  <2>1. pc[r] \notin Inside
    BY <1>2, Exclusion DEF IInv, MutualExclusion
  <2>2. UNCHANGED <<current, aff, conf, life>>
    BY <2>1, OutsideSteps DEF IInv
  <2>3. PutInv(s)
    BY DEF IInv, RoomInv
  <2>4. Wanted(s)' = Wanted(s) /\ IsPut(s)' = IsPut(s)
    BY <1>1 DEF Wanted, IsPut
  <2>5. Working(s)' = Working(s) /\ OwnersKept(s)' = OwnersKept(s)
    BY <1>1, <2>2, <2>4 DEF Working, OwnersKept, Thread
  <2>6. \A ls : Settled(s, ls)' = Settled(s, ls) /\ Placed(s, ls)' = Placed(s, ls)
    BY <1>1, <2>2, <2>4 DEF Settled, Placed, Thread
  <2>7. Progress(s)' = Progress(s)
    BY <1>1, <2>2, <2>4, <2>5, <2>6 DEF Progress, Thread
  <2>8. QED
    BY <1>1, <2>2, <2>3, <2>4, <2>5, <2>7 DEF PutInv, Thread
<1>3. CASE pc[s] \notin Inside
  BY <1>1, <1>3 DEF IInv, RoomInv, PutInv, Progress, Working, Inside, Thread, Wanted,
     IsPut
<1>4. QED
  BY <1>2, <1>3

\* The lists a put wants have a user as owner, and no user twice.
LEMMA WantedOwner ==
    ASSUME TypeOK, NEW r \in Reqs
    PROVE  \E u \in Wanted(r)["owner"] : u \in Jids \ Groups
<1>1. req[r].want \in [Lists -> SUBSET Jids] /\ "owner" \in Lists
  BY WantedType DEF RequestType, Lists
<1>2. CASE req[r].want["owner"] \subseteq Groups
  BY <1>1, <1>2, JidAssumption DEF Wanted, WithDefaultOwner
<1>3. CASE ~(req[r].want["owner"] \subseteq Groups)
  BY <1>1, <1>3 DEF Wanted, WithDefaultOwner
<1>4. QED
  BY <1>2, <1>3

\* A user whom an entity names as owner is on no other list of it.
LEMMA OwnerIsOnOneList ==
    ASSUME TypeOK, NEW r \in Reqs, Duplicates(Wanted(r)) = {},
           NEW u \in Wanted(r)["owner"] \ Groups, NEW l \in Lists, l # "owner"
    PROVE  u \notin Wanted(r)[l]
BY WantedType DEF Duplicates, Lists

\* With the wanted owners in place no other address is the last owner.
LEMMA OwnersPreventConflict ==
    ASSUME TypeOK, NEW r \in Reqs, OwnersKept(r), NEW j, NEW l,
           j \notin Wanted(r)["owner"] \ Groups
    PROVE  ~Conflicts(aff[room[r]], j, l)
BY WantedOwner, WantedType DEF OwnersKept, Conflicts, Holding, Lists

\* Settled, placed and stripped, the room is what the entity says.
LEMMA SettledIsEqual ==
    ASSUME TypeInv, NEW r \in Reqs, room[r] \in Insts, reset[r] = {},
           Settled(r, Lists), Placed(r, Lists), Disjoint(Wanted(r))
    PROVE  EqualToAffiliations(aff[room[r]], Wanted(r))
<1>1. Wanted(r) \in [Lists -> SUBSET Jids] /\ aff[room[r]] \in [Jids -> Affs]
  BY WantedType DEF TypeInv, TypeOK
<1>2. ASSUME NEW l \in Lists PROVE Holding(aff[room[r]], l) = Wanted(r)[l]
  <2>1. Wanted(r)[l] \subseteq Holding(aff[room[r]], l)
    BY <1>1, <1>2 DEF Placed, Holding
  <2>2. ASSUME NEW j \in Jids, aff[room[r]][j] = l PROVE j \in Wanted(r)[l]
    <3>1. PICK m \in Lists : j \in Wanted(r)[m]
      BY <1>2, <2>2 DEF Settled, Lists
    <3>2. aff[room[r]][j] = m
      BY <3>1 DEF Placed
    <3>3. QED
      BY <2>2, <3>1, <3>2
  <2>3. QED
    BY <2>1, <2>2 DEF Holding
<1>3. QED
  BY <1>2 DEF EqualToAffiliations

\* A step of the put itself.
LEMMA OwnPutInv ==
    ASSUME IInv, NEW r \in Reqs, Receive(r) \/ Step(r)
    PROVE  PutInv(r)'
<1>1. SUFFICES ASSUME IsPut(r) PROVE PutInv(r)'
  <2>1. req' = req
    BY DEF Step, Receive, Reject, locals, RejectDuplicates, CheckService,
       CreateService, LoseServiceRace, NoService, GetLock, Lock, Release, FindRoom,
       NoSuchRoom, OpenExisting, OpenNew, RefuseNew, Configure, KeepRoles, SetRoles,
       NextList, Open, Assign, AssignConflict, AssignRefused, AssignDone, Strip,
       StripConflict, SendFails, StripDone, DiffAdd, DiffRemove, CheckAffiliation,
       DestroyRoom,
       ReadList, Sync, Invite
  <2>2. QED
    BY <2>1 DEF PutInv, IsPut
<1> USE DEF IInv, RoomInv
<1>2. /\ pc \in [Reqs -> Labels] /\ result \in [Reqs -> Codes] /\ TypeOK
      /\ room \in [Reqs -> Insts \cup {NoRoom}] /\ aff \in [Insts -> [Jids -> Affs]]
      /\ list \in [Reqs -> Lists]
      /\ life \in [Insts -> {"unborn", "locked", "open", "destroyed"}]
      /\ conf \in [Insts -> Confs]
      /\ work \in [Reqs -> SUBSET Jids] /\ reset \in [Reqs -> SUBSET Jids]
  BY DEF TypeInv, TypeOK
<1>3. Wanted(r) \in [Lists -> SUBSET Jids]
  BY <1>2, WantedType
<1>4. PutInv(r)
  OBVIOUS
<1>5. ASSUME UNCHANGED <<req, aff, room>>
      PROVE  /\ Wanted(r)' = Wanted(r) /\ IsPut(r)' /\ OwnersKept(r)' = OwnersKept(r)
             /\ \A ls : Placed(r, ls)' = Placed(r, ls)
             /\ reset' = reset => \A ls : Settled(r, ls)' = Settled(r, ls)
  BY <1>1, <1>5 DEF Wanted, IsPut, OwnersKept, Placed, Settled
<1>6. ASSUME UNCHANGED <<req, aff, room, current, life, conf, list, work, reset>>
      PROVE  /\ Progress(r)' <=>
                 /\ pc'[r] = "assign" =>
                     /\ work[r] \subseteq Wanted(r)[list[r]]
                     /\ \A j \in Wanted(r)[list[r]] \ work[r] : aff[room[r]][j] = list[r]
                     /\ Settled(r, Upto(list[r]))
                     /\ Placed(r, Upto(list[r]) \ {list[r]})
                     /\ list[r] # "owner" => OwnersKept(r)
                 /\ pc'[r] = "strip" => Settled(r, Lists) /\ Placed(r, Lists) /\ OwnersKept(r)
                 /\ /\ Working(r)'
                    /\ pc'[r] \in {"open", "sync", "invite", "release"}
                    /\ Disjoint(Wanted(r))
                    => EqualToAffiliations(aff[room[r]], Wanted(r))
             /\ Wanted(r)' = Wanted(r) /\ IsPut(r)'
  BY <1>5, <1>6 DEF Progress
<1>eq. ASSUME UNCHANGED <<req, aff, room>>, pc'[r] \notin {"assign", "strip"},
              /\ Disjoint(Wanted(r)) /\ pc'[r] \in {"open", "sync", "invite", "release"}
              /\ pc'[r] = "release" => result'[r] = "ok"
              => EqualToAffiliations(aff[room[r]], Wanted(r))
       PROVE  Progress(r)' /\ IsPut(r)' /\ Wanted(r)' = Wanted(r)
  BY <1>5, <1>eq DEF Progress, Working
<1>7. /\ ~FindRoom(r) /\ ~NoSuchRoom(r) /\ ~DiffAdd(r) /\ ~DiffRemove(r)
      /\ ~CheckAffiliation(r) /\ ~DestroyRoom(r) /\ ~ReadList(r)
  BY <1>1, <1>4 DEF FindRoom, NoSuchRoom, DiffAdd, DiffRemove, CheckAffiliation,
     DestroyRoom,
                    ReadList, PutInv
<1>8. CASE Receive(r)
  BY <1>1, <1>2, <1>4, <1>5, <1>6, <1>8 DEF Receive, PutInv, Working, Goto, Leave,
     Reject, node, locks, locals, CurrentAlive, Thread
<1>9. CASE RejectDuplicates(r)
  BY <1>1, <1>2, <1>4, <1>5, <1>6, <1>9 DEF RejectDuplicates, PutInv, Working, Goto,
     Leave, Reject, node, locks, locals, CurrentAlive, Thread
<1>10. CASE CheckService(r)
  BY <1>1, <1>2, <1>4, <1>5, <1>6, <1>10 DEF CheckService, PutInv, Working, Goto,
     Leave, Reject, node, locks, locals, CurrentAlive, Thread
<1>11. CASE CreateService(r)
  BY <1>1, <1>2, <1>4, <1>5, <1>6, <1>11 DEF CreateService, PutInv, Working, Goto,
     Leave, Reject, node, locks, locals, CurrentAlive, Thread
<1>12. CASE LoseServiceRace(r)
  BY <1>1, <1>2, <1>4, <1>5, <1>6, <1>12 DEF LoseServiceRace, PutInv, Working, Goto,
     Leave, Reject, node, locks, locals, CurrentAlive, Thread
<1>13. CASE NoService(r)
  BY <1>1, <1>2, <1>4, <1>5, <1>6, <1>13 DEF NoService, PutInv, Working, Goto, Leave,
     Reject, node, locks, locals, CurrentAlive, Thread
<1>14. CASE GetLock(r)
  BY <1>1, <1>2, <1>4, <1>5, <1>6, <1>14 DEF GetLock, PutInv, Working, Goto, Leave,
     Reject, node, locks, locals, CurrentAlive, Thread
<1>15. CASE Lock(r)
  BY <1>1, <1>2, <1>4, <1>5, <1>6, <1>15 DEF Lock, PutInv, Working, Goto, Leave,
     Reject, node, locks, locals, CurrentAlive, Thread
<1>16. CASE Release(r)
  BY <1>1, <1>2, <1>4, <1>5, <1>6, <1>16 DEF Release, PutInv, Working, Goto, Leave,
     Reject, node, locks, locals, CurrentAlive, Thread
<1>17. CASE RefuseNew(r)
  BY <1>1, <1>2, <1>4, <1>5, <1>6, <1>17 DEF RefuseNew, PutInv, Working, Goto, Leave,
     Reject, node, locks, locals, CurrentAlive, Thread
<1>18. CASE KeepRoles(r)
  BY <1>1, <1>2, <1>4, <1>5, <1>6, <1>18 DEF KeepRoles, PutInv, Working, Goto, Leave,
     Reject, node, locks, locals, CurrentAlive, Thread
<1>19. CASE AssignRefused(r)
  BY <1>1, <1>2, <1>4, <1>5, <1>6, <1>19 DEF AssignRefused, PutInv, Working, Goto,
     Leave, Reject, node, locks, locals, CurrentAlive, Thread
<1>20. CASE OpenExisting(r)
  <2>1. /\ pc[r] = "enter" /\ pc' = [pc EXCEPT ![r] = "configure"] /\ room'[r] = current
        /\ current \in Insts /\ life[current] \in {"locked", "open"}
        /\ UNCHANGED <<req, current, aff, life, conf, result>>
    BY <1>2, <1>20 DEF OpenExisting, Goto, node, CurrentAlive
  <2>2. Wanted(r)' = Wanted(r) /\ pc'[r] = "configure"
    BY <1>2, <2>1 DEF Wanted
  <2>3. Progress(r)'
    BY <2>2 DEF Progress
  <2>4. QED
    BY <1>1, <1>4, <2>1, <2>2, <2>3 DEF PutInv, Working
<1>21. CASE OpenNew(r)
  <2>1. /\ pc[r] = "enter" /\ pc' = [pc EXCEPT ![r] = "configure"] /\ room'[r] = r
        /\ current' = r /\ life' = [life EXCEPT ![r] = "locked"] /\ r \in Insts
        /\ UNCHANGED <<req, result>>
    BY <1>2, <1>21 DEF OpenNew, Goto, Insts
  <2>2. Wanted(r)' = Wanted(r) /\ pc'[r] = "configure" /\ life'[r] = "locked"
    BY <1>2, <2>1 DEF Wanted
  <2>3. Progress(r)'
    BY <2>2 DEF Progress
  <2>4. QED
    BY <1>1, <1>4, <2>1, <2>2, <2>3 DEF PutInv, Working
<1>22. CASE Configure(r)
  <2>1. /\ pc[r] = "configure" /\ conf' = [conf EXCEPT ![room[r]] = req[r].conf]
        /\ UNCHANGED <<req, current, aff, life, room>>
    BY <1>22 DEF Configure, locals
  <2>2. \/ pc' = [pc EXCEPT ![r] = "compare"] /\ result' = result
        \/ pc' = [pc EXCEPT ![r] = "release"] /\ result' = [result EXCEPT ![r] = "500"]
    BY <1>22 DEF Configure, Goto, Leave
  <2>3. Working(r)
    BY <2>1 DEF Working
  <2>4. pc'[r] = "compare" => conf'[room[r]] = req[r].conf
    BY <1>1, <1>2, <1>4, <2>1, <2>3 DEF PutInv
  <2>5. Progress(r)' /\ Wanted(r)' = Wanted(r)
    BY <1>2, <1>eq, <2>1, <2>2
  <2>6. QED
    BY <1>1, <1>2, <1>4, <2>1, <2>2, <2>3, <2>4, <2>5 DEF PutInv, Working
<1>23. CASE AssignDone(r)
  <2>1. /\ pc[r] = "assign" /\ work[r] = {} /\ list[r] = "outcast"
        /\ pc' = [pc EXCEPT ![r] = "strip"]
        /\ UNCHANGED <<req, aff, room, current, life, conf, list, work, reset, result>>
    BY <1>1, <1>23 DEF AssignDone, Goto, node, locals
  <2>2. Settled(r, Lists) /\ Placed(r, Lists) /\ OwnersKept(r)
    BY <1>1, <1>2, <1>4, <2>1 DEF PutInv, Progress, Upto, Placed
  <2>3. Progress(r)' /\ Wanted(r)' = Wanted(r)
    BY <1>2, <1>6, <2>1, <2>2
  <2>4. QED
    BY <1>1, <1>2, <1>4, <2>1, <2>3 DEF PutInv, Working
<1>24. CASE StripDone(r)
  <2>1. /\ pc[r] = "strip" /\ reset[r] = {} /\ pc' = [pc EXCEPT ![r] = "open"]
        /\ UNCHANGED <<req, aff, room, current, life, conf, result>>
    BY <1>1, <1>24 DEF StripDone, Goto, node, locals
  <2>2. Disjoint(Wanted(r)) => EqualToAffiliations(aff[room[r]], Wanted(r))
    BY <1>1, <1>4, <2>1, SettledIsEqual DEF PutInv, Progress, Working
  <2>3. Progress(r)' /\ Wanted(r)' = Wanted(r)
    BY <1>2, <1>eq, <2>1, <2>2
  <2>4. QED
    BY <1>1, <1>2, <1>4, <2>1, <2>3 DEF PutInv, Working
<1>25. CASE Open(r)
  <2>1. /\ pc[r] = "open" /\ pc' = [pc EXCEPT ![r] = "sync"]
        /\ life' = [life EXCEPT ![room[r]] = IF @ = "destroyed" THEN @ ELSE "open"]
        /\ UNCHANGED <<req, aff, room, current, conf, result>>
    BY <1>25 DEF Open, Goto, locals
  <2>2. /\ Disjoint(Wanted(r)) => EqualToAffiliations(aff[room[r]], Wanted(r))
        /\ room[r] \in Insts /\ life[room[r]] \in {"locked", "open"}
    BY <1>1, <1>4, <2>1 DEF PutInv, Progress, Working
  <2>3. Progress(r)' /\ Wanted(r)' = Wanted(r)
    BY <1>2, <1>eq, <2>1, <2>2
  <2>4. life'[room[r]] = "open"
    BY <1>2, <2>1, <2>2
  <2>5. QED
    BY <1>1, <1>2, <1>4, <2>1, <2>3, <2>4 DEF PutInv, Working
<1>26. CASE Sync(r)
  <2>1. /\ pc[r] = "sync" /\ pc'[r] \in {"invite", "release"} /\ result'[r] = "ok"
        /\ UNCHANGED <<req, aff, room, current, life, conf>>
    BY <1>1, <1>2, <1>4, <1>26 DEF Sync, Goto, node, PutInv
  <2>2. Disjoint(Wanted(r)) => EqualToAffiliations(aff[room[r]], Wanted(r))
    BY <1>1, <1>4, <2>1 DEF PutInv, Progress, Working
  <2>3. Progress(r)' /\ Wanted(r)' = Wanted(r)
    BY <1>eq, <2>1, <2>2
  <2>4. QED
    BY <1>1, <1>4, <2>1, <2>3 DEF PutInv, Working
<1>27. CASE Invite(r)
  <2>1. /\ pc[r] = "invite" /\ pc'[r] \in {"invite", "release"} /\ result'[r] = "ok"
        /\ UNCHANGED <<req, aff, room, current, life, conf>>
    BY <1>1, <1>2, <1>4, <1>27 DEF Invite, Goto, node, PutInv
  <2>2. Disjoint(Wanted(r)) => EqualToAffiliations(aff[room[r]], Wanted(r))
    BY <1>1, <1>4, <2>1 DEF PutInv, Progress, Working
  <2>3. Progress(r)' /\ Wanted(r)' = Wanted(r)
    BY <1>eq, <2>1, <2>2
  <2>4. QED
    BY <1>1, <1>4, <2>1, <2>3 DEF PutInv, Working
<1>28. CASE SetRoles(r)
  <2> DEFINE W == Wanted(r)
             a == aff[room[r]]
  <2>1. /\ pc[r] = "compare" /\ pc' = [pc EXCEPT ![r] = "assign"]
        /\ list'[r] = "owner" /\ reset'[r] = Affiliated(a) \ W["owner"]
        /\ work'[r] = W["owner"] \ Holding(a, "owner")
        /\ UNCHANGED <<req, aff, room, current, life, conf, result>>
    BY <1>2, <1>28 DEF SetRoles, BeginList, Goto, node
  <2>2. Wanted(r)' = W /\ pc'[r] = "assign"
    BY <1>2, <2>1 DEF Wanted
  <2>3. W["owner"] \subseteq Jids
    BY <1>3 DEF Lists
  <2>4. Settled(r, Upto("owner"))'
    BY <2>1, <2>2 DEF Settled, Upto, Affiliated
  <2>5. Progress(r)'
    BY <2>1, <2>2, <2>3, <2>4 DEF Progress, Placed, Upto, Holding
  <2>6. QED
    BY <1>1, <1>4, <2>1, <2>2, <2>5 DEF PutInv, Working
<1>29. CASE NextList(r)
  <2> DEFINE W == Wanted(r)
             a == aff[room[r]]
  <2>1. PICK l \in Lists : l = list[r]
    BY <1>2
  <2>2. /\ pc[r] = "assign" /\ pc' = pc /\ work[r] = {} /\ l # "outcast"
        /\ list'[r] = NextOf(l) /\ reset'[r] = reset[r] \ W[NextOf(l)]
        /\ work'[r] = W[NextOf(l)] \ Holding(a, NextOf(l))
        /\ UNCHANGED <<req, aff, room, current, life, conf, result>>
    BY <1>2, <2>1, <1>29 DEF NextList, BeginList, node
  <2>3. Wanted(r)' = W
    BY <2>2 DEF Wanted
  <2>4. /\ l \in Lists /\ NextOf(l) \in Lists /\ NextOf(l) # "owner"
        /\ Upto(NextOf(l)) = Upto(l) \cup {NextOf(l)} /\ l \in Upto(l)
        /\ NextOf(l) \notin Upto(l) /\ Upto(l) \subseteq Lists
    BY <2>2 DEF Lists, NextOf, Upto
  <2>5. Progress(r)
    BY <1>1, <1>4 DEF PutInv
  <2>6. \A j \in W[l] : a[j] = l
    BY <2>1, <2>2, <2>5 DEF Progress
  <2>7. Settled(r, Upto(NextOf(l)))'
    <3>1. Settled(r, Upto(l))
      BY <2>1, <2>2, <2>5 DEF Progress
    <3>2. \A m \in Upto(NextOf(l)) : reset'[r] \cap W[m] = {}
      BY <2>2, <2>4, <3>1 DEF Settled
    <3>3. \A j \in Jids : a[j] # "none" =>
             j \in reset'[r] \/ \E m \in Upto(NextOf(l)) : j \in W[m]
      BY <2>2, <2>4, <3>1 DEF Settled
    <3>4. \A ls : Settled(r, ls)' <=>
             /\ \A m \in ls : reset'[r] \cap W[m] = {}
             /\ \A j \in Jids : a[j] # "none" => j \in reset'[r] \/ \E m \in ls : j \in W[m]
      BY <2>2, <2>3 DEF Settled
    <3>5. QED
      BY <3>2, <3>3, <3>4
  <2>8. Placed(r, Upto(l))
    BY <2>1, <2>2, <2>5, <2>6 DEF Progress, Placed
  <2>9. (Upto(NextOf(l)) \ {NextOf(l)}) = Upto(l)
    BY <2>4
  <2>10. Placed(r, Upto(l))'
    BY <2>2, <2>3, <2>8 DEF Placed
  <2>11. OwnersKept(r)'
    <3>1. OwnersKept(r)
      BY <2>1, <2>2, <2>5, <2>6 DEF Progress, OwnersKept
    <3>2. QED
      BY <2>2, <2>3, <3>1 DEF OwnersKept
  <2>12. /\ work'[r] \subseteq W[NextOf(l)]
         /\ \A j \in W[NextOf(l)] \ work'[r] : a[j] = NextOf(l)
    BY <1>3, <2>2, <2>4 DEF Holding
  <2>13. Progress(r)'
    BY <2>2, <2>3, <2>4, <2>7, <2>9, <2>10, <2>11, <2>12 DEF Progress, Working
  <2>14. QED
    BY <1>1, <1>4, <2>2, <2>3, <2>13 DEF PutInv, Working
<1>30. CASE Assign(r)
  <2> DEFINE W == Wanted(r)
             l == list[r]
  <2>1. PICK j \in work[r] :
          /\ aff' = [aff EXCEPT ![room[r]] = Move(@, j, l)]
          /\ work' = [work EXCEPT ![r] = @ \ {j}]
    BY <1>30 DEF Assign
  <2>2. /\ pc[r] = "assign"
        /\ UNCHANGED <<req, pc, room, list, reset, current, life, conf, result>>
    BY <1>30 DEF Assign
  <2>3. Progress(r) /\ room[r] \in Insts /\ Wanted(r)' = W /\ l \in Lists
    BY <1>1, <1>2, <1>4, <2>2 DEF PutInv, Working, Wanted
  <2>4. /\ j \in W[l] /\ j \in Jids /\ l # "none" /\ l \in Upto(l) /\ Upto(l) \subseteq Lists
    BY <1>2, <2>1, <2>2, <2>3 DEF Progress, Lists, Upto
  <2>5. /\ aff'[room'[r]][j] = l
        /\ \A k \in Jids \ {j} : aff'[room'[r]][k] = aff[room[r]][k]
    BY <1>2, <2>1, <2>2, <2>3, <2>4 DEF Move
  <2>6. /\ work'[r] \subseteq W[l]
        /\ \A k \in W[l] \ work'[r] : aff'[room'[r]][k] = l
    BY <1>2, <1>3, <2>1, <2>2, <2>3, <2>5 DEF Progress
  <2>7. Settled(r, Upto(l))'
    BY <2>2, <2>3, <2>4, <2>5 DEF Progress, Settled
  <2>8. Placed(r, Upto(l) \ {l})'
    BY <1>3, <2>2, <2>3, <2>4, <2>5 DEF Progress, Placed, Disjoint
  <2>9. ASSUME l # "owner" PROVE OwnersKept(r)'
    <3>1. OwnersKept(r) /\ Duplicates(W) = {}
      BY <1>1, <1>4, <2>2, <2>3, <2>9 DEF Progress, PutInv
    <3>2. j \notin W["owner"] \ Groups
      BY <1>2, <2>3, <2>4, <2>9, <3>1, OwnerIsOnOneList
    <3>3. W["owner"] \subseteq Jids
      BY <1>3 DEF Lists
    <3>4. QED
      BY <2>3, <2>5, <3>1, <3>2, <3>3 DEF OwnersKept
  <2>10. Progress(r)'
    BY <2>2, <2>3, <2>6, <2>7, <2>8, <2>9 DEF Progress, Working
  <2>11. QED
    BY <1>1, <1>4, <2>2, <2>3, <2>10 DEF PutInv, Working
<1>31. CASE AssignConflict(r)
  <2>1. PICK j \in work[r] : Conflicts(aff[room[r]], j, list[r])
    BY <1>31 DEF AssignConflict
  <2>2. /\ list[r] # "owner" /\ list[r] \in Lists /\ pc[r] = "assign"
    BY <1>2, <2>1, <1>31 DEF Conflicts, AssignConflict
  <2>3. OwnersKept(r) /\ Duplicates(Wanted(r)) = {} /\ j \in Wanted(r)[list[r]]
    BY <1>1, <1>4, <2>1, <2>2 DEF PutInv, Progress
  <2>4. j \notin Wanted(r)["owner"] \ Groups
    BY <1>2, <2>2, <2>3, OwnerIsOnOneList
  <2>5. QED
    BY <1>2, <2>1, <2>3, <2>4, OwnersPreventConflict
<1>32. CASE Strip(r)
  <2> DEFINE W == Wanted(r)
  <2>1. PICK j \in reset[r] :
          /\ aff' = [aff EXCEPT ![room[r]] = Move(@, j, "none")]
          /\ reset' = [reset EXCEPT ![r] = @ \ {j}]
    BY <1>32 DEF Strip
  <2>2. /\ pc[r] = "strip"
        /\ UNCHANGED <<req, pc, room, current, life, conf, result>>
    BY <1>32 DEF Strip
  <2>3. /\ Settled(r, Lists) /\ Placed(r, Lists) /\ OwnersKept(r)
        /\ room[r] \in Insts /\ Wanted(r)' = W /\ j \in Jids
    BY <1>1, <1>2, <1>4, <2>1, <2>2 DEF PutInv, Progress, Working, Wanted
  <2>4. /\ aff'[room'[r]][j] = "none" /\ reset'[r] = reset[r] \ {j}
        /\ \A k \in Jids \ {j} : aff'[room'[r]][k] = aff[room[r]][k]
    BY <1>2, <2>1, <2>2, <2>3 DEF Move
  <2>5. \A m \in Lists : j \notin W[m] /\ W[m] \subseteq Jids
    BY <1>3, <2>1, <2>3 DEF Settled
  <2>6. Settled(r, Lists)'
    BY <2>3, <2>4 DEF Settled
  <2>7. Placed(r, Lists)'
    BY <2>3, <2>4, <2>5 DEF Placed
  <2>8. OwnersKept(r)'
    BY <2>3, <2>4, <2>5 DEF OwnersKept, Lists
  <2>9. Progress(r)'
    BY <2>2, <2>6, <2>7, <2>8 DEF Progress, Working
  <2>10. QED
    BY <1>1, <1>4, <2>2, <2>3, <2>9 DEF PutInv, Working
<1>33. CASE StripConflict(r)
  <2>1. PICK j \in reset[r] : Conflicts(aff[room[r]], j, "none")
    BY <1>33 DEF StripConflict
  <2>2. OwnersKept(r) /\ Settled(r, Lists)
    BY <1>1, <1>4, <1>33 DEF PutInv, Progress, StripConflict
  <2>3. j \notin Wanted(r)["owner"] \ Groups
    BY <2>1, <2>2 DEF Settled, Lists
  <2>4. QED
    BY <1>2, <2>1, <2>2, <2>3, OwnersPreventConflict
<1>34. CASE SendFails(r)
  BY <1>1, <1>34 DEF SendFails, IsPut
<1>35. QED
  BY <1>7, <1>8, <1>9, <1>10, <1>11, <1>12, <1>13, <1>14, <1>15, <1>16, <1>17, <1>18,
     <1>19, <1>20, <1>21, <1>22, <1>23, <1>24, <1>25, <1>26, <1>27, <1>28, <1>29,
     <1>30, <1>31, <1>32, <1>33, <1>34 DEF Step

\* The invariant that the exactness of puts rests on holds throughout.
LEMMA RoomInvariant ==
    ASSUME MutexSettings = {TRUE}
    PROVE  Spec => []RoomInv
<1>1. TypeInv /\ LockInv /\ AllMutex /\ RoomInv /\ [Next]_vars => RoomInv'
  <2> SUFFICES ASSUME TypeInv, LockInv, AllMutex, RoomInv, [Next]_vars PROVE RoomInv'
    OBVIOUS
  <2>1. IInv
    BY DEF IInv
  <2>2. ASSUME NEW r \in Reqs, Receive(r) \/ Step(r) PROVE RoomInv'
    <3>1. CurrentAlive'
      BY <2>2, AliveStep DEF RoomInv
    <3>2. ASSUME NEW s \in Reqs PROVE PutInv(s)'
      BY <2>1, <2>2, <3>2, OwnPutInv, OtherPutInv
    <3>3. QED
      BY <3>1, <3>2 DEF RoomInv
  <2>3. CASE UNCHANGED <<node, req, pc, locals, result>>
    <3> USE <2>3 DEF node, locals
    <3>1. CurrentAlive'
      BY DEF RoomInv, CurrentAlive
    <3>2. ASSUME NEW s \in Reqs PROVE PutInv(s)'
      <4>1. /\ Wanted(s)' = Wanted(s) /\ IsPut(s)' = IsPut(s)
            /\ Working(s)' = Working(s)
        BY DEF Wanted, IsPut, Working
      <4>2. /\ OwnersKept(s)' = OwnersKept(s)
            /\ \A ls : Settled(s, ls)' = Settled(s, ls) /\ Placed(s, ls)' = Placed(s, ls)
        BY <4>1 DEF OwnersKept, Settled, Placed
      <4>3. Progress(s)' = Progress(s)
        BY <4>1, <4>2 DEF Progress
      <4>4. QED
        BY <4>1, <4>3 DEF RoomInv, PutInv
    <3>3. QED
      BY <3>1, <3>2 DEF RoomInv
  <2>4. QED
    BY <2>2, <2>3 DEF Next, SetMutex, Drained, vars
<1>2. QED
  BY <1>1, InitRoomInv, TypeCorrect, LockInvariant, AllMutexInvariant, PTL DEF Spec

\* While the property stays on, a put that succeeds leaves the room exactly as
\* its entity says, open, and with the entity's configuration.
THEOREM PutIsExact ==
    ASSUME MutexSettings = {TRUE}
    PROVE  Spec => []UpdateIsExact
<1>1. RoomInv => UpdateIsExact
  BY DEF RoomInv, PutInv, Progress, Working, Disjoint, UpdateIsExact
<1>2. QED
  BY <1>1, RoomInvariant, PTL

\* While the property stays on, no call of a put runs into the refusal to leave
\* the room without an owner, whatever its lists were.
THEOREM PutMeetsNoConflict ==
    ASSUME MutexSettings = {TRUE}
    PROVE  Spec => []PutNeverConflicts
<1>1. RoomInv => PutNeverConflicts
  BY DEF RoomInv, PutInv, PutNeverConflicts
<1>2. QED
  BY <1>1, RoomInvariant, PTL

=============================================================================
