----------------------- MODULE RoomRequests_outcomes -----------------------
(***************************************************************************)
(* What requests have to show when they end, for every set of requests,    *)
(* addresses and initial rooms: without the room mutex, that the last      *)
(* publication shows the room as it is; with it, that the invitations name *)
(* the lists the invited are on.                                           *)
(***************************************************************************)
EXTENDS RoomRequests_refinement

-----------------------------------------------------------------------------
(* Without exclusion.  A step that changes the room leaves its request with a
   publication to make, so that the room is published as it is, or somebody has
   still to publish it.  This needs that all work on one room: that nobody
   destroys it, and no request ends early. *)

\* A request has its outcome when it is about to leave, and only then; and none
\* but a destroy comes to the destruction.
Unanswered ==
    \A r \in Reqs :
        /\ pc[r] \notin {"invite", "release", "done"} => result[r] = "none"
        /\ pc[r] = "destroy" => req[r].kind = "destroy"

\* Nobody has failed so far, and nobody destroys the room.
AllWell == \A r \in Reqs : result[r] \in {"none", "ok"} /\ req[r].kind # "destroy"

\* The labels from a change of the room to the publication of it.
Owing(r) == pc[r] \in {"configure", "compare", "assign", "strip", "open", "sync"}

OneRoom == \A r \in Reqs : room[r] \in {NoRoom, current}

SyncInv ==
    /\ CurrentAlive /\ Unanswered
    /\ AllWell => OneRoom /\ (published = Actual \/ \E r \in Reqs : Owing(r))

\* At first nobody has published, and there is nothing to publish.
LEMMA InitSync == Init => SyncInv
<1> SUFFICES ASSUME Init PROVE SyncInv
  OBVIOUS
<1>1. CurrentAlive /\ Unanswered /\ OneRoom
  BY InitRoomInv DEF Init, RoomInv, Unanswered, OneRoom
<1>2. published = Actual
  BY RequestAssumption DEF Init, Actual, Snapshot, Insts
<1>3. QED
  BY <1>1, <1>2 DEF SyncInv

\* The label and the outcome of a request go together after each of its steps, and
\* a failure is final.
LEMMA OwnOutcome ==
    ASSUME TypeInv, Unanswered, NEW r \in Reqs, Receive(r) \/ Step(r)
    PROVE  /\ pc'[r] \notin {"invite", "release", "done"} => result'[r] = "none"
           /\ pc'[r] = "destroy" => req[r].kind = "destroy"
           /\ result'[r] \in {"none", "ok"} => result[r] \in {"none", "ok"}
<1> USE DEF Unanswered, Goto, Leave, Reject, locals
<1>1. /\ pc \in [Reqs -> Labels] /\ result \in [Reqs -> Codes]
      /\ pc[r] = "invite" => result[r] = "ok"
      /\ req[r].kind \in Kinds
  BY WantedType DEF TypeInv, TypeOK, RoomKnown, RequestType
<1>2. CASE Receive(r)
  BY <1>1, <1>2 DEF Receive
<1>3. CASE RejectDuplicates(r)
  BY <1>1, <1>3 DEF RejectDuplicates
<1>4. CASE CheckService(r)
  BY <1>1, <1>4 DEF CheckService
<1>5. CASE CreateService(r)
  BY <1>1, <1>5 DEF CreateService
<1>6. CASE LoseServiceRace(r)
  BY <1>1, <1>6 DEF LoseServiceRace
<1>7. CASE NoService(r)
  BY <1>1, <1>7 DEF NoService
<1>8. CASE GetLock(r)
  BY <1>1, <1>8 DEF GetLock
<1>9. CASE Lock(r)
  BY <1>1, <1>9 DEF Lock
<1>10. CASE Release(r)
  BY <1>1, <1>10 DEF Release
<1>11. CASE FindRoom(r)
  BY <1>1, <1>11 DEF FindRoom, Kinds, IsPut, IsDelta
<1>12. CASE NoSuchRoom(r)
  BY <1>1, <1>12 DEF NoSuchRoom
<1>13. CASE OpenExisting(r)
  BY <1>1, <1>13 DEF OpenExisting
<1>14. CASE OpenNew(r)
  BY <1>1, <1>14 DEF OpenNew
<1>15. CASE RefuseNew(r)
  BY <1>1, <1>15 DEF RefuseNew
<1>16. CASE Configure(r)
  BY <1>1, <1>16 DEF Configure
<1>17. CASE KeepRoles(r)
  BY <1>1, <1>17 DEF KeepRoles
<1>18. CASE SetRoles(r)
  BY <1>1, <1>18 DEF SetRoles
<1>19. CASE NextList(r)
  BY <1>1, <1>19 DEF NextList
<1>20. CASE Open(r)
  BY <1>1, <1>20 DEF Open
<1>21. CASE Assign(r)
  BY <1>1, <1>21 DEF Assign
<1>22. CASE AssignConflict(r)
  BY <1>1, <1>22 DEF AssignConflict
<1>23. CASE AssignRefused(r)
  BY <1>1, <1>23 DEF AssignRefused
<1>24. CASE AssignDone(r)
  BY <1>1, <1>24 DEF AssignDone
<1>25. CASE Strip(r)
  BY <1>1, <1>25 DEF Strip
<1>26. CASE StripConflict(r)
  BY <1>1, <1>26 DEF StripConflict
<1>27. CASE StripDone(r)
  BY <1>1, <1>27 DEF StripDone
<1>28. CASE DiffAdd(r)
  BY <1>1, <1>28 DEF DiffAdd
<1>29. CASE DiffRemove(r)
  BY <1>1, <1>29 DEF DiffRemove
<1>30. CASE CheckAffiliation(r)
  BY <1>1, <1>30 DEF CheckAffiliation
<1>31. CASE DestroyRoom(r)
  BY <1>1, <1>31 DEF DestroyRoom
<1>32. CASE ReadList(r)
  BY <1>1, <1>32 DEF ReadList
<1>33. CASE Sync(r)
  BY <1>1, <1>33 DEF Sync
<1>34. CASE Invite(r)
  BY <1>1, <1>34 DEF Invite
<1>35. CASE SendFails(r)
  BY <1>1, <1>35 DEF SendFails
<1>36. QED
  BY <1>2, <1>3, <1>4, <1>5, <1>6, <1>7, <1>8, <1>9, <1>10, <1>11, <1>12, <1>13, <1>14,
     <1>15, <1>16, <1>17, <1>18, <1>19, <1>20, <1>21, <1>22, <1>23, <1>24, <1>25,
     <1>26, <1>27, <1>28, <1>29, <1>30, <1>31, <1>32, <1>33, <1>34, <1>35 DEF Step

\* What goes together does so after every step of a request.
LEMMA UnansweredStep ==
    ASSUME TypeInv, Unanswered, NEW r \in Reqs, Receive(r) \/ Step(r)
    PROVE  Unanswered' /\ (AllWell' => AllWell)
<1>1. req' = req
  BY AskedStays
<1>2. ASSUME NEW s \in Reqs \ {r} PROVE pc'[s] = pc[s] /\ result'[s] = result[s]
  BY OtherThreads DEF Thread
<1>3. QED
  BY <1>1, <1>2, OwnOutcome DEF Unanswered, AllWell

\* What a step does to the publication: it makes it, or leaves its request owing
\* it, or has not touched the room.
LEMMA StepOwes ==
    ASSUME TypeInv, NEW r \in Reqs, Receive(r) \/ Step(r), result'[r] \in {"none", "ok"}
    PROVE  \/ Sync(r) \/ Owing(r)'
           \/ ~Owing(r) /\ UNCHANGED <<current, aff, conf, life, published>>
<1> USE DEF Owing, Goto, Leave, Reject, node
<1>1. pc \in [Reqs -> Labels] /\ result \in [Reqs -> Codes]
  BY DEF TypeInv, TypeOK
<1>2. CASE Receive(r)
  BY <1>1, <1>2 DEF Receive
<1>3. CASE RejectDuplicates(r)
  BY <1>1, <1>3 DEF RejectDuplicates
<1>4. CASE CheckService(r)
  BY <1>1, <1>4 DEF CheckService
<1>5. CASE CreateService(r)
  BY <1>1, <1>5 DEF CreateService
<1>6. CASE LoseServiceRace(r)
  BY <1>1, <1>6 DEF LoseServiceRace
<1>7. CASE NoService(r)
  BY <1>1, <1>7 DEF NoService
<1>8. CASE GetLock(r)
  BY <1>1, <1>8 DEF GetLock
<1>9. CASE Lock(r)
  BY <1>1, <1>9 DEF Lock
<1>10. CASE Release(r)
  BY <1>1, <1>10 DEF Release
<1>11. CASE FindRoom(r)
  BY <1>1, <1>11 DEF FindRoom
<1>12. CASE NoSuchRoom(r)
  BY <1>1, <1>12 DEF NoSuchRoom
<1>13. CASE OpenExisting(r)
  BY <1>1, <1>13 DEF OpenExisting
<1>14. CASE OpenNew(r)
  BY <1>1, <1>14 DEF OpenNew
<1>15. CASE RefuseNew(r)
  BY <1>1, <1>15 DEF RefuseNew
<1>16. CASE Configure(r)
  BY <1>1, <1>16 DEF Configure
<1>17. CASE KeepRoles(r)
  BY <1>1, <1>17 DEF KeepRoles
<1>18. CASE SetRoles(r)
  BY <1>1, <1>18 DEF SetRoles, BeginList
<1>19. CASE NextList(r)
  BY <1>1, <1>19 DEF NextList, BeginList
<1>20. CASE Open(r)
  BY <1>1, <1>20 DEF Open
<1>21. CASE Assign(r)
  BY <1>1, <1>21 DEF Assign
<1>22. CASE AssignConflict(r)
  BY <1>1, <1>22 DEF AssignConflict
<1>23. CASE AssignRefused(r)
  BY <1>1, <1>23 DEF AssignRefused
<1>24. CASE AssignDone(r)
  BY <1>1, <1>24 DEF AssignDone
<1>25. CASE Strip(r)
  BY <1>1, <1>25 DEF Strip
<1>26. CASE StripConflict(r)
  BY <1>1, <1>26 DEF StripConflict
<1>27. CASE StripDone(r)
  BY <1>1, <1>27 DEF StripDone
<1>28. CASE DiffAdd(r)
  BY <1>1, <1>28 DEF DiffAdd
<1>29. CASE DiffRemove(r)
  BY <1>1, <1>29 DEF DiffRemove
<1>30. CASE CheckAffiliation(r)
  BY <1>1, <1>30 DEF CheckAffiliation
<1>31. CASE DestroyRoom(r)
  BY <1>1, <1>31 DEF DestroyRoom
<1>32. CASE ReadList(r)
  BY <1>1, <1>32 DEF ReadList
<1>33. CASE Sync(r)
  BY <1>33
<1>34. CASE Invite(r)
  BY <1>1, <1>34 DEF Invite
<1>35. CASE SendFails(r)
  BY <1>1, <1>35 DEF SendFails
<1>36. QED
  BY <1>2, <1>3, <1>4, <1>5, <1>6, <1>7, <1>8, <1>9, <1>10, <1>11, <1>12, <1>13, <1>14,
     <1>15, <1>16, <1>17, <1>18, <1>19, <1>20, <1>21, <1>22, <1>23, <1>24, <1>25,
     <1>26, <1>27, <1>28, <1>29, <1>30, <1>31, <1>32, <1>33, <1>34, <1>35 DEF Step

\* While nobody destroys the room, all requests have the one the name yields.
LEMMA OneRoomStep ==
    ASSUME TypeInv, Unanswered, AllWell, OneRoom, NEW r \in Reqs, Receive(r) \/ Step(r)
    PROVE  OneRoom'
<1> USE DEF OneRoom
<1>1. room \in [Reqs -> Insts \cup {NoRoom}]
  BY DEF TypeInv, TypeOK
<1>2. CASE FindRoom(r)
  BY <1>1, <1>2 DEF FindRoom, node
<1>3. CASE OpenExisting(r)
  BY <1>1, <1>3 DEF OpenExisting, node
<1>4. CASE OpenNew(r)
  BY <1>1, <1>4 DEF OpenNew
<1>5. ~DestroyRoom(r)
  BY DEF DestroyRoom, Unanswered, AllWell
<1>6. CASE UNCHANGED <<room, current>>
  BY <1>6
<1>7. ~FindRoom(r) /\ ~OpenExisting(r) /\ ~OpenNew(r) => UNCHANGED <<room, current>>
  BY <1>5 DEF Step, Receive, RejectDuplicates, CheckService, CreateService,
     LoseServiceRace, NoService, GetLock, Lock, Release, NoSuchRoom, RefuseNew, Configure,
     KeepRoles, SetRoles, NextList, Open, Assign, AssignConflict, AssignRefused,
     AssignDone, Strip, StripConflict, SendFails, StripDone, DiffAdd, DiffRemove,
     CheckAffiliation,
     ReadList, Sync, Invite, Goto, Leave, Reject, node, locals
<1>8. QED
  BY <1>2, <1>3, <1>4, <1>6, <1>7

\* Every step of a request keeps the account of what is still to be published.
LEMMA SyncStep ==
    ASSUME TypeInv, SyncInv, NEW r \in Reqs, Receive(r) \/ Step(r)
    PROVE  SyncInv'
<1>1. CurrentAlive' /\ Unanswered' /\ (AllWell' => AllWell)
  BY AliveStep, UnansweredStep DEF SyncInv
<1>2. SUFFICES ASSUME AllWell'
               PROVE  OneRoom' /\ (published' = Actual' \/ \E s \in Reqs : Owing(s)')
  BY <1>1 DEF SyncInv
<1>3. AllWell /\ OneRoom /\ (published = Actual \/ \E s \in Reqs : Owing(s))
  BY <1>1, <1>2 DEF SyncInv
<1>4. OneRoom'
  BY <1>3, OneRoomStep DEF SyncInv
<1>5. CASE Sync(r)
  <2>1. room[r] \in Insts /\ room[r] # NoRoom
    BY <1>5, RequestAssumption DEF Sync, TypeInv, RoomKnown
  <2>2. current = room[r] /\ current # NoRoom
    BY <1>3, <2>1 DEF OneRoom
  <2>3. published' = Snapshot(current) /\ UNCHANGED <<current, aff, conf, life>>
    BY <1>5, <2>2 DEF Sync
  <2>4. published' = Actual'
    BY <2>2, <2>3 DEF Actual, Snapshot
  <2>5. QED
    BY <1>4, <2>4
<1>6. CASE Owing(r)'
  BY <1>4, <1>6
<1>7. CASE ~Owing(r) /\ UNCHANGED <<current, aff, conf, life, published>>
  <2>1. Actual' = Actual
    BY <1>7 DEF Actual, Snapshot
  <2>2. ASSUME NEW s \in Reqs, Owing(s) PROVE Owing(s)'
    BY <1>7, <2>2, OtherThreads DEF Thread, Owing
  <2>3. QED
    BY <1>3, <1>4, <1>7, <2>1, <2>2
<1>8. result'[r] \in {"none", "ok"}
  BY <1>2 DEF AllWell
<1>9. QED
  BY <1>5, <1>6, <1>7, <1>8, StepOwes

\* However the property is flipped, somebody still owes a publication, or none is
\* due.
LEMMA SyncInvariant == Spec => []SyncInv
<1>1. TypeInv /\ SyncInv /\ [Next]_vars => SyncInv'
  <2> SUFFICES ASSUME TypeInv, SyncInv, [Next]_vars PROVE SyncInv'
    OBVIOUS
  <2>1. ASSUME NEW r \in Reqs, Receive(r) \/ Step(r) PROVE SyncInv'
    BY <2>1, SyncStep
  <2>2. CASE UNCHANGED <<node, req, pc, locals, result>>
    BY <2>2 DEF node, locals, SyncInv, CurrentAlive, Unanswered, AllWell, OneRoom, Actual,
       Snapshot, Owing
  <2>3. QED
    BY <2>1, <2>2 DEF Next, SetMutex, Drained, vars
<1>2. QED
  BY <1>1, InitSync, TypeCorrect, PTL DEF Spec

\* Without any exclusion: when all requests have been answered with success, and
\* none destroyed the room, the other nodes see the room as it is.
THEOREM LastSyncShowsAll == Spec => []LastSyncWins
<1>1. SyncInv => LastSyncWins
  BY DEF SyncInv, LastSyncWins, AllWell, Owing, Actual
<1>2. QED
  BY <1>1, SyncInvariant, PTL

-----------------------------------------------------------------------------
(* Invitations, with exclusion.  sendInvitationsFromRoom goes through the lists;
   the invariant says what it has sent so far. *)

\* The lists that sendInvitationsFromRoom has gone through when it comes to l.
Before(l) == CASE l = "admin"  -> {}
               [] l = "owner"  -> {"admin"}
               [] l = "member" -> {"admin", "owner"}

\* The invitations that those request r has put on lists ls should have got.
Due(r, ls) == {p \in added[r] \X ls : aff[room[r]][p[1]] = p[2]}

\* A put invites list by list.
PutInvites(r) ==
    IsPut(r) /\ pc[r] = "invite" =>
        list[r] \in {"admin", "owner", "member"} /\ invited[r] = Due(r, Before(list[r]))

\* A replace or add works on one list, which keeps all that it has put there.
DeltaInvites(r) ==
    IsDelta(r) =>
        /\ work[r] \subseteq req[r].jids /\ reset[r] \cap req[r].jids = {}
        /\ added[r] \subseteq req[r].jids
        /\ pc[r] \in {"assign", "strip", "sync", "invite"} =>
               /\ list[r] = req[r].list
               /\ \A j \in added[r] : aff[room[r]][j] = list[r]
        /\ pc[r] \notin {"assign", "strip", "sync", "invite", "release", "done"}
           \/ (pc[r] = "release" /\ result[r] = "none") => added[r] = {}
        /\ pc[r] = "invite" => list[r] # "outcast"

InviteInv(r) ==
    /\ pc[r] \notin {"invite", "release", "done"}
       \/ (pc[r] = "release" /\ result[r] = "none") => invited[r] = {}
    /\ pc[r] = "invite" => IsPut(r) \/ (IsDelta(r) /\ invited[r] = {})
    /\ PutInvites(r) /\ DeltaInvites(r)
    /\ req[r].invite /\ pc[r] = "release" /\ result[r] = "ok" /\ (IsPut(r) \/ IsDelta(r))
       => invited[r] = Due(r, {"owner", "admin", "member"})

InvitesInv == \A r \in Reqs : InviteInv(r)

\* Nothing is sent at first.
LEMMA InitInvites == Init => InvitesInv
BY DEF Init, InvitesInv, InviteInv, PutInvites, DeltaInvites

\* A step of another request: it is outside when this one is inside.
LEMMA OtherInvites ==
    ASSUME ViewInv, InvitesInv, NEW r \in Reqs, Receive(r) \/ Step(r),
           NEW s \in Reqs \ {r}
    PROVE  InviteInv(s)'
<1>1. Thread(s)' = Thread(s) /\ req' = req
  BY OtherThreads DEF ViewInv, IInv
<1>2. InviteInv(s) /\ IsPut(s)' = IsPut(s) /\ IsDelta(s)' = IsDelta(s)
  BY <1>1 DEF InvitesInv, IsPut, IsDelta
<1>3. CASE pc[s] \in Inside
  <2>1. pc[r] \notin Inside
    BY <1>3, Exclusion DEF ViewInv, IInv, MutualExclusion
  <2>2. UNCHANGED aff
    BY <2>1, OutsideSteps DEF ViewInv, IInv
  <2>3. \A ls : Due(s, ls)' = Due(s, ls)
    BY <1>1, <2>2 DEF Due, Thread
  <2>4. QED
    BY <1>1, <1>2, <2>2, <2>3 DEF InviteInv, PutInvites, DeltaInvites, Thread
<1>4. CASE pc[s] \notin Inside
  BY <1>1, <1>2, <1>4 DEF InviteInv, PutInvites, DeltaInvites, Inside, Thread
<1>5. QED
  BY <1>3, <1>4

\* A step of the request itself.
LEMMA OwnInvites ==
    ASSUME ViewInv, InvitesInv, NEW r \in Reqs, Receive(r) \/ Step(r)
    PROVE  InviteInv(r)'
<1> USE DEF InviteInv, PutInvites, DeltaInvites, Goto, Leave, Reject, node, locals
<1>1. /\ pc \in [Reqs -> Labels] /\ result \in [Reqs -> Codes]
      /\ room \in [Reqs -> Insts \cup {NoRoom}] /\ aff \in [Insts -> [Jids -> Affs]]
      /\ list \in [Reqs -> Lists]
      /\ work \in [Reqs -> SUBSET Jids] /\ reset \in [Reqs -> SUBSET Jids]
      /\ added \in [Reqs -> SUBSET Jids] /\ invited \in [Reqs -> SUBSET (Jids \X Lists)]
      /\ pc[r] \in {"assign", "strip"} => room[r] \in Insts
      /\ req' = req /\ IsPut(r)' = IsPut(r) /\ IsDelta(r)' = IsDelta(r)
      /\ req[r].kind \in Kinds /\ ~(IsPut(r) /\ IsDelta(r))
  BY AskedStays, WantedType DEF ViewInv, IInv, TypeInv, TypeOK, RoomKnown, IsPut, IsDelta,
     RequestType
<1>ok. pc[r] = "invite" => result[r] = "ok"
  BY DEF ViewInv, IInv, TypeInv, RoomKnown
<1>2. InviteInv(r)
  BY DEF InvitesInv
<1>3. SectionInv(r) /\ PutInv(r)
  BY DEF ViewInv, IInv, RoomInv
<1>4. CASE Receive(r)
  BY <1>1, <1>2, <1>3, <1>4 DEF Receive, SectionInv, PutInv
<1>5. CASE RejectDuplicates(r)
  BY <1>1, <1>2, <1>3, <1>5 DEF RejectDuplicates, SectionInv, PutInv
<1>6. CASE CheckService(r)
  BY <1>1, <1>2, <1>3, <1>6 DEF CheckService, SectionInv, PutInv
<1>7. CASE CreateService(r)
  BY <1>1, <1>2, <1>3, <1>7 DEF CreateService, SectionInv, PutInv
<1>8. CASE LoseServiceRace(r)
  BY <1>1, <1>2, <1>3, <1>8 DEF LoseServiceRace, SectionInv, PutInv
<1>9. CASE NoService(r)
  BY <1>1, <1>2, <1>3, <1>9 DEF NoService, SectionInv, PutInv
<1>10. CASE GetLock(r)
  BY <1>1, <1>2, <1>3, <1>10 DEF GetLock, SectionInv, PutInv
<1>11. CASE Lock(r)
  BY <1>1, <1>2, <1>3, <1>11 DEF Lock, SectionInv, PutInv
<1>12. CASE Release(r)
  <2>1. /\ pc[r] = "release" /\ pc'[r] \in {"done", "read", "diffAdd"}
        /\ pc'[r] # "done" => result[r] = "none"
        /\ UNCHANGED <<req, aff, room, list, work, reset, added, invited, result>>
    BY <1>1, <1>12 DEF Release
  <2>2. QED
    BY <1>1, <1>2, <2>1
<1>13. CASE FindRoom(r)
  <2>1. /\ pc[r] = "enter" /\ ~IsPut(r) /\ result[r] = "none" /\ invited[r] = {}
        /\ IsDelta(r) => added[r] = {}
    BY <1>1, <1>2, <1>3, <1>13 DEF FindRoom, SectionInv
  <2>2. /\ pc'[r] \in {"release", "assign", "check", "destroy"}
        /\ IsDelta(r) => list'[r] = req[r].list
        /\ UNCHANGED <<req, result, aff, work, reset, added, invited>>
    BY <1>1, <1>13 DEF FindRoom, node, IsPut, IsDelta, Kinds
  <2>3. QED
    BY <1>1, <1>2, <2>1, <2>2
<1>14. CASE NoSuchRoom(r)
  BY <1>1, <1>2, <1>3, <1>14 DEF NoSuchRoom, SectionInv, PutInv
<1>15. CASE OpenExisting(r)
  BY <1>1, <1>2, <1>3, <1>15 DEF OpenExisting, SectionInv, PutInv
<1>16. CASE OpenNew(r)
  BY <1>1, <1>2, <1>3, <1>16 DEF OpenNew, SectionInv, PutInv
<1>17. CASE RefuseNew(r)
  BY <1>1, <1>2, <1>3, <1>17 DEF RefuseNew, SectionInv, PutInv
<1>18. CASE Configure(r)
  BY <1>1, <1>2, <1>3, <1>18 DEF Configure, SectionInv, PutInv
<1>19. CASE KeepRoles(r)
  BY <1>1, <1>2, <1>3, <1>19 DEF KeepRoles, SectionInv, PutInv
<1>20. CASE SetRoles(r)
  BY <1>1, <1>2, <1>3, <1>20 DEF SetRoles, SectionInv, PutInv
<1>21. CASE NextList(r)
  BY <1>1, <1>2, <1>3, <1>21 DEF NextList, SectionInv, PutInv
<1>22. CASE Open(r)
  BY <1>1, <1>2, <1>3, <1>22 DEF Open, SectionInv, PutInv
<1>23. CASE Assign(r)
  <2>1. PICK j \in work[r] :
          /\ aff' = [aff EXCEPT ![room[r]] = Move(@, j, list[r])]
          /\ work' = [work EXCEPT ![r] = @ \ {j}]
          /\ added' = [added EXCEPT ![r] = @ \cup {j}]
    BY <1>23 DEF Assign
  <2>2. /\ pc[r] = "assign" /\ room[r] \in Insts
        /\ UNCHANGED <<req, pc, room, list, reset, invited, result>>
    BY <1>1, <1>23 DEF Assign
  <2>3. \A k \in Jids : aff'[room[r]][k] = IF k = j THEN list[r] ELSE aff[room[r]][k]
    BY <1>1, <2>1, <2>2 DEF Move
  <2>4. IsDelta(r) => \A k \in added'[r] : aff'[room'[r]][k] = list'[r]
    BY <1>1, <1>2, <2>1, <2>2, <2>3
  <2>5. QED
    BY <1>1, <1>2, <2>1, <2>2, <2>4
<1>24. CASE AssignConflict(r)
  BY <1>1, <1>2, <1>3, <1>24 DEF AssignConflict, SectionInv, PutInv
<1>25. CASE AssignRefused(r)
  BY <1>1, <1>2, <1>3, <1>25 DEF AssignRefused, SectionInv, PutInv
<1>26. CASE AssignDone(r)
  BY <1>1, <1>2, <1>3, <1>26 DEF AssignDone, SectionInv, PutInv
<1>27. CASE Strip(r)
  <2>1. PICK j \in reset[r] :
          /\ aff' = [aff EXCEPT ![room[r]] = Move(@, j, "none")]
          /\ reset' = [reset EXCEPT ![r] = @ \ {j}]
    BY <1>27 DEF Strip
  <2>2. /\ pc[r] = "strip" /\ room[r] \in Insts
        /\ UNCHANGED <<req, pc, room, list, work, added, invited, result>>
    BY <1>1, <1>27 DEF Strip
  <2>3. \A k \in Jids \ {j} : aff'[room[r]][k] = aff[room[r]][k]
    BY <1>1, <2>1, <2>2 DEF Move
  <2>4. IsDelta(r) => j \notin added[r]
    BY <1>2, <2>1
  <2>5. IsDelta(r) => \A k \in added'[r] : aff'[room'[r]][k] = list'[r]
    BY <1>1, <1>2, <2>2, <2>3, <2>4
  <2>6. QED
    BY <1>1, <1>2, <2>1, <2>2, <2>5
<1>28. CASE StripConflict(r)
  BY <1>1, <1>2, <1>3, <1>28 DEF StripConflict, SectionInv, PutInv
<1>29. CASE StripDone(r)
  BY <1>1, <1>2, <1>3, <1>29 DEF StripDone, SectionInv, PutInv
<1>30. CASE DiffAdd(r)
  <2>1. ~IsPut(r) /\ IsDelta(r) /\ pc[r] = "diffAdd"
    BY <1>2, <1>3, <1>30 DEF DiffAdd, SectionInv, PutInv
  <2>2. /\ pc'[r] \in {"diffRemove", "getlock"} /\ work'[r] \subseteq req[r].jids
        /\ UNCHANGED <<req, aff, room, list, reset, added, invited, result>>
    BY <1>1, <1>30 DEF DiffAdd, node
  <2>3. QED
    BY <1>1, <1>2, <2>1, <2>2
<1>31. CASE DiffRemove(r)
  <2>1. ~IsPut(r) /\ IsDelta(r) /\ pc[r] = "diffRemove"
    BY <1>2, <1>3, <1>31 DEF DiffRemove, SectionInv, PutInv
  <2>2. /\ pc'[r] = "getlock" /\ reset'[r] \cap req[r].jids = {}
        /\ UNCHANGED <<req, aff, room, list, work, added, invited, result>>
    BY <1>1, <1>31 DEF DiffRemove, node
  <2>3. QED
    BY <1>1, <1>2, <2>1, <2>2
<1>32. CASE CheckAffiliation(r)
  <2>1. req[r].kind = "remove" /\ ~IsDelta(r) /\ ~IsPut(r)
    BY <1>2, <1>3, <1>32 DEF CheckAffiliation, SectionInv, PutInv, IsDelta, IsPut
  <2>2. pc[r] = "check" /\ pc'[r] \in {"strip", "release"} /\ UNCHANGED <<req, invited>>
    BY <1>1, <1>32 DEF CheckAffiliation
  <2>3. QED
    BY <1>1, <1>2, <2>1, <2>2
<1>33. CASE DestroyRoom(r)
  <2>1. ~IsDelta(r) /\ ~IsPut(r)
    BY <1>2, <1>3, <1>33 DEF DestroyRoom, SectionInv, PutInv, IsDelta
  <2>2. pc[r] = "destroy" /\ pc'[r] = "sync" /\ UNCHANGED <<req, invited>>
    BY <1>1, <1>33 DEF DestroyRoom
  <2>3. QED
    BY <1>1, <1>2, <2>1, <2>2
<1>34. CASE ReadList(r)
  BY <1>1, <1>2, <1>3, <1>34 DEF ReadList, SectionInv, PutInv
<1>35. CASE Sync(r)
  <2> DEFINE invites == req[r].invite /\ (IsPut(r) \/ (IsDelta(r) /\ list[r] # "outcast"))
  <2>1. /\ pc[r] = "sync" /\ pc'[r] = (IF invites THEN "invite" ELSE "release")
        /\ result'[r] = "ok" /\ list'[r] = IF IsPut(r) THEN "admin" ELSE list[r]
        /\ UNCHANGED <<req, aff, room, work, reset, added, invited>>
    BY <1>1, <1>35 DEF Sync
  <2>2. invited[r] = {} /\ Due(r, {})' = {}
    BY <1>2, <2>1 DEF Due
  <2>3. IsPut(r) => Before(list'[r]) = {}
    BY <2>1 DEF Before
  <2>4. ASSUME ~invites, req[r].invite, IsPut(r) \/ IsDelta(r)
        PROVE  Due(r, {"owner", "admin", "member"})' = {}
    <3>1. IsDelta(r) /\ \A j \in added[r] : aff[room[r]][j] = "outcast"
      BY <1>2, <2>1, <2>4
    <3>2. QED
      BY <2>1, <3>1 DEF Due
  <2>5. CASE invites
    BY <1>1, <1>2, <2>1, <2>2, <2>3, <2>5
  <2>6. CASE ~invites
    BY <1>1, <1>2, <2>1, <2>2, <2>4, <2>6
  <2>7. QED
    BY <2>5, <2>6
<1>36. CASE Invite(r)
  <2> DEFINE l == list[r]
             sent == (added[r] \cap Holding(aff[room[r]], l)) \X {l}
             last == IsDelta(r) \/ l = "member"
  <2>1. /\ pc[r] = "invite" /\ pc'[r] = (IF last THEN "release" ELSE "invite")
        /\ invited'[r] = invited[r] \cup sent
        /\ list'[r] = (IF last THEN l ELSE InviteAfter(l))
        /\ UNCHANGED <<req, aff, room, work, reset, added, result>>
    BY <1>1, <1>36 DEF Invite, node
  <2>2. \A ls : Due(r, ls)' = Due(r, ls)
    BY <2>1 DEF Due
  <2>3. CASE IsPut(r)
    <3>1. l \in {"admin", "owner", "member"} /\ invited[r] = Due(r, Before(l))
      BY <1>2, <2>1, <2>3
    <3>2. invited'[r] = Due(r, Before(l) \cup {l})
      <4>1. added[r] \subseteq Jids
        BY <1>1
      <4>2. Due(r, Before(l) \cup {l}) = Due(r, Before(l)) \cup sent
        BY <4>1 DEF Due, Holding
      <4>3. QED
        BY <2>1, <3>1, <4>2
    <3>3. CASE l = "member"
      <4>1. Before(l) \cup {l} = {"owner", "admin", "member"}
        BY <3>3 DEF Before
      <4>2. invited'[r] = Due(r, {"owner", "admin", "member"})' /\ pc'[r] = "release"
        BY <2>1, <2>2, <3>2, <3>3, <4>1
      <4>3. result'[r] = "ok" /\ ~IsDelta(r)'
        BY <1>1, <1>ok, <2>1, <2>3
      <4>4. QED
        BY <4>2, <4>3
    <3>4. CASE l # "member"
      <4>1. /\ InviteAfter(l) \in {"owner", "member"}
            /\ Before(InviteAfter(l)) = Before(l) \cup {l}
        BY <3>1, <3>4 DEF Before, InviteAfter
      <4>2. QED
        BY <1>1, <1>2, <2>1, <2>2, <2>3, <3>2, <3>4, <4>1
    <3>5. QED
      BY <3>3, <3>4
  <2>4. CASE ~IsPut(r)
    <3>1. /\ IsDelta(r) /\ invited[r] = {} /\ l # "outcast" /\ l \in Lists
          /\ \A j \in added[r] : aff[room[r]][j] = l
      BY <1>1, <1>2, <2>1, <2>4
    <3>2. invited'[r] = added[r] \X {l}
      BY <1>1, <2>1, <3>1 DEF Holding
    <3>3. Due(r, {"owner", "admin", "member"}) = added[r] \X {l}
      BY <3>1 DEF Due, Lists
    <3>4. invited'[r] = Due(r, {"owner", "admin", "member"})' /\ pc'[r] = "release"
      BY <2>1, <2>2, <3>1, <3>2, <3>3
    <3>5. ~IsPut(r)' /\ list'[r] = list[r] /\ result'[r] = "ok"
      BY <1>1, <2>1, <2>4, <3>1, <1>ok
    <3>6. QED
      BY <1>1, <1>2, <2>1, <3>1, <3>4, <3>5
  <2>5. QED
    BY <2>3, <2>4
<1>37. CASE SendFails(r)
  BY <1>1, <1>2, <1>3, <1>37 DEF SendFails, SectionInv, PutInv
<1>38. QED
  BY <1>4, <1>5, <1>6, <1>7, <1>8, <1>9, <1>10, <1>11, <1>12, <1>13, <1>14, <1>15,
     <1>16, <1>17, <1>18, <1>19, <1>20, <1>21, <1>22, <1>23, <1>24, <1>25, <1>26,
     <1>27, <1>28, <1>29, <1>30, <1>31, <1>32, <1>33, <1>34, <1>35, <1>36, <1>37 DEF
     Step

\* With the property on throughout, what is sent so far is what should be.
LEMMA InvitesInvariant ==
    ASSUME MutexSettings = {TRUE}
    PROVE  Spec => []InvitesInv
<1>1. ViewInv /\ InvitesInv /\ [Next]_vars => InvitesInv'
  <2> SUFFICES ASSUME ViewInv, InvitesInv, [Next]_vars PROVE InvitesInv'
    OBVIOUS
  <2>1. ASSUME NEW r \in Reqs, Receive(r) \/ Step(r) PROVE InvitesInv'
    BY <2>1, OwnInvites, OtherInvites DEF InvitesInv
  <2>2. CASE UNCHANGED <<node, req, pc, locals, result>>
    BY <2>2 DEF node, locals, InvitesInv, InviteInv, PutInvites, DeltaInvites, IsPut, IsDelta,
       Due
  <2>3. QED
    BY <2>1, <2>2 DEF Next, SetMutex, Drained, vars
<1>2. QED
  BY <1>1, InitInvites, ViewInvariant, PTL DEF Spec

\* While the property stays on, a request that invites and succeeds has sent each
\* address it put on a list, outcasts apart, the invitation that names its list,
\* and no other.
THEOREM InvitationsAreRight ==
    ASSUME MutexSettings = {TRUE}
    PROVE  Spec => []InvitationsMatchLists
<1>1. InvitesInv => InvitationsMatchLists
  BY DEF InvitesInv, InviteInv, InvitationsMatchLists, Due
<1>2. QED
  BY <1>1, InvitesInvariant, PTL
=============================================================================
