------------------------ MODULE UserAccounts_updates ------------------------
(***************************************************************************)
(* Overlapping updates of a group (PUT /groups), for every number of them: *)
(* each iterates over the live members and administrators while the others *)
(* change both.  A user on whose role all of them agree ends up with it,   *)
(* and nobody stays in the group, or comes into it, whom none of them      *)
(* names.                                                                  *)
(***************************************************************************)
EXTENDS UserAccounts_proofs

\* Nothing but updates touches what user u is in group g.
OnlyUpdates(g, u) ==
    /\ \A r \in Reqs : Concerns(r, g) => req[r].kind = "updateGroup"
    /\ Apart(u)

\* Update r has begun to change group g, or has done so.
Updates(r, g) ==
    /\ req[r].kind = "updateGroup" /\ req[r].group = g
    /\ \/ pc[r] \in {"diff", "oldMembers", "members", "oldAdmins", "admins"}
       \/ answer[r] = "ok"

-----------------------------------------------------------------------------
(* What the lists of a thread are about. *)

ListInv(r) ==
    /\ pc[r] \in {"oldMembers", "members"} => fresh[r] \subseteq req[r].members
    /\ pc[r] \in {"oldAdmins", "admins"} => fresh[r] \subseteq req[r].admins
    /\ toAdd[r] \subseteq NamesOf(r)
    /\ req[r].kind # "legacyUpdate" => toDrop[r] = {}

\* A group that is updated is there.
GroupInv ==
    \A r \in Reqs, g \in Groups, u \in Users :
        /\ OnlyUpdates(g, u) /\ req[r].kind = "updateGroup" /\ req[r].group = g
        /\ pc[r] = "validate" \/ Updates(r, g)
        => g \in groups

-----------------------------------------------------------------------------
(* How far an update has brought one user. *)

\* A user who is to be a member: when the iteration over the members has returned them,
\* or had them to return, they are one; when it has not, they are still to be added.
AsMember(r, g, u) ==
    /\ pc[r] = "oldMembers" =>
        /\ u \in met[r] \/ u \in fresh[r]
        /\ u \in met[r] \cup due[r] => role[g][u] = "member"
    /\ pc[r] = "members" => u \in fresh[r] \/ role[g][u] = "member"
    /\ pc[r] \in {"oldAdmins", "admins", "done"} => role[g][u] = "member"

\* The same for a user who is to be an administrator.
AsAdmin(r, g, u) ==
    /\ pc[r] = "oldAdmins" =>
        /\ u \in met[r] \/ u \in fresh[r]
        /\ u \in met[r] \cup due[r] => role[g][u] = "admin"
    /\ pc[r] = "admins" => u \in fresh[r] \/ role[g][u] = "admin"
    /\ pc[r] = "done" => role[g][u] = "admin"

\* A user who is to be neither: they are gone when an iteration has returned them, or
\* when they have not had the role ever since it began.
AsNobody(r, g, u) ==
    LET settled == u \in met[r] \/ u \notin staying[r] IN
    /\ (pc[r] = "oldMembers" /\ settled) \/ pc[r] \in {"members", "oldAdmins", "admins", "done"}
       => role[g][u] # "member"
    /\ (pc[r] = "oldAdmins" /\ settled) \/ pc[r] \in {"admins", "done"}
       => role[g][u] # "admin"

\* What all the updates of the group so far agree on.
AgreeOnMember(g, u) == \A r \in Reqs : Updates(r, g) => u \in req[r].members \ req[r].admins
AgreeOnAdmin(g, u)  == \A r \in Reqs : Updates(r, g) => u \in req[r].admins \ req[r].members
AgreeOnNobody(g, u) ==
    \A r \in Reqs : Updates(r, g) => u \notin req[r].members \cup req[r].admins

Track(g, u) ==
    \A r \in Reqs : Updates(r, g) =>
        /\ AgreeOnMember(g, u) => AsMember(r, g, u)
        /\ AgreeOnAdmin(g, u) => AsAdmin(r, g, u)
        /\ AgreeOnNobody(g, u) => AsNobody(r, g, u)

TrackInv == \A g \in Groups, u \in Users : OnlyUpdates(g, u) => Track(g, u)

UpdateInv == (\A r \in Reqs : ListInv(r)) /\ GroupInv /\ TrackInv

-----------------------------------------------------------------------------
(* Lists and groups. *)

LEMMA InitUpdates == Init => UpdateInv
<1> SUFFICES ASSUME Init PROVE UpdateInv
  OBVIOUS
<1>1. \A r \in Reqs, g \in Groups : ~Updates(r, g)
  BY DEF Init, Updates
<1>2. QED
  BY <1>1 DEF Init, UpdateInv, ListInv, GroupInv, TrackInv, Track

\* A thread leaves the lists of the others alone.
LEMMA OtherLists ==
    ASSUME TypeInv, NEW r \in Reqs, Receive(r) \/ Step(r), NEW s \in Reqs \ {r}
    PROVE  fresh'[s] = fresh[s] /\ due'[s] = due[s] /\ met'[s] = met[s]
<1> USE DEF TypeInv, TypeOK, Goto, Finish, Fail, Look, locals
<1>1. CASE Receive(r)
  BY <1>1 DEF Receive
<1>2. CASE RejectName(r)
  BY <1>2 DEF RejectName
<1>3. CASE FindGroup(r)
  BY <1>3 DEF FindGroup
<1>4. CASE RemoveGroup(r)
  BY <1>4 DEF RemoveGroup
<1>5. CASE RejectLists(r)
  BY <1>5 DEF RejectLists
<1>6. CASE AcceptLists(r)
  BY <1>6 DEF AcceptLists
<1>7. CASE MakeGroup(r)
  BY <1>7 DEF MakeGroup
<1>8. CASE IterateMembers(r)
  BY <1>8 DEF IterateMembers, Iterate
<1>9. CASE MeetOld(r)
  BY <1>9 DEF MeetOld
<1>10. CASE OldDone(r)
  BY <1>10 DEF OldDone
<1>11. CASE AddFresh(r)
  BY <1>11 DEF AddFresh
<1>12. CASE MembersDone(r)
  BY <1>12 DEF MembersDone, Iterate
<1>13. CASE AdminsDone(r)
  BY <1>13 DEF AdminsDone
<1>14. CASE CheckUser(r)
  BY <1>14 DEF CheckUser
<1>15. CASE CreateUser(r)
  BY <1>15 DEF CreateUser
<1>16. CASE DeleteUser(r)
  BY <1>16 DEF DeleteUser
<1>17. CASE FetchGroup(r)
  BY <1>17 DEF FetchGroup
<1>18. CASE MissGroup(r)
  BY <1>18 DEF MissGroup
<1>19. CASE SupplyGroup(r)
  BY <1>19 DEF SupplyGroup
<1>20. CASE Fetched(r)
  BY <1>20 DEF Fetched
<1>21. CASE AddToGroup(r)
  BY <1>21 DEF AddToGroup
<1>22. CASE AddsDone(r)
  BY <1>22 DEF AddsDone
<1>23. CASE DropGroup(r)
  BY <1>23 DEF DropGroup
<1>24. CASE DropsDone(r)
  BY <1>24 DEF DropsDone
<1>25. CASE DropFind(r)
  BY <1>25 DEF DropFind
<1>26. CASE DropOne(r)
  BY <1>26 DEF DropOne
<1>27. CASE DropEachDone(r)
  BY <1>27 DEF DropEachDone
<1>28. CASE Lock(r)
  BY <1>28 DEF Lock
<1>29. CASE Recheck(r)
  BY <1>29 DEF Recheck
<1>30. CASE ListSessions(r)
  BY <1>30 DEF ListSessions
<1>31. CASE CloseSession(r)
  BY <1>31 DEF CloseSession
<1>32. CASE SessionsClosed(r)
  BY <1>32 DEF SessionsClosed
<1>33. CASE Unlock(r)
  BY <1>33 DEF Unlock
<1>34. CASE Authenticate(r)
  BY <1>34 DEF Authenticate
<1>35. CASE BindSession(r)
  BY <1>35 DEF BindSession
<1>36. CASE RefuseName(r)
  BY <1>36 DEF RefuseName
<1>37. CASE FindMade(r)
  BY <1>37 DEF FindMade
<1>38. QED
  BY <1>1, <1>2, <1>3, <1>4, <1>5, <1>6, <1>7, <1>8, <1>9, <1>10, <1>11, <1>12,
     <1>13, <1>14, <1>15, <1>16, <1>17, <1>18, <1>19, <1>20, <1>21, <1>22, <1>23,
     <1>24, <1>25, <1>26, <1>27, <1>28, <1>29, <1>30, <1>31, <1>32, <1>33, <1>34,
     <1>35, <1>36, <1>37 DEF Step

\* The lists of a thread are about what its request names.
LEMMA OwnLists ==
    ASSUME TypeInv, NEW r \in Reqs, ListInv(r), Receive(r) \/ Step(r)
    PROVE  ListInv(r)'
<1> USE DEF ListInv, Goto, Finish, Fail, Look, locals
<1>1. /\ Place(r) /\ req' = req /\ NamesOf(r)' = NamesOf(r)
      /\ pc \in [Reqs -> Labels] /\ fresh \in [Reqs -> SUBSET Users]
      /\ toAdd \in [Reqs -> SUBSET Groups] /\ toDrop \in [Reqs -> SUBSET Groups]
  BY Frame DEF TypeInv, TypeOK, PlaceInv, NamesOf
<1> USE DEF Place, JoinKinds
<1>2. CASE Receive(r)
  BY <1>1, <1>2 DEF Receive
<1>3. CASE RejectName(r)
  BY <1>1, <1>3 DEF RejectName
<1>4. CASE FindGroup(r)
  BY <1>1, <1>4 DEF FindGroup
<1>5. CASE RemoveGroup(r)
  BY <1>1, <1>5 DEF RemoveGroup
<1>6. CASE RejectLists(r)
  BY <1>1, <1>6 DEF RejectLists
<1>7. CASE AcceptLists(r)
  BY <1>1, <1>7 DEF AcceptLists
<1>8. CASE MakeGroup(r)
  BY <1>1, <1>8 DEF MakeGroup
<1>9. CASE IterateMembers(r)
  BY <1>1, <1>9 DEF IterateMembers, Iterate
<1>10. CASE MeetOld(r)
  <2>1. PICK u : fresh' = [fresh EXCEPT ![r] = @ \ {u}]
    BY <1>10 DEF MeetOld
  <2>2. UNCHANGED <<req, pc, toAdd, toDrop>>
    BY <1>10 DEF MeetOld
  <2>3. QED
    BY <1>1, <2>1, <2>2
<1>11. CASE OldDone(r)
  BY <1>1, <1>11 DEF OldDone
<1>12. CASE AddFresh(r)
  <2>1. PICK u \in fresh[r] : fresh' = [fresh EXCEPT ![r] = @ \ {u}]
    BY <1>12 DEF AddFresh
  <2>2. UNCHANGED <<req, pc, toAdd, toDrop>>
    BY <1>12 DEF AddFresh
  <2>3. QED
    BY <1>1, <2>1, <2>2
<1>13. CASE MembersDone(r)
  BY <1>1, <1>13 DEF MembersDone, Iterate
<1>14. CASE AdminsDone(r)
  BY <1>1, <1>14 DEF AdminsDone
<1>15. CASE CheckUser(r)
  BY <1>1, <1>15 DEF CheckUser
<1>16. CASE CreateUser(r)
  BY <1>1, <1>16 DEF CreateUser
<1>17. CASE DeleteUser(r)
  BY <1>1, <1>17 DEF DeleteUser
<1>18. CASE FetchGroup(r)
  BY <1>1, <1>18 DEF FetchGroup
<1>19. CASE MissGroup(r)
  BY <1>1, <1>19 DEF MissGroup
<1>20. CASE SupplyGroup(r)
  BY <1>1, <1>20 DEF SupplyGroup
<1>21. CASE Fetched(r)
  BY <1>1, <1>21 DEF Fetched
<1>22. CASE AddToGroup(r)
  BY <1>1, <1>22 DEF AddToGroup
<1>23. CASE AddsDone(r)
  BY <1>1, <1>23 DEF AddsDone
<1>24. CASE DropGroup(r)
  BY <1>1, <1>24 DEF DropGroup
<1>25. CASE DropsDone(r)
  BY <1>1, <1>25 DEF DropsDone
<1>26. CASE DropFind(r)
  BY <1>1, <1>26 DEF DropFind
<1>27. CASE DropOne(r)
  BY <1>1, <1>27 DEF DropOne
<1>28. CASE DropEachDone(r)
  BY <1>1, <1>28 DEF DropEachDone
<1>29. CASE Lock(r)
  BY <1>1, <1>29 DEF Lock
<1>30. CASE Recheck(r)
  BY <1>1, <1>30 DEF Recheck
<1>31. CASE ListSessions(r)
  BY <1>1, <1>31 DEF ListSessions
<1>32. CASE CloseSession(r)
  BY <1>1, <1>32 DEF CloseSession
<1>33. CASE SessionsClosed(r)
  BY <1>1, <1>33 DEF SessionsClosed
<1>34. CASE Unlock(r)
  BY <1>1, <1>34 DEF Unlock
<1>35. CASE Authenticate(r)
  BY <1>1, <1>35 DEF Authenticate
<1>36. CASE BindSession(r)
  BY <1>1, <1>36 DEF BindSession
<1>37. CASE RefuseName(r)
  BY <1>1, <1>37 DEF RefuseName
<1>38. CASE FindMade(r)
  BY <1>1, <1>38 DEF FindMade
<1>39. QED
  BY <1>2, <1>3, <1>4, <1>5, <1>6, <1>7, <1>8, <1>9, <1>10, <1>11, <1>12, <1>13,
     <1>14, <1>15, <1>16, <1>17, <1>18, <1>19, <1>20, <1>21, <1>22, <1>23, <1>24,
     <1>25, <1>26, <1>27, <1>28, <1>29, <1>30, <1>31, <1>32, <1>33, <1>34, <1>35,
     <1>36, <1>37, <1>38 DEF Step

\* Where only updates are about a group, it stays.
LEMMA GroupStays ==
    ASSUME TypeInv, NEW r \in Reqs, Receive(r) \/ Step(r), NEW g \in groups, NEW u \in Users,
           OnlyUpdates(g, u)
    PROVE  g \in groups'
<1> USE DEF Finish, Fail, Look, server
<1>1. Place(r)
  BY DEF TypeInv, PlaceInv
<1>2. CASE RemoveGroup(r)
  BY <1>1, <1>2 DEF RemoveGroup, Place, OnlyUpdates, Concerns, GroupKinds
<1>3. CASE ~RemoveGroup(r)
  BY <1>3 DEF Step, Receive, RejectName, FindGroup, RejectLists, AcceptLists, RefuseName,
     MakeGroup, IterateMembers, MeetOld, OldDone, AddFresh, MembersDone, AdminsDone, CheckUser,
     CreateUser, FindMade, DeleteUser, FetchGroup, MissGroup, SupplyGroup, Fetched, AddToGroup,
     AddsDone, DropGroup, DropsDone, DropFind, DropOne, DropEachDone, Lock, Recheck,
     ListSessions, CloseSession, SessionsClosed, Unlock, Authenticate, BindSession, Iterate
<1>4. QED
  BY <1>2, <1>3

\* The labels and the steps of an update.
LEMMA UpdateLabels ==
    ASSUME TypeInv, NEW r \in Reqs, req[r].kind = "updateGroup"
    PROVE  /\ pc[r] \in {"idle", "find", "validate", "diff", "oldMembers", "members",
                         "oldAdmins", "admins", "done"}
           /\ answer[r] = "ok" => pc[r] = "done"
<1>1. pc[r] \in Labels /\ Place(r)
  BY DEF TypeInv, TypeOK, PlaceInv
<1>2. QED
  BY <1>1 DEF Place, Labels, JoinKinds

LEMMA UpdateActions ==
    ASSUME TypeInv, NEW r \in Reqs, req[r].kind = "updateGroup", Receive(r) \/ Step(r)
    PROVE  \/ Receive(r) \/ RejectName(r) \/ FindGroup(r) \/ RejectLists(r) \/ AcceptLists(r)
           \/ IterateMembers(r) \/ MeetOld(r) \/ OldDone(r) \/ AddFresh(r)
           \/ MembersDone(r) \/ AdminsDone(r)
<1>1. pc[r] \in {"idle", "find", "validate", "diff", "oldMembers", "members", "oldAdmins",
                "admins", "done"}
  BY UpdateLabels
<1>2. QED
  BY <1>1 DEF Step, RemoveGroup, RefuseName, MakeGroup, CheckUser, CreateUser, FindMade,
     DeleteUser, FetchGroup,
     MissGroup, SupplyGroup, Fetched, AddToGroup, AddsDone, DropGroup, DropsDone, DropFind,
     DropOne, DropEachDone, Lock, Recheck, ListSessions, CloseSession, SessionsClosed,
     Unlock, Authenticate, BindSession, Fetching

\* A group is there when it is found, and as long as it is updated.
LEMMA GroupStep ==
    ASSUME TypeInv, GroupInv, NEW r \in Reqs, Receive(r) \/ Step(r)
    PROVE  GroupInv'
<1> SUFFICES ASSUME NEW s \in Reqs, NEW g \in Groups, NEW u \in Users,
                    (OnlyUpdates(g, u) /\ req[s].kind = "updateGroup" /\ req[s].group = g)',
                    (pc[s] = "validate" \/ Updates(s, g))'
             PROVE  g \in groups'
  BY DEF GroupInv
<1>1. /\ req' = req /\ OnlyUpdates(g, u)
      /\ s # r => pc'[s] = pc[s] /\ answer'[s] = answer[s]
  BY Frame DEF OnlyUpdates, Concerns, Apart, NamesOf
<1>2. CASE pc[s] = "validate" \/ Updates(s, g)
  BY <1>1, <1>2, GroupStays DEF GroupInv
<1>3. CASE s = r /\ pc[r] # "validate" /\ ~Updates(r, g)
  <2>1. /\ Place(r) /\ pc \in [Reqs -> Labels] /\ answer \in [Reqs -> Codes]
        /\ req[r].kind = "updateGroup" /\ req[r].group = g
    BY <1>1, <1>3 DEF TypeInv, TypeOK, PlaceInv
  <2>2. CASE FindGroup(r)
    BY <1>3, <2>1, <2>2 DEF FindGroup, Look, Fail, Finish, Goto, Updates, server
  <2>3. pc[r] \in {"idle", "find", "done"}
    BY <1>3, <2>1, UpdateLabels DEF Updates
  <2>4. CASE Receive(r) \/ RejectName(r)
    BY <1>1, <1>3, <2>1, <2>4 DEF Receive, RejectName, Fail, Finish, Goto, Updates, Labels
  <2>5. QED
    BY <2>1, <2>2, <2>3, <2>4, UpdateActions DEF RejectLists, AcceptLists, IterateMembers,
       MeetOld, OldDone, AddFresh, MembersDone, AdminsDone
<1>4. QED
  BY <1>1, <1>2, <1>3 DEF Updates

-----------------------------------------------------------------------------
(* What a step does to the role of the user. *)

\* The facts of a step that concern update r of group g and user u.
Facts(r, g, u) ==
    /\ TypeInv /\ ListInv(r) /\ OnlyUpdates(g, u)
    /\ req[r].kind = "updateGroup" /\ req[r].group = g
    /\ pc[r] = "validate" \/ Updates(r, g) => g \in groups

\* A request that is no update of the group leaves the role alone.
LEMMA OtherRoles ==
    ASSUME TypeInv, NEW r \in Reqs, ListInv(r), Receive(r) \/ Step(r),
           NEW g \in Groups, NEW u \in Users, OnlyUpdates(g, u),
           ~(req[r].kind = "updateGroup" /\ req[r].group = g)
    PROVE  role'[g][u] = role[g][u]
<1>1. /\ Place(r) /\ role \in [Groups -> [Users -> Roles]] /\ req[r].group \in Groups
      /\ req[r].user \in Users /\ at[r] \in Nat \ {0} /\ Len(req[r].names) \in Nat
      /\ NamesOf(r) \subseteq Groups
  BY RequestTypes DEF TypeInv, TypeOK, PlaceInv
<1>2. /\ req[r].kind \in GroupKinds => req[r].group # g
      /\ req[r].kind \notin GroupKinds => g \notin NamesOf(r)
      /\ req[r].kind \in {"delete", "legacyUpdate"} => req[r].user # u
  BY DEF OnlyUpdates, Concerns, Apart, GroupKinds
<1> USE DEF Finish, Fail, Look, server
<1>3. CASE RemoveGroup(r)
  BY <1>1, <1>2, <1>3 DEF RemoveGroup, Place, GroupKinds
<1>4. CASE MeetOld(r)
  <2>1. req[r].group # g
    BY <1>1, <1>2, <1>4 DEF MeetOld, Place, GroupKinds
  <2>2. QED
    BY <1>1, <1>4, <2>1 DEF MeetOld, SetRole
<1>5. CASE AddFresh(r)
  <2>1. req[r].group # g
    BY <1>1, <1>2, <1>5 DEF AddFresh, Place, GroupKinds
  <2>2. QED
    BY <1>1, <1>5, <2>1 DEF AddFresh, SetRole
<1>6. CASE DeleteUser(r)
  <2>1. req[r].user # u
    BY <1>1, <1>2, <1>6 DEF DeleteUser, Place
  <2>2. QED
    BY <1>1, <1>6, <2>1 DEF DeleteUser
<1>7. CASE AddToGroup(r)
  <2>1. g \notin toAdd[r] /\ toAdd[r] \subseteq Groups
    BY <1>1, <1>2, <1>7 DEF AddToGroup, Place, GroupKinds, JoinKinds, ListInv
  <2>2. QED
    BY <1>1, <1>7, <2>1 DEF AddToGroup, SetRole
<1>8. CASE DropGroup(r)
  <2>1. req[r].user # u /\ toDrop[r] \subseteq Groups
    BY <1>2, <1>8 DEF DropGroup, ListInv, TypeInv, TypeOK
  <2>2. QED
    BY <1>1, <1>8, <2>1 DEF DropGroup, TakeOut, SetRole
<1>9. CASE DropOne(r)
  <2>1. req[r].names[at[r]] \in NamesOf(r) /\ g \notin NamesOf(r)
    BY <1>1, <1>2, <1>9 DEF DropOne, Place, GroupKinds, NamesOf
  <2>2. QED
    BY <1>1, <1>9, <2>1 DEF DropOne, TakeOut, SetRole
<1>10. CASE role' = role
  BY <1>10
<1>11. ~RemoveGroup(r) /\ ~MeetOld(r) /\ ~AddFresh(r) /\ ~DeleteUser(r) /\ ~AddToGroup(r)
       /\ ~DropGroup(r) /\ ~DropOne(r) => role' = role
  BY DEF Step, Receive, RejectName, FindGroup, RejectLists, AcceptLists, RefuseName, MakeGroup,
     IterateMembers, OldDone, MembersDone, AdminsDone, CheckUser, CreateUser, FindMade,
     FetchGroup,
     MissGroup, SupplyGroup, Fetched, AddsDone, DropsDone, DropFind, DropEachDone, Lock,
     Recheck, ListSessions, CloseSession, SessionsClosed, Unlock, Authenticate,
     BindSession, Iterate
<1>12. QED
  BY <1>3, <1>4, <1>5, <1>6, <1>7, <1>8, <1>9, <1>10, <1>11

\* An update in its loops goes on with them, or has ended with success.
LEMMA UpdatesGoOn ==
    ASSUME TypeInv, NEW r \in Reqs, Receive(r) \/ Step(r), NEW s \in Reqs, NEW g, Updates(s, g)
    PROVE  Updates(s, g)'
<1>1. /\ req' = req /\ pc \in [Reqs -> Labels] /\ answer \in [Reqs -> Codes]
      /\ s # r => pc'[s] = pc[s] /\ answer'[s] = answer[s]
  BY Frame DEF TypeInv, TypeOK
<1>2. CASE s = r
  <2>1. \/ IterateMembers(r) \/ MeetOld(r) \/ OldDone(r) \/ AddFresh(r) \/ MembersDone(r)
        \/ AdminsDone(r)
    BY <1>2, UpdateActions, UpdateLabels DEF Updates, Receive, RejectName, FindGroup,
       RejectLists, AcceptLists
  <2>2. QED
    BY <1>1, <1>2, <2>1 DEF Updates, IterateMembers, MeetOld, OldDone, AddFresh,
       MembersDone, AdminsDone, Goto, Finish
<1>3. CASE s # r
  BY <1>1, <1>3 DEF Updates
<1>4. QED
  BY <1>2, <1>3

\* The iterator returns somebody: the user, or another one.
LEMMA Meeting ==
    ASSUME NEW r \in Reqs, NEW g \in Groups, NEW u \in Users, Facts(r, g, u), MeetOld(r)
    PROVE  \E v \in (due[r] \cup Holding(g, RoleAt(r))) \ met[r] :
             /\ met'[r] = met[r] \cup {v} /\ fresh'[r] = fresh[r] \ {v}
             /\ due' = due /\ pc' = pc /\ req' = req
             /\ role'[g][u] = IF v = u /\ u \notin fresh[r] /\ role[g][u] = RoleAt(r)
                              THEN "none" ELSE role[g][u]
<1>1. /\ g \in groups /\ req[r].group = g /\ role \in [Groups -> [Users -> Roles]]
      /\ met \in [Reqs -> SUBSET Users] /\ fresh \in [Reqs -> SUBSET Users]
  BY DEF Facts, Updates, MeetOld, TypeInv, TypeOK
<1>2. PICK v \in (due[r] \cup Holding(g, RoleAt(r))) \ met[r] :
        /\ met' = [met EXCEPT ![r] = @ \cup {v}]
        /\ fresh' = [fresh EXCEPT ![r] = @ \ {v}]
        /\ IF v \in fresh[r] \/ role[g][v] # RoleAt(r)
           THEN role' = role ELSE SetRole(g, v, "none")
  BY <1>1 DEF MeetOld
<1>3. due' = due /\ pc' = pc /\ req' = req
  BY DEF MeetOld
<1>4. role'[g][u] = IF v = u /\ u \notin fresh[r] /\ role[g][u] = RoleAt(r)
                    THEN "none" ELSE role[g][u]
  BY <1>1, <1>2 DEF SetRole
<1>5. QED
  BY <1>1, <1>2, <1>3, <1>4

\* The loop adds somebody: the user, or another one.
LEMMA Adding ==
    ASSUME NEW r \in Reqs, NEW g \in Groups, NEW u \in Users, Facts(r, g, u), AddFresh(r)
    PROVE  \E v \in fresh[r] :
             /\ fresh'[r] = fresh[r] \ {v} /\ met' = met
             /\ due' = due /\ pc' = pc /\ req' = req
             /\ role'[g][u] = IF v = u THEN RoleAt(r) ELSE role[g][u]
<1>1. /\ g \in groups /\ req[r].group = g /\ role \in [Groups -> [Users -> Roles]]
      /\ fresh \in [Reqs -> SUBSET Users]
  BY DEF Facts, Updates, AddFresh, TypeInv, TypeOK
<1>2. PICK v \in fresh[r] : /\ SetRole(g, v, RoleAt(r))
                            /\ fresh' = [fresh EXCEPT ![r] = @ \ {v}]
  BY <1>1 DEF AddFresh
<1>3. /\ due' = due /\ pc' = pc /\ req' = req /\ met' = met
      /\ role'[g][u] = IF v = u THEN RoleAt(r) ELSE role[g][u]
  BY <1>1, <1>2 DEF AddFresh, SetRole
<1>4. QED
  BY <1>1, <1>2, <1>3

\* The other steps of an update leave the roles alone.
LEMMA QuietUpdate ==
    ASSUME TypeInv, NEW r \in Reqs, req[r].kind = "updateGroup", Receive(r) \/ Step(r),
           ~MeetOld(r), ~AddFresh(r)
    PROVE  role' = role
BY UpdateActions DEF Receive, RejectName, FindGroup, RejectLists, AcceptLists, IterateMembers,
   OldDone, MembersDone, AdminsDone, Iterate, Look, Fail, server

\* Once the user has the role all updates agree on, no step takes it; once the user has
\* no role, and should have none, no step gives one.
LEMMA RoleEffect ==
    ASSUME TypeInv, UpdateInv, NEW r \in Reqs, Receive(r) \/ Step(r),
           NEW g \in Groups, NEW u \in Users, OnlyUpdates(g, u)
    PROVE  /\ AgreeOnMember(g, u) /\ role[g][u] = "member" => role'[g][u] = "member"
           /\ AgreeOnAdmin(g, u) /\ role[g][u] = "admin" => role'[g][u] = "admin"
           /\ AgreeOnNobody(g, u) => role'[g][u] \in {"none", role[g][u]}
<1>1. CASE ~(req[r].kind = "updateGroup" /\ req[r].group = g)
  BY <1>1, OtherRoles DEF UpdateInv
<1>2. CASE req[r].kind = "updateGroup" /\ req[r].group = g
  <2>1. Facts(r, g, u) /\ ListInv(r) /\ Track(g, u)
    BY <1>2 DEF Facts, UpdateInv, GroupInv, TrackInv
  <2>2. CASE MeetOld(r)
    <3>1. PICK v \in (due[r] \cup Holding(g, RoleAt(r))) \ met[r] :
            role'[g][u] = IF v = u /\ u \notin fresh[r] /\ role[g][u] = RoleAt(r)
                          THEN "none" ELSE role[g][u]
      BY <2>1, <2>2, Meeting
    <3>2. pc[r] \in {"oldMembers", "oldAdmins"} /\ Updates(r, g)
      BY <1>2, <2>2 DEF MeetOld, Updates
    <3>3. /\ AgreeOnMember(g, u) => AsMember(r, g, u)
          /\ AgreeOnAdmin(g, u) => AsAdmin(r, g, u)
      BY <2>1, <3>2 DEF Track
    <3>4. QED
      BY <3>1, <3>2, <3>3 DEF AsMember, AsAdmin, RoleAt
  <2>3. CASE AddFresh(r)
    <3>1. PICK v \in fresh[r] : role'[g][u] = IF v = u THEN RoleAt(r) ELSE role[g][u]
      BY <2>1, <2>3, Adding
    <3>2. pc[r] \in {"members", "admins"} /\ Updates(r, g)
      BY <1>2, <2>3 DEF AddFresh, Updates
    <3>3. QED
      BY <2>1, <3>1, <3>2 DEF ListInv, AgreeOnMember, AgreeOnAdmin, AgreeOnNobody, RoleAt
  <2>4. CASE ~MeetOld(r) /\ ~AddFresh(r)
    BY <1>2, <2>4, QuietUpdate
  <2>5. QED
    BY <2>2, <2>3, <2>4
<1>3. QED
  BY <1>1, <1>2

-----------------------------------------------------------------------------
(* Each step keeps track of the user. *)

\* What all updates agree on after a step they agreed on before it.
LEMMA AgreedBefore ==
    ASSUME TypeInv, NEW r \in Reqs, Receive(r) \/ Step(r), NEW g, NEW u
    PROVE  /\ AgreeOnMember(g, u)' => AgreeOnMember(g, u)
           /\ AgreeOnAdmin(g, u)' => AgreeOnAdmin(g, u)
           /\ AgreeOnNobody(g, u)' => AgreeOnNobody(g, u)
<1>1. req' = req /\ \A s \in Reqs : Updates(s, g) => Updates(s, g)'
  BY Frame, UpdatesGoOn
<1>2. QED
  BY <1>1 DEF AgreeOnMember, AgreeOnAdmin, AgreeOnNobody

\* Who need not be met in an iteration did not have to be before the step, or does not have
\* the role after it.
LEMMA NotStaying ==
    ASSUME KeepStaying, req' = req, NEW s \in Reqs, NEW u \in Users,
           pc'[s] \in {"oldMembers", "oldAdmins"}, u \notin staying'[s]
    PROVE  \/ pc'[s] = pc[s] /\ u \notin staying[s]
           \/ role'[req[s].group][u] # IF pc'[s] = "oldMembers" THEN "member" ELSE "admin"
BY DEF KeepStaying, RoleAt

\* A step of another request: the lists of an update stay, and RoleEffect says that what
\* they say of the role stays true.
LEMMA OtherTrack ==
    ASSUME TypeInv, UpdateInv, NEW r \in Reqs, Receive(r) \/ Step(r), KeepStaying,
           NEW g \in Groups, NEW u \in Users, OnlyUpdates(g, u),
           NEW s \in Reqs \ {r}, Updates(s, g)'
    PROVE  /\ AgreeOnMember(g, u)' => AsMember(s, g, u)'
           /\ AgreeOnAdmin(g, u)' => AsAdmin(s, g, u)'
           /\ AgreeOnNobody(g, u)' => AsNobody(s, g, u)'
<1>1. /\ req' = req /\ pc'[s] = pc[s] /\ answer'[s] = answer[s]
      /\ fresh'[s] = fresh[s] /\ due'[s] = due[s] /\ met'[s] = met[s]
  BY Frame, OtherLists
<1>2. Updates(s, g)
  BY <1>1 DEF Updates
<1>3. Track(g, u)
  BY DEF UpdateInv, TrackInv
<1>4. ASSUME AgreeOnMember(g, u)' PROVE AsMember(s, g, u)'
  <2>1. AsMember(s, g, u) /\ (role[g][u] = "member" => role'[g][u] = "member")
    BY <1>2, <1>3, <1>4, AgreedBefore, RoleEffect DEF Track
  <2>2. QED
    BY <1>1, <2>1 DEF AsMember
<1>5. ASSUME AgreeOnAdmin(g, u)' PROVE AsAdmin(s, g, u)'
  <2>1. AsAdmin(s, g, u) /\ (role[g][u] = "admin" => role'[g][u] = "admin")
    BY <1>2, <1>3, <1>5, AgreedBefore, RoleEffect DEF Track
  <2>2. QED
    BY <1>1, <2>1 DEF AsAdmin
<1>6. ASSUME AgreeOnNobody(g, u)' PROVE AsNobody(s, g, u)'
  <2>1. AsNobody(s, g, u) /\ role'[g][u] \in {"none", role[g][u]}
    BY <1>2, <1>3, <1>6, AgreedBefore, RoleEffect DEF Track
  <2>2. /\ req[s].group = g
        /\ pc'[s] \in {"oldMembers", "oldAdmins"} /\ u \notin staying'[s]
           => \/ u \notin staying[s]
              \/ role'[g][u] # IF pc'[s] = "oldMembers" THEN "member" ELSE "admin"
    BY <1>1, <1>2, NotStaying DEF Updates
  <2>3. QED
    BY <1>1, <2>1, <2>2 DEF AsNobody
<1>7. QED
  BY <1>4, <1>5, <1>6

\* A step of the update itself.
LEMMA OwnTrack ==
    ASSUME TypeInv, UpdateInv, NEW r \in Reqs, Receive(r) \/ Step(r), KeepStaying,
           NEW g \in Groups, NEW u \in Users, OnlyUpdates(g, u), Updates(r, g)'
    PROVE  /\ AgreeOnMember(g, u)' => AsMember(r, g, u)'
           /\ AgreeOnAdmin(g, u)' => AsAdmin(r, g, u)'
           /\ AgreeOnNobody(g, u)' => AsNobody(r, g, u)'
<1>1. /\ req' = req /\ req[r].kind = "updateGroup" /\ req[r].group = g
      /\ pc \in [Reqs -> Labels] /\ answer \in [Reqs -> Codes]
      /\ fresh \in [Reqs -> SUBSET Users] /\ due \in [Reqs -> SUBSET Users]
      /\ met \in [Reqs -> SUBSET Users]
  BY Frame DEF Updates, TypeInv, TypeOK
<1>2. Facts(r, g, u) /\ ListInv(r)
  BY <1>1 DEF Facts, UpdateInv, GroupInv
<1>3. Updates(r, g) =>
        /\ AgreeOnMember(g, u)' => AsMember(r, g, u)
        /\ AgreeOnAdmin(g, u)' => AsAdmin(r, g, u)
        /\ AgreeOnNobody(g, u)' => AsNobody(r, g, u)
  BY AgreedBefore DEF UpdateInv, TrackInv, Track
<1>4. /\ AgreeOnMember(g, u)' => u \in req[r].members \ req[r].admins
      /\ AgreeOnAdmin(g, u)' => u \in req[r].admins \ req[r].members
      /\ AgreeOnNobody(g, u)' => u \notin req[r].members \cup req[r].admins
  BY <1>1 DEF AgreeOnMember, AgreeOnAdmin, AgreeOnNobody
<1>5. pc'[r] \in {"oldMembers", "oldAdmins"} /\ u \notin staying'[r]
       => \/ pc'[r] = pc[r] /\ u \notin staying[r]
          \/ role'[g][u] # IF pc'[r] = "oldMembers" THEN "member" ELSE "admin"
  BY <1>1, NotStaying
<1> USE DEF AsMember, AsAdmin, AsNobody
<1>6. CASE pc'[r] = "diff"
  BY <1>6
<1>7. CASE Receive(r) \/ RejectName(r) \/ FindGroup(r) \/ RejectLists(r) \/ AcceptLists(r)
  <2>1. pc'[r] = "diff"
    BY <1>1, <1>7 DEF Receive, RejectName, FindGroup, RejectLists, AcceptLists, Goto, Look,
       Fail, Finish, Updates, TypeInv, PlaceInv, Place
  <2>2. QED
    BY <1>6, <2>1
<1>8. CASE IterateMembers(r)
  <2>1. /\ pc'[r] = "oldMembers" /\ fresh'[r] = req[r].members /\ met'[r] = {}
        /\ due'[r] = Holding(g, "member") /\ role' = role /\ pc[r] = "diff"
    BY <1>1, <1>8 DEF IterateMembers, Iterate, Goto, server
  <2>2. QED
    BY <1>4, <1>5, <2>1 DEF Holding
<1>9. CASE MeetOld(r)
  <2>1. PICK v \in (due[r] \cup Holding(g, RoleAt(r))) \ met[r] :
          /\ met'[r] = met[r] \cup {v} /\ fresh'[r] = fresh[r] \ {v}
          /\ due' = due /\ pc' = pc /\ req' = req
          /\ role'[g][u] = IF v = u /\ u \notin fresh[r] /\ role[g][u] = RoleAt(r)
                           THEN "none" ELSE role[g][u]
    BY <1>2, <1>9, Meeting
  <2>2. pc[r] \in {"oldMembers", "oldAdmins"} /\ Updates(r, g)
    BY <1>1, <1>9 DEF MeetOld, Updates
  <2>3. u \in Holding(g, RoleAt(r)) => role[g][u] = RoleAt(r)
    BY DEF Holding
  <2>4. RoleAt(r) = IF pc[r] = "oldMembers" THEN "member" ELSE "admin"
    BY <2>2 DEF RoleAt
  <2>5. CASE pc[r] = "oldMembers"
    BY <1>2, <1>3, <1>4, <2>1, <2>2, <2>3, <2>4, <2>5, <1>5 DEF ListInv
  <2>6. CASE pc[r] = "oldAdmins"
    BY <1>2, <1>3, <1>4, <1>5, <2>1, <2>2, <2>3, <2>4, <2>6 DEF ListInv
  <2>7. QED
    BY <2>2, <2>5, <2>6
<1>10. CASE OldDone(r)
  <2>1. /\ pc[r] \in {"oldMembers", "oldAdmins"} /\ Updates(r, g)
        /\ staying[r] \subseteq met[r]
        /\ pc'[r] = (IF pc[r] = "oldMembers" THEN "members" ELSE "admins")
        /\ UNCHANGED <<role, fresh, due, met>>
    BY <1>1, <1>10 DEF OldDone, Updates, Goto, server, locals
  <2>2. u \in met[r] \/ u \notin staying[r]
    BY <2>1
  <2>3. RoleAt(r) = IF pc[r] = "oldMembers" THEN "member" ELSE "admin"
    BY <2>1 DEF RoleAt
  <2>4. CASE pc[r] = "oldMembers"
    BY <1>3, <2>1, <2>2, <2>3, <2>4
  <2>5. CASE pc[r] = "oldAdmins"
    BY <1>3, <2>1, <2>2, <2>3, <2>5
  <2>6. QED
    BY <2>1, <2>4, <2>5
<1>11. CASE AddFresh(r)
  <2>1. PICK v \in fresh[r] :
          /\ fresh'[r] = fresh[r] \ {v} /\ met' = met
          /\ due' = due /\ pc' = pc /\ req' = req
          /\ role'[g][u] = IF v = u THEN RoleAt(r) ELSE role[g][u]
    BY <1>2, <1>11, Adding
  <2>2. pc[r] \in {"members", "admins"} /\ Updates(r, g)
    BY <1>1, <1>11 DEF AddFresh, Updates
  <2>3. RoleAt(r) = IF pc[r] = "members" THEN "member" ELSE "admin"
    BY <2>2 DEF RoleAt
  <2>4. CASE pc[r] = "members"
    BY <1>2, <1>3, <1>4, <2>1, <2>2, <2>3, <2>4 DEF ListInv
  <2>5. CASE pc[r] = "admins"
    BY <1>2, <1>3, <1>4, <2>1, <2>2, <2>3, <2>5 DEF ListInv
  <2>6. QED
    BY <2>2, <2>4, <2>5
<1>12. CASE MembersDone(r)
  <2>1. /\ pc[r] = "members" /\ fresh[r] = {} /\ Updates(r, g) /\ pc'[r] = "oldAdmins"
        /\ fresh'[r] = req[r].admins /\ met'[r] = {} /\ due'[r] = Holding(g, "admin")
        /\ role' = role
    BY <1>1, <1>12 DEF MembersDone, Iterate, Updates, Goto, server
  <2>2. QED
    BY <1>3, <1>4, <1>5, <2>1 DEF Holding
<1>13. CASE AdminsDone(r)
  <2>1. /\ pc[r] = "admins" /\ fresh[r] = {} /\ Updates(r, g) /\ pc'[r] = "done"
        /\ role' = role
    BY <1>1, <1>13 DEF AdminsDone, Updates, Finish, Goto, server
  <2>2. QED
    BY <1>3, <2>1
<1>14. QED
  BY <1>1, <1>7, <1>8, <1>9, <1>10, <1>11, <1>12, <1>13, UpdateActions

\* Every step keeps the invariant.
LEMMA UpdateStep == TypeInv /\ UpdateInv /\ [Next]_vars => UpdateInv'
<1> SUFFICES ASSUME TypeInv, UpdateInv, [Next]_vars PROVE UpdateInv'
  OBVIOUS
<1>1. ASSUME NEW r \in Reqs, Receive(r) \/ Step(r), KeepStaying PROVE UpdateInv'
  <2>1. req' = req
    BY <1>1, Frame
  <2>2. ASSUME NEW s \in Reqs PROVE ListInv(s)'
    <3>1. CASE s = r
      BY <1>1, <3>1, OwnLists DEF UpdateInv
    <3>2. CASE s # r
      <4>1. /\ pc'[s] = pc[s] /\ fresh'[s] = fresh[s]
            /\ toAdd'[s] = toAdd[s] /\ toDrop'[s] = toDrop[s]
        BY <1>1, <3>2, Frame, OtherLists
      <4>2. QED
        BY <2>1, <4>1 DEF UpdateInv, ListInv, NamesOf
    <3>3. QED
      BY <3>1, <3>2
  <2>3. GroupInv'
    BY <1>1, GroupStep DEF UpdateInv
  <2>4. ASSUME NEW g \in Groups, NEW u \in Users, OnlyUpdates(g, u)' PROVE Track(g, u)'
    <3>1. OnlyUpdates(g, u)
      BY <2>1, <2>4 DEF OnlyUpdates, Concerns, Apart, NamesOf
    <3>2. ASSUME NEW s \in Reqs, Updates(s, g)'
          PROVE  /\ AgreeOnMember(g, u)' => AsMember(s, g, u)'
                 /\ AgreeOnAdmin(g, u)' => AsAdmin(s, g, u)'
                 /\ AgreeOnNobody(g, u)' => AsNobody(s, g, u)'
      <4>1. CASE s = r
        BY <1>1, <3>1, <3>2, <4>1, OwnTrack
      <4>2. CASE s # r
        BY <1>1, <3>1, <3>2, <4>2, OtherTrack
      <4>3. QED
        BY <4>1, <4>2
    <3>3. QED
      BY <3>2 DEF Track
  <2>5. QED
    BY <2>2, <2>3, <2>4 DEF UpdateInv, TrackInv
<1>2. CASE UNCHANGED vars
  <2>1. UNCHANGED <<req, pc, answer, role, groups, fresh, due, met, staying, toAdd, toDrop>>
    BY <1>2 DEF vars, server, locals
  <2>2. \A r \in Reqs : ListInv(r)'
    BY <2>1 DEF UpdateInv, ListInv, NamesOf
  <2>3. \A g, u : OnlyUpdates(g, u)' = OnlyUpdates(g, u)
    BY <2>1 DEF OnlyUpdates, Concerns, Apart, NamesOf
  <2>4. \A r, g : Updates(r, g)' = Updates(r, g)
    BY <2>1 DEF Updates
  <2>5. GroupInv'
    BY <2>1, <2>3, <2>4 DEF UpdateInv, GroupInv
  <2>6. \A g, u : Track(g, u)' = Track(g, u)
    BY <2>1, <2>4 DEF Track, AgreeOnMember, AgreeOnAdmin, AgreeOnNobody, AsMember, AsAdmin,
       AsNobody
  <2>7. QED
    BY <2>2, <2>3, <2>5, <2>6 DEF UpdateInv, TrackInv
<1>3. QED
  BY <1>1, <1>2 DEF Next, Drained

LEMMA UpdatesAlways == Spec => [](TypeInv /\ UpdateInv)
<1>1. IInv => TypeInv
  BY DEF IInv
<1>2. QED
  BY <1>1, InitUpdates, UpdateStep, InvAlways, PTL DEF Spec

\* However many updates of a group overlap, a user that all of them name in one role
\* ends up with it, and one that none of them names ends up without any.
THEOREM UpdatesAgree == Spec => []UpdatesMeetInBetween
<1>1. ASSUME TypeInv, UpdateInv PROVE UpdatesMeetInBetween
  <2> SUFFICES ASSUME NEW g \in groups,
                      \E r \in Reqs : Concerns(r, g) /\ answer[r] = "ok",
                      \A r \in Reqs : Concerns(r, g) =>
                          req[r].kind = "updateGroup" /\ pc[r] = "done",
                      NEW u \in Users, Apart(u)
               PROVE  LET put == {r \in Reqs : Concerns(r, g) /\ answer[r] = "ok"} IN
                      /\ (\A r \in put : u \in req[r].members \ req[r].admins)
                         => role[g][u] = "member"
                      /\ (\A r \in put : u \in req[r].admins \ req[r].members)
                         => role[g][u] = "admin"
                      /\ role[g][u] # "none"
                         => \E r \in put : u \in req[r].members \cup req[r].admins
    BY DEF UpdatesMeetInBetween
  <2>1. g \in Groups /\ role[g][u] \in Roles
    BY <1>1 DEF TypeInv, TypeOK
  <2>2. OnlyUpdates(g, u) /\ Track(g, u)
    BY <1>1, <2>1 DEF OnlyUpdates, UpdateInv, TrackInv
  <2>3. \A r \in Reqs : Updates(r, g) <=> Concerns(r, g) /\ answer[r] = "ok"
    BY DEF Updates, Concerns, GroupKinds
  <2>4. PICK r \in Reqs : Updates(r, g) /\ pc[r] = "done"
    BY <2>3
  <2>5. /\ AgreeOnMember(g, u) => role[g][u] = "member"
        /\ AgreeOnAdmin(g, u) => role[g][u] = "admin"
        /\ AgreeOnNobody(g, u) => role[g][u] = "none"
    BY <2>1, <2>2, <2>4 DEF Track, AsMember, AsAdmin, AsNobody, Roles
  <2>6. QED
    BY <2>3, <2>5 DEF AgreeOnMember, AgreeOnAdmin, AgreeOnNobody
<1>2. QED
  BY <1>1, UpdatesAlways, PTL
=============================================================================
