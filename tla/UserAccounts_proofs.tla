------------------------- MODULE UserAccounts_proofs -------------------------
(***************************************************************************)
(* Proofs about UserAccounts, for every set of users, groups, requests and *)
(* every initial state: what a request on groups that was refused, or      *)
(* answered, has done, that a moved user keeps a group, and that a         *)
(* disabled user is offline.                                               *)
(***************************************************************************)
EXTENDS UserAccounts, TLAPS

JoinKinds == {"addTo", "legacyCreate", "legacyUpdate"}

\* Which request may be at which label, and that a name is left to deal with.
Place(r) ==
    /\ pc[r] = "find" => req[r].kind \in {"updateGroup", "deleteGroup"}
    /\ pc[r] = "remove" => req[r].kind = "deleteGroup"
    /\ pc[r] \in {"validate", "members", "admins"}
       => req[r].kind \in {"createGroup", "updateGroup"}
    /\ pc[r] = "make" => req[r].kind = "createGroup"
    /\ pc[r] \in {"diff", "oldMembers", "oldAdmins"} => req[r].kind = "updateGroup"
    /\ pc[r] = "user"
       => req[r].kind \in {"create", "legacyCreate", "legacyUpdate", "disable",
                           "legacyDisable", "enable", "delete"}
    /\ pc[r] = "delete" => req[r].kind = "delete"
    /\ pc[r] = "made" => req[r].kind = "legacyCreate"
    /\ pc[r] \in {"fetch", "supply", "add", "drop"} => req[r].kind \in JoinKinds
    /\ pc[r] \in {"dropEach", "dropOne"} => req[r].kind = "dropFrom"
    /\ pc[r] \in {"supply", "dropOne"} => at[r] <= Len(req[r].names)
    /\ pc[r] = "lock" => req[r].kind \in {"disable", "legacyDisable"}
    /\ pc[r] = "recheck" => req[r].kind = "disable"
    /\ pc[r] \in {"list", "close"} => req[r].kind \in {"disable", "kick"}
    /\ pc[r] = "unlock" => req[r].kind = "enable"
    /\ pc[r] \in {"auth", "bind"} => req[r].kind = "login"
    /\ answer[r] # "none" <=> pc[r] = "done"

PlaceInv == \A r \in Reqs : Place(r)

TypeInv == TypeOK /\ PlaceInv

-----------------------------------------------------------------------------
(* Facts that several steps use. *)

\* What a request may be.
LEMMA RequestTypes ==
    ASSUME TypeOK, NEW r \in Reqs
    PROVE  /\ req[r].kind \in GroupKinds \cup ListKinds \cup UserKinds
           /\ req[r].user \in Users /\ req[r].group \in Groups
           /\ req[r].names \in Seq(Groups) /\ Len(req[r].names) \in Nat
           /\ \A i \in 1..Len(req[r].names) : req[r].names[i] \in Groups
           /\ NamesOf(r) \subseteq Groups
           /\ req[r].members \in SUBSET Users /\ req[r].admins \in SUBSET Users
           /\ at[r] \in Nat \ {0}
<1>1. req[r] \in RequestType
  BY DEF TypeOK
<1>2. /\ req[r].names \in Seq(Groups) /\ Len(req[r].names) \in Nat
      /\ \A i \in 1..Len(req[r].names) : req[r].names[i] \in Groups
  BY <1>1 DEF RequestType
<1>3. at[r] \in Nat \ {0}
  BY <1>2 DEF TypeOK
<1>4. QED
  BY <1>1, <1>2, <1>3 DEF RequestType, NamesOf

\* A write to a group that is there, or is not, is a write to roles.
LEMMA RoleTypes ==
    ASSUME TypeOK, NEW g \in Groups, NEW u \in Users, NEW k \in Roles, SetRole(g, u, k)
    PROVE  /\ role' \in [Groups -> [Users -> Roles]]
           /\ \A h \in Groups \ groups : \A v \in Users : role'[h][v] = "none"
           /\ \A h \in Groups, v \in Users :
                  role'[h][v] = IF h = g /\ g \in groups /\ v = u THEN k ELSE role[h][v]
<1>1. CASE g \in groups
  BY <1>1 DEF TypeOK, SetRole
<1>2. CASE g \notin groups
  BY <1>2 DEF TypeOK, SetRole
<1>3. QED
  BY <1>1, <1>2

-----------------------------------------------------------------------------
(* Types. *)

LEMMA InitTypes == Init => TypeInv
<1> SUFFICES ASSUME Init PROVE TypeInv
  OBVIOUS
<1>1. req \in [Reqs -> RequestType]
  BY AccountsAssumption DEF Init
<1>2. \A r \in Reqs : 1 \in 1..(Len(req[r].names) + 1)
  BY <1>1 DEF RequestType
<1>3. TypeOK
  BY <1>1, <1>2, AccountsAssumption DEF Init, TypeOK, Labels, Codes, Sessions
<1>4. QED
  BY <1>3 DEF Init, TypeInv, PlaceInv, Place

\* A thread touches nothing of the others but the note that their user was enabled.
LEMMA Frame ==
    ASSUME TypeInv, NEW r \in Reqs, Receive(r) \/ Step(r)
    PROVE  /\ req' = req /\ at' \in [Reqs -> Nat]
           /\ \A s \in Reqs \ {r} :
                /\ pc'[s] = pc[s] /\ at'[s] = at[s] /\ answer'[s] = answer[s]
                /\ toAdd'[s] = toAdd[s] /\ toDrop'[s] = toDrop[s]
                /\ listed'[s] = listed[s] /\ before'[s] = before[s]
                /\ joined'[s] = joined[s]
<1> USE DEF TypeInv, TypeOK, Goto, Finish, Fail, Look, NextName, locals, history, server
<1>1. CASE Receive(r) \/ RejectName(r) \/ FindGroup(r) \/ RemoveGroup(r) \/ RejectLists(r)
           \/ AcceptLists(r) \/ RefuseName(r) \/ MakeGroup(r) \/ IterateMembers(r)
  BY <1>1 DEF Receive, RejectName, FindGroup, RemoveGroup, RejectLists, AcceptLists,
     RefuseName, MakeGroup, IterateMembers, Iterate
<1>2. CASE MeetOld(r) \/ OldDone(r) \/ AddFresh(r) \/ MembersDone(r) \/ AdminsDone(r)
  BY <1>2 DEF MeetOld, OldDone, AddFresh, MembersDone, AdminsDone, Iterate
<1>3. CASE CheckUser(r) \/ CreateUser(r) \/ FindMade(r) \/ DeleteUser(r)
  BY <1>3 DEF CheckUser, CreateUser, FindMade, DeleteUser
<1>4. CASE FetchGroup(r) \/ MissGroup(r) \/ SupplyGroup(r)
  <2>1. CASE FetchGroup(r)
    BY <2>1 DEF FetchGroup
  <2>2. CASE MissGroup(r)
    BY <2>2 DEF MissGroup
  <2>3. CASE SupplyGroup(r)
    BY <2>3 DEF SupplyGroup
  <2>4. QED
    BY <1>4, <2>1, <2>2, <2>3
<1>5. CASE Fetched(r) \/ AddToGroup(r) \/ AddsDone(r)
  BY <1>5 DEF Fetched, AddToGroup, AddsDone
<1>6. CASE DropGroup(r)
  BY <1>6 DEF DropGroup
<1>7. CASE DropOne(r)
  BY <1>7 DEF DropOne
<1>8. CASE DropsDone(r) \/ DropFind(r) \/ DropEachDone(r)
  BY <1>8 DEF DropsDone, DropFind, DropEachDone
<1>9. CASE Lock(r) \/ Recheck(r) \/ ListSessions(r) \/ CloseSession(r) \/ SessionsClosed(r)
           \/ Unlock(r) \/ Authenticate(r) \/ BindSession(r)
  BY <1>9 DEF Lock, Recheck, ListSessions, CloseSession, SessionsClosed, Unlock,
     Authenticate, BindSession
<1>10. QED
  BY <1>1, <1>2, <1>3, <1>4, <1>5, <1>6, <1>7, <1>8, <1>9 DEF Step

\* A thread goes on to a label, and gives an answer, that fit its request.
LEMMA StepControl ==
    ASSUME TypeInv, NEW r \in Reqs, Receive(r) \/ Step(r)
    PROVE  /\ pc' \in [Reqs -> Labels] /\ answer' \in [Reqs -> Codes]
           /\ at'[r] \in 1..(Len(req[r].names) + 1) /\ Place(r)'
<1>1. /\ pc \in [Reqs -> Labels] /\ answer \in [Reqs -> Codes] /\ Place(r)
      /\ Len(req[r].names) \in Nat /\ at[r] \in 1..(Len(req[r].names) + 1)
      /\ req[r].kind \in GroupKinds \cup ListKinds \cup UserKinds
      /\ req' = req /\ DOMAIN at = Reqs
  BY RequestTypes, Frame DEF TypeInv, TypeOK, PlaceInv
<1> USE DEF Goto, Finish, Fail, Look, NextName, Place, Labels, Codes, JoinKinds, GroupKinds,
            ListKinds, UserKinds, locals
<1>2. CASE Receive(r)
  BY <1>1, <1>2 DEF Receive
<1>3. CASE RejectName(r)
  BY <1>1, <1>3 DEF RejectName
<1>4. CASE FindGroup(r)
  BY <1>1, <1>4 DEF FindGroup
<1>5. CASE RemoveGroup(r)
  BY <1>1, <1>5 DEF RemoveGroup
<1>6. CASE RejectLists(r)
  BY <1>1, <1>6 DEF RejectLists
<1>7. CASE AcceptLists(r)
  BY <1>1, <1>7 DEF AcceptLists
<1>8. CASE MakeGroup(r)
  BY <1>1, <1>8 DEF MakeGroup
<1>9. CASE IterateMembers(r)
  BY <1>1, <1>9 DEF IterateMembers, Iterate
<1>10. CASE MeetOld(r)
  BY <1>1, <1>10 DEF MeetOld
<1>11. CASE OldDone(r)
  BY <1>1, <1>11 DEF OldDone
<1>12. CASE AddFresh(r)
  BY <1>1, <1>12 DEF AddFresh
<1>13. CASE MembersDone(r)
  BY <1>1, <1>13 DEF MembersDone, Iterate
<1>14. CASE AdminsDone(r)
  BY <1>1, <1>14 DEF AdminsDone
<1>15. CASE CheckUser(r)
  BY <1>1, <1>15 DEF CheckUser
<1>16. CASE CreateUser(r)
  BY <1>1, <1>16 DEF CreateUser
<1>17. CASE DeleteUser(r)
  BY <1>1, <1>17 DEF DeleteUser
<1>18. CASE FetchGroup(r)
  BY <1>1, <1>18 DEF FetchGroup, Fetching
<1>19. CASE MissGroup(r)
  BY <1>1, <1>19 DEF MissGroup, Fetching
<1>20. CASE SupplyGroup(r)
  BY <1>1, <1>20 DEF SupplyGroup
<1>21. CASE Fetched(r)
  BY <1>1, <1>21 DEF Fetched
<1>22. CASE AddToGroup(r)
  BY <1>1, <1>22 DEF AddToGroup
<1>23. CASE AddsDone(r)
  BY <1>1, <1>23 DEF AddsDone
<1>24. CASE DropGroup(r)
  BY <1>1, <1>24 DEF DropGroup
<1>25. CASE DropsDone(r)
  BY <1>1, <1>25 DEF DropsDone
<1>26. CASE DropFind(r)
  BY <1>1, <1>26 DEF DropFind
<1>27. CASE DropOne(r)
  BY <1>1, <1>27 DEF DropOne
<1>28. CASE DropEachDone(r)
  BY <1>1, <1>28 DEF DropEachDone
<1>29. CASE Lock(r)
  BY <1>1, <1>29 DEF Lock
<1>30. CASE Recheck(r)
  BY <1>1, <1>30 DEF Recheck
<1>31. CASE ListSessions(r)
  BY <1>1, <1>31 DEF ListSessions
<1>32. CASE CloseSession(r)
  BY <1>1, <1>32 DEF CloseSession
<1>33. CASE SessionsClosed(r)
  BY <1>1, <1>33 DEF SessionsClosed
<1>34. CASE Unlock(r)
  BY <1>1, <1>34 DEF Unlock
<1>35. CASE Authenticate(r)
  BY <1>1, <1>35 DEF Authenticate
<1>36. CASE BindSession(r)
  BY <1>1, <1>36 DEF BindSession
<1>37. CASE RefuseName(r)
  BY <1>1, <1>37 DEF RefuseName
<1>38. CASE FindMade(r)
  BY <1>1, <1>38 DEF FindMade
<1>39. QED
  BY <1>2, <1>3, <1>4, <1>5, <1>6, <1>7, <1>8, <1>9, <1>10, <1>11, <1>12, <1>13,
     <1>14, <1>15, <1>16, <1>17, <1>18, <1>19, <1>20, <1>21, <1>22, <1>23, <1>24,
     <1>25, <1>26, <1>27, <1>28, <1>29, <1>30, <1>31, <1>32, <1>33, <1>34, <1>35,
     <1>36, <1>37, <1>38 DEF Step

\* What a step does to Openfire, and to the note of what was taken away: who loses a role,
\* or a group that goes, is noted.
ServerTypes ==
    /\ accounts \subseteq Users /\ locked \subseteq Users
    /\ sessions \subseteq Sessions
    /\ groups \subseteq Groups
    /\ role \in [Groups -> [Users -> Roles]]
    /\ \A g \in Groups \ groups : \A u \in Users : role[g][u] = "none"
    /\ removed \subseteq Groups \X Users

LossIsNoted ==
    /\ removed \subseteq removed'
    /\ \A g \in Groups, u \in Users :
           role[g][u] # "none" => role'[g][u] # "none" \/ <<g, u>> \in removed'
    /\ \A g \in groups \ groups', u \in Users : <<g, u>> \in removed'

LEMMA TakeOutLoss ==
    ASSUME ServerTypes, NEW g \in Groups, NEW u \in Users, TakeOut(g, u),
           UNCHANGED <<accounts, locked, sessions, groups>>
    PROVE  ServerTypes' /\ LossIsNoted
<1>1. CASE role[g][u] = "member"
  BY <1>1 DEF TakeOut, SetRole, ServerTypes, LossIsNoted, Roles
<1>2. CASE role[g][u] # "member"
  BY <1>2 DEF TakeOut, ServerTypes, LossIsNoted
<1>3. QED
  BY <1>1, <1>2

\* A role that is given to a user is not lost.
LEMMA GiveLoss ==
    ASSUME ServerTypes, NEW g \in Groups, NEW u \in Users, NEW k \in Roles \ {"none"},
           SetRole(g, u, k), UNCHANGED <<accounts, locked, sessions, groups, removed>>
    PROVE  ServerTypes' /\ LossIsNoted
BY DEF SetRole, ServerTypes, LossIsNoted

LEMMA QuietLoss ==
    ASSUME ServerTypes, UNCHANGED <<accounts, locked, sessions, groups, role, removed>>
    PROVE  ServerTypes' /\ LossIsNoted
BY DEF ServerTypes, LossIsNoted

LEMMA StepServer ==
    ASSUME TypeInv, NEW r \in Reqs, Receive(r) \/ Step(r)
    PROVE  ServerTypes' /\ LossIsNoted
<1>1. /\ ServerTypes
      /\ req[r].user \in Users /\ req[r].group \in Groups
      /\ Len(req[r].names) \in Nat /\ at[r] \in Nat \ {0}
      /\ \A i \in 1..Len(req[r].names) : req[r].names[i] \in Groups
      /\ toAdd[r] \subseteq Groups /\ toDrop[r] \subseteq Groups
      /\ fresh[r] \subseteq Users /\ due[r] \subseteq Users
      /\ listed[r] \subseteq Sessions
      /\ pc[r] \in {"supply", "dropOne"} => at[r] <= Len(req[r].names)
  BY RequestTypes DEF TypeInv, TypeOK, PlaceInv, Place, ServerTypes
<1> USE DEF Finish, Fail, Look, locals, server, history
<1>2. CASE Receive(r) \/ RejectName(r) \/ FindGroup(r) \/ RejectLists(r) \/ AcceptLists(r)
           \/ RefuseName(r) \/ IterateMembers(r) \/ OldDone(r) \/ MembersDone(r)
           \/ AdminsDone(r)
  BY <1>1, <1>2, QuietLoss DEF Receive, RejectName, FindGroup, RejectLists, AcceptLists,
     RefuseName, IterateMembers, OldDone, MembersDone, AdminsDone, Iterate
<1>3. CASE CheckUser(r) \/ FindMade(r) \/ FetchGroup(r) \/ MissGroup(r) \/ Fetched(r)
           \/ AddsDone(r) \/ DropsDone(r) \/ DropFind(r) \/ DropEachDone(r)
  BY <1>1, <1>3, QuietLoss DEF CheckUser, FindMade, FetchGroup, MissGroup, Fetched, AddsDone,
     DropsDone, DropFind, DropEachDone
<1>4. CASE Recheck(r) \/ ListSessions(r) \/ SessionsClosed(r) \/ Authenticate(r)
  BY <1>1, <1>4, QuietLoss DEF Recheck, ListSessions, SessionsClosed, Authenticate
<1>5. CASE RemoveGroup(r)
  BY <1>1, <1>5 DEF RemoveGroup, ServerTypes, LossIsNoted, Roles
<1>6. CASE MakeGroup(r)
  <2>1. CASE req[r].group \in groups
    BY <1>1, <1>6, <2>1, QuietLoss DEF MakeGroup
  <2>2. CASE req[r].group \notin groups
    BY <1>1, <1>6, <2>2 DEF MakeGroup, ServerTypes, LossIsNoted
  <2>3. QED
    BY <2>1, <2>2
<1>7. CASE MeetOld(r)
  <2>1. PICK u \in (due[r] \cup Holding(req[r].group, RoleAt(r))) \ met[r] :
            \/ UNCHANGED <<role, removed>>
            \/ /\ role[req[r].group][u] = RoleAt(r)
               /\ SetRole(req[r].group, u, "none")
               /\ removed' = removed \cup {<<req[r].group, u>>}
    BY <1>7 DEF MeetOld
  <2>2. u \in Users
    BY <1>1, <2>1 DEF Holding
  <2>3. UNCHANGED <<accounts, locked, sessions, groups>>
    BY <1>7 DEF MeetOld
  <2>4. CASE UNCHANGED <<role, removed>>
    BY <1>1, <2>3, <2>4, QuietLoss
  <2>5. CASE /\ SetRole(req[r].group, u, "none")
             /\ removed' = removed \cup {<<req[r].group, u>>}
    BY <1>1, <2>2, <2>3, <2>5 DEF SetRole, ServerTypes, LossIsNoted, Roles
  <2>6. QED
    BY <2>1, <2>4, <2>5
<1>8. CASE AddFresh(r)
  <2>1. PICK u \in fresh[r] : SetRole(req[r].group, u, RoleAt(r))
    BY <1>8 DEF AddFresh
  <2>2. RoleAt(r) \in Roles \ {"none"}
    BY DEF RoleAt, Roles
  <2>3. QED
    BY <1>1, <1>8, <2>1, <2>2, GiveLoss DEF AddFresh
<1>9. CASE CreateUser(r)
  BY <1>1, <1>9, QuietLoss DEF CreateUser, ServerTypes, LossIsNoted
<1>10. CASE DeleteUser(r)
  <2>1. CASE UNCHANGED <<role, removed>>
    BY <1>1, <1>10, <2>1 DEF DeleteUser, ServerTypes, LossIsNoted
  <2>2. CASE /\ role' = [g \in Groups |-> [role[g] EXCEPT ![req[r].user] = "none"]]
             /\ removed' = removed \cup (Groups \X {req[r].user})
    BY <1>1, <1>10, <2>2 DEF DeleteUser, ServerTypes, LossIsNoted, Roles
  <2>3. QED
    BY <1>10, <2>1, <2>2 DEF DeleteUser
<1>11. CASE SupplyGroup(r)
  <2>1. CASE req[r].names[at[r]] \in groups
    BY <1>1, <1>11, <2>1, QuietLoss DEF SupplyGroup
  <2>2. CASE req[r].names[at[r]] \notin groups
    BY <1>1, <1>11, <2>2 DEF SupplyGroup, ServerTypes, LossIsNoted
  <2>3. QED
    BY <2>1, <2>2
<1>12. CASE AddToGroup(r)
  <2>1. PICK g \in toAdd[r] : SetRole(g, req[r].user, "member")
    BY <1>12 DEF AddToGroup
  <2>2. QED
    BY <1>1, <1>12, <2>1, GiveLoss DEF AddToGroup, Roles
<1>13. CASE DropGroup(r)
  <2>1. PICK g \in toDrop[r] : TakeOut(g, req[r].user)
    BY <1>13 DEF DropGroup
  <2>2. QED
    BY <1>1, <1>13, <2>1, TakeOutLoss DEF DropGroup
<1>14. CASE DropOne(r)
  BY <1>1, <1>14, TakeOutLoss DEF DropOne
<1>15. CASE Lock(r) \/ CloseSession(r) \/ Unlock(r)
  BY <1>1, <1>15 DEF Lock, CloseSession, Unlock, ServerTypes, LossIsNoted
<1>16. CASE BindSession(r)
  <2>1. sessions' \subseteq Sessions
    BY <1>1, <1>16 DEF BindSession, ServerTypes, Sessions
  <2>2. QED
    BY <1>1, <1>16, <2>1 DEF BindSession, ServerTypes, LossIsNoted
<1>17. QED
  BY <1>2, <1>3, <1>4, <1>5, <1>6, <1>7, <1>8, <1>9, <1>10, <1>11, <1>12, <1>13,
     <1>14, <1>15, <1>16 DEF Step

\* What a step does to the notes of a thread.
LocalTypes ==
    /\ toAdd \in [Reqs -> SUBSET Groups] /\ toDrop \in [Reqs -> SUBSET Groups]
    /\ fresh \in [Reqs -> SUBSET Users] /\ due \in [Reqs -> SUBSET Users]
    /\ met \in [Reqs -> SUBSET Users]
    /\ listed \in [Reqs -> SUBSET Sessions]
    /\ before \in [Reqs -> SUBSET Sessions] /\ freed \in [Reqs -> BOOLEAN]
    /\ joined \in [Reqs -> SUBSET Groups]

LEMMA QuietLocals ==
    ASSUME LocalTypes,
           UNCHANGED <<toAdd, toDrop, fresh, due, met, listed, before, freed, joined>>
    PROVE  LocalTypes'
BY DEF LocalTypes

LEMMA StepLocals ==
    ASSUME TypeInv, NEW r \in Reqs, Receive(r) \/ Step(r)
    PROVE  LocalTypes'
<1>1. /\ LocalTypes
      /\ NamesOf(r) \subseteq Groups
      /\ req[r].members \in SUBSET Users /\ req[r].admins \in SUBSET Users
      /\ \A u : SessionsOf(u) \subseteq Sessions
      /\ \A g, k : Holding(g, k) \subseteq Users
      /\ \A u : GroupsOf(u) \subseteq Groups
  BY RequestTypes DEF TypeInv, TypeOK, LocalTypes, SessionsOf, Holding, GroupsOf
<1> USE DEF Finish, Fail, Look, locals, server, history
<1>2. CASE Receive(r) \/ RejectName(r) \/ FindGroup(r) \/ RemoveGroup(r) \/ RejectLists(r)
           \/ AcceptLists(r) \/ RefuseName(r) \/ OldDone(r) \/ AdminsDone(r)
  BY <1>1, <1>2, QuietLocals DEF Receive, RejectName, FindGroup, RemoveGroup, RejectLists,
     AcceptLists, RefuseName, OldDone, AdminsDone
<1>3. CASE CheckUser(r) \/ CreateUser(r) \/ FindMade(r) \/ DeleteUser(r) \/ FetchGroup(r)
           \/ MissGroup(r) \/ AddsDone(r) \/ DropsDone(r) \/ DropFind(r) \/ DropOne(r)
           \/ DropEachDone(r)
  <2>1. UNCHANGED <<toAdd, toDrop, fresh, due, met, listed, before, freed, joined>>
    <3>1. CASE CheckUser(r) \/ CreateUser(r) \/ FindMade(r) \/ DeleteUser(r)
      BY <3>1 DEF CheckUser, CreateUser, FindMade, DeleteUser
    <3>2. CASE FetchGroup(r) \/ MissGroup(r) \/ AddsDone(r) \/ DropsDone(r)
      BY <3>2 DEF FetchGroup, MissGroup, AddsDone, DropsDone
    <3>3. CASE DropFind(r) \/ DropOne(r) \/ DropEachDone(r)
      BY <3>3 DEF DropFind, DropOne, DropEachDone
    <3>4. QED
      BY <1>3, <3>1, <3>2, <3>3
  <2>2. QED
    BY <1>1, <2>1, QuietLocals
<1>4. CASE SupplyGroup(r) \/ Recheck(r) \/ SessionsClosed(r) \/ Authenticate(r)
           \/ BindSession(r)
  BY <1>1, <1>4, QuietLocals DEF SupplyGroup, Recheck, SessionsClosed, Authenticate,
     BindSession
<1>5. CASE MakeGroup(r)
  BY <1>1, <1>5 DEF MakeGroup, LocalTypes
<1>6. CASE IterateMembers(r) \/ MembersDone(r)
  BY <1>1, <1>6 DEF IterateMembers, MembersDone, Iterate, LocalTypes
<1>7. CASE MeetOld(r)
  <2>1. PICK u \in (due[r] \cup Holding(req[r].group, RoleAt(r))) \ met[r] :
            /\ met' = [met EXCEPT ![r] = @ \cup {u}]
            /\ fresh' = [fresh EXCEPT ![r] = @ \ {u}]
    BY <1>7 DEF MeetOld
  <2>2. u \in Users
    BY <1>1, <2>1 DEF LocalTypes
  <2>3. UNCHANGED <<toAdd, toDrop, due, listed, before, freed, joined>>
    BY <1>7 DEF MeetOld
  <2>4. QED
    BY <1>1, <2>1, <2>2, <2>3 DEF LocalTypes
<1>8. CASE AddFresh(r)
  BY <1>1, <1>8 DEF AddFresh, LocalTypes
<1>9. CASE Fetched(r)
  BY <1>1, <1>9 DEF Fetched, LocalTypes
<1>10. CASE AddToGroup(r) \/ DropGroup(r)
  BY <1>1, <1>10 DEF AddToGroup, DropGroup, LocalTypes
<1>11. CASE ListSessions(r) \/ CloseSession(r)
  BY <1>1, <1>11 DEF ListSessions, CloseSession, LocalTypes
<1>12. CASE Unlock(r)
  <2>1. freed' \in [Reqs -> BOOLEAN]
    BY <1>1, <1>12 DEF Unlock, LocalTypes
  <2>2. QED
    BY <1>1, <1>12, <2>1 DEF Unlock, LocalTypes
<1>13. CASE Lock(r)
  <2>1. freed' \in [Reqs -> BOOLEAN] /\ before' \in [Reqs -> SUBSET Sessions]
    BY <1>1, <1>13 DEF Lock, LocalTypes
  <2>2. QED
    BY <1>1, <1>13, <2>1 DEF Lock, LocalTypes
<1>14. QED
  BY <1>2, <1>3, <1>4, <1>5, <1>6, <1>7, <1>8, <1>9, <1>10, <1>11, <1>12, <1>13 DEF Step

\* Each step keeps the types.
LEMMA StepTypes ==
    ASSUME TypeInv, NEW r \in Reqs, Receive(r) \/ Step(r), KeepStaying
    PROVE  TypeInv'
<1>1. req' = req /\ \A s \in Reqs \ {r} : pc'[s] = pc[s] /\ at'[s] = at[s] /\ answer'[s] = answer[s]
  BY Frame
<1>2. at' \in [Reqs -> Nat] /\ \A s \in Reqs : at'[s] \in 1..(Len(req[s].names) + 1)
  BY <1>1, Frame, StepControl DEF TypeInv, TypeOK
<1>3. staying' \in [Reqs -> SUBSET Users]
  BY DEF KeepStaying, TypeInv, TypeOK
<1>4. TypeOK'
  BY <1>1, <1>2, <1>3, StepControl, StepServer, StepLocals
     DEF TypeInv, TypeOK, ServerTypes, LocalTypes
<1>5. \A s \in Reqs \ {r} : Place(s)'
  BY <1>1 DEF TypeInv, PlaceInv, Place
<1>6. QED
  BY <1>4, <1>5, StepControl DEF TypeInv, PlaceInv
-----------------------------------------------------------------------------
(* Lists of groups. *)

\* A group is there, or a user has a role in it, unless somebody took that away.
Kept(g, u) == g \in groups \/ <<g, u>> \in removed
Has(g, u) == role[g][u] # "none" \/ <<g, u>> \in removed

\* While the groups are fetched none has changed; then those named are still to be added
\* to or have the user.
Join(r) ==
    LET u == req[r].user IN
    /\ req[r].kind \in JoinKinds =>
        /\ pc[r] \in {"idle", "user", "made"} => at[r] = 1
        /\ pc[r] \in {"fetch", "supply"}
           => \A i \in 1..(at[r] - 1) : Kept(req[r].names[i], u)
        /\ pc[r] \in {"add", "drop"} \/ answer[r] = "ok"
           => \A g \in NamesOf(r) : Kept(g, u) /\ (g \in toAdd[r] \/ Has(g, u))
        /\ pc[r] = "drop" \/ answer[r] = "ok" => toAdd[r] = {}
    /\ joined[r] # {} => pc[r] \in {"add", "drop", "done"} /\ answer[r] \in {"none", "ok"}

JoinInv == \A r \in Reqs : Join(r)

LEMMA InitJoin == Init => JoinInv
BY AccountsAssumption DEF Init, JoinInv, Join

LEMMA KeptStays ==
    ASSUME TypeInv, NEW r \in Reqs, Receive(r) \/ Step(r), NEW g \in Groups, NEW u \in Users
    PROVE  (Kept(g, u) => Kept(g, u)') /\ (Has(g, u) => Has(g, u)') /\ (Has(g, u) => Kept(g, u))
BY StepServer DEF LossIsNoted, Kept, Has, TypeInv, TypeOK

\* What a thread knows stays true when another one takes a step.
LEMMA JoinStays ==
    ASSUME TypeInv, JoinInv, NEW r \in Reqs, Receive(r) \/ Step(r), NEW s \in Reqs \ {r}
    PROVE  Join(s)'
<1>1. /\ req[s].user \in Users /\ NamesOf(s) \subseteq Groups
      /\ at[s] \in 1..(Len(req[s].names) + 1) /\ Len(req[s].names) \in Nat
      /\ \A i \in 1..Len(req[s].names) : req[s].names[i] \in Groups
  BY RequestTypes DEF TypeInv, TypeOK
<1>2. /\ req' = req /\ pc'[s] = pc[s] /\ at'[s] = at[s] /\ answer'[s] = answer[s]
      /\ toAdd'[s] = toAdd[s] /\ joined'[s] = joined[s] /\ NamesOf(s)' = NamesOf(s)
  BY Frame DEF NamesOf
<1>3. \A g \in Groups : /\ Kept(g, req[s].user) => Kept(g, req[s].user)'
                        /\ Has(g, req[s].user) => Has(g, req[s].user)'
  <2>1. \A g \in Groups, u \in Users : (Kept(g, u) => Kept(g, u)') /\ (Has(g, u) => Has(g, u)')
    BY KeptStays
  <2>2. QED
    BY <1>1, <1>2, <2>1 DEF Kept, Has
<1>4. \A i \in 1..(at[s] - 1) : req[s].names[i] \in Groups
  BY <1>1
<1>5. Join(s)
  BY DEF JoinInv
<1>6. req[s].kind \in JoinKinds /\ pc[s] \in {"fetch", "supply"}
      => \A i \in 1..(at[s] - 1) : Kept(req[s].names[i], req[s].user)'
  BY <1>1, <1>2, <1>3, <1>4, <1>5 DEF Join, Kept
<1>7. req[s].kind \in JoinKinds /\ (pc[s] \in {"add", "drop"} \/ answer[s] = "ok")
      => \A g \in NamesOf(s) : Kept(g, req[s].user)' /\ (g \in toAdd[s] \/ Has(g, req[s].user)')
  BY <1>1, <1>3, <1>5 DEF Join
<1>8. QED
  BY <1>2, <1>5, <1>6, <1>7 DEF Join, Kept, Has

\* The thread's own steps.
LEMMA JoinStep ==
    ASSUME TypeInv, JoinInv, NEW r \in Reqs, Receive(r) \/ Step(r)
    PROVE  Join(r)'
<1> DEFINE u == req[r].user
<1>1. /\ u \in Users /\ NamesOf(r) \subseteq Groups
      /\ req[r].names \in Seq(Groups)
      /\ Len(req[r].names) \in Nat /\ at[r] \in 1..(Len(req[r].names) + 1)
      /\ \A i \in 1..Len(req[r].names) : req[r].names[i] \in Groups
      /\ req' = req /\ NamesOf(r)' = NamesOf(r)
      /\ Place(r) /\ Join(r)
      /\ pc \in [Reqs -> Labels] /\ answer \in [Reqs -> Codes] /\ at \in [Reqs -> Nat]
      /\ toAdd \in [Reqs -> SUBSET Groups] /\ joined \in [Reqs -> SUBSET Groups]
  <2>1. /\ u \in Users /\ NamesOf(r) \subseteq Groups
        /\ req[r].names \in Seq(Groups) /\ Len(req[r].names) \in Nat
        /\ \A i \in 1..Len(req[r].names) : req[r].names[i] \in Groups
    BY RequestTypes DEF TypeInv
  <2>2. req' = req /\ NamesOf(r)' = NamesOf(r)
    BY Frame DEF NamesOf
  <2>3. Place(r) /\ Join(r)
    BY DEF TypeInv, PlaceInv, JoinInv
  <2>4. QED
    BY <2>1, <2>2, <2>3 DEF TypeInv, TypeOK
<1>2. \A g \in Groups : /\ Kept(g, u) => Kept(g, u)'
                        /\ Has(g, u) => Has(g, u)'
                        /\ Has(g, u) => Kept(g, u)
  BY <1>1, KeptStays
<1>3. CASE Receive(r) \/ CheckUser(r) \/ CreateUser(r) \/ FindMade(r)
  <2>1. /\ pc[r] \in {"idle", "user", "made"} /\ joined' = joined /\ at' = at
        /\ \/ pc'[r] = "done" /\ answer'[r] \notin {"none", "ok"}
           \/ /\ pc'[r] \in Labels \ {"add", "drop", "done", "supply"} /\ answer' = answer
              /\ pc'[r] \in {"fetch", "user", "made"} \/ req[r].kind \notin JoinKinds
           \/ pc'[r] = "done" /\ req[r].kind \notin JoinKinds
    <3>1. CASE Receive(r)
      BY <1>1, <3>1 DEF Receive, Goto, history, locals, Labels, JoinKinds
    <3>2. CASE CheckUser(r)
      BY <1>1, <3>2 DEF CheckUser, Look, Fail, Finish, Goto, history, locals, Labels,
         JoinKinds, Place
    <3>3. CASE CreateUser(r)
      BY <1>1, <3>3 DEF CreateUser, Fail, Finish, Goto, history, locals, Labels, JoinKinds
    <3>4. CASE FindMade(r)
      BY <1>1, <3>4 DEF FindMade, Look, Fail, Finish, Goto, history, locals, Labels
    <3>5. QED
      BY <1>3, <3>1, <3>2, <3>3, <3>4
  <2>2. answer[r] = "none" /\ joined[r] = {}
    BY <1>1, <2>1 DEF Place, Join
  <2>3. at[r] = 1 \/ req[r].kind \notin JoinKinds
    BY <1>1, <2>1 DEF Join
  <2>4. QED
    BY <1>1, <2>1, <2>2, <2>3 DEF Join
<1>4. CASE FetchGroup(r)
  <2>1. /\ pc'[r] = "fetch" /\ answer' = answer /\ joined' = joined
        /\ at'[r] = at[r] + 1 /\ req[r].names[at[r]] \in groups /\ groups' = groups
        /\ at[r] <= Len(req[r].names) /\ pc[r] = "fetch"
    BY <1>1, <1>4 DEF FetchGroup, Fetching, NextName, history, server
  <2>2. \A i \in 1..at[r] : Kept(req[r].names[i], u)'
    <3>1. \A i \in 1..(at[r] - 1) : req[r].names[i] \in Groups /\ Kept(req[r].names[i], u)
      BY <1>1, <2>1 DEF Join, Place
    <3>2. \A i \in 1..(at[r] - 1) : Kept(req[r].names[i], u)'
      BY <1>1, <1>2, <3>1 DEF Kept
    <3>3. \A i \in 1..at[r] : i = at[r] => Kept(req[r].names[i], u)'
      BY <1>1, <2>1 DEF Kept
    <3>4. \A i \in 1..at[r] : i = at[r] \/ i \in 1..(at[r] - 1)
      BY <1>1
    <3>5. QED
      BY <3>2, <3>3, <3>4
  <2>3. answer[r] = "none"
    BY <1>1, <2>1 DEF Place
  <2>4. \A i \in 1..(at'[r] - 1) : Kept(req[r].names[i], u)'
    BY <1>1, <2>1, <2>2
  <2>5. joined'[r] = {}
    BY <1>1, <2>1 DEF Join
  <2>6. QED
    BY <1>1, <2>1, <2>3, <2>4, <2>5 DEF Join, Kept
<1>5. CASE SupplyGroup(r)
  <2>1. CASE req[r].names[at[r]] \in groups
    BY <1>1, <1>5, <2>1 DEF SupplyGroup, Fail, Finish, Goto, history, locals, Join
  <2>2. CASE req[r].names[at[r]] \notin groups
    <3>1. /\ pc'[r] = "fetch" /\ answer' = answer /\ joined' = joined
          /\ at'[r] = at[r] + 1 /\ req[r].names[at[r]] \in groups'
          /\ at[r] <= Len(req[r].names) /\ pc[r] = "supply"
      BY <1>1, <1>5, <2>2 DEF SupplyGroup, NextName, Goto, history, Place
    <3>2. \A i \in 1..at[r] : Kept(req[r].names[i], u)'
      <4>1. \A i \in 1..(at[r] - 1) : req[r].names[i] \in Groups /\ Kept(req[r].names[i], u)
        BY <1>1, <3>1 DEF Join, Place
      <4>2. \A i \in 1..(at[r] - 1) : Kept(req[r].names[i], u)'
        BY <1>1, <1>2, <4>1 DEF Kept
      <4>3. \A i \in 1..at[r] : i = at[r] => Kept(req[r].names[i], u)'
        BY <1>1, <3>1 DEF Kept
      <4>4. \A i \in 1..at[r] : i = at[r] \/ i \in 1..(at[r] - 1)
        BY <1>1
      <4>5. QED
        BY <4>2, <4>3, <4>4
    <3>3. answer[r] = "none"
      BY <1>1, <3>1 DEF Place
    <3>4. \A i \in 1..(at'[r] - 1) : Kept(req[r].names[i], u)'
      BY <1>1, <3>1, <3>2
    <3>5. joined'[r] = {}
      BY <1>1, <3>1 DEF Join
    <3>6. QED
      BY <1>1, <3>1, <3>3, <3>4, <3>5 DEF Join, Kept
  <2>3. QED
    BY <2>1, <2>2
<1>6. CASE MissGroup(r)
  <2>1. /\ pc[r] = "fetch" /\ at' = at /\ joined' = joined
        /\ \/ pc'[r] = "supply" /\ answer' = answer
           \/ pc'[r] = "done" /\ answer'[r] = "500"
    BY <1>1, <1>6 DEF MissGroup, Fetching, Look, Fail, Finish, Goto, history, locals
  <2>2. \A i \in 1..(at[r] - 1) : Kept(req[r].names[i], u) => Kept(req[r].names[i], u)'
    <3>1. \A i \in 1..(at[r] - 1) : req[r].names[i] \in Groups
      BY <1>1
    <3>2. QED
      BY <1>1, <1>2, <3>1 DEF Kept
  <2>3. QED
    BY <1>1, <2>1, <2>2 DEF Join, Place, Kept
<1>7. CASE Fetched(r)
  <2>1. /\ pc[r] = "fetch" /\ pc'[r] = "add" /\ answer' = answer /\ joined' = joined
        /\ UNCHANGED <<groups, role, removed>> /\ at[r] > Len(req[r].names)
        /\ toAdd'[r] = NamesOf(r) \ (IF req[r].kind = "legacyUpdate" THEN GroupsOf(u) ELSE {})
    BY <1>1, <1>7 DEF Fetched, Goto, history, server
  <2>2. \A g \in NamesOf(r) : Kept(g, u)
    <3>1. \A i \in 1..(at[r] - 1) : Kept(req[r].names[i], u)
      BY <1>1, <2>1 DEF Join, Place
    <3>2. \A i \in 1..Len(req[r].names) : Kept(req[r].names[i], u)
      BY <1>1, <2>1, <3>1
    <3>3. QED
      BY <3>2 DEF NamesOf
  <2>3. \A g \in NamesOf(r) : g \in toAdd'[r] \/ Has(g, u)
    BY <2>1 DEF GroupsOf, Has
  <2>4. answer[r] = "none"
    BY <1>1, <2>1 DEF Place
  <2>5. QED
    BY <1>1, <2>1, <2>2, <2>3, <2>4 DEF Join, Kept, Has
<1>8. CASE AddToGroup(r)
  <2>1. PICK g \in toAdd[r] : /\ SetRole(g, u, "member")
                              /\ toAdd' = [toAdd EXCEPT ![r] = @ \ {g}]
                              /\ joined' = [joined EXCEPT ![r] = @ \cup {g}]
    BY <1>8 DEF AddToGroup
  <2>2. /\ pc[r] = "add" /\ pc' = pc /\ answer' = answer /\ removed' = removed
        /\ groups' = groups
    BY <1>8 DEF AddToGroup
  <2>3. answer[r] = "none" /\ req[r].kind \in JoinKinds
    BY <1>1, <2>2 DEF Place
  <2>4. g \in NamesOf(r) => Has(g, u)'
    <3>1. CASE g \in groups
      BY <1>1, <2>1, <3>1 DEF SetRole, Has, TypeInv, TypeOK
    <3>2. CASE g \notin groups
      BY <1>1, <2>1, <2>2, <2>3, <3>2 DEF Join, Kept, Has
    <3>3. QED
      BY <3>1, <3>2
  <2>5. \A h \in NamesOf(r) : Kept(h, u)' /\ (h \in toAdd'[r] \/ Has(h, u)')
    BY <1>1, <1>2, <2>1, <2>2, <2>3, <2>4 DEF Join
  <2>6. QED
    BY <1>1, <2>1, <2>2, <2>3, <2>5 DEF Join, Kept, Has
<1>9. CASE AddsDone(r)
  BY <1>1, <1>9 DEF AddsDone, Goto, history, locals, server, Join, Place, Kept, Has
<1>10. CASE DropGroup(r)
  <2>1. pc[r] = "drop" /\ UNCHANGED <<pc, answer, toAdd, joined>>
    BY <1>10 DEF DropGroup
  <2>2. \A h \in NamesOf(r) : Kept(h, u)' /\ Has(h, u)'
    BY <1>1, <1>2, <2>1 DEF Join, Place
  <2>3. QED
    BY <1>1, <2>1, <2>2 DEF Join, Place, Kept, Has
<1>11. CASE DropsDone(r)
  BY <1>1, <1>11 DEF DropsDone, Finish, Goto, history, locals, server, Join, Place, Kept, Has
<1>12. ASSUME pc[r] \notin {"idle", "user", "made", "fetch", "supply", "add", "drop", "done"},
              joined' = joined
       PROVE  Join(r)'
  <2>1. req[r].kind \notin JoinKinds /\ joined[r] = {}
    BY <1>1, <1>12 DEF Join, Place, Labels, JoinKinds
  <2>2. QED
    BY <1>1, <1>12, <2>1 DEF Join
<1> USE DEF Look, Fail, Finish, history
<1>13. CASE RejectName(r) \/ RefuseName(r)
  BY <1>1, <1>13 DEF RejectName, RefuseName, Goto, Join, locals
<1>14. CASE FindGroup(r) \/ RemoveGroup(r) \/ RejectLists(r) \/ AcceptLists(r) \/ MakeGroup(r)
            \/ IterateMembers(r)
  BY <1>12, <1>14 DEF FindGroup, RemoveGroup, RejectLists, AcceptLists, MakeGroup,
     IterateMembers, Iterate
<1>15. CASE MeetOld(r) \/ OldDone(r) \/ AddFresh(r) \/ MembersDone(r) \/ AdminsDone(r)
            \/ DeleteUser(r)
  BY <1>12, <1>15 DEF MeetOld, OldDone, AddFresh, MembersDone, AdminsDone, DeleteUser, Iterate
<1>16. CASE DropFind(r) \/ DropOne(r) \/ DropEachDone(r) \/ Lock(r) \/ Recheck(r)
  BY <1>12, <1>16 DEF DropFind, DropOne, DropEachDone, Lock, Recheck
<1>17. CASE ListSessions(r) \/ CloseSession(r) \/ SessionsClosed(r)
            \/ Unlock(r) \/ Authenticate(r) \/ BindSession(r)
  BY <1>12, <1>17 DEF ListSessions, CloseSession, SessionsClosed, Unlock,
     Authenticate, BindSession
<1>18. QED
  BY <1>3, <1>4, <1>5, <1>6, <1>7, <1>8, <1>9, <1>10, <1>11, <1>13, <1>14, <1>15,
     <1>16, <1>17 DEF Step
-----------------------------------------------------------------------------
(* A user that is moved. *)

\* No other request is about the user of this one or removes a group.
Alone(r) ==
    \A s \in Reqs \ {r} :
        /\ req[s].kind \notin {"deleteGroup", "updateGroup"}
        /\ req[s].user # req[r].user

\* Nobody is taken out until the new groups have the user; the old ones, and those added,
\* have it.
Move(r) ==
    LET u == req[r].user IN
    req[r].kind = "legacyUpdate" /\ Alone(r) =>
        /\ pc[r] \notin {"drop", "done"} => \A g \in Groups : <<g, u>> \notin removed
        /\ pc[r] \in {"add", "drop"} =>
            /\ toDrop[r] \cap NamesOf(r) = {}
            /\ \A g \in toDrop[r] \cup (NamesOf(r) \ toAdd[r]) : role[g][u] # "none"

MoveInv == \A r \in Reqs : Move(r)

LEMMA InitMove == Init => MoveInv
BY DEF Init, MoveInv, Move

\* A request about somebody else, that removes no group, takes nothing from a user.
LEMMA OthersLeave ==
    ASSUME TypeInv, NEW r \in Reqs, Receive(r) \/ Step(r), NEW u \in Users,
           req[r].kind \notin {"deleteGroup", "updateGroup"}, req[r].user # u
    PROVE  \A g \in Groups : /\ <<g, u>> \in removed' => <<g, u>> \in removed
                             /\ role[g][u] # "none" => role'[g][u] # "none"
<1>1. /\ req[r].user \in Users /\ req[r].group \in Groups
      /\ req[r].names \in Seq(Groups) /\ at[r] \in Nat \ {0}
      /\ Len(req[r].names) \in Nat
      /\ \A i \in 1..Len(req[r].names) : req[r].names[i] \in Groups
      /\ role \in [Groups -> [Users -> Roles]]
      /\ toAdd[r] \subseteq Groups /\ toDrop[r] \subseteq Groups /\ fresh[r] \subseteq Users
      /\ Place(r)
  BY RequestTypes DEF TypeInv, TypeOK, PlaceInv
<1>2. CASE UNCHANGED <<role, removed>>
  BY <1>2
<1>3. CASE AddFresh(r)
  <2>1. PICK v \in fresh[r] : SetRole(req[r].group, v, RoleAt(r)) /\ removed' = removed
    BY <1>3 DEF AddFresh, history
  <2>2. RoleAt(r) # "none"
    BY DEF RoleAt
  <2>3. QED
    BY <1>1, <2>1, <2>2 DEF SetRole
<1>4. CASE DeleteUser(r)
  <2>1. CASE UNCHANGED <<role, removed>>
    BY <1>2, <2>1
  <2>2. CASE /\ role' = [g \in Groups |-> [role[g] EXCEPT ![req[r].user] = "none"]]
             /\ removed' = removed \cup (Groups \X {req[r].user})
    BY <1>1, <2>2
  <2>3. QED
    BY <1>4, <2>1, <2>2 DEF DeleteUser
<1>5. CASE AddToGroup(r)
  BY <1>1, <1>5 DEF AddToGroup, SetRole
<1>6. CASE DropGroup(r) \/ DropOne(r)
  <2>1. PICK g \in Groups : TakeOut(g, req[r].user)
    BY <1>1, <1>6 DEF DropGroup, DropOne, Place
  <2>2. QED
    BY <1>1, <2>1 DEF TakeOut, SetRole
<1> USE DEF Finish, Fail, Look, locals, server, history
<1>7. CASE Receive(r) \/ RejectName(r) \/ FindGroup(r) \/ RejectLists(r) \/ AcceptLists(r)
           \/ IterateMembers(r) \/ OldDone(r) \/ MembersDone(r) \/ AdminsDone(r)
           \/ CreateUser(r) \/ FindMade(r) \/ RefuseName(r) \/ MakeGroup(r)
  BY <1>2, <1>7 DEF Receive, RejectName, FindGroup, RejectLists, AcceptLists, MakeGroup,
     FindMade, RefuseName,
     IterateMembers, OldDone, MembersDone, AdminsDone, Iterate, CreateUser
<1>8. CASE CheckUser(r) \/ FetchGroup(r) \/ MissGroup(r) \/ Fetched(r) \/ AddsDone(r)
           \/ DropsDone(r) \/ DropFind(r) \/ DropEachDone(r)
  BY <1>2, <1>8 DEF CheckUser, FetchGroup, MissGroup, Fetched, AddsDone,
     DropsDone, DropFind, DropEachDone
<1>9. CASE Recheck(r) \/ ListSessions(r) \/ SessionsClosed(r) \/ Authenticate(r) \/ Lock(r)
           \/ CloseSession(r) \/ Unlock(r) \/ BindSession(r)
  BY <1>2, <1>9 DEF Recheck, ListSessions, SessionsClosed, Authenticate, Lock, CloseSession,
     Unlock, BindSession
<1>10. CASE SupplyGroup(r)
  <2>1. CASE req[r].names[at[r]] \in groups
    BY <1>2, <1>10, <2>1 DEF SupplyGroup
  <2>2. CASE req[r].names[at[r]] \notin groups
    BY <1>2, <1>10, <2>2 DEF SupplyGroup
  <2>3. QED
    BY <2>1, <2>2
<1>11. CASE RemoveGroup(r) \/ MeetOld(r)
  BY <1>1, <1>11 DEF RemoveGroup, MeetOld, Place
<1>12. QED
  BY <1>3, <1>4, <1>5, <1>6, <1>7, <1>8, <1>9, <1>10, <1>11 DEF Step

LEMMA MoveStays ==
    ASSUME TypeInv, MoveInv, NEW r \in Reqs, Receive(r) \/ Step(r), NEW s \in Reqs \ {r}
    PROVE  Move(s)'
<1>1. /\ req' = req /\ pc'[s] = pc[s] /\ toAdd'[s] = toAdd[s] /\ toDrop'[s] = toDrop[s]
      /\ NamesOf(s)' = NamesOf(s) /\ Alone(s)' = Alone(s)
  BY Frame DEF NamesOf, Alone
<1>2. NamesOf(s) \subseteq Groups /\ toDrop[s] \subseteq Groups /\ req[s].user \in Users
  BY RequestTypes DEF TypeInv, TypeOK
<1>3. Alone(s) => \A g \in Groups :
          /\ <<g, req[s].user>> \in removed' => <<g, req[s].user>> \in removed
          /\ role[g][req[s].user] # "none" => role'[g][req[s].user] # "none"
  <2>1. SUFFICES ASSUME Alone(s)
                 PROVE  \A g \in Groups :
                          /\ <<g, req[s].user>> \in removed' => <<g, req[s].user>> \in removed
                          /\ role[g][req[s].user] # "none" => role'[g][req[s].user] # "none"
    OBVIOUS
  <2>2. req[r].kind \notin {"deleteGroup", "updateGroup"} /\ req[r].user # req[s].user
    BY <2>1 DEF Alone
  <2>3. \A u \in Users : req[r].user # u =>
            \A g \in Groups : /\ <<g, u>> \in removed' => <<g, u>> \in removed
                              /\ role[g][u] # "none" => role'[g][u] # "none"
    BY <2>2, OthersLeave
  <2>4. QED
    BY <1>2, <2>2, <2>3
<1>4. Move(s)
  BY DEF MoveInv
<1>5. QED
  BY <1>1, <1>2, <1>3, <1>4 DEF Move

LEMMA MoveStep ==
    ASSUME TypeInv, JoinInv, MoveInv, NEW r \in Reqs, Receive(r) \/ Step(r)
    PROVE  Move(r)'
<1> DEFINE u == req[r].user
<1>1. /\ u \in Users /\ NamesOf(r) \subseteq Groups
      /\ req' = req /\ NamesOf(r)' = NamesOf(r) /\ Alone(r)' = Alone(r)
      /\ Place(r) /\ Join(r) /\ Move(r)
      /\ pc \in [Reqs -> Labels]
      /\ toAdd \in [Reqs -> SUBSET Groups] /\ toDrop \in [Reqs -> SUBSET Groups]
      /\ role \in [Groups -> [Users -> Roles]]
  <2>1. req' = req /\ u \in Users /\ NamesOf(r) \subseteq Groups
    BY RequestTypes, Frame DEF TypeInv
  <2>2. NamesOf(r)' = NamesOf(r) /\ Alone(r)' = Alone(r)
    BY <2>1 DEF NamesOf, Alone
  <2>3. QED
    BY <2>1, <2>2 DEF TypeInv, TypeOK, PlaceInv, JoinInv, MoveInv
<1>2. SUFFICES ASSUME req[r].kind = "legacyUpdate", Alone(r)
               PROVE  Move(r)'
  BY <1>1 DEF Move
<1>3. pc[r] \in {"idle", "user", "fetch", "supply", "add", "drop", "done"}
  BY <1>1, <1>2 DEF Place, Labels, JoinKinds
<1>4. ASSUME pc[r] \in {"idle", "user", "fetch", "supply"}, removed' = removed,
             pc'[r] \notin {"add", "drop"}
      PROVE  Move(r)'
  BY <1>1, <1>2, <1>4 DEF Move
<1>5. CASE Receive(r) \/ RejectName(r) \/ CheckUser(r) \/ CreateUser(r)
  <2>1. CASE Receive(r)
    BY <1>1, <1>4, <2>1 DEF Receive, Goto, history
  <2>2. CASE RejectName(r)
    BY <1>1, <1>4, <2>2 DEF RejectName, Fail, Finish, Goto, history
  <2>3. CASE CheckUser(r)
    BY <1>1, <1>2, <1>4, <2>3 DEF CheckUser, Look, Fail, Finish, Goto, history
  <2>4. CASE CreateUser(r)
    BY <1>1, <1>2, <2>4 DEF CreateUser
  <2>5. QED
    BY <1>5, <2>1, <2>2, <2>3, <2>4
<1>6. CASE FetchGroup(r) \/ MissGroup(r)
  BY <1>1, <1>4, <1>6 DEF FetchGroup, MissGroup, Fetching, Look, Fail, Finish, Goto, history
<1>7. CASE SupplyGroup(r) \/ RefuseName(r)
  BY <1>1, <1>3, <1>4, <1>7 DEF SupplyGroup, RefuseName, Fail, Finish, Goto, history
<1>8. CASE Fetched(r)
  <2>1. /\ pc[r] = "fetch" /\ pc'[r] = "add" /\ removed' = removed /\ role' = role
        /\ toAdd'[r] = NamesOf(r) \ GroupsOf(u) /\ toDrop'[r] = GroupsOf(u) \ NamesOf(r)
    BY <1>1, <1>2, <1>8 DEF Fetched, Goto, history, server
  <2>2. QED
    BY <1>1, <1>2, <2>1 DEF Move, GroupsOf
<1>9. CASE AddToGroup(r)
  <2>1. PICK g \in toAdd[r] : /\ SetRole(g, u, "member")
                              /\ toAdd' = [toAdd EXCEPT ![r] = @ \ {g}]
    BY <1>9 DEF AddToGroup
  <2>2. pc[r] = "add" /\ UNCHANGED <<pc, toDrop, removed, groups>>
    BY <1>9 DEF AddToGroup
  <2>3. g \in NamesOf(r) => g \in groups
    BY <1>1, <1>2, <2>2 DEF Join, Kept, Move, JoinKinds
  <2>4. \A h \in Groups : role[h][u] # "none" => role'[h][u] # "none"
    BY <1>1, <2>1 DEF SetRole
  <2>5. g \in NamesOf(r) => role'[g][u] # "none"
    BY <1>1, <2>1, <2>3 DEF SetRole
  <2>6. \A h \in toDrop'[r] \cup (NamesOf(r) \ toAdd'[r]) : role'[h][u] # "none"
    BY <1>1, <1>2, <2>1, <2>2, <2>4, <2>5 DEF Move
  <2>7. QED
    BY <1>1, <1>2, <2>2, <2>6 DEF Move
<1>10. CASE AddsDone(r)
  BY <1>1, <1>2, <1>10 DEF AddsDone, Goto, history, locals, server, Move
<1>11. CASE DropGroup(r)
  <2>1. PICK g \in toDrop[r] : /\ TakeOut(g, u)
                               /\ toDrop' = [toDrop EXCEPT ![r] = @ \ {g}]
    BY <1>11 DEF DropGroup
  <2>2. pc[r] = "drop" /\ UNCHANGED <<pc, toAdd, groups>>
    BY <1>11 DEF DropGroup
  <2>3. \A h \in Groups \ {g} : role'[h][u] = role[h][u]
    BY <1>1, <2>1 DEF TakeOut, SetRole
  <2>4. g \notin NamesOf(r)
    BY <1>1, <1>2, <2>1, <2>2 DEF Move
  <2>5. \A h \in toDrop'[r] \cup (NamesOf(r) \ toAdd'[r]) : role'[h][u] # "none"
    BY <1>1, <1>2, <2>1, <2>2, <2>3, <2>4 DEF Move
  <2>6. QED
    BY <1>1, <1>2, <2>1, <2>2, <2>5 DEF Move
<1>12. CASE DropsDone(r)
  BY <1>1, <1>2, <1>12 DEF DropsDone, Finish, Goto, Move
<1>13. QED
  BY <1>3, <1>5, <1>6, <1>7, <1>8, <1>9, <1>10, <1>11, <1>12 DEF Step, FindGroup, RemoveGroup,
     RejectLists, AcceptLists, MakeGroup, IterateMembers, MeetOld, OldDone, AddFresh,
     MembersDone, AdminsDone, FindMade, DeleteUser, DropFind, DropOne, DropEachDone, Lock, Recheck,
     ListSessions, CloseSession, SessionsClosed, Unlock, Authenticate, BindSession
-----------------------------------------------------------------------------
(* Lockouts and sessions. *)

\* A session that is open, or was when the lock was set, was made by a login that is over.
\* A user that is locked out stays so unless enabled; of the sessions that were open when
\* the lock was set, those that still are are listed.
Close(r) ==
    /\ \A v \in Users : <<v, r>> \in sessions => pc[r] = "done"
    /\ \A q \in Reqs, v \in Users : <<v, q>> \in before[r] => pc[q] = "done"
    /\ \A s \in before[r] : s[1] = req[r].user
    /\ req[r].kind = "disable" =>
        /\ pc[r] = "recheck" /\ ~freed[r] => req[r].user \in locked
        /\ pc[r] = "close" => before[r] \cap sessions \subseteq listed[r]
        /\ answer[r] = "ok" /\ ~freed[r] => before[r] \cap sessions = {}

CloseInv == \A r \in Reqs : Close(r)

LEMMA InitClose == Init => CloseInv
BY AccountsAssumption DEF Init, CloseInv, Close

\* Sessions are only made by logins; an open lock is noted with all it concerns.
LEMMA SessionsMade ==
    ASSUME TypeInv, NEW r \in Reqs, Receive(r) \/ Step(r)
    PROVE  /\ sessions' \subseteq sessions
              \/ (pc[r] = "bind" /\ sessions' = sessions \cup {<<req[r].user, r>>}
                  /\ pc'[r] = "done")
           /\ \A s \in Reqs : ~freed'[s] /\ req[s].user \in locked => req[s].user \in locked'
           /\ \A s \in Reqs \ {r} : freed[s] => freed'[s]
           /\ pc[r] # "done"
<1>1. pc \in [Reqs -> Labels] /\ freed \in [Reqs -> BOOLEAN]
  BY DEF TypeInv, TypeOK
<1> USE DEF Finish, Fail, Look, locals, server, history
<1>2. CASE Receive(r) \/ RejectName(r) \/ FindGroup(r) \/ RemoveGroup(r) \/ RejectLists(r)
           \/ AcceptLists(r) \/ RefuseName(r) \/ IterateMembers(r) \/ MeetOld(r)
           \/ OldDone(r)
  BY <1>2 DEF Receive, RejectName, FindGroup, RemoveGroup, RejectLists, AcceptLists,
     RefuseName, IterateMembers, MeetOld, OldDone, Iterate
<1>3. CASE MakeGroup(r) \/ AddFresh(r) \/ MembersDone(r) \/ AdminsDone(r)
           \/ CheckUser(r) \/ CreateUser(r) \/ FindMade(r) \/ DeleteUser(r)
  BY <1>3 DEF MakeGroup, AddFresh, MembersDone, AdminsDone, CheckUser, CreateUser, FindMade,
     DeleteUser, Iterate
<1>4. CASE FetchGroup(r) \/ MissGroup(r) \/ SupplyGroup(r) \/ Fetched(r) \/ AddToGroup(r)
           \/ AddsDone(r)
  <2>1. pc[r] \in {"fetch", "supply", "add"} /\ UNCHANGED <<sessions, locked, freed>>
    <3>1. CASE FetchGroup(r) \/ MissGroup(r)
      BY <3>1 DEF FetchGroup, MissGroup, Fetching
    <3>2. CASE SupplyGroup(r)
      BY <3>2 DEF SupplyGroup
    <3>3. CASE Fetched(r) \/ AddToGroup(r) \/ AddsDone(r)
      BY <3>3 DEF Fetched, AddToGroup, AddsDone
    <3>4. QED
      BY <1>4, <3>1, <3>2, <3>3
  <2>2. QED
    BY <2>1
<1>5. CASE DropGroup(r) \/ DropsDone(r) \/ DropFind(r) \/ DropOne(r) \/ DropEachDone(r)
  BY <1>5 DEF DropGroup, DropsDone, DropFind, DropOne, DropEachDone
<1>6. CASE Recheck(r) \/ ListSessions(r) \/ CloseSession(r) \/ SessionsClosed(r)
           \/ Authenticate(r)
  BY <1>6 DEF Recheck, ListSessions, CloseSession, SessionsClosed, Authenticate
<1>7. CASE Lock(r)
  BY <1>1, <1>7 DEF Lock
<1>8. CASE Unlock(r)
  BY <1>1, <1>8 DEF Unlock
<1>9. CASE BindSession(r)
  BY <1>1, <1>9 DEF BindSession, Goto
<1>10. QED
  BY <1>2, <1>3, <1>4, <1>5, <1>6, <1>7, <1>8, <1>9 DEF Step

LEMMA CloseStays ==
    ASSUME TypeInv, CloseInv, NEW r \in Reqs, Receive(r) \/ Step(r), NEW s \in Reqs \ {r}
    PROVE  Close(s)'
<1>1. /\ req' = req /\ pc'[s] = pc[s] /\ answer'[s] = answer[s]
      /\ listed'[s] = listed[s] /\ before'[s] = before[s]
      /\ \A q \in Reqs \ {r} : pc'[q] = pc[q]
      /\ freed[s] \in BOOLEAN /\ freed'[s] \in BOOLEAN
      /\ freed[s] => freed'[s]
  <2>1. freed[s] \in BOOLEAN /\ freed'[s] \in BOOLEAN
    BY StepLocals DEF TypeInv, TypeOK, LocalTypes
  <2>2. freed[s] => freed'[s]
    BY SessionsMade
  <2>3. QED
    BY <2>1, <2>2, Frame
<1>2. Close(s) /\ Close(r)
  BY DEF CloseInv
<1>3. pc[r] # "done"
  BY SessionsMade
<1>4. \A q \in Reqs, v \in Users : <<v, q>> \in before[s] => pc'[q] = "done"
  BY <1>1, <1>2, <1>3 DEF Close
<1>5. \A v \in Users : <<v, s>> \in sessions' => pc[s] = "done"
  BY <1>2, SessionsMade DEF Close
<1>6. before[s] \cap sessions' \subseteq sessions
  <2>1. <<req[r].user, r>> \notin before[s]
    BY <1>2, <1>3, RequestTypes DEF Close, TypeInv
  <2>2. QED
    BY <2>1, SessionsMade
<1>7. ~freed'[s] /\ req[s].user \in locked => req[s].user \in locked'
  BY SessionsMade
<1>8. req[s].kind = "disable" =>
        /\ pc[s] = "recheck" /\ ~freed'[s] => req[s].user \in locked'
        /\ pc[s] = "close" => before[s] \cap sessions' \subseteq listed[s]
        /\ answer[s] = "ok" /\ ~freed'[s] => before[s] \cap sessions' = {}
  BY <1>1, <1>2, <1>6, <1>7 DEF Close
<1>9. \A x \in before[s] : x[1] = req[s].user
  BY <1>2 DEF Close
<1>10. QED
  BY <1>1, <1>4, <1>5, <1>8, <1>9 DEF Close

LEMMA CloseStep ==
    ASSUME TypeInv, CloseInv, NEW r \in Reqs, Receive(r) \/ Step(r)
    PROVE  Close(r)'
<1>1. /\ req' = req /\ Place(r) /\ Place(r)' /\ Close(r)
      /\ pc \in [Reqs -> Labels] /\ answer \in [Reqs -> Codes]
      /\ listed \in [Reqs -> SUBSET Sessions] /\ before \in [Reqs -> SUBSET Sessions]
      /\ freed \in [Reqs -> BOOLEAN] /\ freed'[r] \in BOOLEAN
      /\ sessions \subseteq Sessions
  BY Frame, StepControl, StepLocals DEF TypeInv, TypeOK, PlaceInv, CloseInv, LocalTypes
<1>2. pc[r] # "done" /\ answer[r] = "none"
  BY <1>1, SessionsMade DEF Place
<1>3. \A v \in Users : <<v, r>> \in sessions' => pc'[r] = "done"
  BY <1>1, <1>2, SessionsMade DEF Close
<1>4. \A q \in Reqs, v \in Users : <<v, q>> \in before[r] => pc'[q] = "done"
  BY <1>1, <1>2, Frame DEF Close
<1>5. CASE Lock(r)
  <2>1. /\ pc[r] = "lock" /\ locked' = locked \cup {req[r].user} /\ sessions' = sessions
        /\ before'[r] = SessionsOf(req[r].user)
        /\ pc'[r] = "recheck" \/ req[r].kind # "disable"
    BY <1>1, <1>5 DEF Lock, Goto
  <2>2. \A q \in Reqs, v \in Users : <<v, q>> \in before'[r] => pc'[q] = "done"
    BY <1>2, <2>1, Frame DEF SessionsOf, CloseInv, Close
  <2>3. \A s \in before'[r] : s[1] = req[r].user
    BY <2>1 DEF SessionsOf
  <2>4. req[r].kind = "disable" => pc'[r] = "recheck" /\ answer'[r] = "none"
    BY <1>1, <2>1 DEF Place
  <2>5. QED
    BY <1>1, <1>3, <2>1, <2>2, <2>3, <2>4 DEF Close
<1>6. CASE Recheck(r)
  <2>1. /\ pc[r] = "recheck" /\ UNCHANGED <<sessions, locked, before, freed>>
        /\ \/ pc'[r] = "list" /\ answer' = answer
           \/ pc'[r] = "done" /\ req[r].user \notin locked
    BY <1>1, <1>6 DEF Recheck, Look, Fail, Finish, Goto, history, server
  <2>2. QED
    BY <1>1, <1>2, <1>3, <1>4, <2>1 DEF Close
<1>7. CASE ListSessions(r)
  <2>1. /\ pc'[r] = "close" /\ UNCHANGED <<sessions, answer, before>>
        /\ listed'[r] = SessionsOf(req[r].user)
    BY <1>1, <1>7 DEF ListSessions, Goto, history, server
  <2>2. before[r] \cap sessions \subseteq SessionsOf(req[r].user)
    BY <1>1 DEF Close, SessionsOf
  <2>3. QED
    BY <1>1, <1>2, <1>3, <1>4, <2>1, <2>2 DEF Close
<1>8. CASE CloseSession(r)
  <2>1. PICK s \in listed[r] : /\ sessions' = sessions \ {s}
                               /\ listed' = [listed EXCEPT ![r] = @ \ {s}]
    BY <1>8 DEF CloseSession
  <2>2. pc[r] = "close" /\ UNCHANGED <<pc, answer, before, freed>>
    BY <1>8 DEF CloseSession, history
  <2>3. req[r].kind = "disable" => before[r] \cap sessions' \subseteq listed'[r]
    BY <1>1, <2>1, <2>2 DEF Close
  <2>4. QED
    BY <1>1, <1>2, <1>3, <1>4, <2>1, <2>2, <2>3 DEF Close
<1>9. CASE SessionsClosed(r)
  <2>1. /\ pc[r] = "close" /\ pc'[r] = "done" /\ listed[r] = {}
        /\ UNCHANGED <<sessions, before>>
    BY <1>1, <1>9 DEF SessionsClosed, Finish, Goto, history, server
  <2>2. QED
    BY <1>1, <1>3, <1>4, <2>1 DEF Close
<1>10. ASSUME before' = before,
              req[r].kind = "disable"
              => pc'[r] \notin {"recheck", "close"} /\ answer'[r] # "ok"
       PROVE  Close(r)'
  BY <1>1, <1>3, <1>4, <1>10 DEF Close
<1>11. CASE Receive(r) \/ RejectName(r) \/ CheckUser(r)
  <2>1. CASE Receive(r)
    BY <1>1, <1>2, <1>10, <2>1 DEF Receive, Goto, history
  <2>2. CASE RejectName(r)
    BY <1>1, <1>10, <2>2 DEF RejectName, Fail, Finish, Goto, history
  <2>3. CASE CheckUser(r)
    BY <1>1, <1>2, <1>10, <2>3 DEF CheckUser, Look, Fail, Finish, Goto, history
  <2>4. QED
    BY <1>11, <2>1, <2>2, <2>3
<1>12. ASSUME pc[r] \notin {"idle", "user", "lock", "recheck", "list", "close"}
              \/ req[r].kind # "disable",
              before' = before
       PROVE  Close(r)'
  <2>1. req[r].kind # "disable"
    BY <1>1, <1>2, <1>12 DEF Place, Labels, JoinKinds
  <2>2. QED
    BY <1>10, <1>12, <2>1
<1> USE DEF Look, Fail, Finish, history
<1>13. CASE FindGroup(r) \/ RemoveGroup(r) \/ RejectLists(r) \/ AcceptLists(r)
            \/ RefuseName(r) \/ MakeGroup(r) \/ IterateMembers(r) \/ MeetOld(r)
  BY <1>12, <1>13 DEF FindGroup, RemoveGroup, RejectLists, AcceptLists, RefuseName, MakeGroup,
     IterateMembers, Iterate, MeetOld
<1>14. CASE OldDone(r) \/ AddFresh(r) \/ MembersDone(r) \/ AdminsDone(r) \/ DeleteUser(r)
            \/ CreateUser(r) \/ FindMade(r)
  BY <1>12, <1>14 DEF OldDone, AddFresh, MembersDone, AdminsDone, DeleteUser, Iterate,
     CreateUser, FindMade
<1>15. CASE FetchGroup(r) \/ MissGroup(r) \/ SupplyGroup(r) \/ Fetched(r)
  <2>1. pc[r] \in {"fetch", "supply"} /\ before' = before
    <3>1. CASE FetchGroup(r) \/ MissGroup(r)
      BY <3>1 DEF FetchGroup, MissGroup, Fetching
    <3>2. CASE SupplyGroup(r)
      BY <3>2 DEF SupplyGroup
    <3>3. CASE Fetched(r)
      BY <3>3 DEF Fetched
    <3>4. QED
      BY <1>15, <3>1, <3>2, <3>3
  <2>2. QED
    BY <1>12, <2>1
<1>16. CASE AddToGroup(r) \/ AddsDone(r) \/ DropGroup(r) \/ DropsDone(r) \/ DropFind(r)
            \/ DropOne(r) \/ DropEachDone(r)
  BY <1>12, <1>16 DEF AddToGroup, AddsDone, DropGroup, DropsDone, DropFind, DropOne,
     DropEachDone
<1>17. CASE Unlock(r) \/ Authenticate(r) \/ BindSession(r)
  BY <1>12, <1>17 DEF Unlock, Authenticate, BindSession
<1>18. QED
  BY <1>5, <1>6, <1>7, <1>8, <1>9, <1>11, <1>13, <1>14, <1>15, <1>16, <1>17 DEF Step

-----------------------------------------------------------------------------
(* The theorems. *)

IInv == TypeInv /\ JoinInv /\ MoveInv /\ CloseInv

LEMMA NextInv == IInv /\ [Next]_vars => IInv'
<1> SUFFICES ASSUME IInv, [Next]_vars PROVE IInv'
  OBVIOUS
<1>1. CASE UNCHANGED vars
  <2>1. TypeInv'
    BY <1>1 DEF IInv, TypeInv, TypeOK, PlaceInv, Place, vars, server, locals, history
  <2>2. JoinInv'
    BY <1>1 DEF IInv, JoinInv, Join, NamesOf, Kept, Has, vars, server, locals, history
  <2>3. MoveInv'
    BY <1>1 DEF IInv, MoveInv, Move, Alone, NamesOf, vars, server, locals, history
  <2>4. CloseInv'
    BY <1>1 DEF IInv, CloseInv, Close, vars, server, locals, history
  <2>5. QED
    BY <2>1, <2>2, <2>3, <2>4 DEF IInv
<1>2. ASSUME NEW r \in Reqs, Receive(r) \/ Step(r), KeepStaying PROVE IInv'
  <2>1. TypeInv /\ JoinInv /\ MoveInv /\ CloseInv
    BY DEF IInv
  <2>2. TypeInv'
    BY <1>2, <2>1, StepTypes
  <2>3. JoinInv'
    BY <1>2, <2>1, JoinStays, JoinStep DEF JoinInv
  <2>4. MoveInv'
    BY <1>2, <2>1, MoveStays, MoveStep DEF MoveInv
  <2>5. CloseInv'
    BY <1>2, <2>1, CloseStays, CloseStep DEF CloseInv
  <2>6. QED
    BY <2>2, <2>3, <2>4, <2>5 DEF IInv
<1>3. QED
  BY <1>1, <1>2 DEF Next, Drained

LEMMA InvAlways == Spec => []IInv
<1>1. Init => IInv
  BY InitTypes, InitJoin, InitMove, InitClose DEF IInv
<1>2. QED
  BY <1>1, NextInv, PTL DEF Spec

\* Every variable keeps its type, whatever requests run together.
THEOREM TypeSafety == Spec => []TypeOK
<1>1. IInv => TypeOK
  BY DEF IInv, TypeInv
<1>2. QED
  BY <1>1, InvAlways, PTL

\* A request to put a user into groups that was refused has put it into none of them.
THEOREM RefusalIsClean == Spec => []RefusedJoinsNothing
<1>1. IInv => RefusedJoinsNothing
  BY DEF IInv, JoinInv, Join, RefusedJoinsNothing
<1>2. QED
  BY <1>1, InvAlways, PTL

\* A request that was answered with success has its user in every group it names, unless
\* somebody took the user or the group away.
THEOREM AnswerIsTrue == Spec => []AnsweredMeansJoined
<1>1. IInv => AnsweredMeansJoined
  BY DEF IInv, JoinInv, Join, Has, AnsweredMeansJoined, JoinKinds
<1>2. QED
  BY <1>1, InvAlways, PTL

\* The legacy service leaves a user it moves in some group all the while.
THEOREM MoveIsSeamless == Spec => []MovedUserKeepsAGroup
<1>1. ASSUME IInv, NEW r \in Reqs,
             req[r].kind = "legacyUpdate", pc[r] \in {"add", "drop"}, Alone(r),
             \/ (NamesOf(r) \ toAdd[r]) \cup toDrop[r] # {}
             \/ (\E g \in Groups : <<g, req[r].user>> \in removed) /\ NamesOf(r) # {}
      PROVE  GroupsOf(req[r].user) # {}
  <2>1. /\ \A g \in toDrop[r] \cup (NamesOf(r) \ toAdd[r]) : role[g][req[r].user] # "none"
        /\ pc[r] # "drop" => \A g \in Groups : <<g, req[r].user>> \notin removed
    BY <1>1 DEF IInv, MoveInv, Move
  <2>2. pc[r] = "drop" => toAdd[r] = {}
    BY <1>1 DEF IInv, JoinInv, Join, JoinKinds
  <2>3. PICK g \in toDrop[r] \cup (NamesOf(r) \ toAdd[r]) : TRUE
    BY <1>1, <2>1, <2>2
  <2>4. TypeOK
    BY <1>1 DEF IInv, TypeInv
  <2>5. NamesOf(r) \subseteq Groups /\ req[r].user \in Users
    BY <2>4, RequestTypes
  <2>6. toDrop[r] \subseteq Groups
    BY <2>4 DEF TypeOK
  <2>7. g \in groups
    BY <2>1, <2>4, <2>5, <2>6 DEF TypeOK
  <2>8. QED
    BY <2>1, <2>7 DEF GroupsOf
<1>2. IInv => MovedUserKeepsAGroup
  BY <1>1 DEF MovedUserKeepsAGroup, Alone
<1>3. QED
  BY <1>2, InvAlways, PTL

\* When a user was disabled, no session that was open when the lockout was set is open any
\* more, unless the user was enabled again in between.
THEOREM DisabledIsOffline == Spec => []DisabledMeansOffline
<1>1. IInv => DisabledMeansOffline
  BY DEF IInv, CloseInv, Close, DisabledMeansOffline
<1>2. QED
  BY <1>1, InvAlways, PTL
=============================================================================
