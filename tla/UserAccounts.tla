---------------------------- MODULE UserAccounts ----------------------------
(***************************************************************************)
(* Users, their lockouts and sessions, and user groups, as the REST        *)
(* endpoints and the legacy user service change them                       *)
(* (UserServiceController, GroupController, SessionController,             *)
(* UserServiceLegacyController).  No request takes a lock: each is a       *)
(* thread that calls Openfire time and again, and the calls of others come *)
(* in between.  The roles of a user in a group exclude each other, as they *)
(* do in Openfire.  Logins are here because they race the lockout.         *)
(***************************************************************************)
EXTENDS Naturals, Sequences, FiniteSets

CONSTANTS
    Users,     \* user names
    Groups,    \* group names
    Reqs,      \* identities of the requests (one thread each)
    Requests,  \* what their clients may ask for together
    Earlier,   \* identities of sessions made before
    World      \* at first: [accounts, locked, sessions, groups, role]

Roles == {"none", "member", "admin"}
GroupKinds == {"createGroup", "updateGroup", "deleteGroup"}
ListKinds == {"addTo", "dropFrom", "legacyCreate", "legacyUpdate"}
UserKinds == {"create", "delete", "disable", "legacyDisable", "enable", "kick", "login"}
Codes == {"none", "ok", "400", "401", "404", "409", "500"}
Sessions == Users \X (Reqs \cup Earlier)
Labels == {"idle", "done", "find", "validate", "make", "remove",
           "oldMembers", "members", "oldAdmins", "admins",
           "user", "delete", "made", "fetch", "supply", "diff", "add", "drop",
           "dropEach", "dropOne",
           "lock", "recheck", "list", "close", "unlock", "auth", "bind"}

\* The fault of a group's description: a name that is empty or not the one asked for, a
\* list it does not have, a bad address, or that it does not say whether it is shared.
RequestType ==
    [kind : GroupKinds \cup ListKinds \cup UserKinds,
     user : Users, names : Seq(Groups), group : Groups,
     members : SUBSET Users, admins : SUBSET Users,
     fault : {"fine", "misnamed", "absent", "unparsable", "unshared"}]

ASSUME AccountsAssumption ==
    /\ Requests \subseteq [Reqs -> RequestType]
    /\ \A f \in Requests, r \in Reqs :
           f[r].fault # "fine" => f[r].kind \in {"createGroup", "updateGroup"}
    /\ World.accounts \subseteq Users /\ World.locked \subseteq Users
    /\ World.sessions \subseteq Users \X Earlier /\ Reqs \cap Earlier = {}
    /\ World.groups \subseteq Groups
    /\ World.role \in [Groups -> [Users -> Roles]]
    /\ \A g \in Groups \ World.groups : \A u \in Users : World.role[g][u] = "none"

VARIABLES
    \* Openfire
    accounts,  \* names of the users there are
    locked,    \* users that are locked out
    sessions,  \* open sessions: <<user, the login that made it>>
    groups,    \* names of the groups there are
    role,      \* role of each user in each group
    \* the threads
    req,       \* what each request asks for
    pc,        \* where its thread is
    at,        \* position in the names of groups
    toAdd,     \* groups the user is still to be added to
    toDrop,    \* groups the user is still to be removed from
    fresh,     \* newMembers, then newAdmins: who is still to be added
    due,       \* who had the role when the iteration over it began
    met,       \* who the iteration has returned
    staying,   \* who has had the role ever since the iteration began
    listed,    \* sessions still to be closed
    answer,    \* what the client was told
    \* history, for the properties only
    before,    \* disable: the sessions that were open when the lock was set
    freed,     \* disable: the user was enabled since then
    joined,    \* groups the request has added its user to
    removed    \* <<group, user>> that somebody took out

server == <<accounts, locked, sessions, groups, role>>
locals == <<at, toAdd, toDrop, fresh, due, met, listed>>
history == <<before, freed, joined, removed>>
vars == <<server, req, pc, locals, staying, answer, history>>

NamesOf(r) == {req[r].names[i] : i \in 1..Len(req[r].names)}
GroupsOf(u) == {g \in groups : role[g][u] # "none"}
Holding(g, k) == {u \in Users : role[g][u] = k}
SessionsOf(u) == {s \in sessions : s[1] = u}

\* A write to a group that is no more is lost.
SetRole(g, u, k) ==
    role' = IF g \in groups THEN [role EXCEPT ![g][u] = k] ELSE role

Goto(r, l) == pc' = [pc EXCEPT ![r] = l]

Finish(r, code) ==
    /\ answer' = [answer EXCEPT ![r] = code]
    /\ Goto(r, "done")

\* An exception ends the request; what it has done stays done.
Fail(r, code) ==
    /\ Finish(r, code)
    /\ UNCHANGED <<server, req, locals, history>>

\* A step that looks, and goes on if it likes what it sees.
Look(r, good, l, code) ==
    IF good THEN Goto(r, l) /\ UNCHANGED <<server, req, locals, answer, history>>
            ELSE Fail(r, code)

Init ==
    /\ accounts = World.accounts /\ locked = World.locked
    /\ sessions = World.sessions /\ groups = World.groups /\ role = World.role
    /\ req \in Requests
    /\ pc = [r \in Reqs |-> "idle"]
    /\ at = [r \in Reqs |-> 1]
    /\ toAdd = [r \in Reqs |-> {}] /\ toDrop = [r \in Reqs |-> {}]
    /\ fresh = [r \in Reqs |-> {}] /\ due = [r \in Reqs |-> {}]
    /\ met = [r \in Reqs |-> {}] /\ staying = [r \in Reqs |-> {}]
    /\ listed = [r \in Reqs |-> {}]
    /\ answer = [r \in Reqs |-> "none"]
    /\ before = [r \in Reqs |-> {}] /\ freed = [r \in Reqs |-> FALSE]
    /\ joined = [r \in Reqs |-> {}] /\ removed = {}

Receive(r) ==
    /\ pc[r] = "idle" /\ req[r].fault # "misnamed"
    /\ Goto(r, CASE req[r].kind = "createGroup"                  -> "validate"
                 [] req[r].kind \in {"updateGroup", "deleteGroup"} -> "find"
                 [] req[r].kind = "addTo"                         -> "fetch"
                 [] req[r].kind = "dropFrom"                      -> "dropEach"
                 [] req[r].kind = "kick"                          -> "list"
                 [] req[r].kind = "login"                         -> "auth"
                 [] OTHER                                         -> "user")
    /\ UNCHANGED <<server, req, locals, answer, history>>

-----------------------------------------------------------------------------
(* createGroup, updateGroup, deleteGroup. *)

RejectName(r) ==
    /\ pc[r] = "idle" /\ req[r].fault = "misnamed"
    /\ Fail(r, "400")

FindGroup(r) ==
    /\ pc[r] = "find"
    /\ Look(r, req[r].group \in groups,
            IF req[r].kind = "updateGroup" THEN "validate" ELSE "remove", "404")

RemoveGroup(r) ==
    LET g == req[r].group IN
    /\ pc[r] = "remove"
    /\ groups' = groups \ {g}
    /\ role' = [role EXCEPT ![g] = [u \in Users |-> "none"]]
    /\ removed' = removed \cup ({g} \X Users)
    /\ Finish(r, "ok")
    /\ UNCHANGED <<accounts, locked, sessions, req, locals, before, freed, joined>>

\* The loops over the lists of the description: one that is null ends them too.  An
\* update sets whether the group is shared before it changes who is in it.
RejectLists(r) ==
    /\ pc[r] = "validate"
    /\ \/ req[r].fault = "absent" /\ Fail(r, "500")
       \/ req[r].fault = "unshared" /\ req[r].kind = "updateGroup" /\ Fail(r, "500")
       \/ req[r].fault = "unparsable" /\ Fail(r, "400")

AcceptLists(r) ==
    /\ pc[r] = "validate"
    /\ req[r].fault = "fine" \/ (req[r].fault = "unshared" /\ req[r].kind = "createGroup")
    /\ Goto(r, IF req[r].kind = "updateGroup" THEN "diff" ELSE "make")
    /\ UNCHANGED <<server, req, locals, answer, history>>

\* GroupNameInvalidException, of REST and legacy requests.
RefuseName(r) ==
    /\ pc[r] \in {"make", "supply"}
    /\ Fail(r, "409")

\* The group is made, and stays when nothing says whether it is shared.
MakeGroup(r) ==
    LET g == req[r].group IN
    /\ pc[r] = "make"
    /\ IF g \in groups
       THEN Fail(r, "409")
       ELSE /\ groups' = groups \cup {g}
            /\ IF req[r].fault = "unshared"
               THEN Finish(r, "500") /\ UNCHANGED fresh
               ELSE /\ fresh' = [fresh EXCEPT ![r] = req[r].members]
                    /\ Goto(r, "members") /\ UNCHANGED answer
            /\ UNCHANGED <<accounts, locked, sessions, role, req, at, toAdd, toDrop,
                           due, met, listed, history>>

\* The role that the lists of users are about at a label.
RoleAt(r) == IF pc[r] \in {"oldMembers", "members"} THEN "member" ELSE "admin"

\* An iteration over the users of one role begins, to keep those wanted.
Iterate(r, k, wanted) ==
    /\ fresh' = [fresh EXCEPT ![r] = wanted]
    /\ due' = [due EXCEPT ![r] = Holding(req[r].group, k)]
    /\ met' = [met EXCEPT ![r] = {}]
    /\ UNCHANGED <<server, req, at, toAdd, toDrop, listed, answer, history>>

IterateMembers(r) ==
    /\ pc[r] = "diff" /\ req[r].kind = "updateGroup"
    /\ Iterate(r, "member", req[r].members)
    /\ Goto(r, "oldMembers")

\* Faulty variant of MeetOld: who is kept is removed nonetheless.
MeetOldRemovesAll(r) ==
    LET g == req[r].group IN
    /\ pc[r] \in {"oldMembers", "oldAdmins"}
    /\ \E u \in (due[r] \cup Holding(g, RoleAt(r))) \ met[r] :
        /\ met' = [met EXCEPT ![r] = @ \cup {u}]
        /\ fresh' = [fresh EXCEPT ![r] = @ \ {u}]
        /\ SetRole(g, u, "none")
        /\ removed' = removed \cup {<<g, u>>}
    /\ UNCHANGED <<accounts, locked, sessions, groups, req, pc, at, toAdd, toDrop,
                   due, listed, answer, before, freed, joined>>

\* The iterator returns a user: one of those it began with, even if just removed, or
\* one added behind its back.  The user is kept, or removed.
MeetOld(r) ==
    LET g == req[r].group IN
    /\ pc[r] \in {"oldMembers", "oldAdmins"}
    /\ \E u \in (due[r] \cup Holding(g, RoleAt(r))) \ met[r] :
        /\ met' = [met EXCEPT ![r] = @ \cup {u}]
        /\ fresh' = [fresh EXCEPT ![r] = @ \ {u}]
        /\ IF u \in fresh[r] \/ role[g][u] # RoleAt(r)
           THEN UNCHANGED <<role, removed>>
           ELSE /\ SetRole(g, u, "none")
                /\ removed' = removed \cup {<<g, u>>}
    /\ UNCHANGED <<accounts, locked, sessions, groups, req, pc, at, toAdd, toDrop,
                   due, listed, answer, before, freed, joined>>

\* Whoever takes a step, who lost the role may be missed, even if it is given back.
KeepStaying ==
    staying' = [r \in Reqs |->
        {u \in (IF pc'[r] = pc[r] THEN staying[r] ELSE Users) :
            /\ pc'[r] \in {"oldMembers", "oldAdmins"}
            /\ role'[req[r].group][u] = RoleAt(r)'}]

OldDone(r) ==
    /\ pc[r] \in {"oldMembers", "oldAdmins"}
    /\ staying[r] \subseteq met[r]
    /\ Goto(r, IF pc[r] = "oldMembers" THEN "members" ELSE "admins")
    /\ UNCHANGED <<server, req, locals, answer, history>>

AddFresh(r) ==
    /\ pc[r] \in {"members", "admins"}
    /\ \E u \in fresh[r] :
        /\ SetRole(req[r].group, u, RoleAt(r))
        /\ fresh' = [fresh EXCEPT ![r] = @ \ {u}]
    /\ UNCHANGED <<accounts, locked, sessions, groups, req, pc, at, toAdd, toDrop,
                   due, met, listed, answer, history>>

MembersDone(r) ==
    /\ pc[r] = "members" /\ fresh[r] = {}
    /\ Iterate(r, "admin", req[r].admins)
    /\ Goto(r, IF req[r].kind = "updateGroup" THEN "oldAdmins" ELSE "admins")

AdminsDone(r) ==
    /\ pc[r] = "admins" /\ fresh[r] = {}
    /\ Finish(r, "ok")
    /\ UNCHANGED <<server, req, locals, history>>

-----------------------------------------------------------------------------
(* Users. *)

\* getAndCheckUser or getUser; the legacy createUser and POST /users create.
CheckUser(r) ==
    /\ pc[r] = "user" /\ req[r].kind \notin {"create", "legacyCreate"}
    /\ Look(r, req[r].user \in accounts,
            CASE req[r].kind = "legacyUpdate"               -> "fetch"
              [] req[r].kind \in {"disable", "legacyDisable"} -> "lock"
              [] req[r].kind = "enable"                     -> "unlock"
              [] req[r].kind = "delete"                     -> "delete", "404")

CreateUser(r) ==
    /\ pc[r] = "user" /\ req[r].kind \in {"create", "legacyCreate"}
    /\ IF req[r].user \in accounts
       THEN Fail(r, "409")
       ELSE /\ accounts' = accounts \cup {req[r].user}
            /\ IF req[r].kind = "legacyCreate"
               THEN Goto(r, "made") /\ UNCHANGED answer
               ELSE Finish(r, "ok")
            /\ UNCHANGED <<locked, sessions, groups, role, req, locals, history>>

\* The legacy createUser gets the user it has created.
FindMade(r) ==
    /\ pc[r] = "made"
    /\ Look(r, req[r].user \in accounts, "fetch", "404")

\* What becomes of the groups and the roster of the user is Openfire's business.
DeleteUser(r) ==
    LET u == req[r].user IN
    /\ pc[r] = "delete"
    /\ accounts' = accounts \ {u}
    /\ \/ UNCHANGED <<role, removed>>
       \/ /\ role' = [g \in Groups |-> [role[g] EXCEPT ![u] = "none"]]
          /\ removed' = removed \cup (Groups \X {u})
    /\ Finish(r, "ok")
    /\ UNCHANGED <<locked, sessions, groups, req, locals, before, freed, joined>>

-----------------------------------------------------------------------------
(* Lists of groups: addUserToGroups, addUserToGroup, and the legacy createUser
   and updateUser first get or create all of them. *)

Fetching(r) == pc[r] = "fetch" /\ at[r] <= Len(req[r].names)

NextName(r) == at' = [at EXCEPT ![r] = @ + 1]

\* Faulty variant of FetchGroup: the user is added to each group when it is there.
FetchAndAdd(r) ==
    LET g == req[r].names[at[r]] IN
    /\ Fetching(r) /\ g \in groups
    /\ NextName(r)
    /\ SetRole(g, req[r].user, "member")
    /\ joined' = [joined EXCEPT ![r] = @ \cup {g}]
    /\ UNCHANGED <<accounts, locked, sessions, groups, req, pc, toAdd, toDrop, fresh, due,
                   met, listed, answer, before, freed, removed>>

\* Faulty variant of FetchGroup: one step too far.
FetchTwo(r) ==
    /\ Fetching(r) /\ req[r].names[at[r]] \in groups
    /\ at' = [at EXCEPT ![r] = @ + 2]
    /\ UNCHANGED <<server, req, pc, toAdd, toDrop, fresh, due, met, listed, answer, history>>

FetchGroup(r) ==
    /\ Fetching(r) /\ req[r].names[at[r]] \in groups
    /\ NextName(r)
    /\ UNCHANGED <<server, req, pc, toAdd, toDrop, fresh, due, met, listed, answer, history>>

\* The REST endpoints hand createGroup a description without lists, which it cannot
\* loop over; the legacy service calls Openfire.
MissGroup(r) ==
    /\ Fetching(r) /\ req[r].names[at[r]] \notin groups
    /\ Look(r, req[r].kind # "addTo", "supply", "500")

SupplyGroup(r) ==
    LET g == req[r].names[at[r]] IN
    /\ pc[r] = "supply"
    /\ IF g \in groups
       THEN Fail(r, "409")
       ELSE /\ groups' = groups \cup {g}
            /\ NextName(r)
            /\ Goto(r, "fetch")
            /\ UNCHANGED <<accounts, locked, sessions, role, req, toAdd, toDrop, fresh, due,
                           met, listed, answer, history>>

\* Faulty variant of Fetched: the two differences are swapped.
FetchedSwapped(r) ==
    LET old == IF req[r].kind = "legacyUpdate" THEN GroupsOf(req[r].user) ELSE {} IN
    /\ pc[r] = "fetch" /\ at[r] > Len(req[r].names)
    /\ toAdd' = [toAdd EXCEPT ![r] = old \ NamesOf(r)]
    /\ toDrop' = [toDrop EXCEPT ![r] = NamesOf(r) \ old]
    /\ Goto(r, "add")
    /\ UNCHANGED <<server, req, at, fresh, due, met, listed, answer, history>>

\* The legacy update adds and removes what differs from the groups of the user.
Fetched(r) ==
    LET old == IF req[r].kind = "legacyUpdate" THEN GroupsOf(req[r].user) ELSE {} IN
    /\ pc[r] = "fetch" /\ at[r] > Len(req[r].names)
    /\ toAdd' = [toAdd EXCEPT ![r] = NamesOf(r) \ old]
    /\ toDrop' = [toDrop EXCEPT ![r] = old \ NamesOf(r)]
    /\ Goto(r, "add")
    /\ UNCHANGED <<server, req, at, fresh, due, met, listed, answer, history>>

\* group.getMembers().add
AddToGroup(r) ==
    /\ pc[r] = "add"
    /\ \E g \in toAdd[r] :
        /\ SetRole(g, req[r].user, "member")
        /\ toAdd' = [toAdd EXCEPT ![r] = @ \ {g}]
        /\ joined' = [joined EXCEPT ![r] = @ \cup {g}]
    /\ UNCHANGED <<accounts, locked, sessions, groups, req, pc, at, toDrop, fresh, due,
                   met, listed, answer, before, freed, removed>>

AddsDone(r) ==
    /\ pc[r] = "add" /\ toAdd[r] = {}
    /\ Goto(r, "drop")
    /\ UNCHANGED <<server, req, locals, answer, history>>

\* group.getMembers().remove: an administrator is not among them.
TakeOut(g, u) ==
    IF role[g][u] = "member"
    THEN SetRole(g, u, "none") /\ removed' = removed \cup {<<g, u>>}
    ELSE UNCHANGED <<role, removed>>

\* Faulty variant of DropGroup: the old groups come first.
DropGroupFirst(r) ==
    /\ pc[r] \in {"add", "drop"}
    /\ \E g \in toDrop[r] :
        /\ TakeOut(g, req[r].user)
        /\ toDrop' = [toDrop EXCEPT ![r] = @ \ {g}]
    /\ UNCHANGED <<accounts, locked, sessions, groups, req, pc, at, toAdd, fresh, due,
                   met, listed, answer, before, freed, joined>>

DropGroup(r) ==
    /\ pc[r] = "drop"
    /\ \E g \in toDrop[r] :
        /\ TakeOut(g, req[r].user)
        /\ toDrop' = [toDrop EXCEPT ![r] = @ \ {g}]
    /\ UNCHANGED <<accounts, locked, sessions, groups, req, pc, at, toAdd, fresh, due,
                   met, listed, answer, before, freed, joined>>

DropsDone(r) ==
    /\ pc[r] = "drop" /\ toDrop[r] = {}
    /\ Finish(r, "ok")
    /\ UNCHANGED <<server, req, locals, history>>

\* deleteUserFromGroups and deleteUserFromGroup: group by group.
DropFind(r) ==
    /\ pc[r] = "dropEach" /\ at[r] <= Len(req[r].names)
    /\ Look(r, req[r].names[at[r]] \in groups, "dropOne", "404")

DropOne(r) ==
    /\ pc[r] = "dropOne"
    /\ TakeOut(req[r].names[at[r]], req[r].user)
    /\ NextName(r)
    /\ Goto(r, "dropEach")
    /\ UNCHANGED <<accounts, locked, sessions, groups, req, toAdd, toDrop, fresh, due,
                   met, listed, answer, before, freed, joined>>

DropEachDone(r) ==
    /\ pc[r] = "dropEach" /\ at[r] > Len(req[r].names)
    /\ Finish(r, "ok")
    /\ UNCHANGED <<server, req, locals, history>>

-----------------------------------------------------------------------------
(* Lockouts and sessions. *)

\* disableAccount; the legacy service does no more.
Lock(r) ==
    LET u == req[r].user IN
    /\ pc[r] = "lock"
    /\ locked' = locked \cup {u}
    /\ before' = [before EXCEPT ![r] = SessionsOf(u)]
    /\ freed' = [freed EXCEPT ![r] = FALSE]
    /\ IF req[r].kind = "disable"
       THEN Goto(r, "recheck") /\ UNCHANGED answer
       ELSE Finish(r, "ok")
    /\ UNCHANGED <<accounts, sessions, groups, role, req, locals, joined, removed>>

\* isAccountDisabled: not if somebody has enabled it since.
Recheck(r) ==
    /\ pc[r] = "recheck"
    /\ Look(r, req[r].user \in locked, "list", "ok")

\* getSessions, of disableUser and of removeUserSessions.
ListSessions(r) ==
    /\ pc[r] = "list"
    /\ listed' = [listed EXCEPT ![r] = SessionsOf(req[r].user)]
    /\ Goto(r, "close")
    /\ UNCHANGED <<server, req, at, toAdd, toDrop, fresh, due, met, answer, history>>

\* Faulty variant of CloseSession: the loop ends with the first session.
CloseFirst(r) ==
    /\ pc[r] = "close"
    /\ \E s \in listed[r] : sessions' = sessions \ {s}
    /\ listed' = [listed EXCEPT ![r] = {}]
    /\ UNCHANGED <<accounts, locked, groups, role, req, pc, at, toAdd, toDrop, fresh, due,
                   met, answer, history>>

CloseSession(r) ==
    /\ pc[r] = "close"
    /\ \E s \in listed[r] :
        /\ sessions' = sessions \ {s}
        /\ listed' = [listed EXCEPT ![r] = @ \ {s}]
    /\ UNCHANGED <<accounts, locked, groups, role, req, pc, at, toAdd, toDrop, fresh, due,
                   met, answer, history>>

SessionsClosed(r) ==
    /\ pc[r] = "close" /\ listed[r] = {}
    /\ Finish(r, "ok")
    /\ UNCHANGED <<server, req, locals, history>>

Unlock(r) ==
    LET u == req[r].user IN
    /\ pc[r] = "unlock"
    /\ locked' = locked \ {u}
    /\ freed' = [s \in Reqs |-> freed[s] \/ req[s].user = u]
    /\ Finish(r, "ok")
    /\ UNCHANGED <<accounts, sessions, groups, role, req, locals, before, joined, removed>>

\* A login of Openfire: the lockout is looked at first, the session comes later.
Authenticate(r) ==
    /\ pc[r] = "auth"
    /\ Look(r, req[r].user \in accounts \ locked, "bind", "401")

BindSession(r) ==
    /\ pc[r] = "bind"
    /\ sessions' = sessions \cup {<<req[r].user, r>>}
    /\ Finish(r, "ok")
    /\ UNCHANGED <<accounts, locked, groups, role, req, locals, history>>

-----------------------------------------------------------------------------
Step(r) ==
    \/ RejectName(r) \/ FindGroup(r) \/ RemoveGroup(r)
    \/ RejectLists(r) \/ AcceptLists(r) \/ RefuseName(r) \/ MakeGroup(r)
    \/ IterateMembers(r) \/ MeetOld(r) \/ OldDone(r) \/ AddFresh(r)
    \/ MembersDone(r) \/ AdminsDone(r)
    \/ CheckUser(r) \/ CreateUser(r) \/ FindMade(r) \/ DeleteUser(r)
    \/ FetchGroup(r) \/ MissGroup(r) \/ SupplyGroup(r) \/ Fetched(r)
    \/ AddToGroup(r) \/ AddsDone(r) \/ DropGroup(r) \/ DropsDone(r)
    \/ DropFind(r) \/ DropOne(r) \/ DropEachDone(r)
    \/ Lock(r) \/ Recheck(r) \/ ListSessions(r) \/ CloseSession(r) \/ SessionsClosed(r)
    \/ Unlock(r) \/ Authenticate(r) \/ BindSession(r)

Drained == (\A r \in Reqs : pc[r] = "done") /\ UNCHANGED vars

Next ==
    \/ (\E r \in Reqs : Receive(r) \/ Step(r)) /\ KeepStaying
    \/ Drained

Spec == Init /\ [][Next]_vars

-----------------------------------------------------------------------------
(* Properties. *)

\* Every variable has its type, and a group that is not there has no users.
TypeOK ==
    /\ accounts \subseteq Users /\ locked \subseteq Users
    /\ sessions \subseteq Sessions
    /\ groups \subseteq Groups
    /\ role \in [Groups -> [Users -> Roles]]
    /\ \A g \in Groups \ groups : \A u \in Users : role[g][u] = "none"
    /\ req \in [Reqs -> RequestType]
    /\ pc \in [Reqs -> Labels]
    /\ at \in [Reqs -> Nat] /\ \A r \in Reqs : at[r] \in 1..(Len(req[r].names) + 1)
    /\ toAdd \in [Reqs -> SUBSET Groups] /\ toDrop \in [Reqs -> SUBSET Groups]
    /\ fresh \in [Reqs -> SUBSET Users] /\ due \in [Reqs -> SUBSET Users]
    /\ met \in [Reqs -> SUBSET Users] /\ staying \in [Reqs -> SUBSET Users]
    /\ listed \in [Reqs -> SUBSET Sessions]
    /\ answer \in [Reqs -> Codes]
    /\ before \in [Reqs -> SUBSET Sessions] /\ freed \in [Reqs -> BOOLEAN]
    /\ joined \in [Reqs -> SUBSET Groups]
    /\ removed \subseteq Groups \X Users

Concerns(r, g) == IF req[r].kind \in GroupKinds THEN req[r].group = g ELSE g \in NamesOf(r)

\* No request deletes the user, or takes it from groups that it does not name.
Apart(u) == \A r \in Reqs : req[r].kind \in {"delete", "legacyUpdate"} => req[r].user # u

\* When overlapping updates of a group (PUT /groups) have ended and nothing else has
\* touched it, a user that all of them name in one role has that role, and a user in
\* the group is named by one of them: no mix of their loops loses or keeps more.
\* Left out are users that another request takes from all their groups.
UpdatesMeetInBetween ==
    \A g \in groups :
        LET all == {r \in Reqs : Concerns(r, g)}
            put == {r \in all : answer[r] = "ok"} IN
        /\ put # {}
        /\ \A r \in all : req[r].kind = "updateGroup" /\ pc[r] = "done"
        => \A u \in {v \in Users : Apart(v)} :
            /\ (\A r \in put : u \in req[r].members \ req[r].admins) => role[g][u] = "member"
            /\ (\A r \in put : u \in req[r].admins \ req[r].members) => role[g][u] = "admin"
            /\ role[g][u] # "none" => \E r \in put : u \in req[r].members \cup req[r].admins

\* A request to put a user into groups that was refused has put it into none of them:
\* all the groups are there before the first one changes.
RefusedJoinsNothing ==
    \A r \in Reqs : answer[r] \notin {"none", "ok"} => joined[r] = {}

\* A request that was answered with success has its user in every group it names,
\* unless somebody took the user, or the group, away.
AnsweredMeansJoined ==
    \A r \in Reqs :
        /\ req[r].kind \in {"addTo", "legacyCreate", "legacyUpdate"} /\ answer[r] = "ok"
        => \A g \in NamesOf(r) :
               role[g][req[r].user] # "none" \/ <<g, req[r].user>> \in removed

\* The legacy service moves a user from groups to others: if no other request is about
\* that user or removes a group, and the user had a group or got one, it is in some group
\* all the while.
MovedUserKeepsAGroup ==
    \A r \in Reqs :
        LET u == req[r].user
            had == \E g \in Groups : <<g, u>> \in removed IN
        /\ req[r].kind = "legacyUpdate" /\ pc[r] \in {"add", "drop"}
        /\ (NamesOf(r) \ toAdd[r]) \cup toDrop[r] # {} \/ (had /\ NamesOf(r) # {})
        /\ \A s \in Reqs \ {r} :
               /\ req[s].kind \notin {"deleteGroup", "updateGroup"}
               /\ req[s].user # u
        => GroupsOf(u) # {}

\* When a user was disabled (POST /lockouts), no session that was open when the lockout
\* was set is open any more, unless the user was enabled again in between.
DisabledMeansOffline ==
    \A r \in Reqs :
        req[r].kind = "disable" /\ answer[r] = "ok" /\ ~freed[r] => before[r] \cap sessions = {}

-----------------------------------------------------------------------------
(* What the documentation says, and the code does not do. *)

\* UserGroupService: "When a group that is provided does not exist, it will be
\* automatically created if possible."  Where no request removes groups, those that a
\* finished request names are there.
MissingGroupsAreMade ==
    (\A s \in Reqs : req[s].kind # "deleteGroup")
    => \A r \in Reqs : req[r].kind = "addTo" /\ pc[r] = "done" => NamesOf(r) \subseteq groups
=============================================================================
