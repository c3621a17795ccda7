---------------------------- MODULE RoomRequests ----------------------------
(***************************************************************************)
(* Concurrent REST requests on one room of one multi-user chat service     *)
(* (MUCRoomController).  Every request runs in a thread of its own; it     *)
(* works on the room instance that the node's threads share, one call of   *)
(* MUCRoom at a time, inside sections guarded by the room mutex of the     *)
(* service when plugin.restapi.muc.room-mutex.enabled says so, and         *)
(* publishes the instance to the other cluster nodes with syncChatRoom.    *)
(*                                                                         *)
(* A request:                                                              *)
(*   create, update    createChatRoom, updateChatRoom (both: createRoom)   *)
(*   replace, add      replaceAffiliatedUsers, addAffiliatedUsers          *)
(*   remove            deleteAffiliation                                   *)
(*   destroy           deleteChatRoom                                      *)
(*   get               getChatRoom and convertToMUCRoomEntity              *)
(***************************************************************************)
EXTENDS Affiliations

CONSTANTS
    Reqs,           \* identities of the requests (one thread each)
    Requests,       \* what clients may ask for
    Confs,          \* configurations of a room, its affiliations left aside
    DefaultConf,    \* the configuration of a room that was just made
    MutexSettings,  \* the values the mutex property takes during a behaviour
    InitialRooms,   \* affiliations the room may have at first, or NoRoom
    NoRoom,         \* "there is no such room"
    Nobody,         \* owner of the mutex when it is free
    Original        \* the room instance that exists before any request

Kinds == {"create", "update", "replace", "add", "remove", "destroy", "get"}
Codes == {"none", "ok", "403", "404", "409", "500"}
Labels == {"idle", "service", "mkservice", "getlock", "lock", "enter",
           "configure", "compare", "assign", "strip", "open", "check",
           "destroy", "sync", "invite", "release", "diffAdd", "diffRemove",
           "read", "done"}

\* Room instances: a request makes at most one.
Insts == Reqs \cup {Original}

RequestType ==
    [kind : Kinds, want : [Lists -> SUBSET Jids], conf : Confs,
     rolesOk : BOOLEAN, list : Lists, jids : SUBSET Jids, invite : BOOLEAN]

ASSUME RequestAssumption ==
    /\ Requests \subseteq RequestType
    /\ \A q \in Requests : q.kind = "remove" => \E j \in Jids : q.jids = {j}
    /\ DefaultConf \in Confs
    /\ MutexSettings \subseteq BOOLEAN
    /\ \A a \in InitialRooms \ {NoRoom} :
           a \in [Jids -> Affs] /\ Holding(a, "owner") # {}
    /\ Nobody \notin Reqs /\ Original \notin Reqs /\ NoRoom \notin Insts
    /\ NoRoom \notin [aff : [Jids -> Affs], conf : Confs]

VARIABLES
    \* Openfire: the service, the room as this node and as the others see it
    registered,  \* the service exists
    current,     \* the instance that a lookup of the room's name yields
    aff,         \* affiliations of each instance
    conf,        \* configuration of each instance
    life,        \* "unborn", "locked", "open" or "destroyed"
    published,   \* the room as other cluster nodes see it
    \* the mutex
    useMutex,    \* USE_ROOM_MUTEX
    mutex,       \* the request that owns the room mutex of the service
    token,       \* the lock that getLock gave a request
    \* the threads
    req,         \* what each request asks for
    pc,          \* where its thread is
    room,        \* its local variable for the room
    old,         \* the room whose list getByAffiliation returned (live)
    list,        \* the affiliation list it is working on
    work,        \* addresses it has still to put on that list
    reset,       \* addresses it has still to strip of their affiliation
    added,       \* addresses it has put on a list
    invited,     \* invitations sent: <<address, affiliation>>
    view,        \* the lists of the entity that a get has read so far
    result       \* outcome: "none" until known

node   == <<registered, current, aff, conf, life, published>>
locks  == <<useMutex, mutex, token>>
locals == <<room, old, list, work, reset, added, invited, view>>
vars   == <<node, locks, req, pc, locals, result>>

IsPut(r)   == req[r].kind \in {"create", "update"}
IsDelta(r) == req[r].kind \in {"replace", "add"}

\* The lists a put asks for.
Wanted(r) == WithDefaultOwner(req[r].want)

\* What syncChatRoom shows the other nodes of instance i.
Snapshot(i) ==
    IF life[i] = "destroyed" THEN NoRoom ELSE [aff |-> aff[i], conf |-> conf[i]]

Goto(r, l) == pc' = [pc EXCEPT ![r] = l]

\* An exception or a last statement: the finally block comes next.
Leave(r, code) ==
    /\ result' = [result EXCEPT ![r] = code]
    /\ Goto(r, "release")

\* The request ends without having taken a lock.
Reject(r, code) ==
    /\ result' = [result EXCEPT ![r] = code]
    /\ Goto(r, "done")
    /\ UNCHANGED <<node, locks, locals, req>>

Init ==
    /\ \E a \in InitialRooms :
        IF a = NoRoom
        THEN /\ registered \in BOOLEAN
             /\ current = NoRoom
             /\ aff = [i \in Insts |-> Unaffiliated]
             /\ life = [i \in Insts |-> "unborn"]
             /\ published = NoRoom
        ELSE /\ registered = TRUE
             /\ current = Original
             /\ aff = [i \in Insts |-> IF i = Original THEN a ELSE Unaffiliated]
             /\ life = [i \in Insts |-> IF i = Original THEN "open" ELSE "unborn"]
             /\ published = [aff |-> a, conf |-> DefaultConf]
    /\ conf = [i \in Insts |-> DefaultConf]
    /\ useMutex \in MutexSettings
    /\ mutex = Nobody
    /\ token = [r \in Reqs |-> "none"]
    /\ req \in [Reqs -> Requests]
    /\ pc = [r \in Reqs |-> "idle"]
    /\ room = [r \in Reqs |-> NoRoom]
    /\ old = [r \in Reqs |-> NoRoom]
    /\ list = [r \in Reqs |-> "owner"]
    /\ work = [r \in Reqs |-> {}]
    /\ reset = [r \in Reqs |-> {}]
    /\ added = [r \in Reqs |-> {}]
    /\ invited = [r \in Reqs |-> {}]
    /\ view = [r \in Reqs |-> [l \in Lists |-> {}]]
    /\ result = [r \in Reqs |-> "none"]

-----------------------------------------------------------------------------
(* Before the lock: input checks and the service. *)

Receive(r) ==
    /\ pc[r] = "idle"
    /\ IsPut(r) => Duplicates(Wanted(r)) = {}
    /\ Goto(r, IF IsPut(r) THEN "service" ELSE "getlock")
    /\ UNCHANGED <<node, locks, locals, req, result>>

\* Issue #159: a put that lists a user twice is a conflict.
RejectDuplicates(r) ==
    /\ pc[r] = "idle" /\ IsPut(r) /\ Duplicates(Wanted(r)) # {}
    /\ Reject(r, "409")

CheckService(r) ==
    /\ pc[r] = "service"
    /\ Goto(r, IF registered THEN "getlock" ELSE "mkservice")
    /\ UNCHANGED <<node, locks, locals, req, result>>

CreateService(r) ==
    /\ pc[r] = "mkservice" /\ ~registered
    /\ registered' = TRUE
    /\ Goto(r, "getlock")
    /\ UNCHANGED <<current, aff, conf, life, published, locks, locals, req, result>>

\* AlreadyExistsException: another request made the service since the check.
LoseServiceRace(r) ==
    /\ pc[r] = "mkservice" /\ registered
    /\ Reject(r, "409")

NoService(r) ==
    /\ pc[r] = "getlock" /\ ~registered
    /\ Reject(r, "404")

-----------------------------------------------------------------------------
(* The lock. *)

\* Faulty variant of GetLock: a fresh lock for every request.
GetFreshLock(r) ==
    /\ pc[r] = "getlock" /\ registered
    /\ token' = [token EXCEPT ![r] = "private"]
    /\ Goto(r, "lock")
    /\ UNCHANGED <<node, useMutex, mutex, locals, req, result>>

\* getLock: the mutex of the service, or a lock nobody else can have.
GetLock(r) ==
    /\ pc[r] = "getlock" /\ registered
    /\ token' = [token EXCEPT ![r] = IF useMutex THEN "mutex" ELSE "private"]
    /\ Goto(r, "lock")
    /\ UNCHANGED <<node, useMutex, mutex, locals, req, result>>

Lock(r) ==
    /\ pc[r] = "lock"
    /\ token[r] = "mutex" => mutex = Nobody
    /\ mutex' = IF token[r] = "mutex" THEN r ELSE mutex
    /\ Goto(r, "enter")
    /\ UNCHANGED <<node, useMutex, token, locals, req, result>>

\* Faulty variant of Release: no finally, so a failed request keeps its lock.
ReleaseOnSuccess(r) ==
    /\ pc[r] = "release"
    /\ mutex' = IF token[r] = "mutex" /\ result[r] \in {"none", "ok"} THEN Nobody ELSE mutex
    /\ token' = [token EXCEPT ![r] = "none"]
    /\ Goto(r, IF result[r] # "none" THEN "done"
               ELSE IF req[r].kind = "get" THEN "read" ELSE "diffAdd")
    /\ UNCHANGED <<node, useMutex, locals, req, result>>

\* Faulty variant of Release: unlocks what getLock would give out now.
ReleaseByProperty(r) ==
    /\ pc[r] = "release"
    /\ mutex' = IF useMutex THEN Nobody ELSE mutex
    /\ token' = [token EXCEPT ![r] = "none"]
    /\ Goto(r, IF result[r] # "none" THEN "done"
               ELSE IF req[r].kind = "get" THEN "read" ELSE "diffAdd")
    /\ UNCHANGED <<node, useMutex, locals, req, result>>

\* The finally block unlocks the lock that was taken, whatever the property
\* says by now.  A get goes on to convert the room; a replace or add that has
\* fetched the old list goes on to its second section.
Release(r) ==
    /\ pc[r] = "release"
    /\ mutex' = IF token[r] = "mutex" THEN Nobody ELSE mutex
    /\ token' = [token EXCEPT ![r] = "none"]
    /\ Goto(r, IF result[r] # "none" THEN "done"
               ELSE IF req[r].kind = "get" THEN "read" ELSE "diffAdd")
    /\ UNCHANGED <<node, useMutex, locals, req, result>>

\* An administrator flips the dynamic property.
SetMutex ==
    /\ \E b \in MutexSettings \ {useMutex} : useMutex' = b
    /\ UNCHANGED <<node, mutex, token, locals, req, pc, result>>

-----------------------------------------------------------------------------
(* Entering the section: which room. *)

\* Faulty variant of FindRoom: the second section keeps the room of the first.
FindRoomOnce(r) ==
    LET k == req[r].kind
        lookup == IsDelta(r) /\ old[r] = NoRoom
    IN
    /\ pc[r] = "enter" /\ ~IsPut(r) /\ (current # NoRoom \/ old[r] # NoRoom)
    /\ room' = [room EXCEPT ![r] = IF old[r] # NoRoom THEN old[r] ELSE current]
    /\ old' = IF lookup THEN [old EXCEPT ![r] = current] ELSE old
    /\ list' = [list EXCEPT ![r] = IF k = "get" THEN "owner" ELSE req[r].list]
    /\ Goto(r, CASE k = "get" \/ lookup      -> "release"
                 [] IsDelta(r) /\ ~lookup    -> "assign"
                 [] k = "remove"             -> "check"
                 [] k = "destroy"            -> "destroy")
    /\ UNCHANGED <<node, locks, work, reset, added, invited, view, req, result>>

\* getRoom, for every request but a put.
FindRoom(r) ==
    LET k == req[r].kind
        lookup == IsDelta(r) /\ old[r] = NoRoom
    IN
    /\ pc[r] = "enter" /\ ~IsPut(r) /\ current # NoRoom
    /\ room' = [room EXCEPT ![r] = current]
    /\ old' = IF lookup THEN [old EXCEPT ![r] = current] ELSE old
    /\ list' = [list EXCEPT ![r] = IF k = "get" THEN "owner" ELSE req[r].list]
    /\ Goto(r, CASE k = "get" \/ lookup      -> "release"
                 [] IsDelta(r) /\ ~lookup    -> "assign"
                 [] k = "remove"             -> "check"
                 [] k = "destroy"            -> "destroy")
    /\ UNCHANGED <<node, locks, work, reset, added, invited, view, req, result>>

NoSuchRoom(r) ==
    /\ pc[r] = "enter" /\ ~IsPut(r) /\ current = NoRoom
    /\ Leave(r, "404")
    /\ UNCHANGED <<node, locks, locals, req>>

\* getChatRoom(name, owner) for a put: the room there is ...
OpenExisting(r) ==
    /\ pc[r] = "enter" /\ IsPut(r) /\ current # NoRoom
    /\ room' = [room EXCEPT ![r] = current]
    /\ Goto(r, "configure")
    /\ UNCHANGED <<node, locks, old, list, work, reset, added, invited, view, req, result>>

\* ... or a new one, locked, that belongs to the first owner of the entity ...
OpenNew(r) ==
    /\ pc[r] = "enter" /\ IsPut(r) /\ current = NoRoom
    /\ \E first \in Wanted(r)["owner"] \ Groups :
           aff' = [aff EXCEPT ![r] = Move(Unaffiliated, first, "owner")]
    /\ life' = [life EXCEPT ![r] = "locked"]
    /\ current' = r
    /\ room' = [room EXCEPT ![r] = r]
    /\ Goto(r, "configure")
    /\ UNCHANGED <<registered, conf, published, locks,
                   old, list, work, reset, added, invited, view, req, result>>

\* ... unless that owner may not create rooms (NotAllowedException).
RefuseNew(r) ==
    /\ pc[r] = "enter" /\ IsPut(r) /\ current = NoRoom
    /\ Leave(r, "403")
    /\ UNCHANGED <<node, locks, locals, req>>

-----------------------------------------------------------------------------
(* createRoom under the lock. *)

\* Faulty variant of Configure: synchronised before the affiliations are set.
ConfigureAndSync(r) ==
    /\ pc[r] = "configure"
    /\ conf' = [conf EXCEPT ![room[r]] = req[r].conf]
    /\ published' = [aff |-> aff[room[r]], conf |-> req[r].conf]
    /\ IF req[r].rolesOk
       THEN Goto(r, "compare") /\ result' = result
       ELSE Leave(r, "500")
    /\ UNCHANGED <<registered, current, aff, life, locks, locals, req>>

\* The settings of the entity; a role name that is no role ends the request
\* after they are set (IllegalArgumentException).
Configure(r) ==
    /\ pc[r] = "configure"
    /\ conf' = [conf EXCEPT ![room[r]] = req[r].conf]
    /\ IF req[r].rolesOk
       THEN Goto(r, "compare") /\ result' = result
       ELSE Leave(r, "500")
    /\ UNCHANGED <<registered, current, aff, life, published, locks, locals, req>>

\* setRoles is left out when the lists are already what the entity says.
KeepRoles(r) ==
    /\ pc[r] = "compare" /\ EqualToAffiliations(aff[room[r]], Wanted(r))
    /\ Goto(r, "open")
    /\ UNCHANGED <<node, locks, locals, req, result>>

\* Faulty variant of BeginList: what is wanted stays among what is to be reset.
BeginListKeepingReset(r, l, toReset) ==
    /\ list' = [list EXCEPT ![r] = l]
    /\ reset' = [reset EXCEPT ![r] = toReset]
    /\ work' = [work EXCEPT ![r] = Wanted(r)[l] \ Holding(aff[room[r]], l)]

\* The start of the list l of setRoles: what is wanted is not to be reset, and
\* what is there already need not be added.
BeginList(r, l, toReset) ==
    /\ list' = [list EXCEPT ![r] = l]
    /\ reset' = [reset EXCEPT ![r] = toReset \ Wanted(r)[l]]
    /\ work' = [work EXCEPT ![r] = Wanted(r)[l] \ Holding(aff[room[r]], l)]

\* Faulty variant of SetRoles: old affiliations are stripped before any is added.
StripFirst(r) ==
    /\ pc[r] = "compare" /\ ~EqualToAffiliations(aff[room[r]], Wanted(r))
    /\ BeginList(r, "owner", Affiliated(aff[room[r]]))
    /\ Goto(r, "strip")
    /\ UNCHANGED <<node, locks, room, old, added, invited, view, req, result>>

SetRoles(r) ==
    /\ pc[r] = "compare" /\ ~EqualToAffiliations(aff[room[r]], Wanted(r))
    /\ BeginList(r, "owner", Affiliated(aff[room[r]]))
    /\ Goto(r, "assign")
    /\ UNCHANGED <<node, locks, room, old, added, invited, view, req, result>>

NextList(r) ==
    /\ pc[r] = "assign" /\ IsPut(r) /\ work[r] = {} /\ list[r] # "outcast"
    /\ BeginList(r, NextOf(list[r]), reset[r])
    /\ UNCHANGED <<node, locks, pc, room, old, added, invited, view, req, result>>

\* room.unlock, saveToDB and changeSubject.
Open(r) ==
    /\ pc[r] = "open"
    /\ life' = [life EXCEPT ![room[r]] = IF @ = "destroyed" THEN @ ELSE "open"]
    /\ Goto(r, "sync")
    /\ UNCHANGED <<registered, current, aff, conf, published, locks, locals, req, result>>

-----------------------------------------------------------------------------
(* Calls that change affiliations, of all requests. *)

\* addOwner, addAdmin, addMember or addOutcast.
Assign(r) ==
    /\ pc[r] = "assign"
    /\ \E j \in work[r] :
        /\ ~Conflicts(aff[room[r]], j, list[r])
        /\ aff' = [aff EXCEPT ![room[r]] = Move(@, j, list[r])]
        /\ work' = [work EXCEPT ![r] = @ \ {j}]
        /\ added' = [added EXCEPT ![r] = @ \cup {j}]
    /\ UNCHANGED <<registered, current, conf, life, published, locks,
                   room, old, list, reset, invited, view, req, pc, result>>

AssignConflict(r) ==
    /\ pc[r] = "assign"
    /\ \E j \in work[r] : Conflicts(aff[room[r]], j, list[r])
    /\ Leave(r, "409")
    /\ UNCHANGED <<node, locks, locals, req>>

\* addOutcast may also refuse (NotAllowedException).
AssignRefused(r) ==
    /\ pc[r] = "assign" /\ list[r] = "outcast" /\ work[r] # {}
    /\ Leave(r, "403")
    /\ UNCHANGED <<node, locks, locals, req>>

AssignDone(r) ==
    /\ pc[r] = "assign" /\ work[r] = {}
    /\ IsPut(r) => list[r] = "outcast"
    /\ Goto(r, "strip")
    /\ UNCHANGED <<node, locks, locals, req, result>>

\* addNone.
Strip(r) ==
    /\ pc[r] = "strip"
    /\ \E j \in reset[r] :
        /\ ~Conflicts(aff[room[r]], j, "none")
        /\ aff' = [aff EXCEPT ![room[r]] = Move(@, j, "none")]
        /\ reset' = [reset EXCEPT ![r] = @ \ {j}]
    /\ UNCHANGED <<registered, current, conf, life, published, locks,
                   room, old, list, work, added, invited, view, req, pc, result>>

StripConflict(r) ==
    /\ pc[r] = "strip"
    /\ \E j \in reset[r] : Conflicts(aff[room[r]], j, "none")
    /\ Leave(r, "409")
    /\ UNCHANGED <<node, locks, locals, req>>

\* deleteAffiliation tells the others in the room before it publishes; a MUCRoom
\* whose send cannot be called ends the request when the address is stripped.
SendFails(r) ==
    /\ pc[r] = "sync" /\ req[r].kind = "remove"
    /\ Leave(r, "500")
    /\ UNCHANGED <<node, locks, locals, req>>

StripDone(r) ==
    /\ pc[r] = "strip" /\ reset[r] = {}
    /\ Goto(r, IF IsPut(r) THEN "open" ELSE "sync")
    /\ UNCHANGED <<node, locks, locals, req, result>>

-----------------------------------------------------------------------------
(* replaceAffiliatedUsers and addAffiliatedUsers between their sections: the
   collection that getByAffiliation returned is read without the lock, once
   for the addresses to add and once for those to remove. *)

DiffAdd(r) ==
    /\ pc[r] = "diffAdd"
    /\ work' = [work EXCEPT ![r] = req[r].jids \ Holding(aff[old[r]], req[r].list)]
    /\ Goto(r, IF req[r].kind = "replace" THEN "diffRemove" ELSE "getlock")
    /\ UNCHANGED <<node, locks, room, old, list, reset, added, invited, view, req, result>>

DiffRemove(r) ==
    /\ pc[r] = "diffRemove"
    /\ reset' = [reset EXCEPT ![r] = Holding(aff[old[r]], req[r].list) \ req[r].jids]
    /\ Goto(r, "getlock")
    /\ UNCHANGED <<node, locks, room, old, list, work, added, invited, view, req, result>>

-----------------------------------------------------------------------------
(* deleteAffiliation, deleteChatRoom and convertToMUCRoomEntity. *)

\* The address must have the affiliation that the request names.
CheckAffiliation(r) ==
    /\ pc[r] = "check"
    /\ IF \A j \in req[r].jids : aff[room[r]][j] = req[r].list
       THEN /\ reset' = [reset EXCEPT ![r] = req[r].jids]
            /\ Goto(r, "strip") /\ result' = result
       ELSE reset' = reset /\ Leave(r, "409")
    /\ UNCHANGED <<node, locks, room, old, list, work, added, invited, view, req>>

\* Faulty variant of DestroyRoom: the destruction is not published.
DestroyUnsynced(r) ==
    /\ pc[r] = "destroy"
    /\ life' = [life EXCEPT ![room[r]] = "destroyed"]
    /\ current' = IF current = room[r] THEN NoRoom ELSE current
    /\ Leave(r, "ok")
    /\ UNCHANGED <<registered, aff, conf, published, locks, locals, req>>

DestroyRoom(r) ==
    /\ pc[r] = "destroy"
    /\ life' = [life EXCEPT ![room[r]] = "destroyed"]
    /\ current' = IF current = room[r] THEN NoRoom ELSE current
    /\ Goto(r, "sync")
    /\ UNCHANGED <<registered, aff, conf, published, locks, locals, req, result>>

\* One list after the other, after the lock is released.
ReadList(r) ==
    /\ pc[r] = "read"
    /\ view' = [view EXCEPT ![r][list[r]] = Holding(aff[room[r]], list[r])]
    /\ list' = [list EXCEPT ![r] = NextOf(@)]
    /\ IF list[r] = "outcast"
       THEN Goto(r, "done") /\ result' = [result EXCEPT ![r] = "ok"]
       ELSE UNCHANGED <<pc, result>>
    /\ UNCHANGED <<node, locks, room, old, work, reset, added, invited, req>>

-----------------------------------------------------------------------------
(* After the changes: syncChatRoom and the invitations. *)

\* Faulty variant of Sync: deleteAffiliation does not publish.
SyncUnlessRemoved(r) ==
    LET invites == req[r].invite /\ (IsPut(r) \/ (IsDelta(r) /\ list[r] # "outcast"))
    IN
    /\ pc[r] = "sync"
    /\ published' = IF req[r].kind = "remove" THEN published ELSE Snapshot(room[r])
    /\ result' = [result EXCEPT ![r] = "ok"]
    /\ list' = IF IsPut(r) THEN [list EXCEPT ![r] = "admin"] ELSE list
    /\ Goto(r, IF invites THEN "invite" ELSE "release")
    /\ UNCHANGED <<registered, current, aff, conf, life, locks,
                   room, old, work, reset, added, invited, view, req>>

Sync(r) ==
    LET invites == req[r].invite /\ (IsPut(r) \/ (IsDelta(r) /\ list[r] # "outcast"))
    IN
    /\ pc[r] = "sync"
    /\ published' = Snapshot(room[r])
    /\ result' = [result EXCEPT ![r] = "ok"]
    /\ list' = IF IsPut(r) THEN [list EXCEPT ![r] = "admin"] ELSE list
    /\ Goto(r, IF invites THEN "invite" ELSE "release")
    /\ UNCHANGED <<registered, current, aff, conf, life, locks,
                   room, old, work, reset, added, invited, view, req>>

\* sendInvitationsFromRoom: to those added, if the room has them on that list.
Invite(r) ==
    LET last == IsDelta(r) \/ list[r] = "member"
    IN
    /\ pc[r] = "invite"
    /\ invited' = [invited EXCEPT ![r] =
           @ \cup ((added[r] \cap Holding(aff[room[r]], list[r])) \X {list[r]})]
    /\ list' = IF last THEN list ELSE [list EXCEPT ![r] = InviteAfter(@)]
    /\ Goto(r, IF last THEN "release" ELSE "invite")
    /\ UNCHANGED <<node, locks, room, old, work, reset, added, view, req, result>>

-----------------------------------------------------------------------------
Step(r) ==
    \/ RejectDuplicates(r) \/ CheckService(r) \/ CreateService(r)
    \/ LoseServiceRace(r) \/ NoService(r)
    \/ GetLock(r) \/ Lock(r) \/ Release(r)
    \/ FindRoom(r) \/ NoSuchRoom(r) \/ OpenExisting(r) \/ OpenNew(r) \/ RefuseNew(r)
    \/ Configure(r) \/ KeepRoles(r) \/ SetRoles(r) \/ NextList(r) \/ Open(r)
    \/ Assign(r) \/ AssignConflict(r) \/ AssignRefused(r) \/ AssignDone(r)
    \/ Strip(r) \/ StripConflict(r) \/ SendFails(r) \/ StripDone(r)
    \/ DiffAdd(r) \/ DiffRemove(r)
    \/ CheckAffiliation(r) \/ DestroyRoom(r) \/ ReadList(r)
    \/ Sync(r) \/ Invite(r)

\* Every request has been answered: the system may rest.
Drained == (\A r \in Reqs : pc[r] = "done") /\ UNCHANGED vars

Next ==
    \/ \E r \in Reqs : Receive(r) \/ Step(r)
    \/ SetMutex
    \/ Drained

Spec == Init /\ [][Next]_vars

\* A thread that can go on does; requests need not arrive.
FairSpec == Spec /\ \A r \in Reqs : WF_vars(Step(r))

-----------------------------------------------------------------------------
(* Properties. *)

\* Every variable has its type.
TypeOK ==
    /\ registered \in BOOLEAN
    /\ current \in Insts \cup {NoRoom}
    /\ aff \in [Insts -> [Jids -> Affs]]
    /\ conf \in [Insts -> Confs]
    /\ life \in [Insts -> {"unborn", "locked", "open", "destroyed"}]
    /\ published \in [aff : [Jids -> Affs], conf : Confs] \cup {NoRoom}
    /\ useMutex \in MutexSettings
    /\ mutex \in Reqs \cup {Nobody}
    /\ token \in [Reqs -> {"none", "mutex", "private"}]
    /\ req \in [Reqs -> Requests]
    /\ pc \in [Reqs -> Labels]
    /\ room \in [Reqs -> Insts \cup {NoRoom}]
    /\ old \in [Reqs -> Insts \cup {NoRoom}]
    /\ list \in [Reqs -> Lists]
    /\ work \in [Reqs -> SUBSET Jids]
    /\ reset \in [Reqs -> SUBSET Jids]
    /\ added \in [Reqs -> SUBSET Jids]
    /\ invited \in [Reqs -> SUBSET (Jids \X Lists)]
    /\ view \in [Reqs -> [Lists -> SUBSET Jids]]
    /\ result \in [Reqs -> Codes]

\* The labels between lock.lock() and the end of lock.unlock().
Inside == {"enter", "configure", "compare", "assign", "strip", "open", "check",
           "destroy", "sync", "invite", "release"}

\* The mutex of the service is owned exactly while the request that took it is
\* between its lock and its unlock, even when the property is flipped after
\* getLock handed it out: no lock is leaked, none is released by a stranger.
MutexHeldInside ==
    /\ \A r \in Reqs : (pc[r] \in Inside /\ token[r] = "mutex") <=> mutex = r
    /\ \A r \in Reqs : pc[r] \in Inside => token[r] # "none"

\* While the property stays on, at most one request is in a section.
MutualExclusion ==
    \A r, s \in Reqs : pc[r] \in Inside /\ pc[s] \in Inside => r = s

\* While the property stays on, a section changes the room that the name yields,
\* although another request may have destroyed it, or made it anew, since a
\* replace or add looked it up for the first time.
ChangesTheRoomThatIs ==
    \A r \in Reqs :
        \/ pc[r] \in {"configure", "compare", "assign", "strip", "open", "check", "destroy"}
        \/ pc[r] = "sync" /\ req[r].kind # "destroy"
        => room[r] = current

\* A put that is about to report success left the room that the name yields
\* open, with the configuration of the entity and with its four lists, so that
\* the same put again would skip setRoles.  An entity with a group on two
\* lists (which the duplicate check lets through) is left out.
UpdateIsExact ==
    \A r \in Reqs :
        /\ IsPut(r) /\ pc[r] = "release" /\ result[r] = "ok"
        /\ \A l, m \in Lists : l # m => Wanted(r)[l] \cap Wanted(r)[m] = {}
        => /\ current = room[r] /\ life[room[r]] = "open"
           /\ conf[room[r]] = req[r].conf
           /\ EqualToAffiliations(aff[room[r]], Wanted(r))

\* setRoles adds the owners first and strips last, so none of the calls of a put
\* hits the refusal to leave a room without an owner, whatever the lists were.
PutNeverConflicts ==
    \A r \in Reqs : IsPut(r) /\ pc[r] = "release" => result[r] # "409"

\* When a request that changes the room is about to report success, the other
\* cluster nodes see the room as it is.
SuccessIsPublished ==
    \A r \in Reqs :
        req[r].kind # "get" /\ pc[r] = "release" /\ result[r] = "ok"
        => published = IF current = NoRoom THEN NoRoom ELSE Snapshot(current)

\* A successful request that invites has sent every address it put on a list,
\* outcasts apart, one invitation, and it names the list the address is on.
InvitationsMatchLists ==
    \A r \in Reqs :
        req[r].invite /\ pc[r] = "release" /\ result[r] = "ok" /\ (IsPut(r) \/ IsDelta(r))
        => invited[r] = {p \in added[r] \X {"owner", "admin", "member"} :
                             aff[room[r]][p[1]] = p[2]}

\* The room as the other cluster nodes see it changes request by request: each
\* shows its whole outcome in one step, or nothing (ClusterView).
Cluster == INSTANCE ClusterView WITH shown <- published, asked <- req, answer <- result
ShownAtomically == Cluster!Spec

\* Without exclusion two requests may interleave call by call; but each publishes
\* the room after its own last change, so when all have been answered with
\* success and none of them destroyed the room, the other nodes see it as it is.
LastSyncWins ==
    (\A r \in Reqs : pc[r] = "done" /\ result[r] = "ok" /\ req[r].kind # "destroy")
    => published = IF current = NoRoom THEN NoRoom ELSE Snapshot(current)

\* Every request that arrives is answered: no thread waits for a lock that is
\* never released, whichever way the other requests end.
EveryRequestAnswered ==
    \A r \in Reqs : pc[r] # "idle" ~> pc[r] = "done"

-----------------------------------------------------------------------------
(* What comments and documentation say, and the code does not do. *)

\* The Javadoc of replaceAffiliatedUsers: it removes "an affiliation of this type"
\* from users that are not on the new list.  So it strips nobody of another type.
ReplaceStripsOnlyItsType ==
    [][\A r \in Reqs, j \in Jids :
         req[r].kind = "replace" /\ j \in reset[r] /\ j \notin reset'[r] /\ pc[r] = "strip"
         => aff[room[r]][j] \in {req[r].list, "none"}]_vars

\* "A user can only have one type of affiliation with a room": the entity that a
\* get returns shows no address on two lists.
GetShowsOneAffiliation ==
    \A r \in Reqs : req[r].kind = "get" /\ pc[r] = "done" =>
        \A l, m \in Lists : l # m => view[r][l] \cap view[r][m] = {}

\* "Make sure that other cluster nodes see the changes made here": whatever a
\* replace or add has changed is published when it leaves its section.
DeltaIsPublished ==
    \A r \in Reqs :
        IsDelta(r) /\ pc[r] = "release" /\ added[r] # {}
        => published = Snapshot(room[r])

\* The documented answers of POST /chatrooms are 201 "Room created" and 409 "Room
\* already exists": a create that reports success has made the room.
CreateMakesTheRoom ==
    \A r \in Reqs :
        req[r].kind = "create" /\ pc[r] = "release" /\ result[r] = "ok" => room[r] = r
=============================================================================
