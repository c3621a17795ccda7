# Verification of the Openfire REST API plugin

TLA+ models of the plugin under `src/`, checked with TLC on small instances and proved with
TLAPS for every instance.  Line numbers are those of
`src/src/java/org/jivesoftware/openfire/plugin/rest/`; in `controller/`, `C` is
`MUCRoomController.java`, `M` `MUCServiceController.java`, `U` `UserServiceController.java`, `J`
`JustMarriedController.java`, `G` `GroupController.java`, `L` `UserServiceLegacyController.java`,
`SE` `SessionController.java`, `SY` `SystemController.java`; `R` is `RESTServicePlugin.java`.

1. [The system](#1-the-system)
2. [Plan](#2-plan)
3. [The models and the code](#3-the-models-and-the-code)
4. [What the runs check](#4-what-the-runs-check)
5. [Bounds](#5-bounds)
6. [Fairness](#6-fairness)
7. [What is proved](#7-what-is-proved)
8. [What the code does that its documentation does not say](#8-disagreements-with-the-documentation)
9. [What is assumed of Openfire, abstracted, or not modelled](#9-assumptions-abstractions-and-gaps)

## 1. The system

The plugin answers HTTP requests.  Each request runs in a thread of the HTTP server's pool; a
*service* class decodes it and calls a *controller* singleton, which calls the managers of
Openfire in the same JVM.  The plugin has almost no state of its own: what it must get right is
the order of its calls into state that many threads share, what remains when one of the calls
raises an exception, and what a clustered Openfire sees meanwhile.  All that the plugin persists
are its settings, so a stop of the server matters there; elsewhere a request that is cut off is
one that failed half way.

| component | state it works on | operations | interacts with |
|---|---|---|---|
| Chat rooms (`MUCRoomController`, `MUCRoomService`, `MUCRoomAffiliationsService`) | rooms of a service: settings, four affiliation lists, locked/open/destroyed; the room mutexes; what `syncChatRoom` has shown the other cluster nodes | create, update, replace/add/remove affiliations, destroy, get, search, bulk create, invite | chat services, Openfire's `MultiUserChatService`, the cluster |
| Chat services (`MUCServiceController`) | the registered services | list, create, look up | created implicitly by createRoom |
| Users (`UserServiceController`) | users, their properties, lockout, sessions, rosters, groups, vCards | create, update, delete, lock, unlock, roster and group calls, search by property | rename, groups, sessions |
| Renaming (`JustMarriedController`) | two users, the rosters of all contacts, groups, vCards | one: copy everything to a new user, then delete the old one | called by `updateUser` |
| Groups (`GroupController`) | groups: description, members, admins, sharing | create, update, delete | created implicitly by user calls |
| System properties (`SystemController`) | `JiveGlobals` properties; readiness and liveness probes | get, create, update, delete | the plugin's own settings are such properties |
| Plugin configuration (`RESTServicePlugin`, `rest-api.jsp`, `JerseyWrapper`) | cached settings, the registered authentication filter | load, save from the settings page, hear of property events, reload | system properties; every request passes the filter |
| Authentication (`AuthFilter`) | none; reads the cached settings | one decision per request | plugin configuration |
| Statistics (`StatisticsFilter`) | one counter per family of answers | count (`merge`), sample and reset (`replace`) | all requests |
| Legacy user service (`UserServiceLegacyController`) | as users and groups | variants of the user operations | users, groups, rosters |
| Sessions (`SessionController`) | open sessions | list, close all of a user | lockout, logins |
| Messages, archive, audit log, clustering, entities, plumbing | none | queries, one call each, conversions | Openfire |

What is hard, by component, and what correctness means there (the list at line level is
`hazards` in `PROJECT.json`):

- **Chat rooms.**  *Concurrency:* all requests share one instance of a room; sections are
  guarded by the room mutex only while `plugin.restapi.muc.room-mutex.enabled` is set (C:68,
  116), and that property may change while a request holds a lock.  `replaceAffiliatedUsers`
  and `addAffiliatedUsers` read the old list in one section and change the room in another;
  `getChatRoom` converts the room after it released the lock.  *Order:* `setRoles` must add
  owners first and strip last, must not strip what it has just assigned, and `syncChatRoom`
  must come after the last change.  *Failure:* many calls can raise an exception in the middle
  of a section.  *Correct means:* sections exclude each other while the mutex is on, no lock is
  leaked whatever is raised or reconfigured; a successful put leaves exactly the lists of its
  entity; no put fails over the last owner; other nodes see the whole outcome of a request or
  nothing; every request is answered.
- **Chat services and batches.**  Check-then-create without a lock (C:425); a batch goes on after
  some exceptions and ends with others (C:320-337).  Correct: two requests that both find the
  service missing do no harm beyond one conflict; what a batch reports is so; a room that fails
  spoils no other.
- **Renaming.**  A dozen calls on the state of several users, no lock and no transaction: any
  exception leaves both users, and everything may change in between.  Correct: the old account
  goes only after everything of it was carried over, and the contacts know the new name.
- **Users and groups.**  Lock-out against login; properties cleared before they are put again
  (U:569-578); groups got or created without a lock (U:444, L:191); iterations over collections
  that others change (G:195-229); calls that stop at the first missing group (U:497).  Correct: a
  refused request has joined no group and an answered one all; after overlapping updates of a group
  a user on whom they agree is as they agree, and nobody is left whom none of them names; a disabled
  user has no session of before.
- **Configuration.**  Every setting lives in a field and in a property; the setters write the two
  in different orders (R:154-237), a REST call on the property reaches the field by an event, and
  a stop may come anywhere.  Correct: when nobody writes, the two agree, and the filter that
  requests pass is the one configured.
- **Statistics.**  `merge` and `replace` are single atomic operations of a `ConcurrentHashMap`:
  nothing can come between.

## 2. Plan

Most important behaviour first: the concurrent life of a chat room, since it is the largest
controller, the only one with locks, and the only one that publishes to a cluster.

| step | modules | what for | state |
|---|---|---|---|
| 1 | `Affiliations`, `RoomRequests`, `MCRoom` | the room and its concurrent requests | done |
| 2 | `ClusterView` | abstract: a request shows its whole outcome or nothing; implemented by `RoomRequests` | done |
| 3 | `RoomRequests_proofs`, `RoomRequests_refinement`, `RoomRequests_outcomes` | types, locks, exclusion, exactness of puts, publication, refinement; the last publication without exclusion, the invitations | done |
| 4 | `BulkRooms`, `MCBulk` | batches of rooms and their reports (C:316-339), `createChatService`, the race for the service | done |
| 5 | `UserRename`, `MCRename` | `changeName` and `addProperties` call by call among other requests and edits | done |
| 6 | `UserAccounts`, `MCAccounts` | lockout and sessions, groups and their users; the legacy variants as actions on the same state | done |
| 7 | `PluginSettings`, `MCSettings` | cached and stored settings, the settings page, property events, reload and stop | done |
| 8 | `BulkRooms_proofs`, `UserRename_proofs`, `UserAccounts_proofs`, `UserAccounts_updates`, `PluginSettings_proofs` | reports of batches; renames; refused and answered requests on groups, moved users, closed sessions; overlapping updates of a group; cached and stored settings, the filter | done |
| 9 | `EveryRequestAnswered`, `EveryBatchEnds` | liveness: out of the prover's reach, stays with TLC | checked |

Each module of steps 4 to 7 is about one controller's shared state and stands alone: they meet in
Openfire only where one calls the other, and there the callee's step is in the caller's module
(`createGroup` in `addUserToGroups`, `changeName` in `updateUser`, `createMultiUserChatService` in
`createRoom`).  Everything that is to be proved about is written without RECURSIVE operators and
with its parameters as constants under named assumptions.

## 3. The models and the code

`Affiliations` holds the data of a room: a function from addresses to the one list each is on,
the calls of `MUCRoom` that change it (external), and what the plugin computes from an entity:
the default owner (C:401), the duplicate check (C:412), `equalToAffiliations` (C:518), the order
of the lists in `setRoles` (C:1000) and in the invitations (C:802).

`RoomRequests` is any number of requests on one room name.  Every request has a program counter
that walks through its method; one action is one call on shared state.

| state | stands for |
|---|---|
| `registered`, `current`, `aff`, `conf`, `life` | the service, the instance its name yields, and what each instance holds; a destroyed room's instance lives on in the threads that have it |
| `published` | the room as other cluster nodes know it: what `syncChatRoom` last showed |
| `useMutex`, `mutex`, `token` | the dynamic property, the owner of the service's room mutex, and the lock `getLock` gave a request |
| `req`, `pc`, `room`, `old`, `list`, `work`, `reset`, `added`, `invited`, `view`, `result` | each thread's request and local variables |

| operation | actions in order |
|---|---|
| create, update (C:286, 355, 397-516) | `Receive` or `RejectDuplicates`, `CheckService`, `CreateService` or `LoseServiceRace`, `GetLock`, `Lock`, `OpenExisting` / `OpenNew` / `RefuseNew`, `Configure`, `KeepRoles` or `SetRoles`, (`Assign`, `NextList`)*, `Strip`*, `Open`, `Sync`, `Invite`*, `Release` |
| replace, add (C:1158-1330) | `GetLock`, `Lock`, `FindRoom`, `Release`; `DiffAdd`, `DiffRemove` outside any lock; `GetLock`, `Lock`, `FindRoom`, `Assign`*, `Strip`*, `Sync`, `Invite`, `Release` |
| remove (C:1339-1372) | `GetLock`, `Lock`, `FindRoom`, `CheckAffiliation`, `Strip`, `Sync`, `Release` |
| destroy (C:259-276) | `GetLock`, `Lock`, `FindRoom`, `DestroyRoom`, `Sync`, `Release` |
| get (C:230-246, 922-979) | `GetLock`, `Lock`, `FindRoom`, `Release`, `ReadList` four times without the lock |

The failing exits are actions of their own (`NoService`, `NoSuchRoom`, `RefuseNew`,
`AssignConflict`, `AssignRefused`, `StripConflict`, `SendFails`, and the branches of `Configure` and
`CheckAffiliation`): each sets the outcome and goes to `Release`, which is the `finally` block.
`Release` gives back the lock that was taken, whatever the property says by then.  `SetMutex` is
an administrator who flips the property.

`ClusterView` is the abstract specification: `shown`, what is asked and what is answered.
`Succeed` shows a whole outcome in one step, `Fail` shows nothing.  `RoomRequests` instantiates
it with `shown <- published, asked <- req, answer <- result`; `ShownAtomically` is the claim that
it implements it.

`BulkRooms` has any number of requests on one service: batches, `createChatService` and destroys.
Its state is `registered`, `rooms` (per name: none, locked because its section failed, or open),
and per request the position in its batch (`at`) and the results so far (`report`).

| operation | actions in order |
|---|---|
| bulk (C:316-339) | per room: `RejectDuplicates` or `BreakOffUnparsable`, or `CheckService`, (`CreateService` or `ServiceExists`), then `MakeRoom`, `RefuseRoom`, `FailInside` or `BreakOffInside`; at last `EndOfBatch` |
| service (M:109-151) | `CreateService` or `ServiceExists` |
| destroy (C:259-276) | `DestroyRoom` |

A section of `createRoom` is one step there: `RoomRequests` has it call by call, and `MutexExcludes`
says that sections exclude each other.  So `BulkRooms` is about a server whose mutex property stays
on.  `ServiceExists` is what line 327 catches: the exception of
`createMultiUserChatService`, the only one of that class.

`UserRename` has any number of renames, deletions and creations, and edits by others, on
`accounts`, `roster` (a kind of item per user and contact), `members`, `admins`, `props`,
`vcards`, `locked` and `online`.  `found` and `removed` are history: what a rename has to carry
over when it starts, and what others took away.

| operation | actions in order |
|---|---|
| rename (U:156-168, J:65-156) | `FindOld` or `NoPassword`, `CreateUser` or `NameTaken`; per item of the live roster `CopyItem`, `SettleItem`, and for the contact's roster `LookForOther`, `FetchOther` (or `SkipOther`), `TellOther`, `SettleOther`; `ItemsDone`, `CopyProperty`*, `PropertiesCopied`, `CopyToGroup`*, `GroupsDone`, `CopyVCard`; `DeleteOld`, `EnableOld`, `KickOld`; `CheckNew`, `ClearProperties`, `PutProperty`*, `PropertiesDone` |
| failing exits of it | `NoPassword` (500), `ItemThere` and `OtherHasNew` (409), `ItemRefused` and `VCardFails` (400), and the 404s of `FindOld`, `SettleItem`, `OtherLacksOld`, `SettleOther`, `CheckNew` |
| create (U:125-144), delete (U:192-198) | `CreateUser`, `CheckNew`, ...; `FindUser`, `DeleteUser`, `DeleteRoster` |
| others | `AddItem`, `DropItem`, `Leave`: one edit of a roster or a group |

The loop over a live roster may or may not meet an item that is added behind it, or taken away and
added again; `due` holds those that have been there all the while, which it meets, and `KeepDue`
keeps it so whoever takes a step.

`UserAccounts` has any number of requests on `accounts`, `locked`, `sessions`, `groups` and `role`
(the one role of a user in a group).

| operation | actions in order |
|---|---|
| create, update, delete a group (G:104-262) | `RejectName`; `FindGroup`; `RejectLists` or `AcceptLists`; `MakeGroup` (or `RefuseName`), `AddFresh`*; or `IterateMembers`, `MeetOld`*, `OldDone`, `AddFresh`*, `MembersDone`, the same for the admins, `AdminsDone`; `RemoveGroup` |
| add to groups (U:444-485), legacy create and update (L:91-121, 170-219) | (`CreateUser`, `FindMade`, or `CheckUser`); per name `FetchGroup`, or `MissGroup` and `SupplyGroup`; `Fetched`, `AddToGroup`*, `AddsDone`, `DropGroup`*, `DropsDone` |
| remove from groups (U:497-532) | per name `DropFind`, `DropOne`; `DropEachDone` |
| disable, enable (U:250-276, L:143-157), close sessions (SE:90-96) | `CheckUser`, `Lock`, `Recheck`, `ListSessions`, `CloseSession`*, `SessionsClosed`; `Unlock` |
| login (Openfire) | `Authenticate`, `BindSession` |

An iterator over a group's users (`MeetOld`) returns everyone who is in the role from its start to
its end (`staying`, kept by `KeepStaying`), once, and may or may not return those who came or went
meanwhile.

`PluginSettings` has six settings, each in `store` and in `field`, the registered `filter`, and a
`loader` that walks through `initializePlugin` and `JerseyWrapper`.  `refusing` is the static
`loadingStatusMessage` of `JerseyWrapper` (49): whoever looks for a filter class leaves its message
there, and a save reads what is there by then (`CheckClass`, then `OpenPage` or `RefuseClass`).  A
blank field of the page arrives as null, and storing null deletes the property (`Deletes`).

| operation | actions in order |
|---|---|
| load (R:71-104, `JerseyWrapper` 71-97) | `LoadSetting`*, `GenerateSecret`, `KeepLogging`, `Listen`, `PickFilter` |
| save (`rest-api.jsp` 59-89) | `CheckClass` if the filter is to be a custom one, `OpenPage` or `RefuseClass`; per setting `FieldBefore`, `Store`, `Hear` or `Store`, `Hear`, `SetFieldAfter`; `Reload` |
| property calls (SY:114-152) | `ReceiveProperty` or `RefuseProperty`, `Store`, `Hear` |
| stop | `Stop`: every thread ends where it is, the store stays, the plugin is loaded again |

`MCRoom`, `MCBulk`, `MCRename`, `MCAccounts` and `MCSettings` give TLC its users, requests and
initial states.  Definitions introduced by
"Faulty variant of ..." are not part of any specification; each is a plausible bug (a fresh lock
per request, an unlock of what `getLock` would give out now, stripping before adding, a missing
`finally`, a missing or an early `syncChatRoom`, a result added in the wrong place, a role that is
forgotten, an order of two loops reversed) that the property it is paired with in
`PROJECT.json` must notice.

## 4. What the runs check

| run | specification | checks | shows |
|---|---|---|---|
| `RoomMutex` | the property stays on | `TypeOK`, `MutualExclusion`, `UpdateIsExact`, `PutNeverConflicts`, `SuccessIsPublished`, `InvitationsMatchLists`, `ChangesTheRoomThatIs`; `ShownAtomically`; `EveryRequestAnswered` | any two of 16 requests: sections run alone, puts are exact and never meet the last-owner conflict, invitations name the right list, no section changes a room that was destroyed since the request looked it up, the cluster sees whole outcomes, everyone is answered |
| `RoomToggle` | the property is flipped at any time | `MutexHeldInside`, `LastSyncWins`, `EveryRequestAnswered` | sections overlap, and still no lock is leaked or released by another request (one of the puts fails halfway), and once every request has succeeded (none of them a destroy) the cluster sees the room as it is |
| `BulkReport` | fair threads | `TypeOK`, `CreatedRoomsAreOpen`, `FailuresAreOwn`, `LostRaceOnce`; `EveryBatchEnds` | three requests, four batches among six kinds: reports are true and complete, one bad room spoils no other, a race for the service is lost once at most |
| `RenameCopies` | any interleaving | `TypeOK`, `NothingLeftBehind`, `ContactsFollow`, `PropertiesAreReplaced` | a rename against another, a deletion or a creation with an edit: no contact, group or vCard is lost, the contacts follow, the properties are the new ones, or, where another request creates the name again, only those that one of the two brought |
| `Accounts` | any interleaving | `TypeOK`, `UpdatesMeetInBetween`, `RefusedJoinsNothing`, `AnsweredMeansJoined`, `MovedUserKeepsAGroup`, `DisabledMeansOffline` | after overlapping group updates a user on whom all agree is as they agree, and nobody stays whom none names; refused requests join nothing, answered ones everything; disabling closes all sessions of before |
| `Settings` | any interleaving, one stop | `TypeOK`, `QuietSettingsAgree`, `FilterIsTheStoredOne` | fields agree with what is stored, through events, blank fields, reloads and a stop; the registered filter is the stored one, even where a missing class passed the page |
| `BulkExisted`, `GroupSupply` | as above | one property each | section 8 |
| `RoomReplaceType`, `RoomTornGet`, `RoomUnpublished`, `RoomCreateExisting` | the property stays on | one property each | section 8 |

`InvitationsMatchLists` and `UpdateIsExact` speak of the moment at which a request has its
outcome and still holds its lock; after the lock is released another request may change the
room.  `UpdateIsExact` leaves out entities with a group on two lists: the duplicate check does
not look at group lists (C:412-422), and `setRoles` then lets the later list win.  The initial
requests of `RoomMutex` include such an entity, so that everything else is checked with it.

Conditions that properties carry are part of what they say: `ContactsFollow` speaks of a rename
that meets no other rename, since two renames of people who know each other can each tell the
other's old name; `UpdatesMeetInBetween` names only users on whose role all the updates agree,
since two updates that put a user into different roles can leave that user with none, and none that
another request deletes or moves to other groups meanwhile (`Apart`), since those calls take the
user out of groups they do not name: without this condition TLC finds it violated on `Accounts`;
`DisabledMeansOffline` speaks of the
sessions of before: a login that was let in before the lockout may bind after it and stay;
`MovedUserKeepsAGroup` needs that no other request is about the same user, since two overlapping
moves can leave the user in no group, and speaks of a user that had a group or has got one;
`QuietSettingsAgree` leaves out a setting of which two writes overlapped, since they reach the
field and the store in different orders, one that was written while the plugin was being loaded, and
the logging, for which there is no event (R:242-253): in the first two cases field and store may
differ until the next write, which the model shows and the code does not prevent;
`FilterIsTheStoredOne` leaves out overlapping saves and REST calls on the two settings of the
filter, which do not reload.

Deadlock is checked in all runs; `Drained` is the rest after the last answer.

## 5. Bounds

- Two concurrent requests.  Every property relates one request to the shared state or to one
  other; all interference that a request can suffer between two of its steps can come from one
  other request, which may itself finish all of its steps there.  The theorems of section 7 hold
  for any number.
- Sixteen requests (`MCRequests`): every kind; puts that swap roles, name no owner, name a user
  twice, a group twice, a role that is none; a replace for each list; additions, removals that
  match the room and that do not.  `RoomToggle` has seven such requests, one with a role that is none
  among them, and two rooms, because sections that overlap call by call have many more states.
- Three users, one of whom is the default owner, and one group: enough for one user who keeps an
  affiliation, one who moves, one who loses it.
- Initial rooms: none (with and without a service), one owner and an admin, two owners with a
  member and an outcast: the last owner conflict is met with one owner and passed with two.
- Two configurations, so that an unset one is seen.
- `BulkReport`: three requests, because a room can be made, left half made and destroyed by
  three; two rooms, so that a batch has a bad one and a good one and may name one twice.
- `RenameCopies`: one rename with a contact of each kind (own, through a shared group, one who
  has the user and one who has not), a group in either role, a vCard and a property, met by two
  more requests; in one family these delete the new account and create it again with other
  properties.  Six contacts, five of them local.
- `Accounts`: three requests in four families (three updates of one group; two of them with a
  request that takes a user out of its groups; lists of groups with a request on a group; lockouts):
  updates and lists meet only through what a deletion or a move takes away and through groups that
  come and go, and both are among them.  Three groups: one left, one joined, one that is missing.
- `Settings`: three requests in three families (a save, one of them with a blank secret, with another
  and a deletion; a save with REST calls on the way to authenticate; a save of a class that is there
  with one of a class that is missing), a first start and a server with a custom filter,
  `MaxStops = 1`: what a stop leaves is an initial state of the next start but for the store, and
  the store is one that some interleaving of writes leaves.
- Nothing else is counted, so there is no cap on any other counter; a request runs once.

Symmetry is not used: the users play different roles and liveness is checked.

## 6. Fairness

`FairSpec` (of `RoomRequests` and `BulkRooms`) has weak fairness of `Step(r)` for every request: a
thread of the JVM that can take its next step does so at some time. Nothing more is assumed:
requests need not arrive (`Receive` is not fair), the administrator need not flip the property, and
the lock is a `ReentrantLock` without a fair queue. Weak fairness suffices for a thread waiting in
`Lock` because each request takes the lock at most twice, so that it is free for good at some time.
The other modules check safety alone and assume no fairness.

## 7. What is proved

TLAPS checks every leaf; the constants are arbitrary under the assumptions their modules state
(`JidAssumption`, `RequestAssumption`, `BulkAssumption`, `RenameAssumption`, `AccountsAssumption`,
`SettingsAssumption`): any finite or infinite sets of users and requests, any number of threads.
Every safety property of section 4 is a theorem.  TLC confirms the inductive invariants, too, on
the instances of section 5 (each with the MC module extending the proof module).

Rooms (`RoomRequests_proofs`, `RoomRequests_refinement`, `RoomRequests_outcomes`):

| theorem | assumption | statement |
|---|---|---|
| `TypeSafety` | none | `Spec => []TypeOK` |
| `MutexIsHeldInside` | none | `Spec => []MutexHeldInside`, the property flipped at will |
| `MutexExcludes` | `MutexSettings = {TRUE}` | `Spec => []MutualExclusion` |
| `PutIsExact` | `MutexSettings = {TRUE}` | `Spec => []UpdateIsExact` |
| `PutMeetsNoConflict` | `MutexSettings = {TRUE}` | `Spec => []PutNeverConflicts` |
| `ChangesAreMadeWhereTheyCount` | `MutexSettings = {TRUE}` | `Spec => []ChangesTheRoomThatIs` |
| `SuccessIsSeen` | `MutexSettings = {TRUE}` | `Spec => []SuccessIsPublished` |
| `ShowsAtomically` | `MutexSettings = {TRUE}` | `Spec => ShownAtomically`, the refinement of `ClusterView` |
| `LastSyncShowsAll` | none | `Spec => []LastSyncWins`, the property flipped at will |
| `InvitationsAreRight` | `MutexSettings = {TRUE}` | `Spec => []InvitationsMatchLists` |

The argument.  `TypeOK` is strengthened by `RoomKnown` (a thread that is about to use its local
variable for the room has set it) to `TypeInv`.  `LockInv` adds to `MutexHeldInside` that a
request has a token exactly from `GetLock` to `Release`; it is inductive because only `Lock`
enters a section and only `Release` leaves it, and both change `mutex` by `token`, never by
`useMutex`.  With the property always on, every token is "mutex" (`AllMutex`), and exclusion
follows.  A put is
exact because between its `SetRoles` and its `Strip`s nobody else changes the room: the
invariant `IInv` (`TypeInv`, `LockInv`, `AllMutex` and `RoomInv`, which has one `PutInv` per
request) says at each stage of `setRoles` which lists are *settled* (none of their addresses
is to be reset, and every other address that has an affiliation is) and *placed* (each of their
addresses is on its list); when all four are and `reset` is empty, the lists are the entity's.
No put conflicts because from the end of the owner list on the users it names as owners stay
owners (`OwnersKept`), entities with a group on two lists included.
For the refinement, `ViewInv` adds that every instance that was made has an owner, that a
request inside its section works on the instance the name yields, and that a request past its
`Sync` has published the room as it is: `Sync` (and the last `ReadList` of a get) is `Succeed`,
every failing exit is `Fail`, and all other steps are stutters.  Neither invariant follows from the
properties alone; the properties speak of the end of a section, the invariants of every point in
it.
`LastSyncShowsAll` cannot use exclusion.  `SyncInv` says, as long as nobody has failed and nobody
is to destroy the room, that all threads work on one instance and that the other nodes have been
shown it as it is or some request still owes a publication (`Owing`, the labels from the first
change to `Sync`).  Which request that is may change with every step of overlapping sections; that
there is one does not.  A request that ends early breaks it (section 8, `RoomUnpublished`), which is
why its outcome has to be known to be open until it leaves (`Unanswered`).
For `InvitationsAreRight`, `InvitesInv` follows the loop of a put list by list: what has been sent
is what is due for the lists before the one it is at (`Due`), and what is due is fixed, since nobody
changes the room from `Sync` to `Release`; a replace or add has on its one list all it has put
there.

Batches (`BulkRooms_proofs`):

| theorem | statement |
|---|---|
| `TypeSafety` | `Spec => []TypeOK` |
| `CreatedAreOpen` | `Spec => []CreatedRoomsAreOpen` |
| `FailuresStayOwn` | `Spec => []FailuresAreOwn` |
| `RaceIsLostOnce` | `Spec => []LostRaceOnce` |

The invariant is the three properties with two additions.  `PlaceInv` ties the label and the
position of a thread to its request (only a batch is in the loop; it is in a section only when
the service is there), without which a step could not be said to report the room it is about.
`RaceInv` says that a batch with an `existed` in its report sees the service registered and is
never again at its creation: nothing unregisters a service, so `CheckService` goes to the section
from then on, and the set of positions with `existed` has at most one member.  That a created room
stays open is no matter of the batch alone: the steps of all others leave open rooms open, those
that fail half-way included (`LeaveHalfMade` touches only rooms that are not there), and the one
that does not is a destroy that answers "ok".

Renaming (`UserRename_proofs`):

| theorem | statement |
|---|---|
| `TypeSafety` | `Spec => []TypeOK` |
| `RenameIsComplete` | `Spec => []NothingLeftBehind` |
| `ContactsLearn` | `Spec => []ContactsFollow` |
| `NothingElseIsPut` | `Spec => []PropertiesAreReplaced` |

All three properties speak of the end of a loop over something live, so the invariants speak of
its middle.  `CarryInv`: each thing found at the start is with the new account, or somebody took it
from one of the two, or the old account has had it ever since and the loop has not met it.  The last
case must say so (`due`; `DueInv` ties it to the roster), since an iterator over a live collection
meets for sure only what stays there; the case "somebody took it" rests on `LossIsNoted`, which
`StepStore` proves of every step of every request: whatever a roster, a group or an account loses is in `removed`.
`BackInv` says the same of the contacts' rosters, for a rename that is the only one: a contact that
knew the old name is still there and has it as an item of its own, and has the new name too, or is
still to be met or told.  `PutInv` says that the properties under the new name are those of the
request but for the ones still to be put; and, where others create the same name as well, that none
is there which neither they nor the request brought.

Users and groups (`UserAccounts_proofs`, `UserAccounts_updates`):

| theorem | statement |
|---|---|
| `TypeSafety` | `Spec => []TypeOK` |
| `RefusalIsClean` | `Spec => []RefusedJoinsNothing` |
| `AnswerIsTrue` | `Spec => []AnsweredMeansJoined` |
| `MoveIsSeamless` | `Spec => []MovedUserKeepsAGroup` |
| `DisabledIsOffline` | `Spec => []DisabledMeansOffline` |
| `UpdatesAgree` | `Spec => []UpdatesMeetInBetween` |

None is inductive.  `JoinInv` follows a list of groups through its request: those fetched so far
are there or somebody removed them (`Kept`), and once all are, each is still to be added to or has
the user, or somebody took the user out (`Has`); no group is joined before.  It rests on one
fact about all steps of all requests, `LossIsNoted`: who loses a role, or a group that goes, is in
the history `removed`.  `MoveInv` adds, for a legacy update whose user nobody else is about, that
nobody is taken out before the adds are over, and that the groups still to be left and those
already joined have the user.  `CloseInv` says that the sessions open at the lock were made by
logins that are over (so a login that binds late makes another), that the user is locked at the
recheck unless it was enabled, and that those of the sessions that are still open are listed while
the loop closes them.

`UpdatesAgree` is about the loops of any number of updates over the same two live collections.
`UpdateInv` looks at one user and one group at a time, and at what all updates that have begun so
far agree on for that user: member, admin or nobody.  For each of those updates `Track` says, label
by label, how far it has brought the user (`AsMember`, `AsAdmin`, `AsNobody`): the user has the role
or is still in `fresh`, and one who is to be gone is gone or still to be met by an iterator.  An
update that begins may end the agreement, and then nothing is claimed; one that shares it can only
bring the user to the role that is agreed on (`RoleEffect`: what a step of any request does to one
user's role).  `GroupInv` adds that the group is there all the while.

Settings (`PluginSettings_proofs`):

| theorem | statement |
|---|---|
| `TypeSafety` | `Spec => []TypeOK` |
| `QuietAgree` | `Spec => []QuietSettingsAgree` |
| `FilterIsStored` | `Spec => []FilterIsTheStoredOne` |

`LoadedAt` says which settings a plugin that is being loaded has read already.  `AgreeInv` carries
the agreement of field and property through loading, for those settings, and adds that an
undisturbed setting has one writer at most, and that only with the plugin up; so what that writer
has done so far (`Written`: the property is stored; then the field is set, by the event or by the
setter) cannot be undone by another, and the event is heard.  A reload that comes while a setting is
being written disturbs it; a stop ends all writers.  `FilterInv` holds where only the page writes
the settings of the filter and saves do not overlap: a save that is not going to reload started
with no custom way to authenticate stored, and stores none (`PlainSave`), so the filter it started
with stays right at each of its steps; one that is going to reload ends in a loading, during which
nobody saves.  For the decision to reload to be right the cached way to authenticate must be
"custom" if the stored one is, which is the last conjunct.

Only model-checked: `EveryRequestAnswered` of `RoomRequests` and `EveryBatchEnds` of `BulkRooms`,
which are liveness under fairness, and the counterexamples of section 8.

## 8. Disagreements with the documentation

Found while the models were written; each has a run in which TLC finds the behaviour.

1. `RoomReplaceType`: the Javadoc of `replaceAffiliatedUsers` says it removes an affiliation "of
   this type" from users not in the replacement list (C:1143).  The list is fetched in an earlier
   section; a user who got another affiliation in between loses that one (C:1215).
2. `RoomTornGet`: "a user can only have one type of affiliation with a room"
   (`service/MUCRoomAffiliationsService.java` 98), but the entity of a get is read list by list
   after the lock was released (C:246) and may name a user on two of them.
3. `RoomUnpublished`: "Make sure that other cluster nodes see the changes made here" (C:1223,
   1310), but a replace or add that fails in the middle skips `syncChatRoom` and keeps its changes.
4. `RoomCreateExisting`: POST is documented to answer 201 "Room created." or 409 "Room already
   exists" (`service/MUCRoomService.java` 107-111); a create of an existing room overwrites it
   and answers 201.

5. `BulkExisted`: the message "Room already existed and therefore not created again" (C:330, and
   `entity/RoomCreationResultEntity.java` 60) comes with success, but the exception behind it is
   that of the service (C:428): a batch that loses the race for it reports a room that is not
   there.
6. `GroupSupply`: "When a group that is provided does not exist, it will be automatically created
   if possible" (`service/UserGroupService.java` 62, 80).  `createGroup` gets a description without
   lists (U:456, 481, `entity/GroupEntity.java` 67-70) and fails on the first (G:112): it is never
   possible.

## 9. Assumptions, abstractions and gaps

Assumed of Openfire, which is not part of this repository, from how the plugin uses it: an
address has one affiliation in a room and a new one replaces the old; taking its affiliation
from the last owner raises ConflictException (the comment in C:1188 relies on it), any other
affiliation may be taken; `addOutcast` may be refused; making a room may be refused;
`getChatRoom` makes a locked room owned by the given user when there is none; all threads of a
node get the same instance; `syncChatRoom` shows the instance to the other nodes, or its
absence when it was destroyed; the lock of `getChatRoomLock` is one lock per room name.

Abstracted: the text of addresses, names and error messages; parsing and its 400 answers, which
precede everything modelled; repeated entries within one list of an entity; the order of the
addresses within a list (any order, at every step); settings of a room as one value; save to
the database, dates and subject, which are part of `Open`; presences sent to occupants;
affiliation through a group; exceptions raised by sending invitations.  The list that
`getByAffiliation` returns after it released the lock is a live view of the room: the plugin makes
no copy of it, and reads it twice (C:1175, 1178).

Of users, groups and settings: a call of a manager is atomic; a user has one role in a group, and a
new one replaces the old; `getRosterItems` and the collections of a group are live; a write to a
group that was deleted is lost; with an account Openfire may or may not drop its roster, its
memberships and its vCard at once; a roster item that is there only through a shared group is not
the user's own (`isOnlyShared`); a login looks at the lockout before it makes its session;
`setProperty` writes the property and then calls the listeners in the same thread; reloads take
turns.  Where the code cannot tell, both outcomes are in the model.

Abstracted there: passwords, names, mail addresses, nicknames, the states of a roster item, the
description and sharing of a group (but for the exception when it is missing), the values of user
properties; the order in which the sessions of a renamed user are closed; the answer to an
administrator whose page lives on while its plugin is replaced, who writes the store and the old
instance's fields.

Not modelled: the invite endpoint (C:705-740), which changes no room; the roster calls
(U:319-402, L:234-326) as requests of their own: each is one item, and what they do to a rename is
modelled; an update of a user without a new name, one call per field; vCards but for the rename;
authentication of a request, which reads each setting once and changes nothing; statistics, two
atomic operations; read-only queries (sessions, archive, audit log, clustering, statistics, search
by property), message broadcast, entities, HTTP plumbing and conversions, which keep no state and
take no step between which another could come.
