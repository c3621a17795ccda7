----------------------------- MODULE UserRename -----------------------------
(***************************************************************************)
(* Renaming users: PUT /users/{username} with another name in its entity   *)
(* (UserServiceController.updateUser, JustMarriedController.changeName).   *)
(* The new account is created, everything is copied to it call by call,    *)
(* the contacts' rosters learn the new name, the old account is deleted,   *)
(* and the properties are set.  No lock is held: other renames, deletes,   *)
(* creations, and edits of rosters and groups run in between, and almost   *)
(* every call may end the rename with what was done before it in place.    *)
(***************************************************************************)
EXTENDS FiniteSets

CONSTANTS
    Names,     \* user names
    Remotes,   \* contacts on other servers
    Groups,    \* groups of users
    Props,     \* keys of user properties
    Reqs,      \* identities of the requests (one thread each)
    Requests,  \* what their clients may ask for together
    World      \* the users at first: [accounts, roster, members, admins,
               \*                      props, vcards, locked, online]

Contacts == Names \cup Remotes
\* A roster item is the user's own, or only there because of a shared group.
ItemKinds == {"none", "own", "shared"}
Kinds == {"rename", "delete", "create", "addItem", "dropItem", "leave"}
Codes == {"none", "ok", "400", "404", "409", "500"}
Labels == {"idle", "lookup", "create", "items", "settle", "others", "fetch",
           "tell", "backlink", "props", "groups", "vcard", "find", "delete",
           "enable", "kick", "check", "clear", "put", "roster", "done"}

RequestType ==
    [kind : Kinds, name : Names, to : Names, contact : Contacts,
     group : Groups, props : SUBSET Props]

ASSUME RenameAssumption ==
    /\ Requests \subseteq [Reqs -> RequestType]
    /\ \A f \in Requests, r \in Reqs : f[r].kind = "rename" => f[r].name # f[r].to
    /\ Groups \cap Contacts = {} /\ Names \cap Remotes = {}
    /\ World.accounts \subseteq Names
    /\ World.roster \in [Names -> [Contacts -> ItemKinds]]
    /\ World.members \in [Groups -> SUBSET Names]
    /\ World.admins \in [Groups -> SUBSET Names]
    /\ World.props \in [Names -> SUBSET Props]
    /\ World.vcards \subseteq Names /\ World.locked \subseteq Names
    /\ World.online \subseteq Names

VARIABLES
    \* Openfire
    accounts,  \* names of the users there are
    roster,    \* the roster of each user: a kind of item per contact
    members,   \* of each group
    admins,
    props,     \* keys of the properties of each user
    vcards,    \* users with a vCard
    locked,    \* users that are locked out
    online,    \* users with sessions
    \* the threads
    req,       \* what each request asks for
    pc,        \* where its thread is
    item,      \* rename: the roster item it is copying
    seen,      \* rename: the items and groups its loops have visited
    due,       \* rename: items on the old roster ever since its loop began
    toPut,     \* properties still to be copied or set
    answer,    \* what the client was told
    \* history, for the properties only
    found,     \* rename: what it has to carry over when it creates the new account
    removed    \* <<user, contact or group>>: removed by another request;
               \* <<user, user>>: all that the user's account had is gone

server == <<accounts, roster, members, admins, props, vcards, locked, online>>
locals == <<item, seen, toPut>>
history == <<found, removed>>
vars == <<server, req, pc, locals, due, answer, history>>

On(n) == {c \in Contacts : roster[n][c] # "none"}
GroupsOf(n) == {g \in Groups : n \in members[g] \cup admins[g]}

Goto(r, l) == pc' = [pc EXCEPT ![r] = l]

Finish(r, code) ==
    /\ answer' = [answer EXCEPT ![r] = code]
    /\ Goto(r, "done")

\* An exception ends the request; what it has done stays done.
Fail(r, code) ==
    /\ Finish(r, code)
    /\ UNCHANGED <<server, req, locals, history>>

Nothing == [items |-> {}, back |-> {}, groups |-> {}, vcard |-> FALSE]

Init ==
    /\ accounts = World.accounts /\ roster = World.roster
    /\ members = World.members /\ admins = World.admins
    /\ props = World.props /\ vcards = World.vcards
    /\ locked = World.locked /\ online = World.online
    /\ req \in Requests
    /\ pc = [r \in Reqs |-> "idle"]
    /\ item = [r \in Reqs |-> CHOOSE c \in Contacts : TRUE]
    /\ seen = [r \in Reqs |-> {}]
    /\ due = [r \in Reqs |-> {}]
    /\ toPut = [r \in Reqs |-> {}]
    /\ answer = [r \in Reqs |-> "none"]
    /\ found = [r \in Reqs |-> Nothing]
    /\ removed = {}

Receive(r) ==
    /\ pc[r] = "idle"
    /\ Goto(r, CASE req[r].kind = "rename" -> "lookup"
                 [] req[r].kind = "create" -> "create"
                 [] req[r].kind = "delete" -> "find"
                 [] OTHER                  -> "roster")
    /\ UNCHANGED <<server, req, locals, answer, history>>

-----------------------------------------------------------------------------
(* changeName: the two accounts. *)

Old(r) == req[r].name
New(r) == IF req[r].kind = "rename" THEN req[r].to ELSE req[r].name

FindOld(r) ==
    /\ pc[r] = "lookup"
    /\ IF Old(r) \in accounts
       THEN Goto(r, "create") /\ UNCHANGED <<server, req, locals, answer, history>>
       ELSE Fail(r, "404")

\* AuthFactory.getPassword: not every provider can tell passwords.
NoPassword(r) ==
    /\ pc[r] = "lookup" /\ Old(r) \in accounts
    /\ Fail(r, "500")

NameTaken(r) ==
    /\ pc[r] = "create" /\ New(r) \in accounts
    /\ Fail(r, "409")

\* createUser, of a rename or of POST /users.
CreateUser(r) ==
    /\ pc[r] = "create" /\ New(r) \notin accounts
    /\ accounts' = accounts \cup {New(r)}
    /\ props' = [props EXCEPT ![New(r)] = {}]
    /\ IF req[r].kind = "rename"
       THEN /\ found' = [found EXCEPT ![r] =
                   [items |-> On(Old(r)),
                    back |-> {c \in On(Old(r)) \cap accounts : roster[c][Old(r)] = "own"},
                    groups |-> GroupsOf(Old(r)),
                    vcard |-> Old(r) \in vcards]]
            /\ Goto(r, "items")
       ELSE found' = found /\ Goto(r, "check")
    /\ UNCHANGED <<roster, members, admins, vcards, locked, online,
                   req, locals, answer, removed>>

-----------------------------------------------------------------------------
(* copyRoster: the collection of items is live, so the loop may or may not
   meet an item added behind its back, or taken away and added again; one that
   stays is met. *)

\* Whoever takes a step, the items that may be missed are due no longer.
KeepDue ==
    due' = [r \in Reqs |-> (IF pc[r] = "create" THEN Contacts ELSE due[r])
                            \cap {c \in Contacts : roster'[Old(r)][c] # "none"}]

\* newRoster.createRosterItem.
CopyItem(r) ==
    /\ pc[r] = "items"
    /\ \E c \in On(Old(r)) \ seen[r] :
        /\ roster[New(r)][c] = "none"
        /\ roster' = [roster EXCEPT ![New(r)][c] = roster[Old(r)][c]]
        /\ item' = [item EXCEPT ![r] = c]
        /\ seen' = [seen EXCEPT ![r] = @ \cup {c}]
    /\ Goto(r, "settle")
    /\ UNCHANGED <<accounts, members, admins, props, vcards, locked, online,
                   req, toPut, answer, history>>

ItemThere(r) ==
    /\ pc[r] = "items"
    /\ \E c \in On(Old(r)) \ seen[r] : roster[New(r)][c] # "none"
    /\ Fail(r, "409")

\* SharedGroupException, of either roster.
ItemRefused(r) ==
    /\ \/ pc[r] = "items" /\ On(Old(r)) \ seen[r] # {}
       \/ pc[r] = "tell"
    /\ Fail(r, "400")

\* newRoster.updateRosterItem, which must find the item.
SettleItem(r) ==
    /\ pc[r] = "settle"
    /\ IF roster[New(r)][item[r]] # "none"
       THEN Goto(r, "others") /\ UNCHANGED <<server, req, locals, answer, history>>
       ELSE Fail(r, "404")

\* addNewUserToOthersRoster has nothing to do for a contact without an account.
LookForOther(r) ==
    /\ pc[r] = "others"
    /\ Goto(r, IF item[r] \in accounts THEN "fetch" ELSE "items")
    /\ UNCHANGED <<server, req, locals, answer, history>>

\* Faulty variant of SkipOther: a contact that has the old name itself may be skipped.
SkipAnyOther(r) ==
    /\ pc[r] = "fetch" /\ item[r] \in accounts
    /\ roster[item[r]][Old(r)] # "none"
    /\ Goto(r, "items")
    /\ UNCHANGED <<server, req, locals, answer, history>>

\* Nor for one that has the old name only through a shared group.
SkipOther(r) ==
    /\ pc[r] = "fetch" /\ item[r] \in accounts
    /\ roster[item[r]][Old(r)] = "shared"
    /\ Goto(r, "items")
    /\ UNCHANGED <<server, req, locals, answer, history>>

\* The contact is gone by now, or does not have the old name: UserNotFoundException.
OtherLacksOld(r) ==
    /\ pc[r] = "fetch"
    /\ item[r] \notin accounts \/ roster[item[r]][Old(r)] = "none"
    /\ Fail(r, "404")

\* The contact's item for the old name, from which that for the new one is made.
FetchOther(r) ==
    /\ pc[r] = "fetch" /\ item[r] \in accounts
    /\ roster[item[r]][Old(r)] = "own"
    /\ Goto(r, "tell")
    /\ UNCHANGED <<server, req, locals, answer, history>>

OtherHasNew(r) ==
    /\ pc[r] = "tell" /\ roster[item[r]][New(r)] # "none"
    /\ Fail(r, "409")

TellOther(r) ==
    /\ pc[r] = "tell" /\ roster[item[r]][New(r)] = "none"
    /\ roster' = [roster EXCEPT ![item[r]][New(r)] = "own"]
    /\ Goto(r, "backlink")
    /\ UNCHANGED <<accounts, members, admins, props, vcards, locked, online,
                   req, locals, answer, history>>

SettleOther(r) ==
    /\ pc[r] = "backlink"
    /\ IF roster[item[r]][New(r)] # "none"
       THEN Goto(r, "items") /\ UNCHANGED <<server, req, locals, answer, history>>
       ELSE Fail(r, "404")

ItemsDone(r) ==
    /\ pc[r] = "items" /\ due[r] \subseteq seen[r]
    /\ toPut' = [toPut EXCEPT ![r] = props[Old(r)]]
    /\ Goto(r, "props")
    /\ UNCHANGED <<server, req, item, seen, answer, history>>

-----------------------------------------------------------------------------
(* copyProperties, copyToGroups and copyVCard. *)

\* putAll: one key after the other; one that is added or removed meanwhile may
\* or may not be among them.
CopyProperty(r) ==
    /\ pc[r] = "props"
    /\ \E p \in toPut[r] \cup props[Old(r)] :
        /\ props' = [props EXCEPT ![New(r)] = @ \cup {p}]
        /\ toPut' = [toPut EXCEPT ![r] = @ \ {p}]
    /\ UNCHANGED <<accounts, roster, members, admins, vcards, locked, online,
                   req, pc, item, seen, answer, history>>

PropertiesCopied(r) ==
    /\ pc[r] = "props" /\ toPut[r] \cap props[Old(r)] = {}
    /\ toPut' = [toPut EXCEPT ![r] = {}]
    /\ Goto(r, "groups")
    /\ UNCHANGED <<server, req, item, seen, answer, history>>

\* Faulty variant of CopyToGroup: the groups it is an administrator of are missed.
CopyMembership(r) ==
    /\ pc[r] = "groups"
    /\ \E g \in Groups \ seen[r] :
        /\ members' = IF Old(r) \in members[g]
                      THEN [members EXCEPT ![g] = @ \cup {New(r)}] ELSE members
        /\ seen' = [seen EXCEPT ![r] = @ \cup {g}]
    /\ UNCHANGED <<accounts, roster, admins, props, vcards, locked, online,
                   req, pc, item, toPut, answer, history>>

\* Faulty variant of CopyToGroup: the last contact copied joins the group.
CopyContactToGroup(r) ==
    /\ pc[r] = "groups"
    /\ \E g \in Groups \ seen[r] :
        /\ members' = IF g \in GroupsOf(Old(r))
                      THEN [members EXCEPT ![g] = @ \cup {item[r]}] ELSE members
        /\ seen' = [seen EXCEPT ![r] = @ \cup {g}]
    /\ UNCHANGED <<accounts, roster, admins, props, vcards, locked, online,
                   req, pc, item, toPut, answer, history>>

\* A member or administrator becomes a member under the new name.
CopyToGroup(r) ==
    /\ pc[r] = "groups"
    /\ \E g \in Groups \ seen[r] :
        /\ members' = IF g \in GroupsOf(Old(r))
                      THEN [members EXCEPT ![g] = @ \cup {New(r)}] ELSE members
        /\ seen' = [seen EXCEPT ![r] = @ \cup {g}]
    /\ UNCHANGED <<accounts, roster, admins, props, vcards, locked, online,
                   req, pc, item, toPut, answer, history>>

GroupsDone(r) ==
    /\ pc[r] = "groups" /\ Groups \subseteq seen[r]
    /\ Goto(r, "vcard")
    /\ UNCHANGED <<server, req, locals, answer, history>>

CopyVCard(r) ==
    /\ pc[r] = "vcard"
    /\ vcards' = IF Old(r) \in vcards THEN vcards \cup {New(r)} ELSE vcards
    /\ Goto(r, "delete")
    /\ UNCHANGED <<accounts, roster, members, admins, props, locked, online,
                   req, locals, answer, history>>

VCardFails(r) ==
    /\ pc[r] = "vcard" /\ Old(r) \in vcards
    /\ Fail(r, "400")

-----------------------------------------------------------------------------
(* The end of a rename, and DELETE /users. *)

\* userManager.deleteUser: with an account Openfire may drop what it had.
Forget(n) ==
    \/ UNCHANGED <<roster, members, admins, vcards, removed>>
    \/ /\ roster' = [roster EXCEPT ![n] = [c \in Contacts |-> "none"]]
       /\ members' = [g \in Groups |-> members[g] \ {n}]
       /\ admins' = [g \in Groups |-> admins[g] \ {n}]
       /\ vcards' = vcards \ {n}
       /\ removed' = removed \cup ({n} \X (Contacts \cup Groups))

DeleteOld(r) ==
    /\ pc[r] = "delete" /\ req[r].kind = "rename"
    /\ accounts' = accounts \ {Old(r)}
    /\ Forget(Old(r))
    /\ Goto(r, "enable")
    /\ UNCHANGED <<props, locked, online, req, locals, answer, found>>

\* enableAccount, then the sessions are closed.
EnableOld(r) ==
    /\ pc[r] = "enable"
    /\ locked' = locked \ {Old(r)}
    /\ Goto(r, "kick")
    /\ UNCHANGED <<accounts, roster, members, admins, props, vcards, online,
                   req, locals, answer, history>>

\* One session after the other; no other step looks at them.
KickOld(r) ==
    /\ pc[r] = "kick"
    /\ online' = online \ {Old(r)}
    /\ Goto(r, "check")
    /\ UNCHANGED <<accounts, roster, members, admins, props, vcards, locked,
                   req, locals, answer, history>>

\* DELETE: the user must be there when it is looked up, but may be gone when it
\* is deleted; the roster goes in a step of its own.
FindUser(r) ==
    /\ pc[r] = "find"
    /\ IF Old(r) \in accounts
       THEN Goto(r, "delete") /\ UNCHANGED <<server, req, locals, answer, history>>
       ELSE Fail(r, "404")

DeleteUser(r) ==
    /\ pc[r] = "delete" /\ req[r].kind = "delete"
    /\ accounts' = accounts \ {Old(r)}
    /\ Forget(Old(r))
    /\ Goto(r, "roster")
    /\ UNCHANGED <<props, locked, online, req, locals, answer, found>>

\* rosterManager.deleteRoster: the user's roster, and the user on those of others.
DeleteRoster(r) ==
    LET n == Old(r) IN
    /\ pc[r] = "roster" /\ req[r].kind = "delete"
    /\ roster' = [m \in Names |-> [c \in Contacts |->
                      IF m = n \/ c = n THEN "none" ELSE roster[m][c]]]
    /\ removed' = removed \cup ({n} \X Contacts) \cup (Names \X {n})
    /\ Finish(r, "ok")
    /\ UNCHANGED <<accounts, members, admins, props, vcards, locked, online,
                   req, locals, found>>

-----------------------------------------------------------------------------
(* addProperties, after a rename or a creation: clear, then put. *)

CheckNew(r) ==
    /\ pc[r] = "check"
    /\ IF New(r) \in accounts
       THEN Goto(r, "clear") /\ UNCHANGED <<server, req, locals, answer, history>>
       ELSE Fail(r, "404")

\* Faulty variant of ClearProperties: nothing is cleared.
KeepProperties(r) ==
    /\ pc[r] = "clear"
    /\ toPut' = [toPut EXCEPT ![r] = req[r].props]
    /\ Goto(r, "put")
    /\ UNCHANGED <<server, req, item, seen, answer, history>>

ClearProperties(r) ==
    /\ pc[r] = "clear"
    /\ props' = [props EXCEPT ![New(r)] = {}]
    /\ toPut' = [toPut EXCEPT ![r] = req[r].props]
    /\ Goto(r, "put")
    /\ UNCHANGED <<accounts, roster, members, admins, vcards, locked, online,
                   req, item, seen, answer, history>>

PutProperty(r) ==
    /\ pc[r] = "put"
    /\ \E p \in toPut[r] :
        /\ props' = [props EXCEPT ![New(r)] = @ \cup {p}]
        /\ toPut' = [toPut EXCEPT ![r] = @ \ {p}]
    /\ UNCHANGED <<accounts, roster, members, admins, vcards, locked, online,
                   req, pc, item, seen, answer, history>>

PropertiesDone(r) ==
    /\ pc[r] = "put" /\ toPut[r] = {}
    /\ Finish(r, "ok")
    /\ UNCHANGED <<server, req, locals, history>>

-----------------------------------------------------------------------------
(* What users do to rosters and groups meanwhile. *)

AddItem(r) ==
    /\ pc[r] = "roster" /\ req[r].kind = "addItem"
    /\ roster' = [roster EXCEPT ![Old(r)][req[r].contact] = IF @ = "none" THEN "own" ELSE @]
    /\ Finish(r, "ok")
    /\ UNCHANGED <<accounts, members, admins, props, vcards, locked, online,
                   req, locals, history>>

DropItem(r) ==
    /\ pc[r] = "roster" /\ req[r].kind = "dropItem"
    /\ roster' = [roster EXCEPT ![Old(r)][req[r].contact] = "none"]
    /\ removed' = removed \cup {<<Old(r), req[r].contact>>}
    /\ Finish(r, "ok")
    /\ UNCHANGED <<accounts, members, admins, props, vcards, locked, online,
                   req, locals, found>>

Leave(r) ==
    LET g == req[r].group IN
    /\ pc[r] = "roster" /\ req[r].kind = "leave"
    /\ members' = [members EXCEPT ![g] = @ \ {Old(r)}]
    /\ admins' = [admins EXCEPT ![g] = @ \ {Old(r)}]
    /\ removed' = removed \cup {<<Old(r), g>>}
    /\ Finish(r, "ok")
    /\ UNCHANGED <<accounts, roster, props, vcards, locked, online, req, locals, found>>

-----------------------------------------------------------------------------
Step(r) ==
    \/ FindOld(r) \/ NoPassword(r) \/ NameTaken(r) \/ CreateUser(r)
    \/ CopyItem(r) \/ ItemThere(r) \/ ItemRefused(r) \/ SettleItem(r)
    \/ LookForOther(r) \/ SkipOther(r) \/ OtherLacksOld(r) \/ FetchOther(r)
    \/ OtherHasNew(r) \/ TellOther(r) \/ SettleOther(r) \/ ItemsDone(r)
    \/ CopyProperty(r) \/ PropertiesCopied(r) \/ CopyToGroup(r) \/ GroupsDone(r)
    \/ CopyVCard(r) \/ VCardFails(r)
    \/ DeleteOld(r) \/ EnableOld(r) \/ KickOld(r)
    \/ FindUser(r) \/ DeleteUser(r) \/ DeleteRoster(r)
    \/ CheckNew(r) \/ ClearProperties(r) \/ PutProperty(r) \/ PropertiesDone(r)
    \/ AddItem(r) \/ DropItem(r) \/ Leave(r)

Drained == (\A r \in Reqs : pc[r] = "done") /\ UNCHANGED vars

Next ==
    \/ (\E r \in Reqs : Receive(r) \/ Step(r)) /\ KeepDue
    \/ Drained

Spec == Init /\ [][Next]_vars

-----------------------------------------------------------------------------
(* Properties. *)

\* Every variable has its type.
TypeOK ==
    /\ accounts \subseteq Names
    /\ roster \in [Names -> [Contacts -> ItemKinds]]
    /\ members \in [Groups -> SUBSET Names]
    /\ admins \in [Groups -> SUBSET Names]
    /\ props \in [Names -> SUBSET Props]
    /\ vcards \subseteq Names /\ locked \subseteq Names /\ online \subseteq Names
    /\ req \in [Reqs -> RequestType]
    /\ pc \in [Reqs -> Labels]
    /\ item \in [Reqs -> Contacts]
    /\ seen \in [Reqs -> SUBSET (Contacts \cup Groups)]
    /\ due \in [Reqs -> SUBSET Contacts]
    /\ toPut \in [Reqs -> SUBSET Props]
    /\ answer \in [Reqs -> Codes]
    /\ found \in [Reqs -> [items : SUBSET Contacts, back : SUBSET Contacts,
                           groups : SUBSET Groups, vcard : BOOLEAN]]
    /\ removed \subseteq Names \X (Contacts \cup Groups)

IsRename(r) == req[r].kind = "rename"

\* A rename deletes the old account only when the new name has all that the old
\* one had at the start: each contact, a membership of each group it was in in
\* any role, and the vCard, other than what somebody else took away meanwhile.
NothingLeftBehind ==
    \A r \in Reqs : IsRename(r) /\ pc[r] = "delete" =>
        /\ \A c \in found[r].items :
               roster[New(r)][c] # "none" \/ {<<Old(r), c>>, <<New(r), c>>} \cap removed # {}
        /\ \A g \in found[r].groups :
               New(r) \in members[g] \/ {<<Old(r), g>>, <<New(r), g>>} \cap removed # {}
        /\ found[r].vcard =>
               New(r) \in vcards \/ {<<Old(r), Old(r)>>, <<New(r), New(r)>>} \cap removed # {}

\* If no other rename runs, each contact of the user that had the old name on its
\* roster has the new name there when the old account is deleted, unless one of
\* the two took the other off its roster, or the contact's account is deleted.
ContactsFollow ==
    \A r \in Reqs :
        /\ IsRename(r) /\ pc[r] = "delete"
        /\ \A s \in Reqs \ {r} : ~IsRename(s)
        => \A c \in found[r].back :
            \/ roster[c][New(r)] # "none"
            \/ {<<Old(r), c>>, <<c, Old(r)>>, <<c, New(r)>>} \cap removed # {}
            \/ \E s \in Reqs : req[s].kind = "delete" /\ req[s].name = c

\* The other requests about the name that r sets the properties of, and the keys
\* that requests about a name bring.
Rivals(r) == {s \in Reqs \ {r} : New(s) = New(r)}
Brought(n) == {p \in Props : \E s \in Reqs : New(s) = n /\ p \in req[s].props}

\* What a rename or creation sets replaces all the properties under the name.  If
\* another request creates the name as well (somebody deleted it meanwhile), what
\* they clear and set mixes: then all that is there was brought by one of them,
\* and still none of what was copied from the old account is left.
PropertiesAreReplaced ==
    \A r \in Reqs :
        pc[r] = "put" /\ toPut[r] = {} =>
            /\ Rivals(r) = {} => props[New(r)] = req[r].props
            /\ (\A s \in Rivals(r) : req[s].kind # "rename")
               => props[New(r)] \subseteq Brought(New(r))

=============================================================================
