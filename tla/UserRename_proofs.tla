-------------------------- MODULE UserRename_proofs --------------------------
(***************************************************************************)
(* Proofs about UserRename, for every set of users, contacts, groups and   *)
(* requests and every initial state: that a rename leaves nothing behind,  *)
(* that contacts learn the new name, and that properties are replaced.     *)
(***************************************************************************)
EXTENDS UserRename, TLAPS

\* Where a rename is from the creation of the new account to the deletion of the old.
Copying == {"items", "settle", "others", "fetch", "tell", "backlink"}
Carrying == Copying \cup {"props", "groups", "vcard", "delete"}
\* And where it has a contact that is not told yet.
Telling == {"settle", "others", "fetch", "tell"}

\* Which request may be at which label, and what its loops have visited there.
Place(r) ==
    /\ pc[r] \in {"lookup", "enable", "kick"} \cup (Carrying \ {"delete"}) => IsRename(r)
    /\ pc[r] \in {"idle", "lookup", "create"} => seen[r] = {}
    /\ pc[r] \in Copying \cup {"props"} => seen[r] \subseteq Contacts
    /\ pc[r] \in {"fetch", "tell", "backlink"} => item[r] \in Names
    /\ pc[r] = "put" => toPut[r] \subseteq req[r].props
    /\ pc[r] = "find" => ~IsRename(r)
    /\ IsRename(r) => Old(r) # New(r)

TypeInv == TypeOK /\ \A r \in Reqs : Place(r)

-----------------------------------------------------------------------------
(* Facts that several steps use. *)

\* What a request may be.
LEMMA RequestTypes ==
    ASSUME TypeOK, NEW r \in Reqs
    PROVE  /\ req[r] \in RequestType
           /\ Old(r) \in Names /\ New(r) \in Names /\ Names \subseteq Contacts
           /\ Old(r) \in Contacts /\ New(r) \in Contacts
           /\ req[r].contact \in Contacts /\ req[r].group \in Groups
           /\ req[r].props \subseteq Props /\ req[r].kind \in Kinds
BY DEF TypeOK, RequestType, Old, New, Contacts

\* What becomes of the data of an account that is deleted.
LEMMA ForgetTypes ==
    ASSUME TypeOK, NEW n \in Names, Forget(n)
    PROVE  /\ roster' \in [Names -> [Contacts -> ItemKinds]]
           /\ members' \in [Groups -> SUBSET Names] /\ admins' \in [Groups -> SUBSET Names]
           /\ vcards' \subseteq Names /\ removed' \subseteq Names \X (Contacts \cup Groups)
           /\ \A m \in Names, c \in Contacts :
                  roster'[m][c] = roster[m][c] \/ (m = n /\ <<n, c>> \in removed')
           /\ \A g \in Groups, m \in Names :
                  \/ m \in members'[g] <=> m \in members[g]
                  \/ m = n /\ <<n, g>> \in removed'
           /\ \A g \in Groups, m \in Names :
                  \/ m \in admins'[g] <=> m \in admins[g]
                  \/ m = n /\ <<n, g>> \in removed'
           /\ \A m \in vcards : m \in vcards' \/ (m = n /\ <<n, n>> \in removed')
           /\ removed \subseteq removed'
<1>1. CASE UNCHANGED <<roster, members, admins, vcards, removed>>
  BY <1>1 DEF TypeOK
<1>2. CASE /\ roster' = [roster EXCEPT ![n] = [c \in Contacts |-> "none"]]
           /\ members' = [g \in Groups |-> members[g] \ {n}]
           /\ admins' = [g \in Groups |-> admins[g] \ {n}]
           /\ vcards' = vcards \ {n}
           /\ removed' = removed \cup ({n} \X (Contacts \cup Groups))
  <2>1. n \in Contacts
    BY DEF Contacts
  <2>2. \A x \in Contacts \cup Groups : <<n, x>> \in removed'
    BY <1>2
  <2>3. /\ roster' \in [Names -> [Contacts -> ItemKinds]]
        /\ \A m \in Names \ {n} : roster'[m] = roster[m]
    BY <1>2 DEF TypeOK, ItemKinds
  <2>4. /\ members' \in [Groups -> SUBSET Names] /\ admins' \in [Groups -> SUBSET Names]
        /\ \A g \in Groups : members'[g] = members[g] \ {n} /\ admins'[g] = admins[g] \ {n}
    BY <1>2 DEF TypeOK
  <2>5. removed' \subseteq Names \X (Contacts \cup Groups)
    BY <1>2 DEF TypeOK
  <2>6. QED
    BY <1>2, <2>1, <2>2, <2>3, <2>4, <2>5 DEF TypeOK
<1>3. QED
  BY <1>1, <1>2 DEF Forget

-----------------------------------------------------------------------------
(* Types. *)

LEMMA InitTypes == Init => TypeInv
<1> SUFFICES ASSUME Init PROVE TypeInv
  OBVIOUS
<1>1. req \in [Reqs -> RequestType] /\ \A r \in Reqs : IsRename(r) => Old(r) # New(r)
  BY RenameAssumption DEF Init, IsRename, Old, New
<1>2. \A r \in Reqs : (CHOOSE c \in Contacts : TRUE) \in Contacts
  <2> SUFFICES ASSUME NEW r \in Reqs PROVE (CHOOSE c \in Contacts : TRUE) \in Contacts
    OBVIOUS
  <2>1. req[r].name \in Contacts
    BY <1>1 DEF RequestType, Contacts
  <2>2. QED
    BY <2>1
<1>3. item \in [Reqs -> Contacts]
  BY <1>2 DEF Init
<1>4. Nothing \in [items : SUBSET Contacts, back : SUBSET Contacts,
                   groups : SUBSET Groups, vcard : BOOLEAN]
  BY DEF Nothing
<1>5. TypeOK
  BY <1>1, <1>3, <1>4, RenameAssumption DEF Init, TypeOK, Labels, Codes
<1>6. QED
  BY <1>1, <1>5 DEF Init, TypeInv, Place, Carrying, Copying

\* A thread touches nothing that belongs to another.
LEMMA Frame ==
    ASSUME TypeInv, NEW r \in Reqs, Receive(r) \/ Step(r)
    PROVE  /\ req' = req
           /\ \A s \in Reqs \ {r} :
                /\ pc'[s] = pc[s] /\ answer'[s] = answer[s]
                /\ item'[s] = item[s] /\ seen'[s] = seen[s]
                /\ toPut'[s] = toPut[s] /\ found'[s] = found[s]
<1> USE DEF TypeInv, TypeOK, Goto, Finish, Fail, locals, history, server
<1>1. CASE Receive(r) \/ FindOld(r) \/ NoPassword(r) \/ NameTaken(r) \/ CreateUser(r)
  BY <1>1 DEF Receive, FindOld, NoPassword, NameTaken, CreateUser
<1>2. CASE CopyItem(r) \/ ItemThere(r) \/ ItemRefused(r) \/ SettleItem(r)
  BY <1>2 DEF CopyItem, ItemThere, ItemRefused, SettleItem
<1>3. CASE LookForOther(r) \/ SkipOther(r) \/ FetchOther(r) \/ OtherLacksOld(r)
           \/ OtherHasNew(r) \/ TellOther(r) \/ SettleOther(r) \/ ItemsDone(r)
  BY <1>3 DEF LookForOther, SkipOther, FetchOther, OtherLacksOld, OtherHasNew, TellOther,
     SettleOther, ItemsDone
<1>4. CASE CopyProperty(r) \/ PropertiesCopied(r) \/ CopyToGroup(r) \/ GroupsDone(r)
           \/ CopyVCard(r) \/ VCardFails(r)
  BY <1>4 DEF CopyProperty, PropertiesCopied, CopyToGroup, GroupsDone, CopyVCard, VCardFails
<1>5. CASE DeleteOld(r) \/ EnableOld(r) \/ KickOld(r) \/ FindUser(r) \/ DeleteUser(r)
           \/ DeleteRoster(r)
  BY <1>5 DEF DeleteOld, EnableOld, KickOld, FindUser, DeleteUser, DeleteRoster
<1>6. CASE CheckNew(r) \/ ClearProperties(r) \/ PutProperty(r) \/ PropertiesDone(r)
  BY <1>6 DEF CheckNew, ClearProperties, PutProperty, PropertiesDone
<1>7. CASE AddItem(r) \/ DropItem(r) \/ Leave(r)
  BY <1>7 DEF AddItem, DropItem, Leave
<1>8. QED
  BY <1>1, <1>2, <1>3, <1>4, <1>5, <1>6, <1>7 DEF Step

\* A thread goes on to a label that fits its request.
LEMMA StepControl ==
    ASSUME TypeInv, NEW r \in Reqs, Receive(r) \/ Step(r)
    PROVE  /\ pc' \in [Reqs -> Labels] /\ answer' \in [Reqs -> Codes]
           /\ item' \in [Reqs -> Contacts] /\ seen' \in [Reqs -> SUBSET (Contacts \cup Groups)]
           /\ toPut' \in [Reqs -> SUBSET Props]
           /\ Place(r)'
<1>1. /\ pc \in [Reqs -> Labels] /\ answer \in [Reqs -> Codes]
      /\ item \in [Reqs -> Contacts] /\ seen \in [Reqs -> SUBSET (Contacts \cup Groups)]
      /\ toPut \in [Reqs -> SUBSET Props]
      /\ Place(r) /\ req[r].kind \in Kinds /\ req[r].props \subseteq Props
      /\ req' = req /\ Groups \cap Contacts = {}
      /\ props[Old(r)] \subseteq Props /\ accounts \subseteq Names
  BY RequestTypes, Frame, RenameAssumption DEF TypeInv, TypeOK
<1> USE <1>1 DEF Goto, Finish, Fail, locals, history, server, Place, Labels, Codes,
        Carrying, Copying, IsRename, Old, New
<1>2. CASE Receive(r)
  BY <1>2 DEF Receive, Kinds
<1>3. CASE FindOld(r) \/ NoPassword(r) \/ NameTaken(r) \/ CreateUser(r)
  BY <1>3 DEF FindOld, NoPassword, NameTaken, CreateUser
<1>4. CASE CopyItem(r)
  <2>1. PICK c \in On(Old(r)) \ seen[r] : item' = [item EXCEPT ![r] = c]
                                          /\ seen' = [seen EXCEPT ![r] = @ \cup {c}]
    BY <1>4 DEF CopyItem
  <2>2. c \in Contacts
    BY <2>1 DEF On
  <2>3. QED
    BY <1>4, <2>1, <2>2 DEF CopyItem
<1>5. CASE ItemThere(r) \/ ItemRefused(r) \/ SettleItem(r)
  BY <1>5 DEF ItemThere, ItemRefused, SettleItem
<1>6. CASE LookForOther(r) \/ SkipOther(r) \/ FetchOther(r) \/ OtherLacksOld(r)
           \/ OtherHasNew(r) \/ TellOther(r) \/ SettleOther(r) \/ ItemsDone(r)
  BY <1>6 DEF LookForOther, SkipOther, FetchOther, OtherLacksOld, OtherHasNew, TellOther,
     SettleOther, ItemsDone
<1>7. CASE CopyProperty(r) \/ PropertiesCopied(r) \/ CopyToGroup(r) \/ GroupsDone(r)
           \/ CopyVCard(r) \/ VCardFails(r)
  BY <1>7 DEF CopyProperty, PropertiesCopied, CopyToGroup, GroupsDone, CopyVCard, VCardFails
<1>8. CASE DeleteOld(r) \/ EnableOld(r) \/ KickOld(r) \/ FindUser(r) \/ DeleteUser(r)
           \/ DeleteRoster(r)
  BY <1>8 DEF DeleteOld, EnableOld, KickOld, FindUser, DeleteUser, DeleteRoster
<1>9. CASE CheckNew(r) \/ ClearProperties(r) \/ PutProperty(r) \/ PropertiesDone(r)
  BY <1>9 DEF CheckNew, ClearProperties, PutProperty, PropertiesDone
<1>10. CASE AddItem(r) \/ DropItem(r) \/ Leave(r)
  BY <1>10 DEF AddItem, DropItem, Leave
<1>11. QED
  BY <1>2, <1>3, <1>4, <1>5, <1>6, <1>7, <1>8, <1>9, <1>10 DEF Step

\* Nothing of a user goes without a note, and what stays is what it was.
LossIsNoted ==
    /\ removed \subseteq removed'
    /\ \A n \in Names, c \in Contacts :
           roster[n][c] # "none" => roster'[n][c] = roster[n][c] \/ <<n, c>> \in removed'
    /\ \A n \in Names, g \in Groups :
           n \in members[g] \cup admins[g]
           => n \in members'[g] \cup admins'[g] \/ <<n, g>> \in removed'
    /\ \A n \in Names, g \in Groups :
           n \in members[g] => n \in members'[g] \/ <<n, g>> \in removed'
    /\ \A n \in Names : n \in vcards => n \in vcards' \/ <<n, n>> \in removed'

StoreTypes ==
    /\ accounts \subseteq Names
    /\ roster \in [Names -> [Contacts -> ItemKinds]]
    /\ members \in [Groups -> SUBSET Names] /\ admins \in [Groups -> SUBSET Names]
    /\ props \in [Names -> SUBSET Props]
    /\ vcards \subseteq Names /\ locked \subseteq Names /\ online \subseteq Names
    /\ found \in [Reqs -> [items : SUBSET Contacts, back : SUBSET Contacts,
                           groups : SUBSET Groups, vcard : BOOLEAN]]
    /\ removed \subseteq Names \X (Contacts \cup Groups)

\* A roster that gets one more item.
LEMMA ItemAdded ==
    ASSUME TypeOK, NEW n \in Names, NEW c \in Contacts, NEW k \in ItemKinds,
           roster[n][c] = "none", roster' = [roster EXCEPT ![n][c] = k]
    PROVE  /\ roster' \in [Names -> [Contacts -> ItemKinds]]
           /\ \A m \in Names, d \in Contacts :
                  roster[m][d] # "none" => roster'[m][d] = roster[m][d]
BY DEF TypeOK

\* What the steps do to the data of Openfire.
LEMMA StepStore ==
    ASSUME TypeInv, NEW r \in Reqs, Receive(r) \/ Step(r)
    PROVE  StoreTypes' /\ LossIsNoted
<1>1. /\ TypeOK /\ StoreTypes /\ Old(r) \in Names /\ New(r) \in Names /\ Names \subseteq Contacts
      /\ req[r].contact \in Contacts /\ req[r].group \in Groups /\ req[r].props \subseteq Props
      /\ item[r] \in Contacts /\ toPut[r] \subseteq Props /\ Place(r)
  BY RequestTypes DEF TypeInv, TypeOK, StoreTypes
<1>2. CASE UNCHANGED <<server, history>>
  BY <1>1, <1>2 DEF server, history, StoreTypes, LossIsNoted
<1>3. CASE CreateUser(r)
  <2>1. UNCHANGED <<roster, members, admins, vcards, locked, online, removed>>
    BY <1>3 DEF CreateUser
  <2>2. accounts' \subseteq Names /\ props' \in [Names -> SUBSET Props]
    BY <1>1, <1>3 DEF CreateUser, StoreTypes
  <2>3. found' \in [Reqs -> [items : SUBSET Contacts, back : SUBSET Contacts,
                             groups : SUBSET Groups, vcard : BOOLEAN]]
    <3>1. CASE req[r].kind = "rename"
      <4> DEFINE all == [items |-> On(Old(r)),
                         back |-> {c \in On(Old(r)) \cap accounts : roster[c][Old(r)] = "own"},
                         groups |-> GroupsOf(Old(r)), vcard |-> Old(r) \in vcards]
      <4>1. found' = [found EXCEPT ![r] = all]
        BY <1>3, <3>1 DEF CreateUser
      <4>2. On(Old(r)) \subseteq Contacts /\ GroupsOf(Old(r)) \subseteq Groups
        BY DEF On, GroupsOf
      <4>3. all \in [items : SUBSET Contacts, back : SUBSET Contacts,
                     groups : SUBSET Groups, vcard : BOOLEAN]
        BY <4>2
      <4>4. QED
        BY <1>1, <4>1, <4>3 DEF StoreTypes
    <3>2. CASE req[r].kind # "rename"
      BY <1>1, <1>3, <3>2 DEF CreateUser, StoreTypes
    <3>3. QED
      BY <3>1, <3>2
  <2>4. QED
    BY <1>1, <2>1, <2>2, <2>3 DEF StoreTypes, LossIsNoted
<1>4. CASE CopyItem(r)
  <2>1. PICK c \in On(Old(r)) \ seen[r] :
            /\ roster[New(r)][c] = "none"
            /\ roster' = [roster EXCEPT ![New(r)][c] = roster[Old(r)][c]]
    BY <1>4 DEF CopyItem
  <2>2. c \in Contacts /\ roster[Old(r)][c] \in ItemKinds
    BY <1>1, <2>1 DEF On, StoreTypes
  <2>3. QED
    BY <1>1, <1>4, <2>1, <2>2, ItemAdded DEF CopyItem, history, StoreTypes, LossIsNoted
<1>5. CASE TellOther(r)
  <2>1. item[r] \in Names /\ "own" \in ItemKinds
    BY <1>1, <1>5 DEF TellOther, Place, ItemKinds
  <2>2. /\ roster[item[r]][New(r)] = "none"
        /\ roster' = [roster EXCEPT ![item[r]][New(r)] = "own"]
    BY <1>5 DEF TellOther
  <2>3. QED
    BY <1>1, <1>5, <2>1, <2>2, ItemAdded DEF TellOther, history, StoreTypes, LossIsNoted
<1>6. CASE CopyProperty(r)
  BY <1>1, <1>6 DEF CopyProperty, history, StoreTypes, LossIsNoted
<1>7. CASE CopyToGroup(r)
  BY <1>1, <1>7 DEF CopyToGroup, history, StoreTypes, LossIsNoted
<1>8. CASE CopyVCard(r)
  BY <1>1, <1>8 DEF CopyVCard, history, StoreTypes, LossIsNoted
<1>9. CASE DeleteOld(r) \/ DeleteUser(r)
  <2>1. Forget(Old(r)) /\ accounts' \subseteq accounts /\ UNCHANGED <<props, locked, online, found>>
    BY <1>9 DEF DeleteOld, DeleteUser
  <2>2. StoreTypes'
    BY <1>1, <2>1, ForgetTypes DEF StoreTypes
  <2>3. /\ removed \subseteq removed'
        /\ \A m \in Names, c \in Contacts :
               roster'[m][c] = roster[m][c] \/ <<m, c>> \in removed'
        /\ \A g \in Groups, m \in Names :
               \/ (m \in members'[g] <=> m \in members[g]) /\ (m \in admins'[g] <=> m \in admins[g])
               \/ <<m, g>> \in removed'
        /\ \A m \in vcards : m \in vcards' \/ <<m, m>> \in removed'
    BY <1>1, <2>1, ForgetTypes
  <2>4. QED
    BY <2>2, <2>3 DEF LossIsNoted
<1>10. CASE EnableOld(r) \/ KickOld(r)
  BY <1>1, <1>10 DEF EnableOld, KickOld, history, StoreTypes, LossIsNoted
<1>11. CASE DeleteRoster(r)
  <2>1. /\ roster' \in [Names -> [Contacts -> ItemKinds]]
        /\ \A m \in Names, c \in Contacts :
               roster'[m][c] = roster[m][c] \/ m = Old(r) \/ c = Old(r)
    BY <1>1, <1>11 DEF DeleteRoster, StoreTypes, ItemKinds
  <2>2. /\ \A c \in Contacts : <<Old(r), c>> \in removed'
        /\ \A m \in Names : <<m, Old(r)>> \in removed'
        /\ removed \subseteq removed'
    BY <1>11 DEF DeleteRoster
  <2>3. removed' \subseteq Names \X (Contacts \cup Groups)
    BY <1>1, <1>11 DEF DeleteRoster, StoreTypes
  <2>4. UNCHANGED <<accounts, members, admins, props, vcards, locked, online, found>>
    BY <1>11 DEF DeleteRoster
  <2>5. QED
    BY <1>1, <2>1, <2>2, <2>3, <2>4 DEF StoreTypes, LossIsNoted
<1>12. CASE ClearProperties(r) \/ PutProperty(r)
  BY <1>1, <1>12 DEF ClearProperties, PutProperty, history, StoreTypes, LossIsNoted
<1>13. CASE AddItem(r)
  <2>1. CASE roster[Old(r)][req[r].contact] = "none"
    <3>1. roster' = [roster EXCEPT ![Old(r)][req[r].contact] = "own"]
      BY <1>1, <1>13, <2>1 DEF AddItem, StoreTypes
    <3>2. QED
      BY <1>1, <1>13, <2>1, <3>1, ItemAdded DEF AddItem, history, StoreTypes, LossIsNoted, ItemKinds
  <2>2. CASE roster[Old(r)][req[r].contact] # "none"
    <3>1. roster' = roster
      BY <1>1, <1>13, <2>2 DEF AddItem, StoreTypes
    <3>2. QED
      BY <1>1, <1>13, <3>1 DEF AddItem, history, StoreTypes, LossIsNoted
  <2>3. QED
    BY <2>1, <2>2
<1>14. CASE DropItem(r)
  BY <1>1, <1>14 DEF DropItem, StoreTypes, LossIsNoted, ItemKinds
<1>15. CASE Leave(r)
  BY <1>1, <1>15 DEF Leave, StoreTypes, LossIsNoted
<1>16. QED
  <2> USE DEF Fail, history, server
  <2>1. CASE Receive(r) \/ FindOld(r) \/ NoPassword(r) \/ NameTaken(r) \/ ItemThere(r)
             \/ ItemRefused(r) \/ SettleItem(r)
    BY <1>2, <2>1 DEF Receive, FindOld, NoPassword, NameTaken, ItemThere, ItemRefused, SettleItem
  <2>2. CASE LookForOther(r) \/ SkipOther(r) \/ FetchOther(r) \/ OtherLacksOld(r)
             \/ OtherHasNew(r) \/ SettleOther(r) \/ ItemsDone(r)
    BY <1>2, <2>2 DEF LookForOther, SkipOther, FetchOther, OtherLacksOld, OtherHasNew, SettleOther,
       ItemsDone
  <2>3. CASE GroupsDone(r) \/ VCardFails(r) \/ CheckNew(r) \/ PropertiesDone(r)
    BY <1>2, <2>3 DEF GroupsDone, VCardFails, CheckNew, PropertiesDone
  <2>4. CASE PropertiesCopied(r) \/ FindUser(r)
    BY <1>2, <2>4 DEF PropertiesCopied, FindUser
  <2>5. QED
    BY <1>3, <1>4, <1>5, <1>6, <1>7, <1>8, <1>9, <1>10, <1>11, <1>12, <1>13, <1>14, <1>15,
       <2>1, <2>2, <2>3, <2>4 DEF Step

LEMMA StepTypes ==
    ASSUME TypeInv, NEW r \in Reqs, Receive(r) \/ Step(r), KeepDue
    PROVE  TypeInv'
<1>1. TypeOK'
  <2>1. due' \in [Reqs -> SUBSET Contacts]
    BY DEF KeepDue
  <2>2. QED
    BY <2>1, Frame, StepControl, StepStore DEF TypeInv, TypeOK, StoreTypes
<1>2. ASSUME NEW s \in Reqs PROVE Place(s)'
  <2>1. CASE s = r
    BY <2>1, StepControl
  <2>2. CASE s # r
    <3>1. /\ pc'[s] = pc[s] /\ seen'[s] = seen[s] /\ toPut'[s] = toPut[s] /\ req' = req
          /\ item'[s] = item[s] /\ Place(s)
      BY <2>2, Frame DEF TypeInv
    <3>2. QED
      BY <3>1 DEF Place, IsRename, Old, New
  <2>3. QED
    BY <2>1, <2>2
<1>3. QED
  BY <1>1, <1>2 DEF TypeInv

-----------------------------------------------------------------------------
(* What a rename has to carry over. *)

\* The new name has it, or somebody took it away.
HasItem(r, c) ==
    roster[New(r)][c] # "none" \/ {<<Old(r), c>>, <<New(r), c>>} \cap removed # {}
HasGroup(r, g) ==
    New(r) \in members[g] \/ {<<Old(r), g>>, <<New(r), g>>} \cap removed # {}
HasVCard(r) ==
    New(r) \in vcards \/ {<<Old(r), Old(r)>>, <<New(r), New(r)>>} \cap removed # {}

\* What the loop has to meet is on the old roster.
DueInv == \A r \in Reqs : due[r] \subseteq On(Old(r))

\* Each thing found was carried over, or the old name has it still and the loop that
\* will meet it is not over.
CarryInv(r) ==
    IsRename(r) /\ pc[r] \in Carrying =>
        /\ \A c \in found[r].items :
               \/ HasItem(r, c)
               \/ pc[r] \in Copying /\ c \in due[r] \ seen[r]
        /\ \A g \in found[r].groups :
               \/ HasGroup(r, g)
               \/ pc[r] \in Copying \cup {"props", "groups"} /\ g \in GroupsOf(Old(r)) \ seen[r]
        /\ found[r].vcard =>
               \/ HasVCard(r)
               \/ pc[r] # "delete" /\ Old(r) \in vcards

\* Somebody took the other off a roster, or the contact's account is deleted.
Excused(r, c) ==
    \/ {<<Old(r), c>>, <<c, Old(r)>>, <<c, New(r)>>} \cap removed # {}
    \/ \E s \in Reqs : req[s].kind = "delete" /\ req[s].name = c

OnlyRename(r) == IsRename(r) /\ \A s \in Reqs \ {r} : ~IsRename(s)

\* A contact that had the old name has it still, and has the new name, or the loop is
\* yet to meet the contact, or is about to tell it.
BackInv(r) ==
    OnlyRename(r) /\ pc[r] \in Carrying =>
        \A c \in found[r].back :
            \/ Excused(r, c)
            \/ /\ c \in accounts /\ roster[c][Old(r)] = "own"
               /\ \/ roster[c][New(r)] # "none"
                  \/ pc[r] \in Copying /\ c \in due[r] \ seen[r]
                  \/ pc[r] \in Telling /\ item[r] = c

\* Of the properties under the new name those are missing that are still to be put, and
\* the others that are there were brought by a request about the name.
PutInv(r) ==
    pc[r] = "put" =>
        /\ Rivals(r) = {} => props[New(r)] = req[r].props \ toPut[r]
        /\ (\A s \in Rivals(r) : ~IsRename(s)) => props[New(r)] \subseteq Brought(New(r))

IInv ==
    /\ TypeInv /\ DueInv
    /\ \A r \in Reqs : CarryInv(r) /\ BackInv(r) /\ PutInv(r)

\* What was carried over, or is still there, is so after a step of any thread.
LEMMA Keeps ==
    ASSUME TypeInv, NEW s \in Reqs, Receive(s) \/ Step(s), NEW r \in Reqs
    PROVE  /\ IsRename(r)' <=> IsRename(r)
           /\ Old(r)' = Old(r) /\ New(r)' = New(r) /\ Old(r) \in Names /\ New(r) \in Names
           /\ \A c \in Contacts : HasItem(r, c) => HasItem(r, c)'
           /\ \A c \in On(Old(r)) : c \in On(Old(r))' \/ HasItem(r, c)'
           /\ \A g \in Groups : HasGroup(r, g) => HasGroup(r, g)'
           /\ \A g \in GroupsOf(Old(r)) : g \in GroupsOf(Old(r))' \/ HasGroup(r, g)'
           /\ HasVCard(r) => HasVCard(r)'
           /\ Old(r) \in vcards => Old(r) \in vcards' \/ HasVCard(r)'
           /\ \A c \in Contacts : Excused(r, c) => Excused(r, c)'
           /\ \A c \in Names : roster[c][Old(r)] = "own"
                               => roster'[c][Old(r)] = "own" \/ Excused(r, c)'
           /\ \A c \in Names : roster[c][New(r)] # "none"
                               => roster'[c][New(r)] # "none" \/ Excused(r, c)'
           /\ \A c \in On(Old(r)) : c \in On(Old(r))' \/ Excused(r, c)'
<1>1. /\ req' = req /\ LossIsNoted
      /\ Old(r) \in Names /\ New(r) \in Names /\ Names \subseteq Contacts
  BY Frame, StepStore, RequestTypes DEF TypeInv
<1>2. Old(r)' = Old(r) /\ New(r)' = New(r) /\ (IsRename(r)' <=> IsRename(r))
  BY <1>1 DEF Old, New, IsRename
<1>3. \A c \in Contacts : HasItem(r, c) => HasItem(r, c)'
  BY <1>1, <1>2 DEF HasItem, LossIsNoted
<1>4. \A c \in On(Old(r)) : c \in On(Old(r))' \/ <<Old(r), c>> \in removed'
  BY <1>1, <1>2 DEF On, LossIsNoted
<1>5. \A g \in Groups : HasGroup(r, g) => HasGroup(r, g)'
  BY <1>1, <1>2 DEF HasGroup, LossIsNoted
<1>6. \A g \in GroupsOf(Old(r)) : g \in GroupsOf(Old(r))' \/ <<Old(r), g>> \in removed'
  BY <1>1, <1>2 DEF GroupsOf, LossIsNoted
<1>7. /\ HasVCard(r) => HasVCard(r)'
      /\ Old(r) \in vcards => Old(r) \in vcards' \/ <<Old(r), Old(r)>> \in removed'
  BY <1>1, <1>2 DEF HasVCard, LossIsNoted
<1>8. \A c \in Contacts : Excused(r, c) => Excused(r, c)'
  BY <1>1, <1>2 DEF Excused, LossIsNoted
<1>9. \A c \in Names :
          /\ roster[c][Old(r)] = "own" => roster'[c][Old(r)] = "own" \/ <<c, Old(r)>> \in removed'
          /\ roster[c][New(r)] # "none" => roster'[c][New(r)] # "none" \/ <<c, New(r)>> \in removed'
  BY <1>1 DEF LossIsNoted
<1>10. QED
  BY <1>1, <1>2, <1>3, <1>4, <1>5, <1>6, <1>7, <1>8, <1>9 DEF HasItem, HasGroup, HasVCard, Excused

\* What the loop has to meet stays so, unless it was taken away.
LEMMA DueKeeps ==
    ASSUME TypeInv, DueInv, NEW s \in Reqs, Receive(s) \/ Step(s), KeepDue, NEW r \in Reqs
    PROVE  /\ due'[r] \subseteq On(Old(r))'
           /\ \A c \in due[r] : c \in due'[r] \/ HasItem(r, c)'
           /\ \A c \in due[r] : c \in due'[r] \/ Excused(r, c)'
           /\ pc[r] = "create" => due'[r] = On(Old(r))'
<1>1. due'[r] = (IF pc[r] = "create" THEN Contacts ELSE due[r])
                \cap {c \in Contacts : roster'[Old(r)][c] # "none"}
  BY DEF KeepDue
<1>2. On(Old(r))' = {c \in Contacts : roster'[Old(r)][c] # "none"}
  BY Keeps DEF On
<1>3. due[r] \subseteq On(Old(r)) /\ On(Old(r)) \subseteq Contacts
  BY DEF DueInv, On
<1>4. QED
  BY <1>1, <1>2, <1>3, Keeps

\* Only the deletion of an account takes it away.
LEMMA AccountsStay ==
    ASSUME TypeInv, NEW s \in Reqs, Receive(s) \/ Step(s), NEW n \in accounts, n \notin accounts'
    PROVE  /\ pc[s] = "delete" /\ n = Old(s)
           /\ req[s].kind = "delete" \/ pc'[s] = "enable"
<1>1. DeleteOld(s) \/ DeleteUser(s)
  <2> USE DEF Fail, server
  <2>1. ~(Receive(s) \/ FindOld(s) \/ NoPassword(s) \/ NameTaken(s) \/ CreateUser(s) \/ CopyItem(s)
          \/ ItemThere(s) \/ ItemRefused(s) \/ SettleItem(s))
    BY DEF Receive, FindOld, NoPassword, NameTaken, CreateUser, CopyItem, ItemThere, ItemRefused,
       SettleItem
  <2>2. ~(LookForOther(s) \/ SkipOther(s) \/ FetchOther(s) \/ OtherLacksOld(s) \/ OtherHasNew(s)
          \/ TellOther(s) \/ SettleOther(s) \/ ItemsDone(s))
    BY DEF LookForOther, SkipOther, FetchOther, OtherLacksOld, OtherHasNew, TellOther, SettleOther,
       ItemsDone
  <2>3. ~(CopyProperty(s) \/ PropertiesCopied(s) \/ CopyToGroup(s) \/ GroupsDone(s)
          \/ CopyVCard(s) \/ VCardFails(s) \/ EnableOld(s) \/ KickOld(s) \/ FindUser(s)
          \/ DeleteRoster(s))
    BY DEF CopyProperty, PropertiesCopied, CopyToGroup, GroupsDone, CopyVCard, VCardFails,
       EnableOld, KickOld, FindUser, DeleteRoster
  <2>4. ~(CheckNew(s) \/ ClearProperties(s) \/ PutProperty(s) \/ PropertiesDone(s)
          \/ AddItem(s) \/ DropItem(s) \/ Leave(s))
    BY DEF CheckNew, ClearProperties, PutProperty, PropertiesDone, AddItem, DropItem, Leave
  <2>5. QED
    BY <2>1, <2>2, <2>3, <2>4 DEF Step
<1>2. CASE DeleteOld(s)
  BY <1>2 DEF DeleteOld, Goto, TypeInv, TypeOK
<1>3. CASE DeleteUser(s)
  BY <1>3 DEF FindUser, DeleteUser, Fail, server
<1>4. QED
  BY <1>1, <1>2, <1>3

\* Of an account that goes its rename is at its end, or the request is to delete it.
LEMMA ContactsStay ==
    ASSUME TypeInv, NEW s \in Reqs, Receive(s) \/ Step(s), NEW r \in Reqs,
           OnlyRename(r), pc'[r] \in Carrying, NEW c \in accounts, c \notin accounts'
    PROVE  Excused(r, c)'
<1>1. pc[s] = "delete" /\ c = Old(s) /\ (req[s].kind = "delete" \/ pc'[s] = "enable")
  BY AccountsStay
<1>2. pc'[s] = "enable" => IsRename(s)
  BY StepControl, Frame DEF Place, IsRename
<1>3. req[s].kind = "delete"
  BY <1>1, <1>2 DEF OnlyRename, Carrying, Copying
<1>4. QED
  BY <1>1, <1>3, Frame DEF Excused, Old

\* What a rename finds when it creates the new account.
LEMMA CreationFinds ==
    ASSUME TypeOK, NEW r \in Reqs, IsRename(r), CreateUser(r)
    PROVE  /\ found'[r].items = On(Old(r)) /\ found'[r].groups = GroupsOf(Old(r))
           /\ found'[r].back = {c \in On(Old(r)) \cap accounts : roster[c][Old(r)] = "own"}
           /\ found'[r].vcard => Old(r) \in vcards
<1> DEFINE all == [items |-> On(Old(r)),
                   back |-> {c \in On(Old(r)) \cap accounts : roster[c][Old(r)] = "own"},
                   groups |-> GroupsOf(Old(r)), vcard |-> Old(r) \in vcards]
<1>1. found' = [found EXCEPT ![r] = all]
  BY DEF CreateUser, IsRename
<1>2. found'[r] = all
  BY <1>1 DEF TypeOK
<1>3. /\ all.items = On(Old(r)) /\ all.groups = GroupsOf(Old(r))
      /\ all.back = {c \in On(Old(r)) \cap accounts : roster[c][Old(r)] = "own"}
  OBVIOUS
<1>4. all.vcard = (Old(r) \in vcards)
  OBVIOUS
<1> HIDE DEF all
<1>5. QED
  BY <1>2, <1>3, <1>4

\* A rename that does not move is not disturbed by the others.
LEMMA OthersKeep ==
    ASSUME TypeInv, DueInv, NEW s \in Reqs, Receive(s) \/ Step(s), KeepDue,
           NEW r \in Reqs \ {s}, CarryInv(r), BackInv(r)
    PROVE  CarryInv(r)' /\ BackInv(r)'
<1>1. /\ req' = req /\ pc'[r] = pc[r] /\ seen'[r] = seen[r] /\ item'[r] = item[r]
      /\ found'[r] = found[r] /\ accounts \subseteq Names /\ Names \subseteq Contacts
      /\ found[r].items \subseteq Contacts /\ found[r].back \subseteq Contacts
      /\ found[r].groups \subseteq Groups
  BY Frame, RequestTypes DEF TypeInv, TypeOK
<1>2. CarryInv(r)'
  BY <1>1, Keeps, DueKeeps DEF CarryInv
<1>3. BackInv(r)'
  <2>1. SUFFICES ASSUME OnlyRename(r), pc[r] \in Carrying, NEW c \in found[r].back,
                        ~Excused(r, c)'
                 PROVE  /\ c \in accounts' /\ roster'[c][Old(r)] = "own"
                        /\ \/ roster'[c][New(r)] # "none"
                           \/ pc[r] \in Copying /\ c \in due'[r] \ seen[r]
                           \/ pc[r] \in Telling /\ item[r] = c
    BY <1>1, Keeps DEF BackInv, OnlyRename, IsRename
  <2>2. ~Excused(r, c)
    BY <1>1, <2>1, Keeps
  <2>3. /\ c \in accounts /\ roster[c][Old(r)] = "own"
        /\ \/ roster[c][New(r)] # "none"
           \/ pc[r] \in Copying /\ c \in due[r] \ seen[r]
           \/ pc[r] \in Telling /\ item[r] = c
    BY <2>1, <2>2 DEF BackInv
  <2>4. c \in accounts'
    BY <1>1, <2>1, <2>3, ContactsStay
  <2>5. QED
    BY <1>1, <2>1, <2>3, <2>4, Keeps, DueKeeps
<1>4. QED
  BY <1>2, <1>3

\* The rename itself carries over what it meets.
LEMMA OwnCarry ==
    ASSUME TypeInv, DueInv, NEW r \in Reqs, Receive(r) \/ Step(r), KeepDue, CarryInv(r)
    PROVE  CarryInv(r)'
<1> SUFFICES ASSUME IsRename(r), pc'[r] \in Carrying
             PROVE  CarryInv(r)'
  BY Keeps DEF CarryInv
<1>1. /\ TypeOK /\ Place(r) /\ req' = req /\ Old(r) \in Contacts /\ New(r) \in Names
      /\ Old(r) # New(r) /\ Groups \cap Contacts = {}
      /\ pc \in [Reqs -> Labels] /\ Old(r)' = Old(r) /\ New(r)' = New(r)
      /\ found[r].items \subseteq Contacts /\ found[r].groups \subseteq Groups
  BY Frame, RequestTypes, RenameAssumption DEF TypeInv, TypeOK, Place, Old, New
\* A step that leaves the labels of the loops in peace.
<1>2. ASSUME found'[r] = found[r], pc[r] \in Carrying,
             \A c \in found[r].items :
                 pc[r] \in Copying /\ c \in due[r] \ seen[r] =>
                     HasItem(r, c)' \/ (pc'[r] \in Copying /\ c \notin seen'[r]),
             \A g \in found[r].groups :
                 g \in GroupsOf(Old(r)) \ seen[r] =>
                     \/ HasGroup(r, g)'
                     \/ pc'[r] \in Copying \cup {"props", "groups"} /\ g \notin seen'[r],
             Old(r) \in vcards => HasVCard(r)' \/ pc'[r] # "delete"
      PROVE  CarryInv(r)'
  BY <1>1, <1>2, Keeps, DueKeeps DEF CarryInv
<1>3. CASE Receive(r) \/ FindOld(r)
  BY <1>1, <1>3 DEF Receive, FindOld, Fail, Finish, Goto, Carrying, Copying, IsRename
<1>4. CASE CreateUser(r)
  <2>1. /\ UNCHANGED <<roster, members, admins, vcards, seen>> /\ seen[r] = {} /\ pc'[r] = "items"
        /\ found'[r].items = On(Old(r)) /\ found'[r].groups = GroupsOf(Old(r))
        /\ found'[r].vcard => Old(r) \in vcards
        /\ due'[r] = On(Old(r))'
    BY <1>1, <1>4, CreationFinds, DueKeeps DEF CreateUser, TypeOK, Place, IsRename, Goto, locals
  <2>2. QED
    BY <1>1, <2>1 DEF CarryInv, Copying, On, GroupsOf
<1>5. CASE CopyItem(r)
  <2>1. PICK c0 \in On(Old(r)) \ seen[r] :
            /\ roster' = [roster EXCEPT ![New(r)][c0] = roster[Old(r)][c0]]
            /\ seen' = [seen EXCEPT ![r] = @ \cup {c0}]
    BY <1>5 DEF CopyItem
  <2>2. /\ pc[r] = "items" /\ pc'[r] = "settle" /\ found' = found
        /\ seen'[r] = seen[r] \cup {c0} /\ c0 \in Contacts /\ seen[r] \subseteq Contacts
    BY <1>1, <1>5, <2>1 DEF CopyItem, Goto, TypeOK, On, Place, Copying, history
  <2>3. HasItem(r, c0)'
    BY <1>1, <2>1, <2>2 DEF HasItem, On, TypeOK
  <2>4. QED
    BY <1>1, <1>2, <2>2, <2>3 DEF Copying, Carrying
<1>6. CASE SettleItem(r) \/ LookForOther(r) \/ SkipOther(r) \/ FetchOther(r) \/ TellOther(r)
           \/ SettleOther(r)
  <2>1. found' = found /\ seen' = seen /\ pc[r] \in Copying /\ pc'[r] \in Copying
    BY <1>1, <1>6 DEF SettleItem, LookForOther, SkipOther, FetchOther, TellOther, SettleOther, Fail,
       Finish, Goto, Copying, Carrying, history, locals
  <2>2. QED
    BY <1>2, <2>1 DEF Copying, Carrying
<1>7. CASE ItemsDone(r)
  <2>1. /\ found' = found /\ seen' = seen /\ pc[r] = "items" /\ pc'[r] = "props"
        /\ due[r] \subseteq seen[r]
    BY <1>1, <1>7 DEF ItemsDone, Goto, history, locals
  <2>2. QED
    BY <1>2, <2>1 DEF Copying, Carrying
<1>8. CASE CopyProperty(r) \/ PropertiesCopied(r)
  <2>1. found' = found /\ seen' = seen /\ pc[r] = "props" /\ pc'[r] \in {"props", "groups"}
    BY <1>1, <1>8 DEF CopyProperty, PropertiesCopied, Goto, history, locals
  <2>2. QED
    BY <1>2, <2>1 DEF Copying, Carrying
<1>9. CASE CopyToGroup(r)
  <2>1. PICK g0 \in Groups \ seen[r] :
            /\ members' = IF g0 \in GroupsOf(Old(r))
                          THEN [members EXCEPT ![g0] = @ \cup {New(r)}] ELSE members
            /\ seen' = [seen EXCEPT ![r] = @ \cup {g0}]
    BY <1>9 DEF CopyToGroup
  <2>2. /\ found' = found /\ pc[r] = "groups" /\ pc'[r] = "groups"
        /\ seen'[r] = seen[r] \cup {g0}
    BY <1>1, <1>9, <2>1 DEF CopyToGroup, TypeOK, history
  <2>3. g0 \in GroupsOf(Old(r)) => HasGroup(r, g0)'
    BY <1>1, <2>1 DEF HasGroup, TypeOK
  <2>4. QED
    BY <1>2, <2>2, <2>3 DEF Copying, Carrying
<1>10. CASE GroupsDone(r)
  <2>1. /\ found' = found /\ seen' = seen /\ pc[r] = "groups" /\ pc'[r] = "vcard"
        /\ Groups \subseteq seen[r]
    BY <1>1, <1>10 DEF GroupsDone, Goto, history, locals
  <2>2. QED
    BY <1>1, <1>2, <2>1 DEF Copying, Carrying
<1>11. CASE CopyVCard(r)
  <2>1. /\ found' = found /\ seen' = seen /\ pc[r] = "vcard" /\ pc'[r] = "delete"
        /\ Old(r) \in vcards => New(r) \in vcards'
    BY <1>1, <1>11 DEF CopyVCard, Goto, history, locals
  <2>2. Old(r) \in vcards => HasVCard(r)'
    BY <1>1, <2>1 DEF HasVCard
  <2>3. /\ \A c \in found[r].items : HasItem(r, c)
        /\ \A g \in found[r].groups : HasGroup(r, g)
    BY <2>1 DEF CarryInv, Copying, Carrying
  <2>4. QED
    BY <1>1, <2>1, <2>2, <2>3, Keeps DEF CarryInv, Carrying
<1>12. CASE \/ NoPassword(r) \/ NameTaken(r) \/ ItemThere(r) \/ ItemRefused(r)
            \/ OtherLacksOld(r) \/ OtherHasNew(r) \/ VCardFails(r) \/ EnableOld(r)
            \/ KickOld(r) \/ DeleteOld(r)
  BY <1>1, <1>12 DEF NoPassword, NameTaken, ItemThere, ItemRefused, OtherLacksOld, OtherHasNew,
     VCardFails, EnableOld, KickOld, DeleteOld, Fail, Finish, Goto, Carrying, Copying
<1>13. CASE \/ FindUser(r) \/ DeleteUser(r) \/ DeleteRoster(r) \/ AddItem(r) \/ DropItem(r)
            \/ Leave(r)
  BY <1>1, <1>13 DEF FindUser, DeleteUser, DeleteRoster, AddItem, DropItem, Leave, Place, IsRename
<1>14. CASE CheckNew(r) \/ ClearProperties(r) \/ PutProperty(r) \/ PropertiesDone(r)
  BY <1>1, <1>14 DEF CheckNew, ClearProperties, PutProperty, PropertiesDone, Fail, Finish, Goto,
     Carrying, Copying
<1>15. QED
  BY <1>3, <1>4, <1>5, <1>6, <1>7, <1>8, <1>9, <1>10, <1>11, <1>12, <1>13, <1>14 DEF Step

\* The rename itself tells its contacts.
LEMMA OwnBack ==
    ASSUME TypeInv, DueInv, NEW r \in Reqs, Receive(r) \/ Step(r), KeepDue, BackInv(r)
    PROVE  BackInv(r)'
<1> SUFFICES ASSUME OnlyRename(r), pc'[r] \in Carrying, NEW c \in found'[r].back, ~Excused(r, c)'
             PROVE  /\ c \in accounts' /\ roster'[c][Old(r)] = "own"
                    /\ \/ roster'[c][New(r)] # "none"
                       \/ pc'[r] \in Copying /\ c \in due'[r] \ seen'[r]
                       \/ pc'[r] \in Telling /\ item'[r] = c
  BY Keeps, Frame DEF BackInv, OnlyRename, IsRename, Telling
<1>1. /\ TypeOK /\ Place(r) /\ req' = req /\ IsRename(r) /\ Old(r) \in Names /\ New(r) \in Names
      /\ Old(r) # New(r) /\ accounts \subseteq Names /\ Names \subseteq Contacts
      /\ pc \in [Reqs -> Labels]
  BY Frame, RequestTypes DEF TypeInv, TypeOK, Place, OnlyRename
\* A step of the loops, or after them.
<1>2. ASSUME found'[r] = found[r], pc[r] \in Carrying,
             pc[r] \in Copying /\ c \in due[r] \ seen[r]
             => \/ pc'[r] \in Copying /\ c \notin seen'[r]
                \/ pc'[r] \in Telling /\ item'[r] = c,
             pc[r] \in Telling /\ item[r] = c /\ c \in accounts /\ roster[c][Old(r)] = "own"
             => \/ roster'[c][New(r)] # "none"
                \/ pc'[r] \in Telling /\ item'[r] = c
      PROVE  /\ c \in accounts' /\ roster'[c][Old(r)] = "own"
             /\ \/ roster'[c][New(r)] # "none"
                \/ pc'[r] \in Copying /\ c \in due'[r] \ seen'[r]
                \/ pc'[r] \in Telling /\ item'[r] = c
  <2>1. c \in found[r].back /\ c \in Contacts
    BY <1>1, <1>2 DEF TypeOK
  <2>2. ~Excused(r, c)
    BY <2>1, Keeps
  <2>3. /\ c \in accounts /\ roster[c][Old(r)] = "own"
        /\ \/ roster[c][New(r)] # "none"
           \/ pc[r] \in Copying /\ c \in due[r] \ seen[r]
           \/ pc[r] \in Telling /\ item[r] = c
    BY <1>2, <2>1, <2>2 DEF BackInv
  <2>4. c \in accounts' /\ c \in Names
    BY <1>1, <2>3, ContactsStay
  <2>5. /\ roster'[c][Old(r)] = "own"
        /\ roster[c][New(r)] # "none" => roster'[c][New(r)] # "none"
    BY <2>3, <2>4, Keeps
  <2>6. c \in due[r] => c \in due'[r]
    BY DueKeeps
  <2>7. QED
    BY <1>2, <2>3, <2>4, <2>5, <2>6
<1>3. CASE Receive(r) \/ FindOld(r)
  BY <1>1, <1>3 DEF Receive, FindOld, Fail, Finish, Goto, Carrying, Copying, IsRename
<1>4. CASE CreateUser(r)
  <2>1. /\ UNCHANGED <<roster, seen>> /\ seen[r] = {} /\ pc'[r] = "items"
        /\ accounts \subseteq accounts'
        /\ found'[r].back = {d \in On(Old(r)) \cap accounts : roster[d][Old(r)] = "own"}
        /\ due'[r] = On(Old(r))'
    BY <1>1, <1>4, CreationFinds, DueKeeps DEF CreateUser, Place, IsRename, Goto, locals
  <2>2. QED
    BY <1>1, <2>1 DEF Copying, On, Old
<1>5. CASE CopyItem(r)
  <2>1. PICK c0 \in On(Old(r)) \ seen[r] :
            /\ item' = [item EXCEPT ![r] = c0] /\ seen' = [seen EXCEPT ![r] = @ \cup {c0}]
            /\ roster' = [roster EXCEPT ![New(r)][c0] = roster[Old(r)][c0]]
    BY <1>5 DEF CopyItem
  <2>2. /\ pc[r] = "items" /\ pc'[r] = "settle" /\ found' = found
        /\ item'[r] = c0 /\ seen'[r] = seen[r] \cup {c0}
    BY <1>1, <1>5, <2>1 DEF CopyItem, Goto, TypeOK, history
  <2>3. QED
    BY <1>2, <2>2 DEF Copying, Carrying, Telling
<1>6. CASE SettleItem(r) \/ LookForOther(r) \/ FetchOther(r)
  <2>1. /\ UNCHANGED <<found, seen, item>> /\ pc[r] \in Telling /\ pc'[r] \in Copying
        /\ item[r] \in accounts => pc'[r] \in Telling
    BY <1>1, <1>6 DEF SettleItem, LookForOther, FetchOther, Fail, Finish, Goto, Copying, Carrying,
       Telling, history, locals
  <2>2. QED
    BY <1>2, <2>1 DEF Copying, Carrying, Telling
<1>7. CASE SkipOther(r)
  <2>1. /\ UNCHANGED <<found, seen>> /\ pc[r] = "fetch" /\ pc'[r] = "items"
        /\ roster[item[r]][Old(r)] = "shared"
    BY <1>1, <1>7 DEF SkipOther, Goto, history, locals
  <2>2. QED
    BY <1>2, <2>1 DEF Copying, Carrying, Telling
<1>8. CASE TellOther(r)
  <2>1. /\ UNCHANGED <<found, seen>> /\ pc[r] = "tell" /\ pc'[r] = "backlink"
        /\ item[r] \in Names /\ roster' = [roster EXCEPT ![item[r]][New(r)] = "own"]
    BY <1>1, <1>8 DEF TellOther, Place, Goto, history, locals
  <2>2. roster'[item[r]][New(r)] # "none"
    BY <1>1, <2>1 DEF TypeOK
  <2>3. QED
    BY <1>1, <1>2, <2>1, <2>2 DEF Copying, Carrying, Telling
<1>9. CASE SettleOther(r)
  <2>1. UNCHANGED <<found, seen>> /\ pc[r] = "backlink" /\ pc'[r] = "items"
    BY <1>1, <1>9 DEF SettleOther, Fail, Finish, Goto, Copying, Carrying, history, locals, server
  <2>2. QED
    BY <1>2, <2>1 DEF Copying, Carrying, Telling
<1>10. CASE ItemsDone(r)
  <2>1. /\ found' = found /\ pc[r] = "items" /\ pc'[r] = "props" /\ due[r] \subseteq seen[r]
    BY <1>1, <1>10 DEF ItemsDone, Goto, history
  <2>2. QED
    BY <1>2, <2>1 DEF Copying, Carrying, Telling
<1>11. CASE CopyProperty(r) \/ PropertiesCopied(r) \/ CopyToGroup(r) \/ GroupsDone(r)
            \/ CopyVCard(r)
  <2>1. found' = found /\ pc[r] \in {"props", "groups", "vcard"}
    BY <1>11 DEF CopyProperty, PropertiesCopied, CopyToGroup, GroupsDone, CopyVCard, history
  <2>2. QED
    BY <1>2, <2>1 DEF Copying, Carrying, Telling
<1>12. CASE \/ NoPassword(r) \/ NameTaken(r) \/ ItemThere(r) \/ ItemRefused(r)
            \/ OtherLacksOld(r) \/ OtherHasNew(r) \/ VCardFails(r) \/ EnableOld(r)
            \/ KickOld(r) \/ DeleteOld(r)
  BY <1>1, <1>12 DEF NoPassword, NameTaken, ItemThere, ItemRefused, OtherLacksOld, OtherHasNew,
     VCardFails, EnableOld, KickOld, DeleteOld, Fail, Finish, Goto, Carrying, Copying
<1>13. CASE \/ FindUser(r) \/ DeleteUser(r) \/ DeleteRoster(r) \/ AddItem(r) \/ DropItem(r)
            \/ Leave(r)
  BY <1>1, <1>13 DEF FindUser, DeleteUser, DeleteRoster, AddItem, DropItem, Leave, Place, IsRename
<1>14. CASE CheckNew(r) \/ ClearProperties(r) \/ PutProperty(r) \/ PropertiesDone(r)
  BY <1>1, <1>14 DEF CheckNew, ClearProperties, PutProperty, PropertiesDone, Fail, Finish, Goto,
     Carrying, Copying
<1>15. QED
  BY <1>3, <1>4, <1>5, <1>6, <1>7, <1>8, <1>9, <1>10, <1>11, <1>12, <1>13, <1>14 DEF Step

-----------------------------------------------------------------------------
(* Properties, and the theorems. *)

\* Who writes properties; all of them write those under the name they are about.
LEMMA Writers ==
    ASSUME NEW s \in Reqs, Receive(s) \/ Step(s)
    PROVE  \/ CreateUser(s) \/ CopyProperty(s) \/ ClearProperties(s) \/ PutProperty(s)
           \/ props' = props
<1> USE DEF Fail, server
<1>1. CASE Receive(s) \/ FindOld(s) \/ NoPassword(s) \/ NameTaken(s) \/ CopyItem(s)
           \/ ItemThere(s) \/ ItemRefused(s) \/ SettleItem(s)
  BY <1>1 DEF Receive, FindOld, NoPassword, NameTaken, CopyItem, ItemThere, ItemRefused, SettleItem
<1>2. CASE LookForOther(s) \/ SkipOther(s) \/ FetchOther(s) \/ OtherLacksOld(s) \/ OtherHasNew(s)
           \/ TellOther(s) \/ SettleOther(s) \/ ItemsDone(s) \/ PropertiesCopied(s)
  BY <1>2 DEF LookForOther, SkipOther, FetchOther, OtherLacksOld, OtherHasNew, TellOther,
     SettleOther, ItemsDone, PropertiesCopied
<1>3. CASE CopyToGroup(s) \/ GroupsDone(s) \/ CopyVCard(s) \/ VCardFails(s) \/ DeleteOld(s)
           \/ EnableOld(s) \/ KickOld(s)
  BY <1>3 DEF CopyToGroup, GroupsDone, CopyVCard, VCardFails, DeleteOld, EnableOld, KickOld
<1>4. CASE FindUser(s) \/ DeleteUser(s) \/ DeleteRoster(s) \/ CheckNew(s) \/ PropertiesDone(s)
           \/ AddItem(s) \/ DropItem(s) \/ Leave(s)
  BY <1>4 DEF FindUser, DeleteUser, DeleteRoster, CheckNew, PropertiesDone, AddItem, DropItem, Leave
<1>5. QED
  BY <1>1, <1>2, <1>3, <1>4 DEF Step

\* What a request does that is about to put properties, or comes to that.
LEMMA Putters ==
    ASSUME TypeInv, NEW r \in Reqs, Receive(r) \/ Step(r), pc'[r] = "put"
    PROVE  ClearProperties(r) \/ (PutProperty(r) /\ pc[r] = "put")
<1>1. pc \in [Reqs -> Labels]
  BY DEF TypeInv, TypeOK
<1> USE DEF Fail, Finish, Goto
<1>2. ~(Receive(r) \/ FindOld(r) \/ NoPassword(r) \/ NameTaken(r) \/ CreateUser(r) \/ CopyItem(r)
        \/ ItemThere(r) \/ ItemRefused(r) \/ SettleItem(r))
  BY <1>1 DEF Receive, FindOld, NoPassword, NameTaken, CreateUser, CopyItem, ItemThere, ItemRefused,
     SettleItem
<1>3. ~(LookForOther(r) \/ SkipOther(r) \/ FetchOther(r) \/ OtherLacksOld(r) \/ OtherHasNew(r)
        \/ TellOther(r) \/ SettleOther(r) \/ ItemsDone(r))
  BY <1>1 DEF LookForOther, SkipOther, FetchOther, OtherLacksOld, OtherHasNew, TellOther,
     SettleOther, ItemsDone
<1>4. ~(CopyProperty(r) \/ PropertiesCopied(r) \/ CopyToGroup(r) \/ GroupsDone(r) \/ CopyVCard(r)
        \/ VCardFails(r) \/ DeleteOld(r) \/ EnableOld(r) \/ KickOld(r))
  BY <1>1 DEF CopyProperty, PropertiesCopied, CopyToGroup, GroupsDone, CopyVCard, VCardFails,
     DeleteOld, EnableOld, KickOld
<1>5. ~(FindUser(r) \/ DeleteUser(r) \/ DeleteRoster(r) \/ CheckNew(r) \/ PropertiesDone(r)
        \/ AddItem(r) \/ DropItem(r) \/ Leave(r))
  BY <1>1 DEF FindUser, DeleteUser, DeleteRoster, CheckNew, PropertiesDone, AddItem, DropItem, Leave
<1>6. QED
  BY <1>2, <1>3, <1>4, <1>5 DEF Step, PutProperty

LEMMA PutKept ==
    ASSUME TypeInv, NEW s \in Reqs, Receive(s) \/ Step(s), NEW r \in Reqs, PutInv(r)
    PROVE  PutInv(r)'
<1>1. /\ req' = req /\ TypeOK /\ Place(r) /\ Place(s) /\ New(r) \in Names /\ New(s) \in Names
      /\ pc \in [Reqs -> Labels] /\ props \in [Names -> SUBSET Props]
      /\ toPut \in [Reqs -> SUBSET Props] /\ req[r].props \subseteq Props
  BY Frame, RequestTypes DEF TypeInv, TypeOK
<1>2. /\ Rivals(r)' = Rivals(r) /\ Rivals(r) \subseteq Reqs /\ New(r)' = New(r)
      /\ Brought(New(r))' = Brought(New(r))
      /\ \A q \in Reqs : IsRename(q)' <=> IsRename(q)
  BY <1>1 DEF Rivals, Brought, New, IsRename
<1>3. SUFFICES ASSUME pc'[r] = "put"
               PROVE  /\ Rivals(r) = {} => props'[New(r)] = req[r].props \ toPut'[r]
                      /\ (\A q \in Rivals(r) : ~IsRename(q))
                         => props'[New(r)] \subseteq Brought(New(r))
  BY <1>1, <1>2 DEF PutInv
<1>4. \A q \in Reqs : New(q) = New(r) => req[q].props \cap Props \subseteq Brought(New(r))
  BY DEF Brought
<1>5. CASE s = r
  <2>1. CASE ClearProperties(r)
    <3>1. props'[New(r)] = {} /\ toPut'[r] = req[r].props
      BY <1>1, <2>1 DEF ClearProperties
    <3>2. QED
      BY <3>1
  <2>2. CASE PutProperty(r) /\ pc[r] = "put"
    <3>1. PICK p \in toPut[r] :
              /\ props' = [props EXCEPT ![New(r)] = @ \cup {p}]
              /\ toPut' = [toPut EXCEPT ![r] = @ \ {p}]
      BY <2>2 DEF PutProperty
    <3>2. /\ props'[New(r)] = props[New(r)] \cup {p} /\ toPut'[r] = toPut[r] \ {p}
          /\ p \in req[r].props /\ toPut[r] \subseteq req[r].props
      BY <1>1, <2>2, <3>1 DEF Place
    <3>3. p \in Brought(New(r))
      BY <1>1, <1>4, <3>2
    <3>4. QED
      BY <2>2, <3>2, <3>3 DEF PutInv
  <2>3. QED
    BY <1>3, <1>5, <2>1, <2>2, Putters
<1>6. CASE s # r
  <2>1. pc[r] = "put" /\ toPut'[r] = toPut[r]
    BY <1>3, <1>6, Frame
  <2>2. CASE props'[New(r)] = props[New(r)]
    BY <2>1, <2>2 DEF PutInv
  <2>3. CASE New(s) # New(r)
    <3>1. props'[New(r)] = props[New(r)]
      BY <1>1, <2>3, Writers DEF CreateUser, CopyProperty, ClearProperties, PutProperty
    <3>2. QED
      BY <2>2, <3>1
  <2>4. CASE New(s) = New(r) /\ IsRename(s)
    BY <1>6, <2>4 DEF Rivals
  <2>5. CASE New(s) = New(r) /\ ~IsRename(s)
    <3>1. s \in Rivals(r)
      BY <1>6, <2>5 DEF Rivals
    <3>2. CASE CreateUser(s) \/ ClearProperties(s)
      <4>1. props'[New(r)] = {}
        BY <1>1, <2>5, <3>2 DEF CreateUser, ClearProperties
      <4>2. QED
        BY <3>1, <4>1
    <3>3. CASE PutProperty(s)
      <4>1. PICK p \in toPut[s] : props' = [props EXCEPT ![New(s)] = @ \cup {p}]
        BY <3>3 DEF PutProperty
      <4>2. p \in req[s].props \cap Props /\ props'[New(r)] = props[New(r)] \cup {p}
        BY <1>1, <2>5, <3>3, <4>1 DEF PutProperty, Place
      <4>3. p \in Brought(New(r))
        BY <1>4, <2>5, <4>2
      <4>4. QED
        BY <2>1, <3>1, <4>2, <4>3 DEF PutInv
    <3>4. ~CopyProperty(s)
      BY <1>1, <2>5 DEF CopyProperty, Place, Carrying, Copying
    <3>5. QED
      BY <2>2, <3>2, <3>3, <3>4, Writers
  <2>6. QED
    BY <2>3, <2>4, <2>5
<1>7. QED
  BY <1>5, <1>6

LEMMA NextInv == IInv /\ [Next]_vars => IInv'
<1> SUFFICES ASSUME IInv, [Next]_vars PROVE IInv'
  OBVIOUS
<1>1. CASE UNCHANGED vars
  <2>1. UNCHANGED <<accounts, roster, members, admins, props, vcards, locked, online, req, pc, item,
                    seen, due, toPut, answer, found, removed>>
    BY <1>1 DEF vars, server, locals, history
  <2>2. TypeInv'
    BY <2>1 DEF IInv, TypeInv, TypeOK, Place, IsRename, Old, New
  <2>3. ASSUME NEW r \in Reqs PROVE CarryInv(r)' /\ BackInv(r)' /\ PutInv(r)'
    <3>1. CarryInv(r) /\ BackInv(r) /\ PutInv(r)
      BY DEF IInv
    <3>2. CarryInv(r)'
      BY <2>1, <3>1 DEF CarryInv, HasItem, HasGroup, HasVCard, On, GroupsOf, IsRename, Old, New
    <3>3. BackInv(r)'
      BY <2>1, <3>1 DEF BackInv, OnlyRename, Excused, On, IsRename, Old, New
    <3>4. PutInv(r)'
      BY <2>1, <3>1 DEF PutInv, New, Rivals, Brought, IsRename
    <3>5. QED
      BY <3>2, <3>3, <3>4
  <2>4. DueInv'
    BY <2>1 DEF IInv, DueInv, On, Old
  <2>5. QED
    BY <2>2, <2>3, <2>4 DEF IInv
<1>2. ASSUME NEW s \in Reqs, Receive(s) \/ Step(s), KeepDue PROVE IInv'
  <2>1. TypeInv /\ TypeInv'
    BY <1>2, StepTypes DEF IInv
  <2>2. ASSUME NEW r \in Reqs PROVE CarryInv(r)' /\ BackInv(r)' /\ PutInv(r)'
    BY <1>2, <2>1, OthersKeep, OwnCarry, OwnBack, PutKept DEF IInv
  <2>3. DueInv'
    <3>1. \A r \in Reqs : due'[r] \subseteq On(Old(r))'
      BY <1>2, <2>1, DueKeeps DEF IInv
    <3>2. QED
      BY <3>1 DEF DueInv
  <2>4. QED
    BY <2>1, <2>2, <2>3 DEF IInv
<1>3. QED
  BY <1>1, <1>2 DEF Next, Drained

\* Of any number of renames and other requests, in every reachable state, IInv holds.
LEMMA Invariance == Spec => []IInv
<1>1. Init => IInv
  <2>1. Init => \A r \in Reqs : CarryInv(r) /\ BackInv(r) /\ PutInv(r)
    BY DEF Init, CarryInv, BackInv, PutInv, Carrying, Copying
  <2>2. Init => DueInv
    BY DEF Init, DueInv
  <2>3. QED
    BY <2>1, <2>2, InitTypes DEF IInv
<1>2. QED
  BY <1>1, NextInv, PTL DEF Spec

\* Every variable has its type.
THEOREM TypeSafety == Spec => []TypeOK
<1>1. IInv => TypeOK
  BY DEF IInv, TypeInv
<1>2. QED
  BY <1>1, Invariance, PTL

\* When changeName deletes the old account the new one has all the old one had when the
\* new one was made, or somebody else took it away, whatever ran in between.
THEOREM RenameIsComplete == Spec => []NothingLeftBehind
<1>1. IInv => NothingLeftBehind
  BY DEF IInv, CarryInv, NothingLeftBehind, HasItem, HasGroup, HasVCard, Carrying, Copying
<1>2. QED
  BY <1>1, Invariance, PTL

\* The contacts that had the old name have the new one when changeName deletes the old
\* account, if no other rename runs and nobody took the other off the roster.
THEOREM ContactsLearn == Spec => []ContactsFollow
<1>1. IInv => ContactsFollow
  BY DEF IInv, BackInv, ContactsFollow, OnlyRename, Excused, Carrying, Copying, Telling
<1>2. QED
  BY <1>1, Invariance, PTL

\* When addProperties is over the properties under the name are those it was to put or,
\* if other requests create the name as well, ones that they or it brought.
THEOREM NothingElseIsPut == Spec => []PropertiesAreReplaced
<1>1. IInv => PropertiesAreReplaced
  BY DEF IInv, PutInv, PropertiesAreReplaced, IsRename
<1>2. QED
  BY <1>1, Invariance, PTL
=============================================================================
