---------------------------- MODULE Affiliations ----------------------------
(***************************************************************************)
(* The affiliations of one multi-user chat room, and what the REST API     *)
(* computes about them.  A room maps every address to the one list that    *)
(* holds it, or to "none"; the requests of the API speak of four lists.    *)
(*                                                                         *)
(* Lists, Conflicts and Move stand for MUCRoom of Openfire, which is       *)
(* outside this repository: they say what the plugin relies on when it     *)
(* calls addOwner, addAdmin, addMember, addOutcast and addNone.            *)
(***************************************************************************)
EXTENDS FiniteSets

CONSTANTS
    Jids,          \* addresses of users and of user groups
    Groups,        \* the addresses that are group addresses
    DefaultOwner   \* the address of the server's "admin" user

ASSUME JidAssumption ==
    /\ Groups \subseteq Jids
    /\ DefaultOwner \in Jids \ Groups

Lists == {"owner", "admin", "member", "outcast"}
Affs  == Lists \cup {"none"}

-----------------------------------------------------------------------------
(* What MUCRoom does. *)

Unaffiliated == [j \in Jids |-> "none"]

\* The addresses on list l of a room with affiliations a.
Holding(a, l) == {j \in Jids : a[j] = l}

\* Every address with an affiliation.
Affiliated(a) == {j \in Jids : a[j] # "none"}

\* A room never gives up its last owner: the call raises ConflictException.
Conflicts(a, j, l) == l # "owner" /\ Holding(a, "owner") = {j}

\* An address has one affiliation: a new one replaces any other.
Move(a, j, l) == [a EXCEPT ![j] = l]

-----------------------------------------------------------------------------
(* What the plugin computes from the lists of a room entity. *)

\* createRoom adds the default owner to an entity that names no user as owner.
\* (Owner groups are a field of their own and do not count.)
WithDefaultOwner(w) ==
    IF w["owner"] \subseteq Groups
    THEN [w EXCEPT !["owner"] = @ \cup {DefaultOwner}]
    ELSE w

\* Issue #159: a user may not be on two lists.  The check of createRoom leaves
\* the group lists of the entity out.
Duplicates(w) ==
    {j \in Jids \ Groups : \E l, m \in Lists : l # m /\ j \in w[l] \cap w[m]}

EqualToAffiliations(a, w) == \A l \in Lists : Holding(a, l) = w[l]

\* Faulty variant of NextOf: there is something after the last list.
NextOrNone(l) == CASE l = "owner"   -> "admin"
                   [] l = "admin"   -> "member"
                   [] l = "member"  -> "outcast"
                   [] l = "outcast" -> "none"

\* The order in which setRoles goes through the lists.
NextOf(l) == CASE l = "owner"   -> "admin"
               [] l = "admin"   -> "member"
               [] l = "member"  -> "outcast"
               [] l = "outcast" -> "outcast"

\* Faulty variant of InviteAfter: owners are passed over.
InviteNoOwners(l) == CASE l = "admin"   -> "member"
                       [] l = "owner"   -> "member"
                       [] l = "member"  -> "outcast"
                       [] l = "outcast" -> "outcast"

\* The order in which sendInvitationsFromRoom goes through them, "outcast"
\* standing for the end: outcasts are not invited.
InviteAfter(l) == CASE l = "admin"   -> "owner"
                    [] l = "owner"   -> "member"
                    [] l = "member"  -> "outcast"
                    [] l = "outcast" -> "outcast"
=============================================================================
