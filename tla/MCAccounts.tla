----------------------------- MODULE MCAccounts -----------------------------
(***************************************************************************)
(* Instances of UserAccounts for TLC: three requests on groups, or on a    *)
(* user's lockout and sessions.                                            *)
(***************************************************************************)
EXTENDS UserAccounts

CONSTANTS ann, beth, carl, crew, staff, guild, r1, r2, r3, s1, s2

MCUsers == {ann, beth, carl}
MCGroups == {crew, staff, guild}
MCReqs == {r1, r2, r3}
MCEarlier == {s1, s2}

\* Ann is a member of the crew and beth its administrator; ann is in the staff.
MCWorld ==
    [accounts |-> {ann, beth}, locked |-> {}, sessions |-> {ann} \X MCEarlier,
     groups |-> {crew, staff},
     role |-> [g \in MCGroups |-> [u \in MCUsers |->
        CASE g = crew /\ u = ann  -> "member"
          [] g = crew /\ u = beth -> "admin"
          [] g = staff /\ u = ann -> "member"
          [] OTHER                -> "none"]]]

Blank(k, u) ==
    [kind |-> k, user |-> u, names |-> << >>, group |-> crew,
     members |-> {}, admins |-> {}, fault |-> "fine"]
OnList(k, u, s) == [Blank(k, u) EXCEPT !.names = s]
Group(k, g, m, a) == [Blank(k, carl) EXCEPT !.group = g, !.members = m, !.admins = a]

MCUpdates ==
    { Group("updateGroup", crew, {ann, carl}, {}), Group("updateGroup", crew, {ann}, {beth}),
      Group("updateGroup", crew, {beth}, {}), Group("updateGroup", crew, {carl}, {beth}) }
MCLists ==
    { OnList("addTo", ann, <<crew>>), OnList("addTo", carl, <<crew, guild>>),
      OnList("dropFrom", ann, <<crew, guild>>), OnList("dropFrom", ann, <<staff, crew>>),
      OnList("legacyCreate", carl, <<staff, guild>>),
      OnList("legacyUpdate", ann, <<guild>>), OnList("legacyUpdate", beth, <<guild, staff>>),
      OnList("legacyUpdate", carl, <<crew>>) }
MCGroupOps ==
    { Group("createGroup", guild, {ann}, {beth}), Group("deleteGroup", crew, {}, {}),
      Group("deleteGroup", guild, {}, {}),
      [Group("updateGroup", crew, {}, {}) EXCEPT !.fault = "misnamed"],
      [Group("createGroup", guild, {}, {}) EXCEPT !.fault = "absent"],
      [Group("createGroup", guild, {ann}, {}) EXCEPT !.fault = "unshared"],
      [Group("updateGroup", crew, {carl}, {}) EXCEPT !.fault = "unshared"],
      [Group("updateGroup", crew, {}, {}) EXCEPT !.fault = "unparsable"] }
MCSessionOps ==
    { Blank(k, ann) :
        k \in {"login", "disable", "legacyDisable", "enable", "kick", "delete", "create"} }

Together(p, q, s) == [r \in MCReqs |-> CASE r = r1 -> p [] r = r2 -> q [] r = r3 -> s]

MCRequests ==
    { Together(p, q, s) : p \in MCUpdates, q \in MCUpdates,
                          s \in {Group("updateGroup", crew, {ann, beth}, {})} }
    \cup { Together(p, q, s) :
              p \in MCUpdates, q \in MCUpdates,
              s \in {Blank("delete", beth), OnList("legacyUpdate", ann, <<guild>>)} }
    \cup { Together(p, q, s) : p \in MCLists, q \in MCLists, s \in MCGroupOps }
    \cup { Together(p, q, Blank("disable", ann)) : p \in MCSessionOps, q \in MCSessionOps }
=============================================================================
