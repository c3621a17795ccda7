------------------------------ MODULE MCRename ------------------------------
(***************************************************************************)
(* Instances of UserRename for TLC.  Ann is to become beth.  Her contacts  *)
(* are carl, who has her on his roster, and dora, whom she has only        *)
(* through a shared group; carl has one on another server too.  Ann is a   *)
(* member of one group and an administrator of another.                    *)
(***************************************************************************)
EXTENDS UserRename

CONSTANTS ann, beth, carl, dora, eve, remote, crew, staff, key, r1, r2, r3

MCNames == {ann, beth, carl, dora, eve}
MCRemotes == {remote}
MCGroups == {crew, staff}
MCProps == {key}

MCWorld ==
    [accounts |-> {ann, carl, dora},
     roster |-> [n \in MCNames |->
        CASE n = ann  -> [c \in Contacts |-> CASE c = dora -> "shared"
                              [] c = carl -> "own" [] OTHER -> "none"]
          [] n = carl -> [c \in Contacts |-> IF c \in {ann, remote} THEN "own" ELSE "none"]
          [] n = dora -> [c \in Contacts |-> IF c = ann THEN "shared" ELSE "none"]
          [] OTHER    -> [c \in Contacts |-> "none"]],
     members |-> [g \in MCGroups |-> IF g = crew THEN {ann, carl} ELSE {}],
     admins  |-> [g \in MCGroups |-> IF g = staff THEN {ann} ELSE {}],
     props   |-> [n \in MCNames |-> IF n = ann THEN {key} ELSE {}],
     vcards  |-> {ann}, locked |-> {ann}, online |-> {ann, carl}]

Request(k, n) ==
    [kind |-> k, name |-> n, to |-> n, contact |-> carl, group |-> crew, props |-> {}]

Rename(n, m, ps) == [Request("rename", n) EXCEPT !.to = m, !.props = ps]
Edit(k, n, c) == [Request(k, n) EXCEPT !.contact = c]

Together(p, q) ==
    [r \in {r1, r2, r3} |-> CASE r = r1 -> Rename(ann, beth, {}) [] r = r2 -> p [] r = r3 -> q]

MCRenames == { Rename(ann, eve, {}), Rename(carl, eve, {}), Rename(beth, eve, {key}) }

MCOthers ==
    { Request("delete", ann), Request("delete", beth), Request("delete", carl),
      [Request("create", beth) EXCEPT !.props = {key}] }

MCEdits ==
    { Edit("addItem", carl, beth), Edit("addItem", beth, carl),
      Edit("dropItem", carl, ann), Edit("dropItem", ann, carl),
      Edit("dropItem", beth, carl), Edit("dropItem", carl, beth),
      Request("leave", ann) }

\* Ann's rename meets another of her, of carl or of her new name; or a deletion of
\* any of them or a creation of her new name, and an edit of a roster or a group;
\* or a deletion of her new name and another creation of it.
MCReqs == {r1, r2, r3}
MCRequests ==
    {Together(p, q) : p \in MCRenames, q \in {Edit("dropItem", carl, ann)}}
    \cup {Together(p, q) : p \in MCOthers, q \in MCEdits}
    \cup {Together(Request("delete", beth), [Request("create", beth) EXCEPT !.props = ps]) :
             ps \in {{}, {key}}}
=============================================================================
