------------------------------- MODULE MCRoom -------------------------------
(***************************************************************************)
(* Instances of RoomRequests for TLC: three users and one group, and the   *)
(* requests of two or three clients that meet on one room.                 *)
(***************************************************************************)
EXTENDS RoomRequests

CONSTANTS admin, ann, bob, staff, plain, secret, r1, r2

MCJids   == {admin, ann, bob, staff}
MCGroups == {staff}
TwoReqs  == {r1, r2}
MCConfs  == {plain, secret}

None4 == [l \in Lists |-> {}]

Request(k) ==
    [kind |-> k, want |-> None4, conf |-> plain, rolesOk |-> TRUE,
     list |-> "owner", jids |-> {}, invite |-> TRUE]

Put(k, o, a, m, c) ==
    [Request(k) EXCEPT !.conf = secret,
        !.want = [l \in Lists |-> CASE l = "owner" -> o [] l = "admin" -> a
                                    [] l = "member" -> m [] l = "outcast" -> c]]

Delta(k, l, js) == [Request(k) EXCEPT !.list = l, !.jids = js]

\* Puts that swap roles, name no owner, list a user twice, a group twice, or a
\* role that is none; one change of each list; the other operations.
MCRequests ==
    { Put("create", {ann}, {bob}, {staff}, {}),
      Put("update", {bob}, {}, {ann}, {admin, staff}),
      Put("update", {}, {staff}, {bob}, {}),
      Put("create", {ann, bob}, {ann}, {}, {}),
      Put("update", {ann, staff}, {}, {staff}, {bob}),
      [Put("create", {bob}, {ann}, {}, {}) EXCEPT !.rolesOk = FALSE],
      Delta("replace", "admin", {ann}),
      Delta("replace", "owner", {bob}),
      Delta("replace", "member", {bob, staff}),
      Delta("replace", "outcast", {ann}),
      Delta("add", "member", {ann}),
      Delta("add", "owner", {staff}),
      Delta("remove", "owner", {ann}),
      Delta("remove", "admin", {bob}),
      Request("destroy"),
      Request("get") }

\* Enough to meet without exclusion: an update, a create that makes the room or
\* finds it, one whose roles are refused halfway, a replace, an add, a remove and
\* a destroy.
MCToggleRequests ==
    { Put("create", {ann}, {bob}, {}, {}),
      Put("update", {bob}, {}, {ann}, {}),
      [Put("update", {bob}, {}, {}, {}) EXCEPT !.rolesOk = FALSE],
      Delta("replace", "owner", {bob}),
      Delta("add", "member", {ann}),
      Delta("remove", "owner", {ann}),
      Request("destroy") }

Room(o, a, m, c) ==
    [j \in MCJids |-> CASE j \in o -> "owner"  [] j \in a -> "admin"
                        [] j \in m -> "member" [] j \in c -> "outcast"
                        [] OTHER -> "none"]

MCInitialRooms ==
    { NoRoom,
      Room({ann}, {bob}, {}, {}),
      Room({ann, admin}, {}, {staff}, {bob}) }

MCToggleRooms == { NoRoom, Room({ann}, {}, {bob}, {}) }
=============================================================================
