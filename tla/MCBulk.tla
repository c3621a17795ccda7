------------------------------- MODULE MCBulk -------------------------------
(***************************************************************************)
(* Instances of BulkRooms for TLC: two rooms, and three requests that meet *)
(* on a service that may be missing.                                       *)
(***************************************************************************)
EXTENDS BulkRooms

CONSTANTS lobby, annex, r1, r2, r3

MCRoomNames == {lobby, annex}
MCReqs == {r1, r2, r3}

Bulk(es) == [kind |-> "bulk", batch |-> es, name |-> lobby]
A(n, f) == [name |-> n, fault |-> f]

\* Batches that fail in every way before and after a room that is fine, and that
\* name a room twice; a service; a destroy.
MCRequests ==
    { Bulk(<<A(lobby, "fine"), A(annex, "fine")>>),
      Bulk(<<A(annex, "duplicate"), A(lobby, "refused"), A(annex, "outcast")>>),
      Bulk(<<A(lobby, "outcast"), A(lobby, "fine"), A(annex, "badrole")>>),
      Bulk(<<A(annex, "fine"), A(lobby, "unparsable"), A(lobby, "fine")>>),
      [kind |-> "service", batch |-> <<>>, name |-> lobby],
      [kind |-> "destroy", batch |-> <<>>, name |-> lobby] }
=============================================================================
