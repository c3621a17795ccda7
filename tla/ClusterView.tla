---------------------------- MODULE ClusterView ----------------------------
(***************************************************************************)
(* What the requests on a room promise to whoever looks at the room from   *)
(* another cluster node: a request takes effect there in one step or not   *)
(* at all.  Nobody sees a put half done, a failed request shows nothing,   *)
(* and an answer, once known, stays.  RoomRequests implements this while   *)
(* the room mutex is on; it does so through many steps of many threads.    *)
(***************************************************************************)
EXTENDS Affiliations

CONSTANTS
    Reqs,         \* identities of the requests
    Requests,     \* what clients may ask for
    Confs,        \* configurations of a room
    NoRoom        \* "there is no such room"

VARIABLES
    shown,        \* the room as the other nodes see it
    asked,        \* what each request asks for
    answer        \* its outcome, "none" until known

vars == <<shown, asked, answer>>

Failures == {"403", "404", "409", "500"}

Rooms == [aff : [Jids -> Affs], conf : Confs]

\* Only an entity with a group on two lists has no exact room.
HasExactRoom(w) == \A l, m \in Lists : l # m => w[l] \cap w[m] = {}

\* The room is what the entity of the put q says.
Exact(q, v) ==
    LET w == WithDefaultOwner(q.want) IN
    /\ v.conf = q.conf
    /\ HasExactRoom(w) => EqualToAffiliations(v.aff, w)

\* The rooms that may be seen after the success of q.
Outcomes(q) ==
    IF q.kind = "destroy" THEN {NoRoom}
    ELSE {v \in Rooms :
            /\ Holding(v.aff, "owner") # {}
            /\ q.kind \in {"create", "update"} => Exact(q, v)
            /\ q.kind = "remove" => \A j \in q.jids : v.aff[j] = "none"}

Init ==
    /\ shown \in Rooms \cup {NoRoom}
    /\ asked \in [Reqs -> Requests]
    /\ answer = [r \in Reqs |-> "none"]

\* The request succeeds and, unless it only reads, shows its outcome.
Succeed(r) ==
    /\ answer[r] = "none"
    /\ answer' = [answer EXCEPT ![r] = "ok"]
    /\ IF asked[r].kind = "get" THEN shown' = shown ELSE shown' \in Outcomes(asked[r])
    /\ asked' = asked

\* It fails, and the other nodes see nothing of what it did.
Fail(r) ==
    /\ answer[r] = "none"
    /\ \E code \in Failures : answer' = [answer EXCEPT ![r] = code]
    /\ UNCHANGED <<shown, asked>>

Next == \E r \in Reqs : Succeed(r) \/ Fail(r)

Spec == Init /\ [][Next]_vars
=============================================================================
