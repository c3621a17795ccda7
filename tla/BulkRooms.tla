----------------------------- MODULE BulkRooms ------------------------------
(***************************************************************************)
(* Requests on the rooms of one multi-user chat service that name more     *)
(* than one room, or the service itself:                                   *)
(*   bulk      createMultipleChatRooms: rooms in turn, each reported       *)
(*   service   createChatService                                           *)
(*   destroy   deleteChatRoom, the request that may take a room away again *)
(* The check for the service and its creation run without a lock.  The     *)
(* section of createRoom is one step here: RoomRequests models it call by  *)
(* call, and RoomRequests_proofs shows that sections exclude each other    *)
(* while plugin.restapi.muc.room-mutex.enabled stays on.  With the         *)
(* property off they may interleave, which this module does not show.      *)
(***************************************************************************)
EXTENDS Naturals, Sequences, SequencesExt, FiniteSets

CONSTANTS
    Reqs,       \* identities of the requests (one thread each)
    RoomNames,  \* names of rooms of the service
    Requests    \* what clients may ask for

\* How the description of a room fares in createRoom:
\*   fine        nothing is wrong with it
\*   unparsable  an address is none: IllegalArgumentException at the start
\*   duplicate   a user is on two lists: ConflictException before the service
\*   refused     its owner may not make rooms: NotAllowedException
\*   outcast     addOutcast may refuse: NotAllowedException inside the section
\*   badrole     a role name is none: IllegalArgumentException inside it
Faults == {"fine", "unparsable", "duplicate", "refused", "outcast", "badrole"}
Entities == [name : RoomNames, fault : Faults]

Outcomes == {"created", "existed", "failure"}
Answers == {"none", "report", "ok", "404", "409", "error"}

ASSUME BulkAssumption ==
    \A q \in Requests :
        /\ q.kind \in {"bulk", "service", "destroy"}
        /\ q.batch \in Seq(Entities)
        /\ q.name \in RoomNames

VARIABLES
    registered,  \* the service exists
    rooms,       \* per name: "none", "locked" (left half made) or "open"
    req,         \* what each request asks for
    pc,          \* where its thread is
    at,          \* bulk: index of the room it is working on
    report,      \* bulk: the results so far
    answer       \* what the client was told

node == <<registered, rooms>>
vars == <<node, req, pc, at, report, answer>>

Entity(r) == req[r].batch[at[r]]

Goto(r, l) == pc' = [pc EXCEPT ![r] = l]

Finish(r, a) ==
    /\ answer' = [answer EXCEPT ![r] = a]
    /\ Goto(r, "done")

Init ==
    /\ registered \in BOOLEAN
    /\ rooms \in [RoomNames -> {"none", "open"}]
    /\ ~registered => rooms = [n \in RoomNames |-> "none"]
    /\ req \in [Reqs -> Requests]
    /\ pc = [r \in Reqs |-> "idle"]
    /\ at = [r \in Reqs |-> 1]
    /\ report = [r \in Reqs |-> <<>>]
    /\ answer = [r \in Reqs |-> "none"]

Receive(r) ==
    /\ pc[r] = "idle"
    /\ Goto(r, CASE req[r].kind = "bulk"    -> "next"
                 [] req[r].kind = "service" -> "mkservice"
                 [] req[r].kind = "destroy" -> "destroy")
    /\ UNCHANGED <<node, req, at, report, answer>>

-----------------------------------------------------------------------------
(* The loop of createMultipleChatRooms. *)

\* Faulty variant of Report: a failed room is tried again.
ReportAndRetry(r, o) ==
    /\ report' = IF o = "failure" THEN report ELSE [report EXCEPT ![r] = Append(@, o)]
    /\ at' = IF o = "failure" THEN at ELSE [at EXCEPT ![r] = @ + 1]
    /\ Goto(r, "next")
    /\ UNCHANGED <<req, answer>>

\* Faulty variant of Report: results.add inside the try, after createRoom.
ReportSuccessOnly(r, o) ==
    /\ report' = IF o = "failure" THEN report ELSE [report EXCEPT ![r] = Append(@, o)]
    /\ at' = [at EXCEPT ![r] = @ + 1]
    /\ Goto(r, "next")
    /\ UNCHANGED <<req, answer>>

\* results.add, and on to the next room.
Report(r, o) ==
    /\ report' = [report EXCEPT ![r] = Append(@, o)]
    /\ at' = [at EXCEPT ![r] = @ + 1]
    /\ Goto(r, "next")
    /\ UNCHANGED <<req, answer>>

\* Any other exception ends the request; the results so far are dropped.
BreakOff(r) ==
    /\ Finish(r, "error")
    /\ UNCHANGED <<req, at, report>>

EndOfBatch(r) ==
    /\ pc[r] = "next" /\ at[r] > Len(req[r].batch)
    /\ Finish(r, "report")
    /\ UNCHANGED <<node, req, at, report>>

RejectDuplicates(r) ==
    /\ pc[r] = "next" /\ at[r] <= Len(req[r].batch)
    /\ Entity(r).fault = "duplicate"
    /\ Report(r, "failure")
    /\ UNCHANGED node

BreakOffUnparsable(r) ==
    /\ pc[r] = "next" /\ at[r] <= Len(req[r].batch)
    /\ Entity(r).fault = "unparsable"
    /\ BreakOff(r)
    /\ UNCHANGED node

-----------------------------------------------------------------------------
(* The service, for a room whose addresses parse and differ. *)

\* Faulty variant of CheckService: rely on the exception instead of the check.
CheckNothing(r) ==
    /\ pc[r] = "next" /\ at[r] <= Len(req[r].batch)
    /\ Entity(r).fault \notin {"unparsable", "duplicate"}
    /\ Goto(r, "mkservice")
    /\ UNCHANGED <<node, req, at, report, answer>>

CheckService(r) ==
    /\ pc[r] = "next" /\ at[r] <= Len(req[r].batch)
    /\ Entity(r).fault \notin {"unparsable", "duplicate"}
    /\ Goto(r, IF registered THEN "section" ELSE "mkservice")
    /\ UNCHANGED <<node, req, at, report, answer>>

CreateService(r) ==
    /\ pc[r] = "mkservice" /\ ~registered
    /\ registered' = TRUE
    /\ IF req[r].kind = "bulk"
       THEN Goto(r, "section") /\ answer' = answer
       ELSE Finish(r, "ok")
    /\ UNCHANGED <<rooms, req, at, report>>

\* AlreadyExistsException, which a bulk takes for a room that exists.
ServiceExists(r) ==
    /\ pc[r] = "mkservice" /\ registered
    /\ IF req[r].kind = "bulk"
       THEN Report(r, "existed")
       ELSE Finish(r, "409") /\ UNCHANGED <<req, at, report>>
    /\ UNCHANGED node

-----------------------------------------------------------------------------
(* The section of createRoom. *)

\* The room is made, or overwritten; its owner needs leave to make a new one.
MakeRoom(r) ==
    LET e == Entity(r) IN
    /\ pc[r] = "section"
    /\ \/ e.fault \in {"fine", "outcast"}
       \/ e.fault = "refused" /\ rooms[e.name] # "none"
    /\ rooms' = [rooms EXCEPT ![e.name] = "open"]
    /\ Report(r, "created")
    /\ UNCHANGED registered

RefuseRoom(r) ==
    /\ pc[r] = "section" /\ Entity(r).fault = "refused"
    /\ rooms[Entity(r).name] = "none"
    /\ Report(r, "failure")
    /\ UNCHANGED node

\* getChatRoom has put a new room there, locked, when the section fails.
LeaveHalfMade(n) == rooms' = [rooms EXCEPT ![n] = IF @ = "none" THEN "locked" ELSE @]

\* Faulty variant of FailInside: the exception is logged and lost.
FailInsideSilently(r) ==
    /\ pc[r] = "section" /\ Entity(r).fault = "outcast"
    /\ LeaveHalfMade(Entity(r).name)
    /\ Report(r, "created")
    /\ UNCHANGED registered

FailInside(r) ==
    /\ pc[r] = "section" /\ Entity(r).fault = "outcast"
    /\ LeaveHalfMade(Entity(r).name)
    /\ Report(r, "failure")
    /\ UNCHANGED registered

BreakOffInside(r) ==
    /\ pc[r] = "section" /\ Entity(r).fault = "badrole"
    /\ LeaveHalfMade(Entity(r).name)
    /\ BreakOff(r)
    /\ UNCHANGED registered

\* deleteChatRoom: the service and the room must be there.
DestroyRoom(r) ==
    LET n == req[r].name IN
    /\ pc[r] = "destroy"
    /\ rooms' = [rooms EXCEPT ![n] = "none"]
    /\ Finish(r, IF rooms[n] = "none" THEN "404" ELSE "ok")
    /\ UNCHANGED <<registered, req, at, report>>

-----------------------------------------------------------------------------
Step(r) ==
    \/ EndOfBatch(r) \/ RejectDuplicates(r) \/ BreakOffUnparsable(r)
    \/ CheckService(r) \/ CreateService(r) \/ ServiceExists(r)
    \/ MakeRoom(r) \/ RefuseRoom(r) \/ FailInside(r) \/ BreakOffInside(r)
    \/ DestroyRoom(r)

Drained == (\A r \in Reqs : pc[r] = "done") /\ UNCHANGED vars

Next == (\E r \in Reqs : Receive(r) \/ Step(r)) \/ Drained

Spec == Init /\ [][Next]_vars

\* A thread that can go on does; requests need not arrive.
FairSpec == Spec /\ \A r \in Reqs : WF_vars(Step(r))

-----------------------------------------------------------------------------
(* Properties. *)

\* Every variable has its type; a report has one result per room worked off,
\* and rooms exist only in a service that does.
TypeOK ==
    /\ registered \in BOOLEAN
    /\ rooms \in [RoomNames -> {"none", "locked", "open"}]
    /\ req \in [Reqs -> Requests]
    /\ pc \in [Reqs -> {"idle", "next", "mkservice", "section", "destroy", "done"}]
    /\ at \in [Reqs -> Nat \ {0}]
    /\ report \in [Reqs -> Seq(Outcomes)]
    /\ answer \in [Reqs -> Answers]
    /\ \A r \in Reqs : Len(report[r]) = at[r] - 1
    /\ registered \/ \A n \in RoomNames : rooms[n] = "none"

Destroyed(n) ==
    \E r \in Reqs : req[r].kind = "destroy" /\ req[r].name = n /\ answer[r] = "ok"

\* A room that a bulk counts as created is open, and stays so whatever the later
\* rooms of the batch and the other requests run into (a half-made room of the
\* same name, an error that ends the batch), unless a destroy took it away.
CreatedRoomsAreOpen ==
    \A r \in Reqs : \A i \in DOMAIN report[r] :
        LET n == req[r].batch[i].name IN
        report[r][i] = "created" => rooms[n] = "open" \/ Destroyed(n)

\* A failed room spoils only itself: no room that is fine is reported as failed,
\* and a report that is sent covers the whole batch.
FailuresAreOwn ==
    \A r \in Reqs :
        /\ \A i \in DOMAIN report[r] :
               report[r][i] = "failure" => req[r].batch[i].fault # "fine"
        /\ answer[r] = "report" => Len(report[r]) = Len(req[r].batch)

\* The race for the service is lost at most once per batch: from then on the
\* check finds it.
LostRaceOnce ==
    \A r \in Reqs :
        Cardinality({i \in DOMAIN report[r] : report[r][i] = "existed"}) <= 1

\* Every request that arrives is answered: a batch goes on after each room,
\* whatever became of it.
EveryBatchEnds == \A r \in Reqs : pc[r] # "idle" ~> pc[r] = "done"

-----------------------------------------------------------------------------
(* What a message says, and the code does not do. *)

\* "Room already existed and therefore not created again": there was a room when
\* the result was added.
ExistedMeansRoom ==
    [][\A r \in Reqs :
         Len(report'[r]) > Len(report[r]) /\ Last(report'[r]) = "existed"
         => rooms[Entity(r).name] # "none"]_vars
=============================================================================
