-------------------------- MODULE BulkRooms_proofs --------------------------
(***************************************************************************)
(* Proofs about BulkRooms, for every set of requests, room names and       *)
(* batches: what a batch reports is so, whatever else runs.                *)
(***************************************************************************)
EXTENDS BulkRooms, FiniteSetTheorems, TLAPS

IsBulk(r) == req[r].kind = "bulk"
Batch(r) == req[r].batch

\* The position and the label of a thread agree with its request.
PlaceInv ==
    \A r \in Reqs :
        /\ IsBulk(r) => at[r] <= Len(Batch(r)) + 1
        /\ ~IsBulk(r) => at[r] = 1
        /\ pc[r] \in {"next", "section"} => IsBulk(r)
        /\ pc[r] = "destroy" => req[r].kind = "destroy"
        /\ pc[r] \in {"mkservice", "section"} /\ IsBulk(r) =>
               at[r] <= Len(Batch(r)) /\ Entity(r).fault \notin {"unparsable", "duplicate"}
        /\ pc[r] = "section" => registered
        /\ answer[r] # "none" => pc[r] = "done"

TypeInv == TypeOK /\ PlaceInv

\* A batch that has lost the race for the service will find it.
Existed(r) == {i \in DOMAIN report[r] : report[r][i] = "existed"}
RaceInv ==
    \A r \in Reqs :
        /\ \A i, j \in Existed(r) : i = j
        /\ Existed(r) # {} => registered /\ pc[r] # "mkservice"

IInv == TypeInv /\ RaceInv /\ FailuresAreOwn /\ CreatedRoomsAreOpen

-----------------------------------------------------------------------------
(* Facts that several steps use. *)

\* What a request may be.
LEMMA RequestTypes ==
    ASSUME TypeOK, NEW r \in Reqs
    PROVE  /\ req[r].kind \in {"bulk", "service", "destroy"}
           /\ Batch(r) \in Seq(Entities) /\ Len(Batch(r)) \in Nat
           /\ req[r].name \in RoomNames
           /\ \A i \in 1..Len(Batch(r)) : Batch(r)[i] \in Entities
           /\ report[r] \in Seq(Outcomes) /\ Len(report[r]) = at[r] - 1
           /\ DOMAIN report[r] = 1..(at[r] - 1)
           /\ at[r] \in Nat \ {0}
BY BulkAssumption DEF TypeOK, Batch

\* A result is added behind those there are.
LEMMA ReportAppends ==
    ASSUME TypeInv, NEW r \in Reqs, NEW o \in Outcomes,
           pc[r] \in {"next", "mkservice", "section"}, IsBulk(r),
           at[r] <= Len(Batch(r)), Report(r, o)
    PROVE  /\ pc' = [pc EXCEPT ![r] = "next"] /\ at' = [at EXCEPT ![r] = at[r] + 1]
           /\ UNCHANGED <<req, answer>>
           /\ report' = [report EXCEPT ![r] = Append(report[r], o)]
           /\ report'[r] \in Seq(Outcomes) /\ Len(report'[r]) = at[r]
           /\ DOMAIN report'[r] = 1..at[r]
           /\ \A i \in 1..(at[r] - 1) : report'[r][i] = report[r][i]
           /\ report'[r][at[r]] = o
           /\ \A s \in Reqs \ {r} : report'[s] = report[s]
<1>1. /\ report[r] \in Seq(Outcomes) /\ Len(report[r]) = at[r] - 1 /\ at[r] \in Nat \ {0}
  BY RequestTypes DEF TypeInv
<1>2. /\ Append(report[r], o) \in Seq(Outcomes) /\ Len(Append(report[r], o)) = at[r]
      /\ DOMAIN Append(report[r], o) = 1..at[r]
      /\ \A i \in 1..(at[r] - 1) : Append(report[r], o)[i] = report[r][i]
      /\ Append(report[r], o)[at[r]] = o
  BY <1>1
<1>3. QED
  BY <1>2 DEF Report, Goto, TypeInv, TypeOK

-----------------------------------------------------------------------------
(* The invariant holds at first. *)

LEMMA InitInv == Init => IInv
<1> SUFFICES ASSUME Init PROVE IInv
  OBVIOUS
<1>1. TypeInv
  BY BulkAssumption DEF Init, TypeInv, TypeOK, PlaceInv, IsBulk, Batch, Answers, Outcomes
<1>2. \A r \in Reqs : DOMAIN report[r] = {}
  BY DEF Init
<1>3. QED
  BY <1>1, <1>2 DEF Init, IInv, RaceInv, Existed, FailuresAreOwn, CreatedRoomsAreOpen

-----------------------------------------------------------------------------
(* Each step keeps the types and the places. *)

LEMMA StepTypes ==
    ASSUME TypeInv, NEW r \in Reqs, Receive(r) \/ Step(r)
    PROVE  TypeInv'
<1>1. /\ req[r].kind \in {"bulk", "service", "destroy"} /\ Len(Batch(r)) \in Nat
      /\ req[r].name \in RoomNames
      /\ \A i \in 1..Len(Batch(r)) : Batch(r)[i] \in Entities
      /\ report[r] \in Seq(Outcomes) /\ Len(report[r]) = at[r] - 1
      /\ at[r] \in Nat \ {0}
  BY RequestTypes DEF TypeInv
<1>2. ASSUME NEW o \in Outcomes, Report(r, o), at[r] <= Len(Batch(r)), IsBulk(r),
             pc[r] \in {"next", "mkservice", "section"},
             registered' = registered,
             rooms' \in [RoomNames -> {"none", "locked", "open"}],
             registered \/ \A n \in RoomNames : rooms'[n] = "none"
      PROVE  TypeInv'
  <2>1. /\ pc' = [pc EXCEPT ![r] = "next"] /\ at' = [at EXCEPT ![r] = at[r] + 1]
        /\ UNCHANGED <<req, answer>>
        /\ report' = [report EXCEPT ![r] = Append(report[r], o)]
        /\ report'[r] \in Seq(Outcomes) /\ Len(report'[r]) = at[r]
        /\ \A s \in Reqs \ {r} : report'[s] = report[s]
    BY <1>2, ReportAppends
  <2>2. /\ pc' \in [Reqs -> {"idle", "next", "mkservice", "section", "destroy", "done"}]
        /\ at' \in [Reqs -> Nat \ {0}]
        /\ report' \in [Reqs -> Seq(Outcomes)]
        /\ req' \in [Reqs -> Requests] /\ answer' \in [Reqs -> Answers]
    BY <1>1, <2>1 DEF TypeInv, TypeOK
  <2>3. \A s \in Reqs : Len(report'[s]) = at'[s] - 1
    BY <1>1, <2>1 DEF TypeInv, TypeOK
  <2>4. TypeOK'
    BY <1>2, <2>2, <2>3 DEF TypeInv, TypeOK
  <2>5. ASSUME NEW s \in Reqs PROVE PlaceInv!(s)'
    <3>1. CASE s = r
      BY <1>1, <1>2, <2>1, <3>1 DEF TypeInv, TypeOK, PlaceInv, IsBulk, Batch
    <3>2. CASE s # r
      BY <1>2, <2>1, <3>2 DEF TypeInv, TypeOK, PlaceInv, IsBulk, Batch, Entity
    <3>3. QED
      BY <3>1, <3>2
  <2>6. QED
    BY <2>4, <2>5 DEF TypeInv, PlaceInv
<1> USE DEF TypeInv, TypeOK, PlaceInv, IsBulk, Batch, Entity, node, Goto, Finish
<1>3. CASE Receive(r)
  BY <1>1, <1>3 DEF Receive
<1>4. CASE EndOfBatch(r)
  BY <1>1, <1>4 DEF EndOfBatch, Answers
<1>5. CASE RejectDuplicates(r)
  BY <1>1, <1>2, <1>5 DEF RejectDuplicates, Outcomes
<1>6. CASE BreakOffUnparsable(r)
  BY <1>1, <1>6 DEF BreakOffUnparsable, BreakOff, Answers
<1>7. CASE CheckService(r)
  BY <1>1, <1>7 DEF CheckService
<1>8. CASE CreateService(r)
  <2>1. CASE IsBulk(r)
    <3>1. /\ pc' = [pc EXCEPT ![r] = "section"] /\ registered' = TRUE
          /\ UNCHANGED <<rooms, req, at, report, answer>>
      BY <1>8, <2>1 DEF CreateService
    <3>2. TypeOK'
      BY <3>1
    <3>3. PlaceInv'
      BY <1>8, <3>1 DEF CreateService
    <3>4. QED
      BY <3>2, <3>3
  <2>2. CASE ~IsBulk(r)
    <3>1. /\ pc' = [pc EXCEPT ![r] = "done"] /\ answer' = [answer EXCEPT ![r] = "ok"]
          /\ UNCHANGED <<rooms, req, at, report>> /\ registered' = TRUE
      BY <1>8, <2>2 DEF CreateService
    <3>2. TypeOK'
      BY <3>1 DEF Answers
    <3>3. PlaceInv'
      BY <3>1
    <3>4. QED
      BY <3>2, <3>3
  <2>3. QED
    BY <2>1, <2>2
<1>9. CASE ServiceExists(r)
  <2>1. CASE IsBulk(r)
    BY <1>1, <1>2, <1>9, <2>1 DEF ServiceExists, Outcomes
  <2>2. CASE ~IsBulk(r)
    <3>1. /\ pc' = [pc EXCEPT ![r] = "done"] /\ answer' = [answer EXCEPT ![r] = "409"]
          /\ UNCHANGED <<registered, rooms, req, at, report>>
      BY <1>9, <2>2 DEF ServiceExists
    <3>2. TypeOK'
      BY <3>1 DEF Answers
    <3>3. PlaceInv'
      BY <3>1
    <3>4. QED
      BY <3>2, <3>3
  <2>3. QED
    BY <2>1, <2>2
<1>10. CASE MakeRoom(r)
  BY <1>1, <1>2, <1>10 DEF MakeRoom, Outcomes
<1>11. CASE RefuseRoom(r)
  BY <1>1, <1>2, <1>11 DEF RefuseRoom, Outcomes
<1>12. CASE FailInside(r)
  BY <1>1, <1>2, <1>12 DEF FailInside, LeaveHalfMade, Outcomes
<1>13. CASE BreakOffInside(r)
  BY <1>1, <1>13 DEF BreakOffInside, BreakOff, LeaveHalfMade, Answers
<1>14. CASE DestroyRoom(r)
  BY <1>1, <1>14 DEF DestroyRoom, Answers
<1>15. QED
  BY <1>3, <1>4, <1>5, <1>6, <1>7, <1>8, <1>9, <1>10, <1>11, <1>12, <1>13, <1>14
     DEF Step

-----------------------------------------------------------------------------
(* What a step does to the reports: nothing, or one of them gets one result. *)

\* Which results may be added, and when.
Result(r, o) ==
    /\ pc[r] \in {"next", "mkservice", "section"} /\ IsBulk(r) /\ at[r] <= Len(Batch(r))
    /\ Report(r, o) /\ registered' = registered
    /\ o = "failure" => Entity(r).fault # "fine"
    /\ o = "existed" => pc[r] = "mkservice" /\ registered
    /\ o = "created" => rooms' = [rooms EXCEPT ![Entity(r).name] = "open"]

LEMMA StepReports ==
    ASSUME TypeInv, NEW r \in Reqs, Receive(r) \/ Step(r)
    PROVE  UNCHANGED report \/ \E o \in Outcomes : Result(r, o)
<1> USE DEF TypeInv, PlaceInv, IsBulk, Result, Outcomes, node
<1>1. req[r].kind \in {"bulk", "service", "destroy"}
  BY RequestTypes
<1>2. CASE RejectDuplicates(r)
  BY <1>2 DEF RejectDuplicates, Batch
<1>3. CASE ServiceExists(r)
  BY <1>1, <1>3 DEF ServiceExists
<1>4. CASE MakeRoom(r)
  BY <1>4 DEF MakeRoom
<1>5. CASE RefuseRoom(r)
  BY <1>5 DEF RefuseRoom
<1>6. CASE FailInside(r)
  BY <1>6 DEF FailInside
<1>7. QED
  BY <1>2, <1>3, <1>4, <1>5, <1>6
     DEF Step, Receive, EndOfBatch, BreakOffUnparsable, BreakOff, CheckService,
         CreateService, BreakOffInside, DestroyRoom

\* What a result that is added does to the properties of reports.
LEMMA ResultInv ==
    ASSUME IInv, NEW r \in Reqs, NEW o \in Outcomes, Result(r, o)
    PROVE  RaceInv' /\ FailuresAreOwn'
<1>1. /\ pc' = [pc EXCEPT ![r] = "next"] /\ at' = [at EXCEPT ![r] = at[r] + 1]
      /\ UNCHANGED <<req, answer>>
      /\ report'[r] \in Seq(Outcomes) /\ Len(report'[r]) = at[r]
      /\ DOMAIN report'[r] = 1..at[r]
      /\ \A i \in 1..(at[r] - 1) : report'[r][i] = report[r][i]
      /\ report'[r][at[r]] = o
      /\ \A s \in Reqs \ {r} : report'[s] = report[s]
  BY ReportAppends DEF IInv, Result
<1>2. /\ DOMAIN report[r] = 1..(at[r] - 1) /\ at[r] \in Nat \ {0}
      /\ pc \in [Reqs -> {"idle", "next", "mkservice", "section", "destroy", "done"}]
      /\ answer[r] # "report"
  BY RequestTypes DEF IInv, TypeInv, TypeOK, PlaceInv, Result
<1>3. RaceInv'
  <2>1. Existed(r)' = IF o = "existed" THEN Existed(r) \cup {at[r]} ELSE Existed(r)
    <3>1. Existed(r)' = {i \in 1..at[r] : report'[r][i] = "existed"}
      BY <1>1 DEF Existed
    <3>2. Existed(r) = {i \in 1..(at[r] - 1) : report'[r][i] = "existed"}
      BY <1>1, <1>2 DEF Existed
    <3>3. 1..at[r] = 1..(at[r] - 1) \cup {at[r]}
      BY <1>2
    <3>4. QED
      BY <1>1, <3>1, <3>2, <3>3
  <2>2. o = "existed" => Existed(r) = {} /\ registered
    BY DEF IInv, RaceInv, Result
  <2>3. \A s \in Reqs \ {r} : Existed(s)' = Existed(s) /\ pc'[s] = pc[s]
    BY <1>1, <1>2 DEF Existed
  <2>4. pc'[r] = "next"
    BY <1>1, <1>2
  <2>5. QED
    BY <2>1, <2>2, <2>3, <2>4 DEF IInv, RaceInv, Result
<1>4. ASSUME NEW s \in Reqs PROVE FailuresAreOwn!(s)'
  <2>1. CASE s = r
    <3>1. ASSUME NEW i \in 1..at[r], report'[r][i] = "failure"
          PROVE  req[r].batch[i].fault # "fine"
      <4>1. CASE i = at[r]
        BY <1>1, <3>1, <4>1 DEF Result, Entity
      <4>2. CASE i # at[r]
        <5>1. i \in DOMAIN report[r]
          BY <1>2, <3>1, <4>2
        <5>2. report[r][i] = "failure"
          BY <1>1, <1>2, <3>1, <5>1
        <5>3. QED
          BY <5>1, <5>2 DEF IInv, FailuresAreOwn
      <4>3. QED
        BY <4>1, <4>2
    <3>2. QED
      BY <1>1, <1>2, <2>1, <3>1
  <2>2. CASE s # r
    BY <1>1, <2>2 DEF IInv, FailuresAreOwn
  <2>3. QED
    BY <2>1, <2>2
<1>5. QED
  BY <1>3, <1>4 DEF FailuresAreOwn

\* Reports are true of what happened: no failure of another, one lost race.
LEMMA StepReportsInv ==
    ASSUME IInv, NEW r \in Reqs, Receive(r) \/ Step(r)
    PROVE  RaceInv' /\ FailuresAreOwn'
<1>1. registered => registered'
  BY DEF Step, Receive, EndOfBatch, RejectDuplicates, BreakOffUnparsable, BreakOff,
         CheckService, CreateService, ServiceExists, MakeRoom, RefuseRoom, FailInside,
         BreakOffInside, DestroyRoom, node
<1>2. CASE UNCHANGED report
  <2>1. ASSUME NEW s \in Reqs, pc'[s] = "mkservice", pc[s] # "mkservice"
        PROVE  s = r /\ (~IsBulk(r) \/ ~registered)
    BY <1>2, <2>1, RequestTypes
       DEF IInv, TypeInv, TypeOK, PlaceInv, IsBulk, Step, Receive, EndOfBatch,
           RejectDuplicates, BreakOffUnparsable, BreakOff, CheckService, CreateService,
           ServiceExists, MakeRoom, RefuseRoom, FailInside, BreakOffInside, DestroyRoom,
           Report, Finish, Goto
  <2>2. ~IsBulk(r) => Existed(r) = {}
    BY RequestTypes DEF IInv, TypeInv, PlaceInv, Existed
  <2>3. RaceInv'
    BY <1>1, <1>2, <2>1, <2>2 DEF IInv, RaceInv, Existed
  <2>4. ASSUME NEW s \in Reqs, answer'[s] = "report", answer[s] # "report"
        PROVE  Len(report[s]) = Len(req[s].batch)
    <3>1. s = r /\ EndOfBatch(r)
      BY <2>4
         DEF IInv, TypeInv, TypeOK, Step, Receive, EndOfBatch,
           RejectDuplicates, BreakOffUnparsable, BreakOff, CheckService, CreateService,
           ServiceExists, MakeRoom, RefuseRoom, FailInside, BreakOffInside, DestroyRoom,
           Report, Finish, Goto
    <3>2. /\ Len(report[r]) = at[r] - 1 /\ at[r] \in Nat /\ Len(Batch(r)) \in Nat
          /\ at[r] <= Len(Batch(r)) + 1 /\ at[r] > Len(Batch(r))
      BY <3>1, RequestTypes DEF IInv, TypeInv, PlaceInv, EndOfBatch, Batch
    <3>3. QED
      BY <3>1, <3>2 DEF Batch
  <2>5. req' = req
    BY DEF Step, Receive, EndOfBatch, RejectDuplicates, BreakOffUnparsable, BreakOff,
           CheckService, CreateService, ServiceExists, MakeRoom, RefuseRoom, FailInside,
           BreakOffInside, DestroyRoom, Report
  <2>6. FailuresAreOwn'
    BY <1>2, <2>4, <2>5 DEF IInv, FailuresAreOwn
  <2>7. QED
    BY <2>3, <2>6
<1>3. QED
  BY <1>2, StepReports, ResultInv DEF IInv

-----------------------------------------------------------------------------
(* Created rooms stay open until they are destroyed. *)

\* A room that was open is, or one that was destroyed has been.
LEMMA OpenOrDestroyed ==
    ASSUME IInv, NEW r \in Reqs, Receive(r) \/ Step(r), NEW n \in RoomNames,
           rooms[n] = "open" \/ Destroyed(n)
    PROVE  (rooms[n] = "open" \/ Destroyed(n))'
<1>1. req' = req /\ \A s \in Reqs : answer[s] = "ok" => answer'[s] = "ok"
  <2>1. pc[r] # "done" /\ req' = req
        /\ (answer' = answer \/ \E a : answer' = [answer EXCEPT ![r] = a])
    BY DEF Step, Receive, EndOfBatch, RejectDuplicates, BreakOffUnparsable, BreakOff,
           CheckService, CreateService, ServiceExists, MakeRoom, RefuseRoom, FailInside,
           BreakOffInside, DestroyRoom, Report, Finish
  <2>2. answer[r] # "ok" /\ answer \in [Reqs -> Answers]
    BY <2>1 DEF IInv, TypeInv, TypeOK, PlaceInv
  <2>3. QED
    BY <2>1, <2>2
<1>2. CASE Destroyed(n)
  BY <1>1, <1>2 DEF Destroyed
<1>3. CASE rooms[n] = "open" /\ ~DestroyRoom(r)
  <2>1. rooms'[n] = "open"
    BY <1>3 DEF IInv, TypeInv, TypeOK, Step, Receive, EndOfBatch, RejectDuplicates,
         BreakOffUnparsable, BreakOff, CheckService, CreateService, ServiceExists, MakeRoom,
         RefuseRoom, FailInside, BreakOffInside, LeaveHalfMade, node
  <2>2. QED
    BY <2>1
<1>4. CASE rooms[n] = "open" /\ DestroyRoom(r)
  <2>1. CASE req[r].name = n
    <3>1. answer'[r] = "ok" /\ req[r].kind = "destroy"
      BY <1>4, <2>1 DEF IInv, TypeInv, TypeOK, PlaceInv, DestroyRoom, Finish
    <3>2. QED
      BY <1>1, <2>1, <3>1 DEF Destroyed
  <2>2. CASE req[r].name # n
    BY <1>4, <2>2 DEF IInv, TypeInv, TypeOK, DestroyRoom
  <2>3. QED
    BY <2>1, <2>2
<1>5. QED
  BY <1>2, <1>3, <1>4

LEMMA StepRoomsInv ==
    ASSUME IInv, NEW r \in Reqs, Receive(r) \/ Step(r)
    PROVE  CreatedRoomsAreOpen'
<1> SUFFICES ASSUME NEW s \in Reqs, NEW i \in (DOMAIN report[s])',
                    report'[s][i] = "created"
             PROVE  (rooms[req[s].batch[i].name] = "open" \/ Destroyed(req[s].batch[i].name))'
  BY DEF CreatedRoomsAreOpen
<1>1. req' = req
  BY DEF Step, Receive, EndOfBatch, RejectDuplicates, BreakOffUnparsable, BreakOff,
         CheckService, CreateService, ServiceExists, MakeRoom, RefuseRoom, FailInside,
         BreakOffInside, DestroyRoom, Report
<1>2. ASSUME i \in DOMAIN report[s], report[s][i] = "created"
      PROVE  (rooms[req[s].batch[i].name] = "open" \/ Destroyed(req[s].batch[i].name))'
  <2>1. req[s].batch[i].name \in RoomNames
    <3>1. i \in 1..Len(Batch(s))
      <4>1. DOMAIN report[s] = 1..(at[s] - 1) /\ at[s] \in Nat \ {0} /\ Len(Batch(s)) \in Nat
        BY RequestTypes DEF IInv, TypeInv
      <4>2. IsBulk(s) \/ at[s] = 1
        BY DEF IInv, TypeInv, PlaceInv
      <4>3. IsBulk(s) => at[s] <= Len(Batch(s)) + 1
        BY DEF IInv, TypeInv, PlaceInv
      <4>4. QED
        BY <1>2, <4>1, <4>2, <4>3
    <3>2. QED
      BY <3>1, RequestTypes DEF IInv, TypeInv, Batch, Entities
  <2>2. rooms[req[s].batch[i].name] = "open" \/ Destroyed(req[s].batch[i].name)
    BY <1>2 DEF IInv, CreatedRoomsAreOpen
  <2>3. QED
    BY <1>1, <2>1, <2>2, OpenOrDestroyed
<1>3. ASSUME ~(i \in DOMAIN report[s] /\ report[s][i] = "created")
      PROVE  (rooms[req[s].batch[i].name] = "open" \/ Destroyed(req[s].batch[i].name))'
  <2>1. PICK o \in Outcomes : Result(r, o)
    BY <1>3, StepReports DEF IInv
  <2>2. /\ DOMAIN report'[r] = 1..at[r] /\ report'[r][at[r]] = o
        /\ \A j \in 1..(at[r] - 1) : report'[r][j] = report[r][j]
        /\ \A q \in Reqs \ {r} : report'[q] = report[q]
        /\ DOMAIN report[r] = 1..(at[r] - 1) /\ at[r] \in Nat \ {0}
    BY <2>1, ReportAppends, RequestTypes DEF IInv, TypeInv, Result
  <2>3. s = r
    <3>1. SUFFICES ASSUME s # r PROVE FALSE
      OBVIOUS
    <3>2. report'[s] = report[s]
      BY <2>2, <3>1
    <3>3. QED
      BY <1>3, <3>2
  <2>4. i = at[r]
    <3>1. /\ i \in 1..at[r] /\ report'[r][i] = "created"
          /\ ~(i \in DOMAIN report[r] /\ report[r][i] = "created")
      BY <1>3, <2>2, <2>3
    <3>2. SUFFICES ASSUME i # at[r] PROVE FALSE
      OBVIOUS
    <3>3. i \in 1..(at[r] - 1)
      BY <3>1, <3>2, <2>2
    <3>4. report'[r][i] = report[r][i]
      BY <3>3, <2>2
    <3>5. QED
      BY <3>1, <3>3, <3>4, <2>2
  <2>5. rooms' = [rooms EXCEPT ![Entity(r).name] = "open"]
    BY <2>1, <2>2, <2>3, <2>4 DEF Result
  <2>6. Entity(r).name \in RoomNames
    BY <2>1, RequestTypes DEF IInv, TypeInv, Result, Entity, Batch, Entities
  <2>7. QED
    BY <1>1, <2>3, <2>4, <2>5, <2>6 DEF IInv, TypeInv, TypeOK, Entity
<1>4. QED
  BY <1>2, <1>3

-----------------------------------------------------------------------------
(* The theorems. *)

LEMMA NextInv == IInv /\ [Next]_vars => IInv'
<1> SUFFICES ASSUME IInv, [Next]_vars PROVE IInv'
  OBVIOUS
<1>1. CASE UNCHANGED vars
  BY <1>1 DEF IInv, TypeInv, TypeOK, PlaceInv, RaceInv, Existed, FailuresAreOwn,
     CreatedRoomsAreOpen, Destroyed, IsBulk, Batch, Entity, vars, node
<1>2. ASSUME NEW r \in Reqs, Receive(r) \/ Step(r) PROVE IInv'
  BY <1>2, StepTypes, StepReportsInv, StepRoomsInv DEF IInv
<1>3. QED
  BY <1>1, <1>2 DEF Next, Drained

\* Of any number of requests, in every reachable state, IInv holds.
LEMMA Invariance == Spec => []IInv
BY InitInv, NextInv, PTL DEF Spec

\* Every variable has its type, and a report has one result per room worked off.
THEOREM TypeSafety == Spec => []TypeOK
<1>1. IInv => TypeOK
  BY DEF IInv, TypeInv
<1>2. QED
  BY <1>1, Invariance, PTL

\* What a batch of createMultipleChatRooms counts as created is open unless a request
\* destroyed it, whatever else fails in any batch.
THEOREM CreatedAreOpen == Spec => []CreatedRoomsAreOpen
<1>1. IInv => CreatedRoomsAreOpen
  BY DEF IInv
<1>2. QED
  BY <1>1, Invariance, PTL

\* No room that is fine is reported as a failure, and a report that is sent is complete.
THEOREM FailuresStayOwn == Spec => []FailuresAreOwn
<1>1. IInv => FailuresAreOwn
  BY DEF IInv
<1>2. QED
  BY <1>1, Invariance, PTL

\* A batch loses the race for the service at most once, in any number of requests.
THEOREM RaceIsLostOnce == Spec => []LostRaceOnce
<1>1. IInv => LostRaceOnce
  <2> SUFFICES ASSUME IInv, NEW r \in Reqs PROVE Cardinality(Existed(r)) <= 1
    BY DEF LostRaceOnce, Existed
  <2>1. CASE Existed(r) = {}
    BY <2>1, FS_EmptySet
  <2>2. CASE Existed(r) # {}
    <3>1. PICK i \in Existed(r) : TRUE
      BY <2>2
    <3>2. Existed(r) = {i}
      BY <3>1 DEF IInv, RaceInv
    <3>3. Cardinality({i}) = 1
      BY FS_Singleton
    <3>4. QED
      BY <3>2, <3>3
  <2>3. QED
    BY <2>1, <2>2
<1>2. QED
  BY <1>1, Invariance, PTL
=============================================================================
