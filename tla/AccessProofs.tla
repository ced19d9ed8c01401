---------------------------- MODULE AccessProofs ----------------------------
(***************************************************************************)
(* Proofs about Access, for any users, series, requests, schedules and     *)
(* clock: nobody becomes or ceases to be an organizer without an admin, a  *)
(* grant rests on what was in force while the request ran, and an answer   *)
(* given while no table changed is the documented one.                     *)
(***************************************************************************)
EXTENDS Access, TLAPS

-----------------------------------------------------------------------------
(* Requests.                                                               *)

LEMMA NoRequestFacts ==
  /\ NoRequest \in Call /\ NoRequest.pc = "idle" /\ NoRequest.op = "none"
  /\ NoRequest.sid = {} /\ NoRequest.todo = {} /\ NoSchedule \in Schedule
  /\ NoContest \in Contest
<1>1. Nobody \in User
  BY AccessAssumption DEF Nobody
<1>2. NoSchedule \in Schedule /\ NoContest \in Contest
  BY DEF NoSchedule, Schedule, NoContest, Contest, Nil
<1> QED
  BY <1>1, <1>2 DEF NoRequest, Call, Roles

(* A request goes on to another query and keeps what it carries, or is     *)
(* answered.                                                               *)
LEMMA ToFrame ==
  ASSUME req \in [Request -> Call], NEW q \in Request,
         NEW label \in {"granted", "refused"} \cup Asking \cup Changing, To(q, label)
  PROVE  /\ req' \in [Request -> Call] /\ \A p \in Request \ {q} : req'[p] = req[p]
         /\ label \in {"granted", "refused"} => req'[q].pc = "idle" /\ req'[q].op = label
                                                 /\ req'[q].sid = {} /\ req'[q].todo = {}
         /\ label \notin {"granted", "refused"} =>
              /\ req'[q].pc = label /\ req'[q].op = req[q].op /\ req'[q].actor = req[q].actor
              /\ req'[q].sid = req[q].sid /\ req'[q].copy = req[q].copy
              /\ req'[q].todo = req[q].todo /\ req'[q].who = req[q].who /\ req'[q].was = req[q].was
<1>1. CASE label \in {"granted", "refused"}
  <2>1. PICK r : r = [NoRequest EXCEPT !.op = label]
    OBVIOUS
  <2>2. r \in Call /\ r.pc = "idle" /\ r.op = label /\ r.sid = {} /\ r.todo = {}
    BY <1>1, <2>1, NoRequestFacts DEF Call
  <2>3. req' = [req EXCEPT ![q] = r]
    BY <1>1, <2>1 DEF To
  <2> QED
    BY <1>1, <2>2, <2>3
<1>2. CASE label \notin {"granted", "refused"}
  <2>1. PICK r : r = [req[q] EXCEPT !.pc = label, !.row = NoContest]
    OBVIOUS
  <2>2. /\ req[q] \in Call /\ label \in {"idle"} \cup Asking \cup Changing
        /\ NoContest \in Contest
    BY <1>2, NoRequestFacts
  <2>3. /\ r \in Call /\ r.pc = label /\ r.op = req[q].op /\ r.actor = req[q].actor
        /\ r.sid = req[q].sid /\ r.copy = req[q].copy
        /\ r.todo = req[q].todo /\ r.who = req[q].who /\ r.was = req[q].was
    BY <2>1, <2>2 DEF Call
  <2>4. req' = [req EXCEPT ![q] = r]
    BY <1>2, <2>1 DEF To
  <2> QED
    BY <1>2, <2>3, <2>4
<1> QED
  BY <1>1, <1>2

(* A request keeps the contest's row and asks for the clock next.          *)
LEMMA KeepFrame ==
  ASSUME req \in [Request -> Call], contest \in Contest, NEW q \in Request,
         NEW label \in Asking, Keep(q, label)
  PROVE  /\ req' \in [Request -> Call] /\ \A p \in Request \ {q} : req'[p] = req[p]
         /\ req'[q].pc = label /\ req'[q].op = req[q].op /\ req'[q].actor = req[q].actor
         /\ req'[q].sid = req[q].sid /\ req'[q].copy = req[q].copy
         /\ req'[q].todo = req[q].todo /\ req'[q].row = contest
<1>1. PICK r : r = [req[q] EXCEPT !.pc = label, !.row = contest]
  OBVIOUS
<1>2. req[q] \in Call
  OBVIOUS
<1>3. /\ r \in Call /\ r.pc = label /\ r.op = req[q].op /\ r.actor = req[q].actor
      /\ r.sid = req[q].sid /\ r.copy = req[q].copy
      /\ r.todo = req[q].todo /\ r.row = contest
  BY <1>1, <1>2 DEF Call
<1>4. req' = [req EXCEPT ![q] = r]
  BY <1>1 DEF Keep
<1> QED
  BY <1>3, <1>4

LEMMA DoneFrame ==
  ASSUME req \in [Request -> Call], NEW q \in Request, Done(q)
  PROVE  /\ req' \in [Request -> Call] /\ \A p \in Request \ {q} : req'[p] = req[p]
         /\ req'[q].pc = "idle"
  BY NoRequestFacts DEF Done

LEMMA EnterFrame ==
  ASSUME req \in [Request -> Call], series \in [Series -> Schedule], NEW q \in Request,
         NEW op \in {"read", "submit", "download", "page", "manage", "save", "form"},
         NEW u \in User, NEW label \in Asking \cup Changing, NEW todo \in SUBSET Series,
         op = "form" => todo # {}, Enter(q, op, u, label, todo)
  PROVE  /\ req' \in [Request -> Call] /\ \A p \in Request \ {q} : req'[p] = req[p]
         /\ req[q].pc = "idle" /\ req'[q].pc = label /\ req'[q].op = op /\ req'[q].actor = u
         /\ req'[q].todo = todo /\ req'[q].sid = {}
<1> DEFINE copy == IF op = "form" THEN series[CHOOSE s \in todo : TRUE] ELSE NoRequest.copy
<1>1. copy \in Schedule
  BY NoRequestFacts DEF Call
<1>2. PICK r : r = [NoRequest EXCEPT !.pc = label, !.op = op, !.actor = u, !.todo = todo, !.copy = copy]
  OBVIOUS
<1>3. req' = [req EXCEPT ![q] = r] /\ req[q].pc = "idle"
  BY <1>2 DEF Enter, At
<1>4. r \in Call /\ r.pc = label /\ r.op = op /\ r.actor = u /\ r.todo = todo /\ r.sid = {}
  BY <1>1, <1>2, NoRequestFacts DEF Call
<1> QED
  BY <1>3, <1>4

-----------------------------------------------------------------------------
(* What the steps do to the requests and the tables.                       *)

LEMMA CallLabels ==
  /\ {"revision", "page", "load", "manage", "check", "clock", "member", "participant", "window",
      "instant"} = Asking
  /\ {"write", "lock", "locked", "reauth", "save"} = Changing
  /\ Reader \subseteq Request /\ Writer \subseteq Request /\ Reader \cap Writer = {}
  BY AccessAssumption DEF Asking, Changing, Request

(* A reader changes no table.                                              *)
LEMMA ReadFrame ==
  ASSUME Types, NEW q \in Reader, Read(q)
  PROVE  /\ UNCHANGED <<tables, now>> /\ req' \in [Request -> Call]
         /\ \A p \in Request \ {q} : req'[p] = req[p]
         /\ req'[q].pc \in {"idle"} \cup Asking
<1>1. /\ req \in [Request -> Call] /\ series \in [Series -> Schedule] /\ q \in Request
      /\ assigned \in SUBSET Series /\ Owner \in User /\ contest \in Contest
  BY CallLabels, AccessAssumption DEF Types, TypeOK
<1>2. UNCHANGED <<tables, now>>
  BY DEF Read, CallRead, CallStatement, CallDownload, Revision, CallPage, Page, Load, Manage, Check,
         Clock, Member, Participant, Window, Instant
<1>3. CASE CallRead(q) \/ CallStatement(q) \/ CallDownload(q) \/ CallPage(q)
  <2>1. PICK u \in User, op \in {"read", "submit", "download", "page"}, label \in Asking,
             todo \in SUBSET Series : Enter(q, op, u, label, todo)
    <3>1. CASE CallRead(q)
      BY <3>1, CallLabels DEF CallRead
    <3>2. CASE CallStatement(q)
      BY <1>1, <3>2, CallLabels DEF CallStatement
    <3>3. CASE CallDownload(q)
      BY <3>3, CallLabels DEF CallDownload
    <3>4. CASE CallPage(q)
      BY <3>4, CallLabels DEF CallPage
    <3> QED
      BY <1>3, <3>1, <3>2, <3>3, <3>4
  <2> QED
    BY <1>1, <1>2, <2>1, EnterFrame
<1>4. ASSUME NEW label \in {"granted", "refused"} \cup Asking, To(q, label)
      PROVE  /\ req' \in [Request -> Call] /\ \A p \in Request \ {q} : req'[p] = req[p]
             /\ req'[q].pc \in {"idle"} \cup Asking
  BY <1>1, <1>4, ToFrame
<1>5. CASE Revision(q)
  <2>1. CASE To(q, "granted") \/ To(q, "refused")
    BY <1>2, <1>4, <2>1
  <2>2. CASE req' = [req EXCEPT ![q].pc = "load", ![q].todo = assigned]
    <3>1. PICK r : r = [req[q] EXCEPT !.pc = "load", !.todo = assigned]
      OBVIOUS
    <3>2. req' = [req EXCEPT ![q] = r]
      BY <1>1, <2>2, <3>1
    <3>3. r \in Call /\ r.pc = "load"
      <4>1. req[q] \in Call /\ "load" \in Asking /\ assigned \subseteq Series
        BY <1>1, CallLabels
      <4> QED
        BY <3>1, <4>1 DEF Call
    <3> QED
      BY <1>1, <1>2, <3>2, <3>3, CallLabels
  <2> QED
    BY <1>5, <2>1, <2>2 DEF Revision
<1>6. CASE Load(q)
  <2>1. PICK s \in req[q].todo :
               IF s \notin live THEN To(q, "refused")
               ELSE req' = [req EXCEPT ![q].pc = "manage", ![q].sid = {s}, ![q].copy = series[s],
                                       ![q].todo = @ \ {s}]
    BY <1>6 DEF Load
  <2>2. req[q] \in Call /\ s \in Series
    BY <1>1 DEF Call
  <2>3. CASE s \notin live
    BY <1>2, <1>4, <2>1, <2>3
  <2>4. CASE s \in live
    <3>1. PICK r : r = [req[q] EXCEPT !.pc = "manage", !.sid = {s}, !.copy = series[s],
                                      !.todo = @ \ {s}]
      OBVIOUS
    <3>2. req' = [req EXCEPT ![q] = r]
      BY <1>1, <2>1, <2>4, <3>1
    <3>3. r \in Call /\ r.pc = "manage"
      BY <1>1, <2>2, <3>1, CallLabels DEF Call
    <3> QED
      BY <1>1, <1>2, <3>2, <3>3, CallLabels
  <2> QED
    BY <2>3, <2>4
<1>7. CASE Page(q) \/ Manage(q) \/ Clock(q) \/ Member(q) \/ Participant(q) \/ Instant(q)
  <2>1. PICK label \in {"granted", "refused"} \cup Asking : To(q, label)
    BY <1>7, CallLabels
       DEF Page, Manage, Clock, Member, Participant, Instant, Readable, Forbidden
  <2> QED
    BY <1>2, <1>4, <2>1
<1>8. CASE Check(q) \/ Window(q)
  <2>1. CASE \E label \in {"clock", "instant"} : Keep(q, label)
    BY <1>1, <1>2, <2>1, KeepFrame, CallLabels
  <2>2. CASE \E label \in {"granted", "refused"} \cup Asking : To(q, label)
    BY <1>2, <1>4, <2>2
  <2> QED
    BY <1>8, <2>1, <2>2, CallLabels DEF Check, Window, Forbidden
<1> QED
  BY <1>3, <1>5, <1>6, <1>7, <1>8 DEF Read

(* Readers and writers keep to their own queries.                          *)
LEMMA RequestTypes ==
  ASSUME Types, NEW q \in Request, req' \in [Request -> Call],
         \A p \in Request \ {q} : req'[p] = req[p], TypeOK',
         q \in Reader => req'[q].pc \in {"idle"} \cup Asking,
         q \in Writer => req'[q].pc \in {"idle"} \cup Changing
  PROVE  Types'
  BY CallLabels DEF Types

LEMMA SameTables ==
  ASSUME Types, req' \in [Request -> Call], UNCHANGED tables, now' \in 0..MaxTime
  PROVE  TypeOK'
<1>1. \A q \in Request : /\ req'[q].actor \in User /\ req'[q].copy \in Schedule
                          /\ req'[q].todo \cup req'[q].sid \subseteq Series
  BY DEF Call
<1> QED
  BY <1>1 DEF Types, TypeOK, tables

(* A step that neither takes the lock nor changes the tables under it.     *)
LEMMA LocksStay ==
  ASSUME LocksFit, NEW q \in Request, \A p \in Request \ {q} : req'[p] = req[p],
         req'[q].pc # "locked",
         \/ contest' = contest /\ member' = member
         \/ ~RowLocked
         \/ At(q, "locked")
  PROVE  LocksFit'
  BY DEF LocksFit, At, RowLocked

LEMMA ReadTypes ==
  ASSUME Types, LocksFit, NEW q \in Reader, Read(q)
  PROVE  Types' /\ LocksFit'
<1>1. /\ UNCHANGED <<tables, now>> /\ req' \in [Request -> Call]
      /\ \A p \in Request \ {q} : req'[p] = req[p]
      /\ req'[q].pc \in {"idle"} \cup Asking
  BY ReadFrame
<1>2. q \in Request /\ q \notin Writer
  BY CallLabels
<1>3. TypeOK'
  BY <1>1, SameTables DEF Types, TypeOK
<1>4. Types'
  BY <1>1, <1>2, <1>3, RequestTypes
<1>5. req'[q].pc # "locked" /\ contest' = contest /\ member' = member
  BY <1>1, CallLabels DEF tables
<1> QED
  BY <1>1, <1>2, <1>4, <1>5, LocksStay

(* A writer that calls, asks again or writes nothing.                      *)
LEMMA WriterGoesOn ==
  ASSUME Types, NEW q \in Writer,
         \/ CallManage(q) \/ CallMember(q) \/ CallSave(q) \/ CallForm(q)
         \/ Reauthorize(q) \/ WriteNothing(q)
  PROVE  /\ UNCHANGED <<tables, now>> /\ req' \in [Request -> Call]
         /\ \A p \in Request \ {q} : req'[p] = req[p]
         /\ req'[q].pc \in {"idle"} \cup Changing /\ req'[q].pc # "locked"
<1>1. /\ req \in [Request -> Call] /\ series \in [Series -> Schedule] /\ q \in Request
      /\ live \in SUBSET Series /\ Admin \subseteq User
  BY CallLabels, AccessAssumption DEF Types, TypeOK
<1>2. UNCHANGED <<tables, now>>
  BY DEF CallManage, CallMember, CallSave, CallForm, Reauthorize, WriteNothing
<1>3. CASE CallManage(q) \/ CallMember(q) \/ CallSave(q) \/ CallForm(q)
  <2>1. PICK u \in User, op \in {"manage", "save", "form"}, label \in {"write", "lock", "reauth"},
             todo \in SUBSET Series : Enter(q, op, u, label, todo) /\ (op = "form" => todo # {})
    <3>1. CASE CallManage(q)
      BY <1>1, <3>1 DEF CallManage
    <3>2. CASE CallMember(q)
      BY <3>2 DEF CallMember
    <3>3. CASE CallSave(q)
      BY <1>1, <3>3 DEF CallSave
    <3>4. CASE CallForm(q)
      BY <1>1, <3>4 DEF CallForm
    <3> QED
      BY <1>3, <3>1, <3>2, <3>3, <3>4
  <2>2. label \in Asking \cup Changing /\ label # "locked" /\ label \in Changing
    BY CallLabels
  <2> QED
    BY <1>1, <1>2, <2>1, <2>2, EnterFrame
<1>4. CASE Done(q)
  BY <1>1, <1>2, <1>4, DoneFrame
<1>5. CASE To(q, "save")
  <2>1. "save" \in {"granted", "refused"} \cup Asking \cup Changing /\ "save" \in Changing
    BY CallLabels
  <2> QED
    BY <1>1, <1>2, <1>5, <2>1, ToFrame
<1> QED
  BY <1>3, <1>4, <1>5 DEF Reauthorize, WriteNothing

(* A statement that writes keeps the tables well-typed, a series without a *)
(* contest included.                                                       *)
LEMMA WriterWrites ==
  ASSUME Types, NEW q \in Writer,
         \/ SaveSeries(q) \/ CreateSeries(q) \/ UpdateContest(q) \/ DeleteSeries(q)
         \/ Assign(q) \/ Unassign(q)
  PROVE  /\ Done(q) /\ now' = now /\ member' = member
         /\ contest' \in Contest /\ (contest'.exists <=> contest.exists)
         /\ series' \in [Series -> Schedule]
         /\ live' \in SUBSET Series /\ unused' \in SUBSET (Series \ live')
         /\ assigned' \in SUBSET live' /\ (~contest.exists => live' = {})
<1>1. /\ contest \in Contest /\ series \in [Series -> Schedule]
      /\ live \in SUBSET Series /\ unused \in SUBSET (Series \ live)
      /\ assigned \in SUBSET live /\ (~contest.exists => live = {})
      /\ q \in Request /\ req[q] \in Call /\ NoSchedule \in Schedule
  BY CallLabels, NoRequestFacts DEF Types, TypeOK
<1>2. CASE SaveSeries(q)
  <2>1. PICK row \in IF req[q].op = "form" THEN {req[q].copy} ELSE {r \in SeriesInput : ValidWindow(r)} :
               \E s \in req[q].todo \cap live : series' = [series EXCEPT ![s] = row]
    BY <1>2 DEF SaveSeries
  <2>2. row \in Schedule
    BY <1>1, <2>1, AccessAssumption DEF Call
  <2> QED
    BY <1>1, <1>2, <2>1, <2>2 DEF SaveSeries
<1>3. CASE CreateSeries(q)
  BY <1>1, <1>3, AccessAssumption DEF CreateSeries
<1>4. CASE UpdateContest(q)
  BY <1>1, <1>4, AccessAssumption DEF UpdateContest
<1>5. CASE DeleteSeries(q)
  BY <1>1, <1>5 DEF DeleteSeries
<1>6. CASE Assign(q)
  BY <1>1, <1>6 DEF Assign
<1>7. CASE Unassign(q)
  BY <1>1, <1>7 DEF Unassign
<1> QED
  BY <1>2, <1>3, <1>4, <1>5, <1>6, <1>7

(* The transaction of setMember takes the row, then writes and gives it    *)
(* back.                                                                   *)
LEMMA LockStep ==
  ASSUME Types, LocksFit, NEW q \in Writer, LockContest(q)
  PROVE  Types' /\ LocksFit' /\ UNCHANGED <<tables, now>>
         /\ \A p \in Request \ {q} : req'[p] = req[p]
<1>1. /\ req \in [Request -> Call] /\ q \in Request /\ q \notin Reader
      /\ member \in [User -> Roles] /\ Candidate \subseteq User /\ now \in 0..MaxTime
  BY CallLabels, AccessAssumption DEF Types, TypeOK
<1>2. UNCHANGED <<tables, now>> /\ ~RowLocked /\ contest' = contest /\ member' = member
  BY DEF LockContest, tables
<1>3. CASE Done(q)
  <2>1. /\ req' \in [Request -> Call] /\ \A p \in Request \ {q} : req'[p] = req[p]
        /\ req'[q].pc = "idle"
    BY <1>1, <1>3, DoneFrame
  <2>2. TypeOK'
    BY <1>1, <1>2, <2>1, SameTables
  <2> QED
    BY <1>1, <1>2, <2>1, <2>2, RequestTypes, LocksStay
<1>4. CASE contest.exists /\ ~Done(q)
  <2>1. PICK u \in Candidate :
               req' = [req EXCEPT ![q].pc = "locked", ![q].who = u, ![q].was = member[u]]
    BY <1>4 DEF LockContest
  <2>2. PICK r : r = [req[q] EXCEPT !.pc = "locked", !.who = u, !.was = member[u]]
    OBVIOUS
  <2>3. req' = [req EXCEPT ![q] = r]
    BY <1>1, <2>1, <2>2
  <2>4. r \in Call /\ r.pc = "locked" /\ r.who = u /\ r.was = member[u]
    <3>1. req[q] \in Call /\ "locked" \in Changing /\ u \in User /\ member[u] \in Roles
      BY <1>1, CallLabels
    <3> QED
      BY <2>2, <3>1 DEF Call
  <2>5. req' \in [Request -> Call] /\ req'[q] = r /\ \A p \in Request \ {q} : req'[p] = req[p]
    BY <1>1, <2>3, <2>4
  <2>6. Types'
    <3>1. TypeOK'
      BY <1>1, <1>2, <2>5, SameTables
    <3> QED
      BY <1>1, <2>4, <2>5, <3>1, RequestTypes, CallLabels
  <2>7. LocksFit'
    BY <1>2, <1>4, <2>4, <2>5 DEF LocksFit, RowLocked, At
  <2> QED
    BY <1>2, <2>5, <2>6, <2>7
<1> QED
  BY <1>3, <1>4 DEF LockContest

LEMMA SetMemberStep ==
  ASSUME Types, LocksFit, NEW q \in Writer, SetMember(q)
  PROVE  /\ Types' /\ LocksFit' /\ UNCHANGED <<contest, series, live, unused, assigned, now>>
         /\ req'[q].pc = "idle" /\ \A p \in Request \ {q} : req'[p] = req[p]
<1>1. /\ req \in [Request -> Call] /\ q \in Request /\ q \notin Reader
      /\ member \in [User -> Roles] /\ req[q] \in Call
  BY CallLabels DEF Types, TypeOK
<1>2. UNCHANGED <<contest, series, live, unused, assigned, now>> /\ Done(q) /\ At(q, "locked")
  BY DEF SetMember
<1>3. /\ req' \in [Request -> Call] /\ \A p \in Request \ {q} : req'[p] = req[p]
      /\ req'[q].pc = "idle"
  BY <1>1, <1>2, DoneFrame
<1>4. member' \in [User -> Roles] /\ contest.exists
  BY <1>1, <1>2 DEF SetMember, LocksFit, Call
<1>5. TypeOK'
  <2>1. \A p \in Request : /\ req'[p].actor \in User /\ req'[p].copy \in Schedule
                            /\ req'[p].todo \cup req'[p].sid \subseteq Series
    BY <1>3 DEF Call
  <2> QED
    BY <1>2, <1>4, <2>1 DEF Types, TypeOK
<1> QED
  BY <1>1, <1>2, <1>3, <1>5, RequestTypes, LocksStay

LEMMA WriteTypes ==
  ASSUME Types, LocksFit, NEW q \in Writer, Write(q)
  PROVE  /\ Types' /\ LocksFit' /\ now' = now
         /\ \A p \in Request \ {q} : req'[p] = req[p]
<1>1. q \in Request /\ q \notin Reader /\ req \in [Request -> Call] /\ now \in 0..MaxTime
  BY CallLabels DEF Types, TypeOK
<1>2. CASE \/ CallManage(q) \/ CallMember(q) \/ CallSave(q) \/ CallForm(q)
           \/ Reauthorize(q) \/ WriteNothing(q)
  <2>1. /\ UNCHANGED <<tables, now>> /\ req' \in [Request -> Call]
        /\ \A p \in Request \ {q} : req'[p] = req[p]
        /\ req'[q].pc \in {"idle"} \cup Changing /\ req'[q].pc # "locked"
    BY <1>2, WriterGoesOn
  <2>2. TypeOK'
    BY <1>1, <2>1, SameTables
  <2>3. contest' = contest /\ member' = member
    BY <2>1 DEF tables
  <2> QED
    BY <1>1, <2>1, <2>2, <2>3, RequestTypes, LocksStay
<1>3. CASE \/ SaveSeries(q) \/ CreateSeries(q) \/ UpdateContest(q) \/ DeleteSeries(q)
           \/ Assign(q) \/ Unassign(q)
  <2>1. /\ Done(q) /\ now' = now /\ member' = member
        /\ contest' \in Contest /\ (contest'.exists <=> contest.exists)
        /\ series' \in [Series -> Schedule]
        /\ live' \in SUBSET Series /\ unused' \in SUBSET (Series \ live')
        /\ assigned' \in SUBSET live' /\ (~contest.exists => live' = {})
    BY <1>3, WriterWrites
  <2>2. /\ req' \in [Request -> Call] /\ \A p \in Request \ {q} : req'[p] = req[p]
        /\ req'[q].pc = "idle"
    BY <1>1, <2>1, DoneFrame
  <2>3. TypeOK'
    <3>1. \A p \in Request : /\ req'[p].actor \in User /\ req'[p].copy \in Schedule
                              /\ req'[p].todo \cup req'[p].sid \subseteq Series
      BY <2>2 DEF Call
    <3> QED
      BY <2>1, <3>1 DEF Types, TypeOK
  <2>4. LocksFit'
    BY <2>1, <2>2 DEF LocksFit, At
  <2> QED
    BY <1>1, <2>1, <2>2, <2>3, <2>4, RequestTypes
<1> QED
  BY <1>2, <1>3, LockStep, SetMemberStep DEF Write

LEMMA DeleteContestTypes ==
  ASSUME Types, LocksFit, DeleteContest
  PROVE  Types' /\ LocksFit' /\ UNCHANGED <<now, req>> /\ ~contest'.exists
<1>1. /\ ~RowLocked /\ contest' = NoContest /\ series' = [s \in Series |-> NoSchedule]
      /\ live' = {} /\ assigned' = {} /\ member' = [u \in User |-> "none"]
      /\ UNCHANGED <<unused, now, req>>
  BY DEF DeleteContest
<1>2. NoContest \in Contest /\ ~NoContest.exists /\ NoSchedule \in Schedule /\ "none" \in Roles
  BY NoRequestFacts DEF NoContest, Contest, Nil, Roles
<1>3. TypeOK'
  BY <1>1, <1>2 DEF Types, TypeOK
<1>4. Types'
  BY <1>1, <1>3 DEF Types
<1>5. LocksFit'
  BY <1>1 DEF LocksFit, RowLocked, At
<1> QED
  BY <1>1, <1>2, <1>4, <1>5

LEMMA TickTypes ==
  ASSUME Types, LocksFit, Tick
  PROVE  Types' /\ LocksFit' /\ UNCHANGED <<tables, req>> /\ now <= now'
<1>1. UNCHANGED <<tables, req>> /\ now' = now + 1 /\ now < MaxTime /\ now \in 0..MaxTime
  BY DEF Tick, Types, TypeOK
<1>2. now' \in 0..MaxTime /\ now <= now'
  BY <1>1, AccessAssumption
<1>3. TypeOK'
  BY <1>1, <1>2, SameTables DEF Types
<1>4. Types'
  BY <1>1, <1>3 DEF Types
<1>5. LocksFit'
  BY <1>1 DEF LocksFit, At, tables
<1> QED
  BY <1>1, <1>2, <1>4, <1>5

-----------------------------------------------------------------------------
(* The history of a reader.                                                *)

LEMMA ObserveFacts ==
  ASSUME NEW q \in Reader, Observe
  PROVE  /\ req'[q].pc # "idle" => /\ held[q] \subseteq held'[q] /\ Facts(q)' \subseteq held'[q]
                                   /\ \A s \in live' \cap req'[q].sid : series'[s] \in shown'[q]
                                   /\ seen[q] \subseteq seen'[q]
                                   /\ contest'.pub => contest' \in seen'[q]
         /\ req'[q].pc # "idle" /\ req[q].pc # "load" => shown[q] \subseteq shown'[q]
         /\ quiet'[q] => /\ req'[q].pc # "idle"
                         /\ req[q].pc # "idle" => quiet[q] /\ UNCHANGED tables
         /\ due'[q] => IF req[q].pc = "idle" THEN May(q)' ELSE due[q]
         /\ \A row \in shown'[q] : row \in shown[q] \/ \E s \in live' : row = series'[s]
         /\ \A c \in seen'[q] : c \in seen[q] \/ c = contest'
<1>1. req'[q].pc # "idle" => held'[q] = held[q] \cup Facts(q)'
  BY DEF Observe, At
<1>2. req'[q].pc # "idle" =>
        shown'[q] = (IF req[q].pc = "load" THEN {} ELSE shown[q]) \cup {series'[s] : s \in live' \cap req'[q].sid}
  BY DEF Observe, At
<1>3. quiet'[q] <=> req'[q].pc # "idle" /\ (req[q].pc = "idle" \/ (quiet[q] /\ UNCHANGED tables))
  BY DEF Observe, At
<1>4. due'[q] => IF req[q].pc = "idle" THEN May(q)' ELSE due[q]
  BY DEF Observe, At
<1>5. req'[q].pc = "idle" => shown'[q] = {} /\ seen'[q] = {}
  BY DEF Observe, At
<1>6. req'[q].pc # "idle" => seen'[q] = seen[q] \cup {c \in {contest'} : c.pub}
  BY DEF Observe, At
<1> QED
  BY <1>1, <1>2, <1>3, <1>4, <1>5, <1>6

(* The facts that a query can find, once they hold at its instant.         *)
LEMMA FactsHeld ==
  ASSUME NEW q \in Reader, ~At(q, "idle"), Ground(q)
  PROVE  /\ req[q].op \in {"read", "submit", "download", "page"} /\ Managing(req[q].actor)
              => "manager" \in held[q]
         /\ req[q].op \in {"read", "submit", "download"} /\ member[req[q].actor] # "none"
              => "member" \in held[q]
         /\ req[q].op = "submit" /\ member[req[q].actor] = "participant" => "participant" \in held[q]
<1> DEFINE truth == [manager |-> Managing(req[q].actor), member |-> member[req[q].actor] # "none",
                     participant |-> member[req[q].actor] = "participant"]
           relevant == CASE req[q].op = "page" -> {"manager"}
                    [] req[q].op = "submit" -> {"manager", "member", "participant"}
                    [] OTHER -> {"manager", "member"}
<1>1. \A f \in relevant : truth[f] => f \in held[q]
  BY DEF Ground, Facts
<1>2. /\ truth["manager"] = Managing(req[q].actor)
      /\ truth["member"] = (member[req[q].actor] # "none")
      /\ truth["participant"] = (member[req[q].actor] = "participant")
  OBVIOUS
<1>3. /\ req[q].op = "page" => relevant = {"manager"}
      /\ req[q].op = "submit" => relevant = {"manager", "member", "participant"}
      /\ req[q].op \in {"read", "download"} => relevant = {"manager", "member"}
  OBVIOUS
<1> HIDE DEF truth, relevant
<1> QED
  BY <1>1, <1>2, <1>3

(* Time only opens what reading asks for, while the tables stay.           *)
LEMMA TimeOpens ==
  ASSUME now \in Nat, now' \in Nat, now <= now'
  PROVE  /\ \A row \in Schedule : Released(row) => Released(row)'
         /\ \A c \in Contest : Begun(c.start) => Begun(c.start)'
         /\ contest \in Contest /\ contest' = contest /\ Started => Started'
<1>1. \A t \in Int : Begun(t) => Begun(t)'
  BY DEF Begun, Nil
<1>2. \A row \in Schedule : (IF row.release # Nil THEN row.release ELSE row.start) \in Int
  BY DEF Schedule
<1>3. \A c \in Contest : c.start \in Int
  BY DEF Contest
<1> QED
  BY <1>1, <1>2, <1>3 DEF Released, Started, Begun

LEMMA TimeOpensReading ==
  ASSUME Types, now \in Nat, now' \in Nat, now <= now', UNCHANGED tables, NEW u \in User, NEW s
  PROVE  MayRead(u, s) => MayRead(u, s)'
<1>1. s \in live => series[s] \in Schedule
  BY DEF Types, TypeOK
<1>2. contest \in Contest /\ UNCHANGED <<contest, series, live, member>>
  BY DEF Types, TypeOK, tables
<1>3. Managing(u) => Managing(u)'
  BY <1>2 DEF Managing
<1>4. Started => Started'
  BY <1>2, TimeOpens
<1>5. s \in live /\ Released(series[s]) => Released(series[s])'
  BY <1>1, <1>2, TimeOpens DEF Released, Begun
<1> QED
  BY <1>2, <1>3, <1>4, <1>5 DEF MayRead

(* What the invariant says of one reader.                                  *)
Fits(q) == Shape(q) /\ Ground(q) /\ (quiet[q] => ~At(q, "idle") /\ Current(q))

LEMMA ShownTypes ==
  ASSUME Types', NEW q \in Reader, Ground(q), Observe
  PROVE  shown'[q] \subseteq Schedule /\ seen'[q] \subseteq Contest
<1>1. (\A s \in live' : series'[s] \in Schedule) /\ contest' \in Contest
  BY DEF Types, TypeOK
<1> QED
  BY <1>1, ObserveFacts DEF Ground

(* A reader that is not served: the clock runs, others write.              *)
LEMMA Stays ==
  ASSUME Types, Types', NEW q \in Reader, Fits(q), req'[q] = req[q], Observe, now <= now'
  PROVE  Fits(q)'
<1>1. /\ req[q].pc # "idle" => /\ held[q] \subseteq held'[q] /\ Facts(q)' \subseteq held'[q]
                               /\ seen[q] \subseteq seen'[q]
                               /\ contest'.pub => contest' \in seen'[q]
      /\ req[q].pc # "idle" /\ req[q].pc # "load" => shown[q] \subseteq shown'[q]
      /\ quiet'[q] => req[q].pc # "idle" /\ quiet[q] /\ UNCHANGED tables
      /\ req[q].pc # "idle" /\ due'[q] => due[q]
      /\ shown'[q] \subseteq Schedule /\ seen'[q] \subseteq Contest
  BY ObserveFacts, ShownTypes DEF Fits
<1>2. /\ now \in Nat /\ now' \in Nat /\ q \in Request /\ req[q].actor \in User
      /\ req[q].copy \in Schedule /\ \A s \in Series : series[s] \in Schedule
  BY CallLabels, AccessAssumption DEF Types, TypeOK
<1>3. Shape(q)'
  BY DEF Fits, Shape, At
<1>4. Ground(q)'
  <2>1. /\ \A row \in Schedule : Released(row) => Released(row)'
        /\ \A c \in Contest : Begun(c.start) => Begun(c.start)'
    BY <1>2, TimeOpens
  <2>2. /\ ~At(q, "idle")' => Facts(q)' \subseteq held'[q] /\ (contest'.pub => contest' \in seen'[q])
        /\ req'[q].pc \in {"clock", "instant"} => req'[q].row \in seen'[q]
    <3>1. req[q].pc \in {"clock", "instant"} => req[q].row \in seen[q]
      BY DEF Fits, Ground
    <3>2. req[q].pc \in {"clock", "instant"} => req[q].row \in seen'[q]
      BY <1>1, <3>1
    <3> QED
      BY <1>1, <3>2 DEF At
  <2>3. req'[q].pc \in Chosen /\ req'[q].op # "page" => req'[q].copy \in shown'[q]
    BY <1>1 DEF Fits, Ground, Chosen
  <2>c. ASSUME NEW c \in seen[q], Begun(c.start), req[q].pc # "idle"
        PROVE  c \in seen'[q] /\ Begun(c.start)'
    <3>1. c \in Contest /\ c.start \in Int
      BY DEF Fits, Ground, Contest
    <3>2. c \in seen'[q]
      BY <1>1, <2>c
    <3>3. Begun(c.start)'
      BY <1>2, <2>c, <3>1 DEF Begun
    <3> QED
      BY <3>2, <3>3
  <2>4. At(q, "member")' => (\E c \in seen'[q] : Begun(c.start)') /\ Released(req[q].copy)'
    <3> SUFFICES ASSUME req[q].pc = "member"
                 PROVE  (\E c \in seen'[q] : Begun(c.start)') /\ Released(req[q].copy)'
      BY DEF At
    <3>1. \E c \in seen'[q] : Begun(c.start)'
      BY <2>c DEF Fits, Ground, At
    <3>2. Released(req[q].copy)'
      BY <1>1, <1>2, <2>1 DEF Fits, Ground, At, Released, Begun
    <3> QED
      BY <3>1, <3>2
  <2>5. req'[q].pc \in {"participant", "window", "instant"} => ReadGrounds(q)'
    <3> SUFFICES ASSUME req[q].pc \in {"participant", "window", "instant"} PROVE ReadGrounds(q)'
      OBVIOUS
    <3>0. ReadGrounds(q) /\ req[q].pc # "idle" /\ req[q].pc # "load"
      BY DEF Fits, Ground
    <3>1. ReadGrounds(q) /\ held[q] \subseteq held'[q] /\ shown[q] \subseteq shown'[q]
      BY <1>1, <3>0
    <3>2. ASSUME NEW row \in shown[q], Released(row) PROVE row \in shown'[q] /\ Released(row)'
      <4>1. row \in Schedule
        BY DEF Fits, Ground
      <4> QED
        BY <2>1, <3>1, <3>2, <4>1
    <3>3. CASE "manager" \in held[q]
      BY <3>1, <3>3 DEF ReadGrounds
    <3>4. CASE "manager" \notin held[q]
      BY <2>c, <3>0, <3>1, <3>2, <3>4 DEF ReadGrounds
    <3> QED
      BY <3>3, <3>4
  <2>6. req'[q].pc \in {"window", "instant"} => "participant" \in held'[q]
    <3>1. req[q].pc \in {"window", "instant"} => "participant" \in held[q] /\ req[q].pc # "idle"
      BY DEF Fits, Ground
    <3> QED
      BY <1>1, <3>1
  <2> QED
    BY <1>1, <2>2, <2>3, <2>4, <2>5, <2>6 DEF Ground
<1>5. ASSUME quiet'[q] PROVE ~At(q, "idle")' /\ Current(q)'
  <2>1. ~At(q, "idle") /\ Current(q) /\ UNCHANGED tables /\ (due'[q] => due[q])
    BY <1>1, <1>5 DEF Fits, At
  <2>2. UNCHANGED <<contest, series, live, assigned, member>> /\ contest \in Contest
    BY <2>1 DEF tables, Types, TypeOK
  <2>3. \A s : MayRead(req[q].actor, s) => MayRead(req[q].actor, s)'
    <3>1. ASSUME NEW u \in User, NEW s PROVE MayRead(u, s) => MayRead(u, s)'
      BY <1>2, <2>1, TimeOpensReading
    <3>2. PICK u \in User : u = req[q].actor
      BY <1>2
    <3> QED
      BY <3>1, <3>2 DEF MayRead, Managing
  <2>4. Started => Started'
    BY <1>2, <2>2, TimeOpens
  <2>5. (Managing(req[q].actor) <=> Managing(req[q].actor)') /\ (Left(q)' = Left(q))
    BY <2>2 DEF Managing, Left, At
  <2>6. Current(q)'
    BY <2>1, <2>2, <2>3, <2>4, <2>5 DEF Current, At
  <2> QED
    BY <2>1, <2>6 DEF At
<1> QED
  BY <1>3, <1>4, <1>5 DEF Fits

(* A reader is answered: nothing is left to say of it.                     *)
LEMMA Answered ==
  ASSUME Types', NEW q \in Reader, Fits(q), Observe,
         req'[q].pc = "idle", req'[q].op \in {"granted", "refused"}
  PROVE  Fits(q)'
<1>1. ~quiet'[q] /\ shown'[q] \subseteq Schedule /\ seen'[q] \subseteq Contest
  BY ObserveFacts, ShownTypes DEF Fits
<1>2. Shape(q)'
  BY DEF Shape, At, Chosen
<1>3. Ground(q)'
  BY <1>1 DEF Ground, At, Chosen
<1> QED
  BY <1>1, <1>2, <1>3 DEF Fits

(* A reader calls.                                                         *)
LEMMA Called ==
  ASSUME Types', NEW q \in Reader, Fits(q), Observe, req[q].pc = "idle", req'[q].sid = {},
         \/ /\ req'[q].op \in {"read", "submit"} /\ req'[q].pc = "load"
            /\ \E s \in Series : req'[q].todo = {s}
         \/ req'[q].op = "download" /\ req'[q].pc = "revision" /\ req'[q].todo = {}
         \/ req'[q].op = "page" /\ req'[q].pc = "page"
  PROVE  Fits(q)'
<1>1. /\ Facts(q)' \subseteq held'[q] /\ shown'[q] \subseteq Schedule /\ req'[q].pc # "idle"
      /\ seen'[q] \subseteq Contest /\ (contest'.pub => contest' \in seen'[q])
      /\ due'[q] => May(q)'
  BY ObserveFacts, ShownTypes DEF Fits
<1>2. Shape(q)'
  BY DEF Shape, At, Chosen
<1>3. Ground(q)'
  BY <1>1 DEF Ground, At, Chosen
<1>4. Current(q)'
  <2>1. req'[q].op = "download" /\ May(q)' =>
          \/ req'[q].actor \in Admin \cup {Owner}
          \/ \E s \in assigned' : MayRead(req[q].actor, s)'
    BY DEF May
  <2>2. req'[q].pc = "revision" => Left(q)' = assigned'
    BY DEF Left, At
  <2> QED
    BY <1>1, <2>1, <2>2 DEF Current, At, Chosen
<1> QED
  BY <1>1, <1>2, <1>3, <1>4 DEF Fits, At

-----------------------------------------------------------------------------
(* A reader goes from query to query.                                      *)

(* What is the same after a query that has only moved the request on.      *)
Moved(q, label) ==
  /\ UNCHANGED <<contest, series, live, assigned, member, now>>
  /\ req'[q].pc = label /\ req'[q].op = req[q].op /\ req'[q].actor = req[q].actor
  /\ req'[q].sid = req[q].sid /\ req'[q].copy = req[q].copy /\ req'[q].todo = req[q].todo
  /\ held[q] \subseteq held'[q] /\ Facts(q)' \subseteq held'[q] /\ shown'[q] \subseteq Schedule
  /\ seen[q] \subseteq seen'[q] /\ seen'[q] \subseteq Contest
  /\ contest'.pub => contest' \in seen'[q]
  /\ req[q].pc # "load" => shown[q] \subseteq shown'[q]
  /\ quiet'[q] => quiet[q] /\ Current(q)
  /\ due'[q] => due[q]

LEMMA MovedOn ==
  ASSUME Types, Types', NEW q \in Reader, Fits(q), Observe, UNCHANGED <<tables, now>>,
         ~At(q, "idle"), NEW label \in Asking, To(q, label) \/ Keep(q, label)
  PROVE  Moved(q, label) /\ (Keep(q, label) => req'[q].row = contest)
<1>1. req \in [Request -> Call] /\ q \in Request /\ contest \in Contest
  BY CallLabels DEF Types, TypeOK
<1>2. label \notin {"granted", "refused"} /\ label # "idle"
  BY CallLabels
<1>3. /\ req'[q].pc = label /\ req'[q].op = req[q].op /\ req'[q].actor = req[q].actor
      /\ req'[q].sid = req[q].sid /\ req'[q].copy = req[q].copy /\ req'[q].todo = req[q].todo
      /\ Keep(q, label) => req'[q].row = contest
  BY <1>1, <1>2, ToFrame, KeepFrame
<1>4. /\ held[q] \subseteq held'[q] /\ Facts(q)' \subseteq held'[q]
      /\ seen[q] \subseteq seen'[q] /\ (contest'.pub => contest' \in seen'[q])
      /\ req[q].pc # "load" => shown[q] \subseteq shown'[q]
      /\ quiet'[q] => quiet[q]
      /\ due'[q] => due[q]
  BY <1>2, <1>3, ObserveFacts DEF At
<1> QED
  BY <1>3, <1>4, ShownTypes DEF Moved, Fits, tables

(* loadContest goes on to ManageContest.                                   *)
LEMMA PageFits ==
  ASSUME NEW q \in Reader, Fits(q), At(q, "page"), Moved(q, "manage"), ~contest.pub
  PROVE  Fits(q)'
<1>1. req[q].op = "page" /\ req'[q].op = "page" /\ req'[q].pc = "manage" /\ ~contest'.pub
  BY DEF Fits, Shape, Moved
<1> QED
  BY <1>1 DEF Fits, Shape, Ground, Current, Moved, At

(* ManageContest has said no.                                              *)
LEMMA CheckFits ==
  ASSUME NEW q \in Reader, Fits(q), At(q, "manage"), Moved(q, "check"), req[q].op # "page",
         ~Managing(req[q].actor)
  PROVE  Fits(q)'
<1>1. Shape(q)'
  BY DEF Fits, Shape, Moved, At, Chosen
<1>2. Ground(q)'
  BY DEF Fits, Ground, Moved, At, Chosen
<1>3. quiet'[q] => Current(q)'
  <2>1. ~Managing(req[q].actor)'
    BY DEF Moved, Managing
  <2>2. Left(q) = req[q].todo \cup req[q].sid /\ Left(q)' = Left(q)
    BY DEF Left, At, Moved
  <2>3. \A s : MayRead(req[q].actor, s) => MayRead(req[q].actor, s)'
    BY DEF Moved, MayRead, Managing, Started, Released, Begun
  <2> QED
    BY <2>1, <2>2, <2>3 DEF Current, Moved, At, Chosen
<1> QED
  BY <1>1, <1>2, <1>3 DEF Fits, Moved, At

(* The code's conditions are the documented ones: a time that is absent    *)
(* lies before every instant.                                              *)
LEMMA Conditions ==
  ASSUME Types
  PROVE  /\ \A c \in Contest : c.start <= now <=> Begun(c.start)
         /\ \A row \in Schedule : Release(row) <= now <=> Released(row)
         /\ \A row \in Schedule : InWindow(row) <=> Running(row)
         /\ \A c \in Contest : InWindow(c) <=> Running(c)
         /\ \A u \in User : Manager(u) <=> Managing(u)
<1>1. now \in Nat /\ contest \in Contest
  BY AccessAssumption DEF Types, TypeOK
<1>2. \A t \in Int : t <= now <=> Begun(t)
  BY <1>1 DEF Begun, Nil
<1>3. \A t \in Int : (t # Nil => now < t) <=> ~Over(t)
  BY <1>1 DEF Over, Nil
<1>4. \A c \in Contest : c.start \in Int /\ c.end \in Int
  BY DEF Contest
<1>5. \A row \in Schedule : row.start \in Int /\ row.end \in Int /\ row.release \in Int
  BY DEF Schedule
<1>6. \A c \in Contest : c.start <= now <=> Begun(c.start)
  BY <1>2, <1>4
<1>7. \A row \in Schedule : Release(row) <= now <=> Released(row)
  BY <1>2, <1>5 DEF Release, Released
<1>8. \A row \in Schedule : InWindow(row) <=> Running(row)
  BY <1>2, <1>3, <1>5 DEF InWindow, Running
<1>9. \A c \in Contest : InWindow(c) <=> Running(c)
  BY <1>2, <1>3, <1>4 DEF InWindow, Running
<1> QED
  BY <1>6, <1>7, <1>8, <1>9 DEF Manager, Managing

(* Nothing that a decision reads is different in the next state.           *)
LEMMA SameRules ==
  ASSUME NEW q \in Reader, NEW label, Moved(q, label)
  PROVE  /\ \A s : MayRead(req[q].actor, s)' <=> MayRead(req[q].actor, s)
         /\ Managing(req[q].actor)' <=> Managing(req[q].actor)
         /\ Started' <=> Started
         /\ \A t : Begun(t)' <=> Begun(t)
         /\ Released(req[q].copy)' <=> Released(req[q].copy)
         /\ \A row : Released(row)' <=> Released(row)
  BY DEF Moved, MayRead, Managing, Started, Released, Begun

LEMMA SameLeft ==
  ASSUME NEW q \in Reader, NEW label \in Chosen, Moved(q, label), req[q].pc \in Chosen
  PROVE  Left(q) = req[q].todo \cup req[q].sid /\ Left(q)' = Left(q)
  BY DEF Left, Moved, At, Chosen

(* The contest is published and its row is kept.                           *)
LEMMA ClockFits ==
  ASSUME NEW q \in Reader, Fits(q), At(q, "check"), Moved(q, "clock"),
         contest.pub, req'[q].row = contest
  PROVE  Fits(q)'
<1>1. Shape(q)'
  BY DEF Fits, Shape, Moved, At, Chosen
<1>2. Ground(q)'
  BY SameRules DEF Fits, Ground, Moved, At, Chosen
<1>3. quiet'[q] => Current(q)'
  BY SameRules, SameLeft DEF Current, Moved, At, Chosen
<1> QED
  BY <1>1, <1>2, <1>3 DEF Fits, Moved, At

(* The contest that was read has begun and the series is released.         *)
LEMMA MemberFits ==
  ASSUME NEW q \in Reader, Fits(q), At(q, "clock"), Moved(q, "member"),
         Begun(req[q].row.start), Released(req[q].copy)
  PROVE  Fits(q)'
<1>1. Shape(q)'
  BY DEF Fits, Shape, Moved, At, Chosen
<1>2. Ground(q)'
  <2>1. PICK c \in seen'[q] : c = req[q].row
    BY DEF Fits, Ground, At, Moved
  <2>2. Begun(c.start)'
    BY <2>1, SameRules DEF Begun, Moved
  <2> QED
    BY <2>1, <2>2, SameRules DEF Fits, Ground, Moved, At, Chosen
<1>3. quiet'[q] => Current(q)'
  <2>1. Current(q) => Started
    BY DEF Current, Started, At
  <2> QED
    BY <2>1, SameRules, SameLeft DEF Current, Moved, At, Chosen
<1> QED
  BY <1>1, <1>2, <1>3 DEF Fits, Moved, At

(* CanReadSeries has said yes to CanSubmit.                                *)
LEMMA ParticipantFits ==
  ASSUME NEW q \in Reader, Fits(q), Moved(q, "participant"), req[q].op = "submit",
         \/ At(q, "manage") /\ Managing(req[q].actor)
         \/ At(q, "member") /\ member[req[q].actor] # "none"
  PROVE  Fits(q)'
<1>1. Shape(q)'
  BY DEF Fits, Shape, Moved, At, Chosen
<1>2. Ground(q)'
  <2>1. req[q].copy \in shown[q] /\ shown[q] \subseteq shown'[q] /\ held[q] \subseteq held'[q]
    BY DEF Fits, Ground, Moved, At, Chosen
  <2>2. ReadGrounds(q)'
    <3>1. CASE At(q, "manage") /\ Managing(req[q].actor)
      <4>1. "manager" \in held[q]
        BY <3>1, FactsHeld DEF Fits, At
      <4> QED
        BY <2>1, <4>1 DEF ReadGrounds
    <3>2. CASE At(q, "member") /\ member[req[q].actor] # "none"
      <4>1. "member" \in held[q] /\ Released(req[q].copy)
        BY <3>2, FactsHeld DEF Fits, Shape, Ground, At
      <4>c. PICK c \in seen'[q] : Begun(c.start)'
        BY <3>2, SameRules DEF Fits, Ground, At, Moved
      <4>2. PICK row \in shown'[q] : row = req[q].copy
        BY <2>1
      <4>3. Released(row)'
        BY <4>1, <4>2, SameRules DEF Released, Begun, Moved
      <4> QED
        BY <2>1, <4>1, <4>c, <4>2, <4>3 DEF ReadGrounds
    <3> QED
      BY <3>1, <3>2
  <2> QED
    BY <2>1, <2>2 DEF Ground, Moved, At, Chosen
<1>3. quiet'[q] => Current(q)'
  <2> SUFFICES ASSUME quiet'[q] PROVE Current(q)'
    OBVIOUS
  <2>1. Current(q)
    BY DEF Moved
  <2>2. \A s \in req[q].sid : MayRead(req[q].actor, s)
    BY <2>1 DEF Current, Fits, Ground, MayRead, At, Chosen
  <2> QED
    BY <2>1, <2>2, SameRules, SameLeft DEF Current, Moved, At, Chosen
<1> QED
  BY <1>1, <1>2, <1>3 DEF Fits, Moved, At

(* The caller is a participant.                                            *)
LEMMA WindowFits ==
  ASSUME NEW q \in Reader, Fits(q), At(q, "participant"), Moved(q, "window"),
         member[req[q].actor] = "participant"
  PROVE  Fits(q)'
<1>1. Shape(q)'
  BY DEF Fits, Shape, Moved, At, Chosen
<1>2. Ground(q)'
  <2>1. "participant" \in held'[q]
    BY FactsHeld DEF Fits, Shape, At, Moved
  <2>2. ReadGrounds(q)'
    BY SameRules DEF Fits, Ground, ReadGrounds, Moved, At
  <2> QED
    BY <2>1, <2>2 DEF Fits, Ground, Moved, At, Chosen
<1>3. quiet'[q] => Current(q)'
  BY SameRules, SameLeft DEF Current, Moved, At, Chosen, Fits, Shape
<1> QED
  BY <1>1, <1>2, <1>3 DEF Fits, Moved, At

(* The contest's row is kept for the last look at the clock.               *)
LEMMA InstantFits ==
  ASSUME NEW q \in Reader, Fits(q), At(q, "window"), Moved(q, "instant"),
         contest.pub, req'[q].row = contest
  PROVE  Fits(q)'
<1>1. Shape(q)'
  BY DEF Fits, Shape, Moved, At, Chosen
<1>2. Ground(q)'
  <2>1. ReadGrounds(q)'
    BY SameRules DEF Fits, Ground, ReadGrounds, Moved, At
  <2> QED
    BY <2>1 DEF Fits, Ground, Moved, At, Chosen
<1>3. quiet'[q] => Current(q)'
  BY SameRules, SameLeft DEF Current, Moved, At, Chosen, Fits, Shape
<1> QED
  BY <1>1, <1>2, <1>3 DEF Fits, Moved, At

(* CanReadSeries has said no to Artifact, which tries the next series.     *)
LEMMA LoadFits ==
  ASSUME NEW q \in Reader, Fits(q), Moved(q, "load"), req[q].todo # {},
         \/ At(q, "check") /\ ~contest.pub
         \/ At(q, "clock") /\ ~(Begun(req[q].row.start) /\ Released(req[q].copy))
         \/ At(q, "member") /\ member[req[q].actor] = "none"
  PROVE  Fits(q)'
<1>1. req[q].op = "download" /\ req'[q].op = "download" /\ req'[q].pc = "load"
  BY DEF Fits, Shape, Moved, At
<1>2. Shape(q)'
  BY <1>1 DEF Fits, Shape, Moved, At, Chosen
<1>3. Ground(q)'
  BY <1>1 DEF Fits, Ground, Moved, At, Chosen
<1>4. quiet'[q] => Current(q)'
  <2> SUFFICES ASSUME quiet'[q] PROVE Current(q)'
    OBVIOUS
  <2>1. Current(q) /\ Left(q) = req[q].todo \cup req[q].sid /\ Left(q)' = req[q].todo
    BY <1>1 DEF Moved, Left, At
  <2>2. \A s \in req[q].sid : ~MayRead(req[q].actor, s)
    BY <1>1, <2>1 DEF Current, MayRead, Started, At, Chosen
  <2> QED
    BY <1>1, <2>1, <2>2, SameRules DEF Current, Moved, At, Chosen
<1> QED
  BY <1>2, <1>3, <1>4 DEF Fits, Moved, At

-----------------------------------------------------------------------------
(* The readers' steps.                                                     *)

LEMMA CallsFit ==
  ASSUME Types, Types', NEW q \in Reader, Fits(q), Observe,
         CallRead(q) \/ CallStatement(q) \/ CallDownload(q) \/ CallPage(q)
  PROVE  Fits(q)'
<1>1. /\ req \in [Request -> Call] /\ series \in [Series -> Schedule] /\ q \in Request
      /\ assigned \in SUBSET Series /\ {"load", "revision", "page"} \subseteq Asking
  BY CallLabels DEF Types, TypeOK
<1>2. PICK u \in User, todo \in SUBSET Series, op \in {"read", "submit", "download", "page"},
           label \in {"load", "revision", "page"} :
        /\ Enter(q, op, u, label, todo)
        /\ \/ op \in {"read", "submit"} /\ label = "load" /\ \E s \in Series : todo = {s}
           \/ op = "download" /\ label = "revision" /\ todo = {}
           \/ op = "page" /\ label = "page"
  <2>1. CASE CallRead(q)
    BY <2>1 DEF CallRead
  <2>2. CASE CallStatement(q)
    BY <1>1, <2>2 DEF CallStatement
  <2>3. CASE CallDownload(q)
    BY <2>3 DEF CallDownload
  <2>4. CASE CallPage(q)
    BY <2>4 DEF CallPage
  <2> QED
    BY <2>1, <2>2, <2>3, <2>4
<1>3. /\ req[q].pc = "idle" /\ req'[q].pc = label /\ req'[q].op = op
      /\ req'[q].todo = todo /\ req'[q].sid = {}
  BY <1>1, <1>2, EnterFrame
<1> QED
  BY <1>2, <1>3, Called

LEMMA ToAnswer ==
  ASSUME Types, Types', NEW q \in Reader, Fits(q), Observe, To(q, "granted") \/ To(q, "refused")
  PROVE  Fits(q)'
<1>1. req \in [Request -> Call] /\ q \in Request
  BY CallLabels DEF Types
<1>2. req'[q].pc = "idle" /\ req'[q].op \in {"granted", "refused"}
  BY <1>1, ToFrame
<1> QED
  BY <1>2, Answered

LEMMA RevisionFits ==
  ASSUME Types, Types', NEW q \in Reader, Fits(q), Observe, Revision(q)
  PROVE  Fits(q)'
<1>1. CASE To(q, "granted") \/ To(q, "refused")
  BY <1>1, ToAnswer
<1>2. CASE /\ req[q].actor \notin Admin \cup {Owner}
           /\ req' = [req EXCEPT ![q].pc = "load", ![q].todo = assigned]
  <2>1. /\ req \in [Request -> Call] /\ q \in Request /\ req[q] \in Call /\ At(q, "revision")
        /\ UNCHANGED <<contest, series, live, assigned, member, now>> /\ UNCHANGED tables
    BY CallLabels DEF Types, Revision, tables
  <2>2. /\ req'[q].pc = "load" /\ req'[q].todo = assigned /\ req'[q].op = req[q].op
        /\ req'[q].actor = req[q].actor /\ req'[q].sid = req[q].sid
    BY <1>2, <2>1 DEF Call
  <2>3. req[q].op = "download"
    BY <2>1 DEF Fits, Shape
  <2>4. /\ Facts(q)' \subseteq held'[q] /\ shown'[q] \subseteq Schedule
        /\ seen'[q] \subseteq Contest /\ (contest'.pub => contest' \in seen'[q])
        /\ quiet'[q] => quiet[q] /\ Current(q) /\ (due'[q] => due[q])
    BY <2>1, <2>2, ObserveFacts, ShownTypes DEF Fits, At
  <2>5. Shape(q)'
    BY <1>2, <2>2, <2>3 DEF Shape, At, Chosen
  <2>6. Ground(q)'
    BY <2>2, <2>4 DEF Ground, At, Chosen
  <2>7. quiet'[q] => Current(q)'
    <3>1. Left(q) = assigned /\ Left(q)' = assigned
      BY <2>1, <2>2 DEF Left, At
    <3>2. \A s : MayRead(req[q].actor, s)' <=> MayRead(req[q].actor, s)
      BY <2>1, <2>2 DEF MayRead, Managing, Started, Released, Begun
    <3> QED
      BY <1>2, <2>1, <2>2, <2>3, <2>4, <3>1, <3>2 DEF Current, At, Chosen
  <2> QED
    BY <2>2, <2>5, <2>6, <2>7 DEF Fits, At
<1> QED
  BY <1>1, <1>2 DEF Revision

LEMMA LoadStepFits ==
  ASSUME Types, Types', NEW q \in Reader, Fits(q), Observe, Load(q)
  PROVE  Fits(q)'
<1>1. PICK s \in req[q].todo :
             IF s \notin live THEN To(q, "refused")
             ELSE req' = [req EXCEPT ![q].pc = "manage", ![q].sid = {s}, ![q].copy = series[s],
                                     ![q].todo = @ \ {s}]
  BY DEF Load
<1>2. CASE s \notin live
  BY <1>1, <1>2, ToAnswer
<1>3. CASE s \in live
  <2>1. /\ req \in [Request -> Call] /\ q \in Request /\ req[q] \in Call /\ At(q, "load") /\ s \in Series
        /\ UNCHANGED <<contest, series, live, assigned, member, now>> /\ UNCHANGED tables
    BY <1>1, CallLabels DEF Types, Load, tables, Call
  <2>2. /\ req'[q].pc = "manage" /\ req'[q].todo = req[q].todo \ {s} /\ req'[q].op = req[q].op
        /\ req'[q].actor = req[q].actor /\ req'[q].sid = {s} /\ req'[q].copy = series[s]
    BY <1>1, <1>3, <2>1 DEF Call
  <2>3. /\ Facts(q)' \subseteq held'[q] /\ shown'[q] \subseteq Schedule /\ series[s] \in shown'[q]
        /\ seen'[q] \subseteq Contest /\ (contest'.pub => contest' \in seen'[q])
        /\ quiet'[q] => quiet[q] /\ Current(q) /\ (due'[q] => due[q])
    BY <1>3, <2>1, <2>2, ObserveFacts, ShownTypes DEF Fits, At
  <2>4. req[q].op \in {"read", "submit", "download"}
    BY <2>1 DEF Fits, Shape, At
  <2>5. Shape(q)'
    <3>1. req[q].op \in {"read", "submit"} => req'[q].todo = {}
      BY <1>1, <2>1, <2>2 DEF Fits, Shape, At
    <3>2. req[q].op = "download" => req[q].actor \notin Admin \cup {Owner}
      BY <2>1 DEF Fits, Shape, At
    <3> QED
      BY <2>1, <2>2, <2>4, <3>1, <3>2 DEF Shape, At, Chosen
  <2>6. Ground(q)'
    BY <2>2, <2>3 DEF Ground, At, Chosen
  <2>7. quiet'[q] => Current(q)'
    <3>1. Left(q) = req[q].todo /\ Left(q)' = req[q].todo
      BY <1>1, <2>1, <2>2 DEF Left, At
    <3>2. \A x : MayRead(req[q].actor, x)' <=> MayRead(req[q].actor, x)
      BY <2>1, <2>2 DEF MayRead, Managing, Started, Released, Begun
    <3> QED
      BY <1>1, <1>3, <2>1, <2>2, <2>3, <2>4, <3>1, <3>2 DEF Current, At, Chosen
  <2> QED
    BY <2>2, <2>5, <2>6, <2>7 DEF Fits, At
<1> QED
  BY <1>2, <1>3

LEMMA ReadFits ==
  ASSUME Types, Types', NEW q \in Reader, Fits(q), Observe, Read(q)
  PROVE  Fits(q)'
<1>1. /\ {"manage", "check", "clock", "member", "participant", "window", "instant", "load"} \subseteq Asking
      /\ q \in Request /\ req[q].actor \in User /\ req[q].copy \in Schedule
      /\ UNCHANGED <<tables, now>>
  BY CallLabels, ReadFrame DEF Types, TypeOK
<1>2. /\ At(q, "clock") => (req[q].row.start <= now <=> Begun(req[q].row.start))
      /\ Release(req[q].copy) <= now <=> Released(req[q].copy)
      /\ Manager(req[q].actor) <=> Managing(req[q].actor)
  BY <1>1, Conditions DEF Fits, Ground, At
<1>3. ASSUME NEW label \in {"manage", "check", "clock", "member", "participant", "window", "instant", "load"},
             To(q, label) \/ Keep(q, label), ~At(q, "idle")
      PROVE  Moved(q, label) /\ (Keep(q, label) => req'[q].row = contest)
  BY <1>1, <1>3, MovedOn
<1>4. CASE Page(q)
  <2>1. CASE To(q, "manage") /\ ~contest.pub
    BY <1>3, <1>4, <2>1, PageFits DEF Page, At
  <2> QED
    BY <1>4, <2>1, ToAnswer DEF Page
<1>5. CASE Manage(q)
  <2>1. CASE To(q, Readable(q)) /\ Managing(req[q].actor)
    BY <1>3, <1>5, <2>1, ParticipantFits, ToAnswer DEF Manage, Readable, At
  <2>2. CASE To(q, "check") /\ ~Managing(req[q].actor) /\ req[q].op # "page"
    BY <1>3, <1>5, <2>2, CheckFits DEF Manage, At
  <2> QED
    BY <1>2, <1>5, <2>1, <2>2, ToAnswer DEF Manage
<1>6. ASSUME To(q, Forbidden(q)),
             \/ At(q, "check") /\ ~contest.pub
             \/ At(q, "clock") /\ ~(Begun(req[q].row.start) /\ Released(req[q].copy))
             \/ At(q, "member") /\ member[req[q].actor] = "none"
      PROVE  Fits(q)'
  BY <1>3, <1>6, LoadFits, ToAnswer DEF Forbidden, At
<1>7. CASE Check(q)
  <2>1. CASE Keep(q, "clock") /\ contest.pub
    BY <1>3, <1>7, <2>1, ClockFits DEF Check, At
  <2> QED
    BY <1>6, <1>7, <2>1, ToAnswer DEF Check
<1>c. CASE Clock(q)
  <2>1. CASE To(q, "member") /\ Begun(req[q].row.start) /\ Released(req[q].copy)
    BY <1>3, <1>c, <2>1, MemberFits DEF Clock, At
  <2> QED
    BY <1>2, <1>6, <1>c, <2>1 DEF Clock
<1>8. CASE Member(q)
  <2>1. CASE To(q, Readable(q)) /\ member[req[q].actor] # "none"
    BY <1>3, <1>8, <2>1, ParticipantFits, ToAnswer DEF Member, Readable, At
  <2> QED
    BY <1>6, <1>8, <2>1 DEF Member
<1>9. CASE Participant(q)
  <2>1. CASE To(q, "window") /\ member[req[q].actor] = "participant"
    BY <1>3, <1>9, <2>1, WindowFits DEF Participant, At
  <2> QED
    BY <1>9, <2>1, ToAnswer DEF Participant
<1>10. CASE Window(q)
  <2>1. CASE Keep(q, "instant") /\ contest.pub
    BY <1>3, <1>10, <2>1, InstantFits DEF Window, At
  <2> QED
    BY <1>10, <2>1, ToAnswer DEF Window
<1>11. CASE Instant(q)
  BY <1>11, ToAnswer DEF Instant
<1> QED
  BY <1>4, <1>5, <1>7, <1>c, <1>8, <1>9, <1>10, <1>11, CallsFit, RevisionFits, LoadStepFits DEF Read

-----------------------------------------------------------------------------
(* The invariant.                                                          *)

LEMMA InitInv == Init => IInv
<1> SUFFICES ASSUME Init PROVE IInv
  OBVIOUS
<1>1. /\ req = [q \in Request |-> NoRequest] /\ req \in [Request -> Call]
      /\ \A q \in Request : req[q].pc = "idle" /\ req[q].op = "none"
  BY NoRequestFacts DEF Init
<1>2. series \in [Series -> Schedule] /\ contest \in Contest /\ contest.exists
  BY NoRequestFacts, AccessAssumption DEF Init
<1>3. TypeOK
  <2>1. \A q \in Request : /\ req[q].actor \in User /\ req[q].copy \in Schedule
                            /\ req[q].todo \cup req[q].sid \subseteq Series
    BY <1>1 DEF Call
  <2>2. member \in [User -> Roles] /\ now \in 0..MaxTime
    BY AccessAssumption DEF Init, Roles
  <2>3. /\ live \in SUBSET Series /\ unused \in SUBSET (Series \ live)
        /\ assigned \in SUBSET live
    BY DEF Init
  <2> QED
    BY <1>2, <2>1, <2>2, <2>3 DEF TypeOK
<1>4. Types
  BY <1>1, <1>3, CallLabels DEF Types
<1>5. LocksFit
  BY <1>1 DEF LocksFit, At
<1>6. ASSUME NEW q \in Reader PROVE Shape(q) /\ Ground(q) /\ ~quiet[q]
  <2>1. req[q].pc = "idle" /\ req[q].op = "none" /\ ~quiet[q] /\ shown[q] = {} /\ seen[q] = {}
    BY <1>1, CallLabels DEF Init
  <2> QED
    BY <2>1 DEF Shape, Ground, At, Chosen
<1> QED
  BY <1>4, <1>5, <1>6 DEF IInv

LEMMA NextInv == IInv /\ [Next]_vars => IInv'
<1> SUFFICES ASSUME IInv, [Next]_vars PROVE IInv'
  OBVIOUS
<1>1. Types /\ LocksFit /\ \A q \in Reader : Fits(q)
  BY DEF IInv, Fits
<1>2. SUFFICES Types' /\ LocksFit' /\ \A q \in Reader : Fits(q)'
  BY DEF IInv, Fits
<1>3. now \in Nat
  BY <1>1, AccessAssumption DEF Types, TypeOK
<1>4. ASSUME NEW q \in Reader, Read(q), Observe PROVE Types' /\ LocksFit' /\ \A p \in Reader : Fits(p)'
  <2>1. Types' /\ LocksFit' /\ now <= now' /\ \A p \in Request \ {q} : req'[p] = req[p]
    BY <1>1, <1>3, <1>4, ReadTypes, ReadFrame
  <2>2. Fits(q)'
    BY <1>1, <1>4, <2>1, ReadFits
  <2>3. ASSUME NEW p \in Reader \ {q} PROVE Fits(p)'
    BY <1>1, <1>4, <2>1, Stays, CallLabels
  <2> QED
    BY <2>1, <2>2, <2>3
<1>5. ASSUME NEW q \in Writer, Write(q), Observe PROVE Types' /\ LocksFit' /\ \A p \in Reader : Fits(p)'
  <2>1. Types' /\ LocksFit' /\ now <= now' /\ \A p \in Request \ {q} : req'[p] = req[p]
    BY <1>1, <1>3, <1>5, WriteTypes
  <2>2. ASSUME NEW p \in Reader PROVE Fits(p)'
    <3>1. req'[p] = req[p]
      BY <2>1, CallLabels
    <3> QED
      BY <1>1, <1>5, <2>1, <3>1, Stays
  <2> QED
    BY <2>1, <2>2
<1>6. CASE DeleteContest /\ Observe
  BY <1>1, <1>3, <1>6, DeleteContestTypes, Stays
<1>7. CASE Tick /\ Observe
  BY <1>1, <1>3, <1>7, TickTypes, Stays
<1>8. CASE UNCHANGED vars
  <2>1. UNCHANGED <<contest, series, live, unused, assigned, member, now, req, held, seen, shown, quiet, due>>
    BY <1>8 DEF vars, tables, history
  <2>2. Types'
    BY <1>1, <2>1 DEF Types, TypeOK
  <2>3. LocksFit'
    BY <1>1, <2>1 DEF LocksFit, At
  <2>4. ASSUME NEW q \in Reader PROVE Fits(q)'
    <3>1. Shape(q)'
      BY <1>1, <2>1 DEF Fits, Shape, At
    <3>2. Ground(q)'
      BY <1>1, <2>1 DEF Fits, Ground, At, Facts, Managing, Started, Running, Begun, Over, Released, ReadGrounds
    <3>3. quiet'[q] => ~At(q, "idle")' /\ Current(q)'
      BY <1>1, <2>1 DEF Fits, Current, At, Left, Managing, MayRead, Started, Released, Begun
    <3> QED
      BY <3>1, <3>2, <3>3 DEF Fits
  <2> QED
    BY <2>2, <2>3, <2>4
<1> QED
  BY <1>4, <1>5, <1>6, <1>7, <1>8 DEF Next

LEMMA Invariance == Spec => []IInv
  BY InitInv, NextInv, PTL DEF Spec

(* The tables keep their types and their foreign keys: no series or        *)
(* membership outlives the contest, no assignment its series.              *)
THEOREM TypeCorrect == Spec => []TypeOK
  BY Invariance, PTL DEF IInv, Types

(* Organizers come and go only by an admin's transaction or with the       *)
(* contest: the row is locked before the membership is read, so that the   *)
(* role setMember judges by is the one it replaces (service.go:127-161).   *)
THEOREM OrganizersAreTheAdmins == Spec => OrganizersByAdmin
<1> DEFINE Change(u) == (member[u] = "organizer") # (member'[u] = "organizer") =>
             \/ ~contest'.exists
             \/ \E q \in Writer : At(q, "locked") /\ ~At(q, "locked")' /\ req[q].actor \in Admin
<1>1. ASSUME IInv, [Next]_vars, NEW u \in User PROVE Change(u)
  <2>1. CASE member' = member
    BY <2>1
  <2>2. ASSUME NEW q \in Writer, SetMember(q) PROVE Change(u)
    <3>1. /\ At(q, "locked") /\ ~At(q, "locked")' /\ req[q].was = member[req[q].who]
      BY <1>1, <2>2, SetMemberStep, CallLabels DEF IInv, LocksFit, SetMember, At
    <3>2. PICK role \in Roles :
               member' = IF req[q].actor \notin Admin /\ "organizer" \in {role, req[q].was}
                         THEN member ELSE [member EXCEPT ![req[q].who] = role]
      BY <2>2 DEF SetMember
    <3>3. CASE req[q].actor \in Admin
      BY <3>1, <3>3
    <3>4. CASE req[q].actor \notin Admin
      <4>1. member \in [User -> Roles]
        BY <1>1 DEF IInv, Types, TypeOK
      <4> QED
        BY <3>1, <3>2, <3>4, <4>1
    <3> QED
      BY <3>3, <3>4
  <2>3. ASSUME NEW q \in Writer, Write(q), ~SetMember(q) PROVE member' = member
    BY <2>3 DEF Write, CallManage, CallMember, CallSave, CallForm, Reauthorize, SaveSeries, CreateSeries,
       UpdateContest, DeleteSeries, Assign, Unassign, WriteNothing, LockContest, tables
  <2>4. ASSUME NEW q \in Reader, Read(q) PROVE member' = member
    BY <1>1, <2>4, ReadFrame DEF IInv, tables
  <2>5. CASE DeleteContest
    BY <1>1, <2>5, DeleteContestTypes DEF IInv
  <2>6. CASE Tick \/ UNCHANGED vars
    BY <2>1, <2>6 DEF Tick, vars, tables
  <2> QED
    BY <1>1, <2>1, <2>2, <2>3, <2>4, <2>5, <2>6 DEF Next
<1>2. IInv /\ [Next]_vars => [\A u \in User : Change(u)]_vars
  BY <1>1
<1> QED
  BY <1>2, Invariance, PTL DEF Spec, OrganizersByAdmin

-----------------------------------------------------------------------------
(* The decisions.                                                          *)

LEMMA RunningOps ==
  ASSUME Types, NEW q \in Reader, Fits(q), ~At(q, "idle")
  PROVE  req[q].op \in {"read", "submit", "download", "page"}
<1>1. req[q].pc \in Asking
  BY DEF Types, At
<1> QED
  BY <1>1 DEF Fits, Shape, At, Asking

(* An answer is given in the step that says so.                            *)
LEMMA ToOp ==
  ASSUME Types, NEW q \in Reader, Fits(q), ~At(q, "idle"),
         NEW label \in {"granted", "refused"} \cup Asking, To(q, label)
  PROVE  /\ req'[q].op = "granted" => label = "granted"
         /\ req'[q].op = "refused" => label = "refused"
<1>1. req \in [Request -> Call] /\ q \in Request
  BY CallLabels DEF Types
<1>2. req[q].op \in {"read", "submit", "download", "page"}
  BY RunningOps
<1> QED
  BY <1>1, <1>2, ToFrame

(* The queries that grant, and what they have found.                       *)
LEMMA GrantedBy ==
  ASSUME Types, NEW q \in Reader, Fits(q), Read(q), Granted(q)
  PROVE  \/ At(q, "revision") /\ req[q].actor \in Admin \cup {Owner}
         \/ At(q, "page") /\ contest.exists /\ contest.pub
         \/ At(q, "manage") /\ Managing(req[q].actor) /\ req[q].op # "submit"
         \/ At(q, "member") /\ member[req[q].actor] # "none" /\ req[q].op # "submit"
         \/ At(q, "instant") /\ Running(req[q].row) /\ Running(req[q].copy)
<1>1. /\ ~At(q, "idle") /\ req'[q].op = "granted" /\ q \in Request /\ req \in [Request -> Call]
      /\ req[q] \in Call /\ req[q].copy \in Schedule /\ req[q].actor \in User
      /\ req[q].row \in Contest /\ contest \in Contest
  BY CallLabels DEF Granted, Types, TypeOK, Call
<1>2. req[q].op # "granted"
  BY <1>1, RunningOps
<1>3. \A label \in {"granted", "refused"} \cup Asking : To(q, label) => label = "granted"
  BY <1>1, ToOp
<1>4. /\ {"manage", "check", "clock", "member", "participant", "window", "instant", "load"} \subseteq Asking
      /\ "granted" \notin Asking
  BY CallLabels
<1>5. CASE Revision(q)
  <2>1. CASE req' = [req EXCEPT ![q].pc = "load", ![q].todo = assigned]
    BY <1>1, <1>2, <2>1 DEF Call
  <2> QED
    BY <1>3, <1>5, <2>1 DEF Revision
<1>6. CASE Page(q)
  <2>1. At(q, "page") /\ contest \in Contest
    BY <1>6 DEF Page, Types, TypeOK
  <2>2. CASE ~contest.exists
    BY <1>3, <1>6, <2>1, <2>2 DEF Page
  <2>3. CASE contest.exists /\ contest.pub
    BY <1>3, <1>6, <2>1, <2>3 DEF Page
  <2>4. CASE contest.exists /\ ~contest.pub
    BY <1>3, <1>4, <1>6, <2>4 DEF Page
  <2> QED
    BY <2>2, <2>3, <2>4
<1>7. CASE Load(q)
  <2>1. PICK s \in req[q].todo :
             IF s \notin live THEN To(q, "refused")
             ELSE req' = [req EXCEPT ![q].pc = "manage", ![q].sid = {s}, ![q].copy = series[s],
                                     ![q].todo = @ \ {s}]
    BY <1>7 DEF Load
  <2> QED
    BY <1>1, <1>2, <1>3, <2>1 DEF Call
<1>8. CASE Manage(q)
  BY <1>1, <1>3, <1>4, <1>8, Conditions DEF Manage, Readable
<1>k. ASSUME NEW label \in Asking PROVE ~Keep(q, label)
  BY <1>1, <1>2, KeepFrame
<1>9. CASE Check(q)
  BY <1>3, <1>4, <1>k, <1>9 DEF Check, Forbidden
<1>c. CASE Clock(q)
  BY <1>1, <1>3, <1>4, <1>c, Conditions DEF Clock, Forbidden
<1>10. CASE Member(q)
  BY <1>3, <1>4, <1>10 DEF Member, Readable, Forbidden
<1>11. CASE Participant(q)
  BY <1>3, <1>4, <1>11 DEF Participant
<1>12. CASE Window(q)
  BY <1>3, <1>4, <1>k, <1>12 DEF Window
<1>i. CASE Instant(q)
  BY <1>1, <1>3, <1>i, Conditions DEF Instant
<1>13. CASE CallRead(q) \/ CallStatement(q) \/ CallDownload(q) \/ CallPage(q)
  BY <1>1, <1>13 DEF CallRead, CallStatement, CallDownload, CallPage, Enter
<1> QED
  BY <1>5, <1>6, <1>7, <1>8, <1>9, <1>c, <1>10, <1>11, <1>12, <1>i, <1>13 DEF Read

(* The queries that refuse, and what they have found.                      *)
LEMMA RefusedBy ==
  ASSUME Types, NEW q \in Reader, Fits(q), Read(q), Refused(q)
  PROVE  \/ At(q, "revision") /\ req[q].actor \notin Admin \cup {Owner} /\ assigned = {}
         \/ At(q, "page") /\ ~contest.exists
         \/ At(q, "load") /\ \E s \in req[q].todo : s \notin live
         \/ req[q].pc \in {"manage", "check"} /\ ~contest.exists
         \/ At(q, "manage") /\ req[q].op = "page" /\ ~Managing(req[q].actor)
         \/ At(q, "check") /\ req[q].todo = {} /\ ~contest.pub
         \/ At(q, "clock") /\ req[q].todo = {} /\ ~(Begun(req[q].row.start) /\ Released(req[q].copy))
         \/ At(q, "member") /\ req[q].todo = {} /\ member[req[q].actor] = "none"
         \/ At(q, "participant") /\ member[req[q].actor] # "participant"
         \/ At(q, "window") /\ ~contest.pub
         \/ At(q, "instant") /\ ~(Running(req[q].row) /\ Running(req[q].copy))
<1>1. /\ ~At(q, "idle") /\ req'[q].op = "refused" /\ q \in Request /\ req \in [Request -> Call]
      /\ req[q] \in Call /\ req[q].copy \in Schedule /\ req[q].actor \in User
      /\ req[q].row \in Contest /\ contest \in Contest
  BY CallLabels DEF Refused, Types, TypeOK, Call
<1>2. req[q].op # "refused"
  BY <1>1, RunningOps
<1>3. \A label \in {"granted", "refused"} \cup Asking : To(q, label) => label = "refused"
  BY <1>1, ToOp
<1>4. /\ {"manage", "check", "clock", "member", "participant", "window", "instant", "load"} \subseteq Asking
      /\ "refused" \notin Asking
  BY CallLabels
<1>5. CASE Revision(q)
  <2>1. CASE req' = [req EXCEPT ![q].pc = "load", ![q].todo = assigned]
    BY <1>1, <1>2, <2>1 DEF Call
  <2> QED
    BY <1>3, <1>5, <2>1 DEF Revision
<1>6. CASE Page(q)
  <2>1. At(q, "page") /\ contest \in Contest
    BY <1>6 DEF Page, Types, TypeOK
  <2>2. CASE ~contest.exists
    BY <1>3, <1>6, <2>1, <2>2 DEF Page
  <2>3. CASE contest.exists /\ contest.pub
    BY <1>3, <1>6, <2>1, <2>3 DEF Page
  <2>4. CASE contest.exists /\ ~contest.pub
    BY <1>3, <1>4, <1>6, <2>4 DEF Page
  <2> QED
    BY <2>2, <2>3, <2>4
<1>7. CASE Load(q)
  <2>1. PICK s \in req[q].todo :
             IF s \notin live THEN To(q, "refused")
             ELSE req' = [req EXCEPT ![q].pc = "manage", ![q].sid = {s}, ![q].copy = series[s],
                                     ![q].todo = @ \ {s}]
    BY <1>7 DEF Load
  <2> QED
    BY <1>1, <1>2, <1>3, <1>7, <2>1 DEF Call, Load
<1>8. CASE Manage(q)
  BY <1>1, <1>3, <1>4, <1>8, Conditions DEF Manage, Readable, At
<1>k. ASSUME NEW label \in Asking PROVE ~Keep(q, label)
  BY <1>1, <1>2, KeepFrame
<1>9. CASE Check(q)
  <2>1. req[q].pc = "check" /\ ~contest.pub
    BY <1>1, <1>4, <1>9, <1>k DEF Check, At
  <2>2. To(q, IF contest.exists THEN Forbidden(q) ELSE "refused")
    BY <1>9, <2>1 DEF Check
  <2>3. CASE ~contest.exists
    BY <2>1, <2>3
  <2>4. CASE contest.exists
    BY <1>3, <1>4, <2>1, <2>2, <2>4 DEF Forbidden, At
  <2> QED
    BY <2>3, <2>4
<1>c. CASE Clock(q)
  BY <1>1, <1>3, <1>4, <1>c, Conditions DEF Clock, Forbidden
<1>10. CASE Member(q)
  BY <1>3, <1>4, <1>10 DEF Member, Readable, Forbidden
<1>11. CASE Participant(q)
  BY <1>3, <1>4, <1>11 DEF Participant
<1>12. CASE Window(q)
  BY <1>3, <1>4, <1>k, <1>12 DEF Window
<1>i. CASE Instant(q)
  BY <1>1, <1>3, <1>i, Conditions DEF Instant
<1>13. CASE CallRead(q) \/ CallStatement(q) \/ CallDownload(q) \/ CallPage(q)
  BY <1>1, <1>13 DEF CallRead, CallStatement, CallDownload, CallPage, Enter
<1> QED
  BY <1>5, <1>6, <1>7, <1>8, <1>9, <1>c, <1>10, <1>11, <1>12, <1>i, <1>13 DEF Read

(* An answer of q is given by a step of q.                                 *)
LEMMA AnswersAreOwn ==
  ASSUME IInv, [Next]_vars, NEW q \in Reader, Granted(q) \/ Refused(q)
  PROVE  Types /\ Fits(q) /\ Read(q)
<1>1. Types /\ LocksFit /\ Fits(q)
  BY DEF IInv, Fits
<1>2. req[q].op \notin {"granted", "refused"}
  BY <1>1, RunningOps DEF Granted, Refused
<1>3. req'[q] # req[q]
  BY <1>2 DEF Granted, Refused
<1>4. ASSUME NEW p \in Reader, Read(p), p # q PROVE FALSE
  BY <1>1, <1>3, <1>4, ReadFrame, CallLabels
<1>5. ASSUME NEW p \in Writer, Write(p) PROVE FALSE
  BY <1>1, <1>3, <1>5, WriteTypes, CallLabels
<1>6. CASE DeleteContest \/ Tick \/ UNCHANGED vars
  BY <1>3, <1>6 DEF DeleteContest, Tick, vars
<1> QED
  BY <1>1, <1>4, <1>5, <1>6 DEF Next

(* What a grant rests on was in force while the request ran, and admits    *)
(* the instant of the grant, whatever changed between its queries and its  *)
(* readings of the clock (service.go: ManageContest, CanReadSeries,        *)
(* CanSubmit, Artifact).                                                   *)
THEOREM GrantsHaveGrounds == Spec => GrantsGrounded
<1>1. ASSUME IInv, [Next]_vars, NEW q \in Reader, Granted(q) PROVE Grounds(q)
  <2>1. Types /\ Fits(q) /\ Read(q)
    BY <1>1, AnswersAreOwn
  <2>2. Shape(q) /\ Ground(q) /\ ~At(q, "idle") /\ req[q].op \in {"read", "submit", "download", "page"}
    BY <1>1, <2>1, RunningOps DEF Fits, Granted
  <2>3. CASE At(q, "revision") /\ req[q].actor \in Admin \cup {Owner}
    BY <2>2, <2>3 DEF Shape, Grounds
  <2>4. CASE At(q, "page") /\ contest.pub
    <3>1. req[q].op = "page" /\ contest \in seen[q]
      BY <2>2, <2>4 DEF Shape, Ground
    <3> QED
      BY <3>1 DEF Grounds
  <2>5. CASE At(q, "manage") /\ Managing(req[q].actor) /\ req[q].op # "submit"
    <3>1. "manager" \in held[q]
      BY <2>2, <2>5, FactsHeld
    <3> QED
      BY <2>2, <2>5, <3>1 DEF Grounds, ReadGrounds
  <2>6. CASE At(q, "member") /\ member[req[q].actor] # "none" /\ req[q].op # "submit"
    <3>1. req[q].op \in {"read", "download"}
      BY <2>2, <2>6 DEF Shape, At
    <3>2. /\ "member" \in held[q] /\ Released(req[q].copy) /\ req[q].copy \in shown[q]
          /\ \E c \in seen[q] : Begun(c.start)
      BY <2>2, <2>6, <3>1, FactsHeld DEF Ground, At, Chosen
    <3> QED
      BY <3>1, <3>2 DEF Grounds, ReadGrounds
  <2>7. CASE At(q, "instant") /\ Running(req[q].row) /\ Running(req[q].copy)
    <3>1. /\ req[q].op = "submit" /\ ReadGrounds(q) /\ "participant" \in held[q]
          /\ req[q].copy \in shown[q] /\ req[q].row \in seen[q]
      BY <2>2, <2>7 DEF Shape, Ground, At, Chosen
    <3> QED
      BY <2>7, <3>1 DEF Grounds
  <2> QED
    BY <1>1, <2>1, <2>3, <2>4, <2>5, <2>6, <2>7, GrantedBy
<1>2. IInv /\ [Next]_vars => [\A q \in Reader : Granted(q) => Grounds(q)]_vars
  BY <1>1
<1> QED
  BY <1>2, Invariance, PTL DEF Spec, GrantsGrounded

(* Without a change to the tables the answer is the documented one, at     *)
(* every boundary of the schedules and however the clock runs on between   *)
(* the queries.                                                            *)
THEOREM DecisionsAreExact == Spec => DecisionsExact
<1>1. ASSUME IInv, [Next]_vars, NEW q \in Reader, quiet[q], Granted(q) PROVE May(q)
  <2>1. Types /\ Fits(q) /\ Read(q)
    BY <1>1, AnswersAreOwn
  <2>2. Shape(q) /\ Current(q) /\ req[q].op \in {"read", "submit", "download", "page"}
        /\ req[q].pc \in Asking
    BY <1>1, <2>1, RunningOps DEF Fits, Types, At
  <2>3. CASE At(q, "revision") /\ req[q].actor \in Admin \cup {Owner}
    BY <2>2, <2>3 DEF Shape, May
  <2>4. CASE At(q, "page") /\ contest.exists /\ contest.pub
    BY <2>2, <2>4 DEF Shape, May
  <2>5. CASE At(q, "manage") /\ req[q].op = "page" /\ Managing(req[q].actor)
    BY <2>5 DEF May, Managing
  <2>6. ASSUME req[q].op \in {"read", "download"}, req[q].pc \in Chosen,
               \A s \in req[q].sid : MayRead(req[q].actor, s)
        PROVE  May(q)
    <3>1. PICK s \in Series : req[q].sid = {s}
      BY <2>2, <2>6 DEF Shape
    <3>2. CASE req[q].op = "read"
      <4>1. req[q].todo = {}
        BY <2>2, <2>6, <3>2 DEF Shape, At, Chosen
      <4> QED
        BY <2>6, <3>2, <4>1 DEF May
    <3>3. CASE req[q].op = "download"
      BY <2>2, <2>6, <3>1, <3>3 DEF May, Current
    <3> QED
      BY <2>6, <3>2, <3>3
  <2>7. CASE At(q, "manage") /\ Managing(req[q].actor) /\ req[q].op \notin {"submit", "page"}
    <3>1. \A s \in req[q].sid : MayRead(req[q].actor, s)
      BY <2>2, <2>7 DEF Current, MayRead, At, Chosen
    <3> QED
      BY <2>2, <2>6, <2>7, <3>1 DEF At, Chosen
  <2>8. CASE At(q, "member") /\ member[req[q].actor] # "none" /\ req[q].op # "submit"
    <3>1. req[q].op \in {"read", "download"}
      BY <2>2, <2>8 DEF Shape, At
    <3>2. \A s \in req[q].sid : MayRead(req[q].actor, s)
      BY <2>1, <2>2, <2>8, <3>1 DEF Current, Fits, Ground, MayRead, At, Chosen
    <3> QED
      BY <2>6, <2>8, <3>1, <3>2 DEF At, Chosen
  <2>9. CASE At(q, "instant") /\ Running(req[q].row) /\ Running(req[q].copy)
    <3>1. req[q].op = "submit" /\ req[q].todo = {}
      BY <2>2, <2>9 DEF Shape, At
    <3>2. /\ \A s \in req[q].sid : MayRead(req[q].actor, s) /\ req[q].copy = series[s]
          /\ member[req[q].actor] = "participant" /\ contest.pub /\ req[q].row = contest
      BY <2>2, <2>9, <3>1 DEF Current, At, Chosen
    <3> QED
      BY <2>9, <3>1, <3>2 DEF May
  <2> QED
    BY <1>1, <2>1, <2>3, <2>4, <2>5, <2>7, <2>8, <2>9, GrantedBy
<1>2. ASSUME IInv, [Next]_vars, NEW q \in Reader, quiet[q], Refused(q), due[q] PROVE ~May(q)
  <2>1. Types /\ Fits(q) /\ Read(q)
    BY <1>2, AnswersAreOwn
  <2>2. Shape(q) /\ Current(q) /\ req[q].op \in {"read", "submit", "download", "page"}
        /\ req[q].pc \in Asking /\ (~contest.exists => live = {}) /\ assigned \subseteq live
    BY <1>2, <2>1, RunningOps DEF Fits, Types, TypeOK, At
  <2>3. ASSUME req[q].pc # "revision", req[q].op = "download",
               \A s \in Left(q) : ~MayRead(req[q].actor, s)
        PROVE  FALSE
    BY <1>2, <2>2, <2>3 DEF Current, Shape, At
  <2>4. ASSUME req[q].op \in {"read", "submit"}, NEW s \in req[q].todo \cup req[q].sid,
               ~MayRead(req[q].actor, s)
        PROVE  ~May(q)
    BY <2>4 DEF May
  <2>5. CASE At(q, "revision") /\ req[q].actor \notin Admin \cup {Owner} /\ assigned = {}
    BY <2>2, <2>5 DEF Shape, May
  <2>6. CASE At(q, "page") /\ ~contest.exists
    BY <2>2, <2>6 DEF Shape, May
  <2>7. CASE At(q, "load") /\ \E s \in req[q].todo : s \notin live
    <3>1. PICK s \in req[q].todo : s \notin live
      BY <2>7
    <3>2. req[q].op # "download"
      BY <2>2, <3>1 DEF Current
    <3>3. req[q].op \in {"read", "submit"} /\ ~MayRead(req[q].actor, s)
      BY <2>2, <2>7, <3>1, <3>2 DEF Shape, At, MayRead
    <3> QED
      BY <2>4, <3>1, <3>3
  (* ManageContest or CanReadSeries has said no to every series left.      *)
  <2>8. ASSUME req[q].pc \in {"manage", "check", "clock", "member"}, req[q].op # "page",
               req[q].todo = {} \/ ~contest.exists,
               \A s \in req[q].sid : ~MayRead(req[q].actor, s)
        PROVE  ~May(q)
    <3>1. PICK s \in Series : req[q].sid = {s}
      BY <2>2, <2>8 DEF Shape, Chosen
    <3>2. ~contest.exists => \A x : ~MayRead(req[q].actor, x)
      BY <2>2 DEF MayRead
    <3>3. Left(q) = req[q].todo \cup req[q].sid
      BY <2>8 DEF Left, At
    <3>4. CASE req[q].op = "download"
      BY <2>3, <2>8, <3>2, <3>3, <3>4
    <3>5. CASE req[q].op \in {"read", "submit"}
      BY <2>4, <2>8, <3>1, <3>5
    <3> QED
      BY <2>2, <2>8, <3>4, <3>5
  <2>9. CASE req[q].pc \in {"manage", "check"} /\ ~contest.exists
    <3>1. CASE req[q].op = "page"
      BY <2>9, <3>1 DEF May
    <3>2. CASE req[q].op # "page"
      BY <2>2, <2>8, <2>9, <3>2 DEF MayRead
    <3> QED
      BY <3>1, <3>2
  <2>10. CASE At(q, "manage") /\ req[q].op = "page" /\ ~Managing(req[q].actor)
    BY <2>2, <2>10 DEF Current, May
  <2>11. CASE \/ At(q, "check") /\ req[q].todo = {} /\ ~contest.pub
              \/ At(q, "clock") /\ req[q].todo = {}
                 /\ ~(Begun(req[q].row.start) /\ Released(req[q].copy))
    <3>1. req[q].op # "page"
      BY <2>2, <2>11 DEF Shape, At
    <3>2. \A s \in req[q].sid : ~MayRead(req[q].actor, s)
      BY <2>2, <2>11, <3>1 DEF Current, MayRead, Started, At, Chosen
    <3> QED
      BY <2>8, <2>11, <3>1, <3>2 DEF At
  <2>12. CASE At(q, "member") /\ req[q].todo = {} /\ member[req[q].actor] = "none"
    <3>1. req[q].op # "page"
      BY <2>2, <2>12 DEF Shape, At
    <3>2. \A s \in req[q].sid : ~MayRead(req[q].actor, s)
      BY <2>2, <2>12, <3>1 DEF Current, MayRead, At, Chosen
    <3> QED
      BY <2>8, <2>12, <3>1, <3>2 DEF At
  <2>13. CASE \/ At(q, "participant") /\ member[req[q].actor] # "participant"
              \/ At(q, "window") /\ ~contest.pub
              \/ At(q, "instant") /\ ~(Running(req[q].row) /\ Running(req[q].copy))
    <3>1. req[q].op = "submit" /\ req[q].pc \in Chosen
      BY <2>2, <2>13 DEF Shape, At, Chosen
    <3>2. PICK s \in Series : req[q].sid = {s}
      BY <2>2, <3>1 DEF Shape
    <3>3. /\ s \in live /\ req[q].copy = series[s] /\ contest.exists
          /\ At(q, "instant") => req[q].row = contest
      BY <2>2, <3>1, <3>2 DEF Current, At
    <3> QED
      BY <2>13, <3>1, <3>2, <3>3 DEF May
  <2> QED
    BY <1>2, <2>1, <2>5, <2>6, <2>7, <2>9, <2>10, <2>11, <2>12, <2>13, RefusedBy
<1>3. IInv /\ [Next]_vars =>
        [\A q \in Reader : quiet[q] => /\ Granted(q) => May(q)
                                       /\ Refused(q) => ~(due[q] /\ May(q))]_vars
  BY <1>1, <1>2
<1> QED
  BY <1>3, Invariance, PTL DEF Spec, DecisionsExact
=============================================================================
