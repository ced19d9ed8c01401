------------------------------- MODULE Access -------------------------------
(***************************************************************************)
(* Who may read, submit to and administer one contest while its schedule,  *)
(* its members and its series change: internal/content/service.go          *)
(* (ManageContest, setMember, SaveSeries, CanReadSeries, CanSubmit, Assign, *)
(* Artifact), the tables of internal/db/contests.go and the handlers of    *)
(* internal/server/api.go, admin.go and public.go that call them.          *)
(*                                                                         *)
(* A decision is a sequence of queries, none of them in a transaction:     *)
(* each query and each reading of the clock is a step here, and what it    *)
(* has read is used in later steps.                                        *)
(* The two queries of ManageContest are one step: a membership never       *)
(* outlives its contest.  Inputs a request carries from the start are      *)
(* chosen in the step that first uses them.  Calls without a user, and the *)
(* calls that are refused at their first query, change nothing and are     *)
(* left out.  An absent time is Nil; as a start it lies before every       *)
(* instant, as the code's nil checks have it.                              *)
(***************************************************************************)
EXTENDS Integers, FiniteSets

CONSTANTS User,          \* users who call
          Admin,         \* those whose role is admin
          Owner,         \* the owner of the problem whose files are asked for
          Candidate,     \* users whose membership is changed
          Series,        \* series ids of the contest
          Reader,        \* requests that ask for something
          Writer,        \* requests that change something
          MaxBusy,       \* bound on the requests in flight at once
          MaxTime,       \* bound on the clock
          ContestInput,  \* contest bodies that clients send
          SeriesInput    \* series bodies that clients send

Nil == -1
Request == Reader \cup Writer

VARIABLES contest,   \* the contest's row
          series,    \* per id, the schedule of its row
          live,      \* ids that have a row
          unused,    \* ids not handed out yet
          assigned,  \* series that the problem's published revision is assigned to
          member,    \* per user, "none", "organizer" or "participant"
          now,       \* the clock
          req,       \* per request, where it is and what it has read
          held,      \* history: what was true at some instant of the request
          seen,      \* history: the published rows the contest had since the call
          shown,     \* history: the rows the series at hand had since it was loaded
          quiet,     \* history: no table has changed since the call
          due        \* history: the request was allowed when it was made

tables == <<contest, series, live, unused, assigned, member>>
history == <<held, seen, shown, quiet, due>>
vars == <<tables, now, req, history>>

Schedule == [start : Int, end : Int, release : Int]
Contest == [exists : BOOLEAN, pub : BOOLEAN, start : Int, end : Int]

ASSUME AccessAssumption ==
  /\ Admin \subseteq User /\ Owner \in User /\ Candidate \subseteq User
  /\ ContestInput \subseteq Contest /\ SeriesInput \subseteq Schedule
  /\ \A c \in ContestInput : c.exists
  /\ MaxTime \in Nat /\ MaxBusy \in Nat /\ Reader \cap Writer = {}

NoSchedule == [start |-> Nil, end |-> Nil, release |-> Nil]
NoContest == [exists |-> FALSE, pub |-> FALSE, start |-> Nil, end |-> Nil]
Nobody == CHOOSE u \in User : TRUE
NoRequest == [pc |-> "idle", op |-> "none", actor |-> Nobody, sid |-> {}, copy |-> NoSchedule,
              row |-> NoContest, todo |-> {}, who |-> Nobody, was |-> "none"]
Roles == {"none", "organizer", "participant"}

(* What validateContest and validateSeries demand of a window.             *)
ValidWindow(w) == w.start # Nil /\ w.end # Nil => w.start < w.end

InWindow_Mutant(w) == w.start <= now /\ (w.end # Nil => now <= w.end)  \* the end is included

(* The half-open window of CanSubmit.                                      *)
InWindow(w) == w.start <= now /\ (w.end # Nil => now < w.end)

(* The instant CanReadSeries releases a series at.                         *)
Release(row) == IF row.release = Nil THEN row.start ELSE row.release

(* ManageContest.                                                          *)
Manager(u) == contest.exists /\ (u \in Admin \/ member[u] = "organizer")

Init ==
  /\ contest \in {c \in ContestInput : ValidWindow(c)}
  /\ live \in SUBSET Series /\ unused = Series \ live
  /\ \E row \in SeriesInput :
       ValidWindow(row) /\ series = [s \in Series |-> IF s \in live THEN row ELSE NoSchedule]
  /\ assigned = {}
  /\ member = [u \in User |-> IF u = Owner THEN "organizer" ELSE "none"]
  /\ now = 0
  /\ req = [q \in Request |-> NoRequest]
  /\ held = [q \in Reader |-> {}] /\ seen = [q \in Reader |-> {}]
  /\ shown = [q \in Reader |-> {}]
  /\ quiet = [q \in Reader |-> FALSE] /\ due = [q \in Reader |-> FALSE]

Busy == {q \in Request : req[q].pc # "idle"}
At(q, label) == req[q].pc = label
Done(q) == req' = [req EXCEPT ![q] = NoRequest]

(* Go on to another query, or answer; the contest's row is out of scope.   *)
To(q, label) ==
  req' = [req EXCEPT ![q] = IF label \in {"granted", "refused"} THEN [NoRequest EXCEPT !.op = label]
                            ELSE [@ EXCEPT !.pc = label, !.row = NoContest]]

(* Keep the contest's row and read the clock next.                         *)
Keep(q, label) == req' = [req EXCEPT ![q].pc = label, ![q].row = contest]

RowLocked_Mutant == FALSE  \* no UPDATE takes the row before the membership is read

(* The contest's row is locked by a membership transaction.                *)
RowLocked == \E q \in Request : At(q, "locked")

(* A call begins; the first query is the next step.                        *)
Enter(q, op, u, label, todo) ==
  /\ At(q, "idle") /\ Cardinality(Busy) < MaxBusy
  /\ req' = [req EXCEPT ![q] =
       [NoRequest EXCEPT !.pc = label, !.op = op, !.actor = u, !.todo = todo,
                         !.copy = IF op = "form" THEN series[CHOOSE s \in todo : TRUE] ELSE @]]

-----------------------------------------------------------------------------
(* Readers.                                                                *)

(* The list of a series' assignments, and CanSubmit.                       *)
CallRead(q) ==
  /\ \E u \in User, s \in Series \ unused, op \in {"read", "submit"} : Enter(q, op, u, "load", {s})
  /\ UNCHANGED <<tables, now>>

(* Statement: the assignment names its series.                             *)
CallStatement(q) ==
  /\ \E u \in User, s \in assigned : Enter(q, "read", u, "load", {s})
  /\ UNCHANGED <<tables, now>>

(* Artifact, for a PDF or a sample of the published revision: an admin and *)
(* the problem's owner are served at once, otherwise the revision's        *)
(* assignments are read and their series tried in turn.                    *)
CallDownload(q) ==
  /\ \E u \in User : Enter(q, "download", u, "revision", {})
  /\ UNCHANGED <<tables, now>>

Revision(q) ==
  /\ At(q, "revision")
  /\ IF req[q].actor \in Admin \cup {Owner} THEN To(q, "granted")
     ELSE IF assigned = {} THEN To(q, "refused")
     ELSE req' = [req EXCEPT ![q].pc = "load", ![q].todo = assigned]
  /\ UNCHANGED <<tables, now>>

(* loadContest: the contest's page and the list of its series.             *)
CallPage(q) ==
  /\ \E u \in User : Enter(q, "page", u, "page", {})
  /\ UNCHANGED <<tables, now>>

Page(q) ==
  /\ At(q, "page")
  /\ To(q, IF ~contest.exists THEN "refused" ELSE IF contest.pub THEN "granted" ELSE "manage")
  /\ UNCHANGED <<tables, now>>

(* GetSeries: the row is kept until the decision.                          *)
Load(q) ==
  /\ At(q, "load")
  /\ \E s \in req[q].todo :
       IF s \notin live THEN To(q, "refused")
       ELSE req' = [req EXCEPT ![q].pc = "manage", ![q].sid = {s}, ![q].copy = series[s],
                               ![q].todo = @ \ {s}]
  /\ UNCHANGED <<tables, now>>

(* CanReadSeries says yes: CanSubmit goes on, the other callers answer.    *)
Readable(q) == IF req[q].op = "submit" THEN "participant" ELSE "granted"

(* It says no: Artifact tries the next series.                             *)
Forbidden(q) == IF req[q].todo # {} THEN "load" ELSE "refused"

Manage(q) ==
  /\ At(q, "manage")
  /\ To(q, IF Manager(req[q].actor) THEN Readable(q)
           ELSE IF contest.exists /\ req[q].op # "page" THEN "check" ELSE "refused")
  /\ UNCHANGED <<tables, now>>

(* The contest is read again.                                              *)
Check(q) ==
  /\ At(q, "check")
  /\ IF contest.pub THEN Keep(q, "clock")
     ELSE To(q, IF contest.exists THEN Forbidden(q) ELSE "refused")
  /\ UNCHANGED <<tables, now>>

Clock_Mutant(q) ==  \* the membership is not asked for
  /\ At(q, "clock")
  /\ To(q, IF req[q].row.start <= now /\ Release(req[q].copy) <= now THEN Readable(q) ELSE Forbidden(q))
  /\ UNCHANGED <<tables, now>>

(* Then the clock, for the rows that have been read.                       *)
Clock(q) ==
  /\ At(q, "clock")
  /\ To(q, IF req[q].row.start <= now /\ Release(req[q].copy) <= now THEN "member" ELSE Forbidden(q))
  /\ UNCHANGED <<tables, now>>

Member(q) ==
  /\ At(q, "member")
  /\ To(q, IF member[req[q].actor] # "none" THEN Readable(q) ELSE Forbidden(q))
  /\ UNCHANGED <<tables, now>>

(* The rest of CanSubmit.                                                  *)
Participant(q) ==
  /\ At(q, "participant")
  /\ To(q, IF member[req[q].actor] = "participant" THEN "window" ELSE "refused")
  /\ UNCHANGED <<tables, now>>

Window(q) ==
  /\ At(q, "window")
  /\ IF contest.pub THEN Keep(q, "instant") ELSE To(q, "refused")
  /\ UNCHANGED <<tables, now>>

Instant(q) ==
  /\ At(q, "instant")
  /\ To(q, IF InWindow(req[q].row) /\ InWindow(req[q].copy) THEN "granted" ELSE "refused")
  /\ UNCHANGED <<tables, now>>

-----------------------------------------------------------------------------
(* Writers.                                                                *)

(* ManageContest has let the caller through, on to the statement that      *)
(* writes, which names a series only if it has been found.                 *)
CallManage(q) ==
  /\ \E u \in User : Manager(u) /\ Enter(q, "manage", u, "write", live)
  /\ UNCHANGED <<tables, now>>

(* The same, on to the transaction of setMember.                           *)
CallMember(q) ==
  /\ \E u \in User : Manager(u) /\ Enter(q, "manage", u, "lock", {})
  /\ UNCHANGED <<tables, now>>

(* PUT /series: the series is found, the schedule comes from the body.     *)
CallSave(q) ==
  /\ \E u \in User, s \in live : Manager(u) /\ Enter(q, "save", u, "reauth", {s})
  /\ UNCHANGED <<tables, now>>

(* The HTML form of an admin: the schedule it has loaded is kept.          *)
CallForm(q) ==
  /\ \E u \in Admin, s \in live : Enter(q, "form", u, "reauth", {s})
  /\ UNCHANGED <<tables, now>>

(* SaveSeries calls ManageContest again.                                   *)
Reauthorize(q) ==
  /\ At(q, "reauth")
  /\ IF Manager(req[q].actor) THEN To(q, "save") ELSE Done(q)
  /\ UNCHANGED <<tables, now>>

(* UpdateSeries.                                                           *)
SaveSeries(q) ==
  /\ At(q, "save") /\ Done(q)
  /\ \E row \in IF req[q].op = "form" THEN {req[q].copy} ELSE {r \in SeriesInput : ValidWindow(r)} :
       \E s \in req[q].todo \cap live : series' = [series EXCEPT ![s] = row]
  /\ UNCHANGED <<contest, live, unused, assigned, member, now>>

(* CreateSeries: the foreign key refuses a contest that is gone.           *)
CreateSeries(q) ==
  /\ At(q, "write") /\ Done(q)
  /\ contest.exists
  /\ \E s \in unused, row \in {r \in SeriesInput : ValidWindow(r)} :
       /\ series' = [series EXCEPT ![s] = row]
       /\ live' = live \cup {s} /\ unused' = unused \ {s}
  /\ UNCHANGED <<contest, assigned, member, now>>

UpdateContest(q) ==
  /\ At(q, "write") /\ Done(q) /\ ~RowLocked
  /\ contest.exists
  /\ \E c \in ContestInput : ValidWindow(c) /\ contest' = c
  /\ UNCHANGED <<series, live, unused, assigned, member, now>>

DeleteSeries_Mutant(q) ==  \* the assignments stay
  /\ At(q, "write") /\ Done(q)
  /\ \E s \in req[q].todo \cap live : live' = live \ {s} /\ series' = [series EXCEPT ![s] = NoSchedule]
  /\ UNCHANGED <<contest, assigned, unused, member, now>>

(* The assignments of a series go with it.                                 *)
DeleteSeries(q) ==
  /\ At(q, "write") /\ Done(q)
  /\ \E s \in req[q].todo \cap live :
       live' = live \ {s} /\ assigned' = assigned \ {s} /\ series' = [series EXCEPT ![s] = NoSchedule]
  /\ UNCHANGED <<contest, unused, member, now>>

(* Assign also asks for authority over the problem.                        *)
Assign(q) ==
  /\ At(q, "write") /\ Done(q)
  /\ req[q].actor \in Admin \cup {Owner}
  /\ \E s \in req[q].todo \cap live : assigned' = assigned \cup {s}
  /\ UNCHANGED <<contest, series, live, unused, member, now>>

Unassign(q) ==
  /\ At(q, "write") /\ Done(q)
  /\ \E s \in req[q].todo \cap assigned : assigned' = assigned \ {s}
  /\ UNCHANGED <<contest, series, live, unused, member, now>>

(* The row is gone or the statement fails.                                 *)
WriteNothing(q) ==
  /\ req[q].pc \in {"write", "save"} /\ Done(q)
  /\ UNCHANGED <<tables, now>>

(* setMember's transaction: the contest's row is locked, then the          *)
(* membership is read.  Without the contest there is nothing to change.    *)
LockContest(q) ==
  /\ At(q, "lock") /\ ~RowLocked
  /\ IF ~contest.exists
     THEN Done(q)
     ELSE \E u \in Candidate :
            req' = [req EXCEPT ![q].pc = "locked", ![q].who = u, ![q].was = member[u]]
  /\ UNCHANGED <<tables, now>>

(* Only an admin grants or takes away the organizer's role; the role asked *)
(* for is "none" in RemoveMember.                                          *)
SetMember(q) ==
  /\ At(q, "locked") /\ Done(q)
  /\ \E role \in Roles :
       member' = IF req[q].actor \notin Admin /\ "organizer" \in {role, req[q].was}
                 THEN member ELSE [member EXCEPT ![req[q].who] = role]
  /\ UNCHANGED <<contest, series, live, unused, assigned, now>>

(* DeleteContest, by an admin: series, assignments and memberships cascade. *)
DeleteContest ==
  /\ Admin # {} /\ contest.exists /\ ~RowLocked
  /\ contest' = NoContest /\ series' = [s \in Series |-> NoSchedule]
  /\ live' = {} /\ assigned' = {} /\ member' = [u \in User |-> "none"]
  /\ UNCHANGED <<unused, now, req>>

Tick == now < MaxTime /\ now' = now + 1 /\ UNCHANGED <<tables, req>>

-----------------------------------------------------------------------------
(* What the documentation promises, evaluated at one instant.              *)

Begun(t) == t = Nil \/ t <= now
Over(t) == t # Nil /\ t <= now
Managing(u) == contest.exists /\ (u \in Admin \/ member[u] = "organizer")
Released(row) == Begun(IF row.release # Nil THEN row.release ELSE row.start)
Started == contest.pub /\ Begun(contest.start)
Running(w) == Begun(w.start) /\ ~Over(w.end)

MayRead(u, s) ==
  /\ s \in live
  /\ Managing(u) \/ (Started /\ Released(series[s]) /\ member[u] # "none")
May(q) ==
  LET u == req[q].actor
      s == req[q].todo \cup req[q].sid
  IN  CASE req[q].op = "read" -> \A x \in s : MayRead(u, x)
        [] req[q].op = "submit" -> /\ \A x \in s : MayRead(u, x) /\ Running(series[x])
                                   /\ member[u] = "participant" /\ contest.pub /\ Running(contest)
        [] req[q].op = "download" -> u \in Admin \cup {Owner} \/ \E x \in assigned : MayRead(u, x)
        [] OTHER -> contest.exists /\ (contest.pub \/ Managing(u))

(* The history variables of a reader, from its call to its answer.         *)
Facts(q) ==
  LET u == req[q].actor
      truth == [manager |-> Managing(u), member |-> member[u] # "none",
                participant |-> member[u] = "participant"]
      relevant == CASE req[q].op = "page" -> {"manager"}
                    [] req[q].op = "submit" -> {"manager", "member", "participant"}
                    [] OTHER -> {"manager", "member"}
  IN  {f \in relevant : truth[f]}

Observe ==
  LET on(q) == ~At(q, "idle")'
      calm(q) == on(q) /\ (At(q, "idle") \/ (quiet[q] /\ UNCHANGED tables))
  IN  /\ held' = [q \in Reader |-> IF on(q) THEN held[q] \cup Facts(q)' ELSE {}]
      /\ seen' = [q \in Reader |-> IF on(q) THEN seen[q] \cup {c \in {contest'} : c.pub} ELSE {}]
      /\ shown' = [q \in Reader |->
           IF on(q) THEN (IF At(q, "load") THEN {} ELSE shown[q]) \cup {series'[s] : s \in live' \cap req'[q].sid}
                    ELSE {}]
      /\ quiet' = [q \in Reader |-> calm(q)]
      /\ due' = [q \in Reader |-> calm(q) /\ IF At(q, "idle") THEN May(q)' ELSE due[q]]

Read(q) ==
  \/ CallRead(q) \/ CallStatement(q) \/ CallDownload(q) \/ Revision(q)
  \/ CallPage(q) \/ Page(q) \/ Load(q)
  \/ Manage(q) \/ Check(q) \/ Clock(q) \/ Member(q)
  \/ Participant(q) \/ Window(q) \/ Instant(q)

Write(q) ==
  \/ CallManage(q) \/ CallMember(q) \/ CallSave(q) \/ CallForm(q)
  \/ Reauthorize(q) \/ SaveSeries(q) \/ CreateSeries(q) \/ UpdateContest(q)
  \/ DeleteSeries(q) \/ Assign(q) \/ Unassign(q) \/ WriteNothing(q)
  \/ LockContest(q) \/ SetMember(q)

Next ==
  /\ \/ \E q \in Reader : Read(q)
     \/ \E q \in Writer : Write(q)
     \/ DeleteContest
     \/ Tick
  /\ Observe

Spec == Init /\ [][Next]_vars

-----------------------------------------------------------------------------
(* Properties.                                                             *)

TypeOK ==
  /\ contest \in Contest /\ series \in [Series -> Schedule]
  /\ live \in SUBSET Series /\ unused \in SUBSET (Series \ live)
  /\ assigned \in SUBSET live
  /\ member \in [User -> Roles] /\ (~contest.exists => live = {} /\ \A u \in User : member[u] = "none")
  /\ now \in 0..MaxTime
  /\ \A q \in Request : /\ req[q].actor \in User /\ req[q].copy \in Schedule
                         /\ req[q].todo \cup req[q].sid \subseteq Series

Granted(q) == ~At(q, "idle") /\ req'[q].op = "granted"
Refused(q) == ~At(q, "idle") /\ req'[q].op = "refused"

(* A grant rests on rows that were in force while the request ran, and on  *)
(* their times at the grant.                                               *)
ReadGrounds(q) ==
  \/ "manager" \in held[q]
  \/ /\ "member" \in held[q]
     /\ \E c \in seen[q] : Begun(c.start)
     /\ \E row \in shown[q] : Released(row)
Grounds(q) ==
  CASE req[q].op = "page" -> seen[q] # {} \/ "manager" \in held[q]
    [] req[q].op = "submit" -> /\ ReadGrounds(q) /\ "participant" \in held[q]
                               /\ \E c \in seen[q] : Running(c)
                               /\ \E row \in shown[q] : Running(row)
    [] req[q].op = "download" -> req[q].actor \in Admin \cup {Owner} \/ ReadGrounds(q)
    [] OTHER -> ReadGrounds(q)

(* ManageContest, CanReadSeries, CanSubmit and Artifact never grant from   *)
(* authority that was gone before the request came: "removal of membership *)
(* or a later release date immediately removes participant access"         *)
(* (HTTP_API.md:104).  Whatever changes between their queries and their    *)
(* readings of the clock, the membership, the published contest and the    *)
(* series' row that a grant rests on were each in force at some instant of *)
(* the request, and their times admit the instant of the grant.  They need *)
(* not all have been in force together, nor at that instant.               *)
GrantsGrounded == [][\A q \in Reader : Granted(q) => Grounds(q)]_vars

(* While no table changes, CanReadSeries, CanSubmit, Artifact and          *)
(* loadContest decide what the documented rules say at that instant, on    *)
(* every boundary of the windows: nobody is let in who may not, and nobody *)
(* is turned away who may from the call to the answer.                     *)
DecisionsExact ==
  [][\A q \in Reader : quiet[q] =>
       /\ Granted(q) => May(q)
       /\ Refused(q) => ~(due[q] /\ May(q))]_vars

(* setMember serialises "grants and revocations, including organizer       *)
(* demotion" (service.go:127): organizers come and go by an admin's own    *)
(* transaction or with the contest, however membership requests of admins  *)
(* and of organizers interleave.                                           *)
OrganizersByAdmin ==
  [][\A u \in User : (member[u] = "organizer") # (member'[u] = "organizer") =>
       \/ ~contest'.exists
       \/ \E q \in Writer : At(q, "locked") /\ ~At(q, "locked")' /\ req[q].actor \in Admin]_vars

(* "The HTML form edits title and position only; preserve the schedule"    *)
(* (admin.go:146): a save of the form leaves the schedule as it is.        *)
FormPreservesSchedule ==
  [][\A q \in Writer : At(q, "save") /\ req[q].op = "form" /\ ~At(q, "save")' =>
       series' = series]_vars

-----------------------------------------------------------------------------
(* The inductive invariant of the proofs.                                  *)

Asking == {"revision", "page", "load", "manage", "check", "clock", "member", "participant",
           "window", "instant"}
Changing == {"write", "lock", "locked", "reauth", "save"}
Call == [pc : {"idle"} \cup Asking \cup Changing,
         op : {"none", "granted", "refused", "read", "submit", "download", "page", "manage", "save", "form"},
         actor : User, sid : SUBSET Series, copy : Schedule, row : Contest,
         todo : SUBSET Series, who : User, was : Roles]

Types ==
  /\ TypeOK /\ req \in [Request -> Call]
  /\ \A q \in Reader : req[q].pc \in {"idle"} \cup Asking
  /\ \A q \in Writer : req[q].pc \in {"idle"} \cup Changing

(* One membership transaction at a time, and what it has read is current.  *)
LocksFit ==
  /\ \A q, p \in Request : At(q, "locked") /\ At(p, "locked") => q = p
  /\ \A q \in Request : At(q, "locked") => contest.exists /\ req[q].was = member[req[q].who]

(* What a reader asks for at each of its queries.                          *)
Chosen == {"manage", "check", "clock", "member", "participant", "window", "instant"}
Shape(q) ==
  /\ At(q, "revision") => req[q].op = "download"
  /\ At(q, "page") => req[q].op = "page"
  /\ At(q, "manage") => req[q].op \in {"read", "submit", "download", "page"}
  /\ req[q].pc \in {"load", "check", "clock", "member"} => req[q].op \in {"read", "submit", "download"}
  /\ req[q].pc \in {"participant", "window", "instant"} => req[q].op = "submit"
  /\ req[q].op = "download" /\ ~At(q, "revision") => req[q].actor \notin Admin \cup {Owner}
  /\ req[q].op \in {"read", "submit"} => IF At(q, "load") THEN \E s \in Series : req[q].todo = {s}
                                        ELSE req[q].todo = {}
  /\ req[q].pc \in Chosen /\ req[q].op # "page" => \E s \in Series : req[q].sid = {s}

(* The grounds that have been found at each query.                         *)
Ground(q) ==
  /\ shown[q] \subseteq Schedule /\ seen[q] \subseteq Contest
  /\ ~At(q, "idle") => Facts(q) \subseteq held[q] /\ (contest.pub => contest \in seen[q])
  /\ req[q].pc \in {"clock", "instant"} => req[q].row \in seen[q]
  /\ req[q].pc \in Chosen /\ req[q].op # "page" => req[q].copy \in shown[q]
  /\ At(q, "member") => (\E c \in seen[q] : Begun(c.start)) /\ Released(req[q].copy)
  /\ req[q].pc \in {"participant", "window", "instant"} => ReadGrounds(q)
  /\ req[q].pc \in {"window", "instant"} => "participant" \in held[q]

(* While no table has changed, what has been read is still so, and a       *)
(* download that was due has a series left that allows it.                 *)
Left(q) == CASE At(q, "revision") -> assigned
             [] At(q, "load") -> req[q].todo
             [] OTHER -> req[q].todo \cup req[q].sid
Current(q) ==
  /\ req[q].pc \in Chosen /\ req[q].op # "page" =>
       \A s \in req[q].sid : s \in live /\ req[q].copy = series[s]
  /\ req[q].op = "download" => req[q].todo \cup req[q].sid \subseteq assigned
  /\ At(q, "manage") /\ req[q].op = "page" => ~contest.pub
  /\ req[q].pc \in {"check", "clock", "member"} => ~Managing(req[q].actor)
  /\ req[q].pc \in {"clock", "instant"} => contest.pub /\ req[q].row = contest
  /\ At(q, "member") => Started
  /\ req[q].pc \in {"participant", "window", "instant"} =>
       \A s \in req[q].sid : MayRead(req[q].actor, s)
  /\ req[q].pc \in {"window", "instant"} => member[req[q].actor] = "participant"
  /\ due[q] /\ req[q].op = "download" =>
       req[q].actor \in Admin \cup {Owner} \/ \E s \in Left(q) : MayRead(req[q].actor, s)

IInv == /\ Types /\ LocksFit
        /\ \A q \in Reader : Shape(q) /\ Ground(q) /\ (quiet[q] => ~At(q, "idle") /\ Current(q))
=============================================================================
