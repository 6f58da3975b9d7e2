------------------------------ MODULE Overrides ------------------------------
(***************************************************************************)
(* The override store of the custody scheduler and every request that      *)
(* writes to it: the web API (api/router.py), the SMS handshake's          *)
(* repository calls (concierge/nodes.py, concierge/repos.py), the STOP     *)
(* keyword (concierge/runner.py) and the boot backfill (main.py).          *)
(*                                                                         *)
(* Sync endpoints run in a thread pool, each with a database session of    *)
(* its own.  A SELECT sees the latest committed rows and holds nothing;    *)
(* from its first UPDATE to its COMMIT a session holds SQLite's write      *)
(* lock.  So a request is a sequence of reads and local decisions, each a  *)
(* step, and one atomic write.  SQLAlchemy writes only the columns whose   *)
(* value differs from the one the session loaded, whatever the row holds   *)
(* by then: that is Flush.                                                 *)
(***************************************************************************)
EXTENDS Integers, FiniteSets

CONSTANTS
  MaxOverrides,   \* bound: override ids are 1..MaxOverrides
  Horizon,        \* bound: calendar days are 1..Horizon
  MaxRangeDays,   \* MAX_RANGE_DAYS: largest end - start a request may have
  Parents,        \* the users with role Parent
  Sessions,       \* threads of the pool, each with its own database session
  RequestTtl,     \* OVERRIDE_REQUEST_TTL and OVERRIDE_TTL (24 hours)
  PlannedTtl,     \* PLANNED_OVERRIDE_TTL (7 days)
  MaxNow,         \* bound: the clock stops there
  None            \* NULL

Ids  == 1..MaxOverrides
Days == 1..Horizon

ASSUME OverridesAssumption ==
  /\ MaxOverrides \in Nat
  /\ Horizon \in Nat
  /\ MaxRangeDays \in Nat
  /\ RequestTtl \in Nat \ {0}
  /\ PlannedTtl \in Nat \ {0}
  /\ MaxNow \in Nat
  /\ None \notin Parents
  /\ None \notin Ids

VARIABLES
  request,   \* request[i]: what override i asks for; never changes once inserted
  row,       \* row[i]: the columns of override i that change
  claim,     \* claim[d]: the override that owns day d in active_custody_days
  now,       \* the clock
  ses,       \* ses[s]: what session s has read and what it is about to do
  contested  \* history: decided while another session was also at it

vars == <<request, row, claim, now, ses, contested>>

------------------------------------------------------------------------------
(* Rows.                                                                   *)

Statuses == {"Absent", "Draft", "Pending", "Approved", "Rejected", "Expired"}

Request == [requester : Parents \cup {None}, start : Nat, end : Nat,
            expires : Nat, sms : BOOLEAN]

Columns == [status : Statuses, active : BOOLEAN, decidedBy : Parents \cup {None}]

NoRequest == [requester |-> None, start |-> 1, end |-> 0, expires |-> 0, sms |-> FALSE]
NoColumns == [status |-> "Absent", active |-> FALSE, decidedBy |-> None]

IsValidRange(start, end) == start <= end /\ end - start <= MaxRangeDays

SpanDays(i) == {d \in Days : request[i].start <= d /\ d <= request[i].end}

RangesOverlap(i, j) == /\ request[i].start <= request[j].end
                       /\ request[j].start <= request[i].end

\* Wrong: the life time is subtracted.
ExpiryInThePast(at, holiday, start, end) ==
  at - (IF holiday \/ start < end THEN PlannedTtl ELSE RequestTtl)

\* Holiday and multi-day blocks get a week, single days 24 hours.
ExpiryAt(at, holiday, start, end) ==
  at + (IF holiday \/ start < end THEN PlannedTtl ELSE RequestTtl)

\* What an UPDATE leaves in a column that holds `current`, was loaded as
\* `loaded` and is assigned `new`.
Flush(current, loaded, new) == IF new = loaded THEN current ELSE new

\* Wrong: a requester may approve their own request.
VerdictSelf(st, r, actor, at) ==
  IF st # "Pending" THEN "already_decided"
  ELSE IF at >= r.expires THEN "expired" ELSE "ok"

\* Wrong: the status the request was read with is not looked at.
VerdictAnyStatus(st, r, actor, at) ==
  IF at >= r.expires THEN "expired"
  ELSE IF actor = r.requester THEN "self_approval" ELSE "ok"

\* decide_override: the answer to a decision by `actor` on request r, whose
\* row was read with status st, at time `at`.
Verdict(st, r, actor, at) ==
  IF st # "Pending" THEN "already_decided"
  ELSE IF at >= r.expires THEN "expired"
  ELSE IF actor = r.requester THEN "self_approval" ELSE "ok"

------------------------------------------------------------------------------
(* Sessions.                                                               *)

Idle == [pc |-> "idle", target |-> None, by |-> None, goal |-> "Absent",
         seen |-> NoColumns, batch |-> {}]

Begin(s, fields) == /\ ses[s].pc = "idle"
                    /\ ses' = [ses EXCEPT ![s] = fields]

Goto(s, label) == ses' = [ses EXCEPT ![s].pc = label]

Finish(s) == ses' = [ses EXCEPT ![s] = Idle]

Init == /\ request = [i \in Ids |-> NoRequest]
        /\ row = [i \in Ids |-> NoColumns]
        /\ claim = [d \in Days |-> None]
        /\ now = 0
        /\ ses = [s \in Sessions |-> Idle]
        /\ contested = {}

\* The overrides that a session has read and may yet write: its target and what
\* is left of a sweep or a withdrawal (not what an approval supersedes).
AtWork(t) == (IF ses[t].pc = "claiming" THEN {} ELSE ses[t].batch) \cup {ses[t].target}

\* History: session s commits the decision of `ids`.
Decide(s, ids) ==
  contested' = contested \cup {i \in ids : \E t \in Sessions \ {s} : i \in AtWork(t)}

------------------------------------------------------------------------------
(* Creation.  INSERT is one write; the clock was read at some time before. *)

Insert(i, status, r) ==
  /\ row[i].status = "Absent"
  /\ \A j \in Ids : j < i => row[j].status # "Absent"
  /\ request' = [request EXCEPT ![i] = r]
  /\ row' = [row EXCEPT ![i].status = status]
  /\ UNCHANGED <<claim, now, ses, contested>>

CreateOverride ==
  \E i \in Ids, who \in Parents, start, end \in Days, holiday \in BOOLEAN, at \in 0..now :
    /\ IsValidRange(start, end)
    /\ Insert(i, "Pending",
              [requester |-> who, start |-> start, end |-> end,
               expires |-> ExpiryAt(at, holiday, start, end), sms |-> FALSE])

CreateDraft ==
  \E i \in Ids, who \in Parents, start, end \in Days, at \in 0..now :
    /\ IsValidRange(start, end)
    /\ Insert(i, "Draft",
              [requester |-> who, start |-> start, end |-> end,
               expires |-> at + RequestTtl, sms |-> TRUE])

------------------------------------------------------------------------------
(* POST /overrides/{id}/decision.                                          *)

DecideRead(s) ==
  \E i \in Ids, who \in Parents :
    /\ row[i].status # "Absent"
    /\ Begin(s, [Idle EXCEPT !.pc = "deciding", !.target = i, !.by = who,
                             !.seen = row[i]])
    /\ UNCHANGED <<request, row, claim, now, contested>>

WebVerdict(s) == Verdict(ses[s].seen.status, request[ses[s].target], ses[s].by, now)

DecideRefused(s) ==
  /\ ses[s].pc = "deciding"
  /\ WebVerdict(s) \in {"already_decided", "self_approval"}
  /\ Finish(s)
  /\ UNCHANGED <<request, row, claim, now, contested>>

DecideJudged(s) ==
  /\ ses[s].pc = "deciding"
  /\ \/ WebVerdict(s) = "expired" /\ Goto(s, "expiring")
     \/ WebVerdict(s) = "ok" /\ Goto(s, "rejecting")
     \/ WebVerdict(s) = "ok" /\ Goto(s, "activating")
  /\ UNCHANGED <<request, row, claim, now, contested>>

DecideExpired(s) ==
  /\ ses[s].pc = "expiring"
  /\ row' = [row EXCEPT ![ses[s].target].status = "Expired"]
  /\ Decide(s, {ses[s].target})
  /\ Finish(s)
  /\ UNCHANGED <<request, claim, now>>

\* The reject branch assigns status and decider; is_active is not touched.
DecideRejected(s) ==
  /\ ses[s].pc = "rejecting"
  /\ row' = [row EXCEPT ![ses[s].target] =
                 [@ EXCEPT !.status = "Rejected", !.decidedBy = ses[s].by]]
  /\ Decide(s, {ses[s].target})
  /\ Finish(s)
  /\ UNCHANGED <<request, claim, now>>

------------------------------------------------------------------------------
(* activate_override and the commit of its caller, web or SMS.             *)

\* Wrong: every active override is superseded, overlapping or not.
AllActives(i) == {j \in Ids \ {i} : row[j].active}

OverlappingActives(i) == {j \in Ids \ {i} : row[j].active /\ RangesOverlap(i, j)}

ReadActives(s) ==
  /\ ses[s].pc = "activating"
  /\ ses' = [ses EXCEPT ![s] =
       [@ EXCEPT !.pc = "claiming", !.batch = OverlappingActives(ses[s].target)]]
  /\ UNCHANGED <<request, row, claim, now, contested>>

\* Wrong: a superseded override keeps its days.
NotReleased(gone) == claim

\* The day rows left once the days of `gone` are released.
Released(gone) == [d \in Days |-> IF claim[d] \in gone THEN None ELSE claim[d]]

\* Wrong: active_custody_days has no primary key, the old index stands alone.
IndexConflict(i, gone) ==
  \E j \in Ids \ ({i} \cup gone) : row[j].active /\ request[j].start = request[i].start

\* IntegrityError: a day of i is still claimed (the primary key of
\* active_custody_days), or an active override starts on the same day (the
\* partial unique index).
Conflict(i, gone) ==
  \/ \E d \in SpanDays(i) : Released(gone)[d] # None
  \/ \E j \in Ids \ ({i} \cup gone) : row[j].active /\ request[j].start = request[i].start

\* Wrong: the claims are not written.
NotClaimed(i, gone) == Released(gone)

\* The day rows once i has claimed its span.
Claimed(i, gone) == [d \in Days |-> IF d \in SpanDays(i) THEN i ELSE Released(gone)[d]]

\* The columns of an approved override, as the session's UPDATE leaves them.
Approve(current, seen, by) ==
  [status    |-> Flush(current.status, seen.status, "Approved"),
   active    |-> Flush(current.active, seen.active, TRUE),
   decidedBy |-> Flush(current.decidedBy, seen.decidedBy, by)]

ActivateCommit(s) ==
  LET i == ses[s].target
      gone == ses[s].batch
  IN  /\ ses[s].pc = "claiming"
      /\ ~Conflict(i, gone)
      /\ row' = [j \in Ids |->
           IF j = i THEN Approve(row[i], ses[s].seen, ses[s].by)
           ELSE IF j \in gone THEN [row[j] EXCEPT !.active = FALSE] ELSE row[j]]
      /\ claim' = Claimed(i, gone)
      /\ Decide(s, {i})
      /\ Finish(s)
      /\ UNCHANGED <<request, now>>

\* rollback: 409 on the web, "that date was just taken" by SMS.
ActivateConflict(s) ==
  /\ ses[s].pc = "claiming"
  /\ Conflict(ses[s].target, ses[s].batch)
  /\ Finish(s)
  /\ UNCHANGED <<request, row, claim, now, contested>>

------------------------------------------------------------------------------
(* POST /overrides/sweep-expired.                                          *)

\* Wrong: the sweep forgets the status filter.
ExpiredAny(at) == {i \in Ids : row[i].status # "Absent" /\ request[i].expires <= at}

ExpiredPending(at) == {i \in Ids : row[i].status = "Pending" /\ request[i].expires <= at}

SweepRead(s) ==
  \E at \in 0..now :
    /\ ExpiredPending(at) # {}
    /\ Begin(s, [Idle EXCEPT !.pc = "sweeping", !.batch = ExpiredPending(at)])
    /\ UNCHANGED <<request, row, claim, now, contested>>

SweepCommit(s) ==
  /\ ses[s].pc = "sweeping"
  /\ row' = [i \in Ids |-> IF i \in ses[s].batch
                             THEN [row[i] EXCEPT !.status = "Expired"] ELSE row[i]]
  /\ Decide(s, ses[s].batch)
  /\ Finish(s)
  /\ UNCHANGED <<request, claim, now>>

------------------------------------------------------------------------------
(* The SMS handshake.  deps.now is read before the graph runs, so every    *)
(* handler judges by a time not later than the clock.                      *)

SetStatus(i, goal, by, rest) ==
  [Idle EXCEPT !.pc = "setting", !.target = i, !.goal = goal, !.by = by, !.batch = rest]

\* process_initiator_reply on a recognized YES or NO.
InitiatorReply(s) ==
  \E i \in Ids, at \in 0..now :
    /\ request[i].sms
    /\ row[i].status = "Draft"
    /\ \/ at >= request[i].expires /\ Begin(s, SetStatus(i, "Expired", None, {}))
       \/ at < request[i].expires /\ Begin(s, SetStatus(i, "Rejected", None, {}))
       \/ at < request[i].expires /\ Begin(s, SetStatus(i, "Pending", None, {}))
    /\ UNCHANGED <<request, row, claim, now, contested>>

\* process_counterparty_reply on a recognized ACCEPT or DENY.
CounterpartyReply(s) ==
  \E i \in Ids, who \in Parents, at \in 0..now :
    LET v == Verdict(row[i].status, request[i], who, at)
    IN  /\ request[i].sms
        /\ who # request[i].requester
        /\ \/ v = "expired" /\ Begin(s, SetStatus(i, "Expired", None, {}))
           \/ v = "ok" /\ Begin(s, SetStatus(i, "Rejected", who, {}))
           \/ v = "ok" /\ Begin(s, [Idle EXCEPT !.pc = "reloading", !.target = i, !.by = who])
        /\ UNCHANGED <<request, row, claim, now, contested>>

\* activate_and_supersede loads the row again and does not look at its status.
ActivateReload(s) ==
  /\ ses[s].pc = "reloading"
  /\ ses' = [ses EXCEPT ![s] = [@ EXCEPT !.pc = "activating", !.seen = row[ses[s].target]]]
  /\ UNCHANGED <<request, row, claim, now, contested>>

\* Wrong: STOP withdraws whatever the sender asked for, decided or not.
OpenAny(who, at) == {i \in Ids : /\ request[i].requester = who
                                 /\ row[i].status # "Absent"
                                 /\ request[i].expires > at}

\* STOP: every open request of the sender is rejected, one set_status each.
OpenRequests(who, at) ==
  {i \in Ids : /\ request[i].requester = who
               /\ row[i].status \in {"Draft", "Pending"}
               /\ request[i].expires > at}

StopWithdraw(s) ==
  \E who \in Parents, at \in 0..now : \E i \in OpenRequests(who, at) :
    /\ Begin(s, SetStatus(i, "Rejected", who, OpenRequests(who, at) \ {i}))
    /\ UNCHANGED <<request, row, claim, now, contested>>

SetStatusLoad(s) ==
  /\ ses[s].pc = "setting"
  /\ ses' = [ses EXCEPT ![s] = [@ EXCEPT !.pc = "saving", !.seen = row[ses[s].target]]]
  /\ UNCHANGED <<request, row, claim, now, contested>>

\* set_status(..., is_active=False): the day rows go whatever is_active was.
SetStatusCommit(s) ==
  LET i == ses[s].target
      seen == ses[s].seen
  IN  /\ ses[s].pc = "saving"
      /\ row' = [row EXCEPT ![i] =
           [status    |-> Flush(row[i].status, seen.status, ses[s].goal),
            active    |-> Flush(row[i].active, seen.active, FALSE),
            decidedBy |-> IF ses[s].by = None THEN row[i].decidedBy
                          ELSE Flush(row[i].decidedBy, seen.decidedBy, ses[s].by)]]
      /\ claim' = Released({i})
      /\ Decide(s, IF ses[s].goal = "Pending" THEN {} ELSE {i})
      /\ \/ ses[s].batch = {} /\ Finish(s)
         \/ \E j \in ses[s].batch :
              ses' = [ses EXCEPT ![s] = SetStatus(j, ses[s].goal, ses[s].by,
                                                  ses[s].batch \ {j})]
      /\ UNCHANGED <<request, now>>

------------------------------------------------------------------------------
(* A crash or deploy drops every request in flight; the boot then claims   *)
(* the unclaimed days of every override flagged active.                    *)

ActiveOn(d) == {i \in Ids : row[i].active /\ d \in SpanDays(i)}

\* after[d]: the claim of day d once the boot is done; the lowest id, read
\* first, keeps a day that two active overrides want.
Backfill(after) ==
  \A d \in Days :
    IF claim[d] # None \/ ActiveOn(d) = {} THEN after[d] = claim[d]
    ELSE after[d] \in ActiveOn(d) /\ \A i \in ActiveOn(d) : after[d] <= i

Restart == /\ ses' = [s \in Sessions |-> Idle]
           /\ claim' \in [Days -> Ids \cup {None}]
           /\ Backfill(claim')
           /\ UNCHANGED <<request, row, now, contested>>

Tick == /\ now < MaxNow
        /\ now' = now + 1
        /\ UNCHANGED <<request, row, claim, ses, contested>>

------------------------------------------------------------------------------
\* The web API alone.
WebSession(s) == \/ DecideRead(s) \/ DecideRefused(s) \/ DecideJudged(s)
                 \/ DecideExpired(s) \/ DecideRejected(s)
                 \/ ReadActives(s) \/ ActivateCommit(s) \/ ActivateConflict(s)
                 \/ SweepRead(s) \/ SweepCommit(s)

WebNext == CreateOverride \/ Restart \/ Tick \/ \E s \in Sessions : WebSession(s)

WebSpec == Init /\ [][WebNext]_vars

\* What the SMS concierge adds.
SmsSession(s) == \/ InitiatorReply(s) \/ CounterpartyReply(s) \/ ActivateReload(s)
                 \/ StopWithdraw(s) \/ SetStatusLoad(s) \/ SetStatusCommit(s)

Next == WebNext \/ CreateDraft \/ \E s \in Sessions : SmsSession(s)

Spec == Init /\ [][Next]_vars

------------------------------------------------------------------------------
(* Properties.                                                             *)

Labels == {"idle", "deciding", "expiring", "rejecting", "activating", "claiming",
           "sweeping", "reloading", "setting", "saving"}

SessionState == [pc : Labels, target : Ids \cup {None}, by : Parents \cup {None},
                 goal : Statuses, seen : Columns, batch : SUBSET Ids]

\* Every column keeps its type, and a session that is busy with one override
\* has one (the sweep has a batch instead).
TypeOK == /\ request \in [Ids -> Request]
          /\ row \in [Ids -> Columns]
          /\ claim \in [Days -> Ids \cup {None}]
          /\ now \in Nat
          /\ ses \in [Sessions -> SessionState]
          /\ contested \subseteq Ids
          /\ \A s \in Sessions : ses[s].pc \notin {"idle", "sweeping"} => ses[s].target \in Ids

\* database/schema.py:98, "Rows exist iff the override is active": a day is
\* claimed by exactly the override that is active on it, so no claim is an
\* orphan and no active override is unprotected.
ActiveOwnsDays ==
  \A i \in Ids, d \in Days : claim[d] = i <=> row[i].active /\ d \in SpanDays(i)

\* README.md:273: two overlapping ranges are never both active.
NoDoubleBooking ==
  \A i, j \in Ids : row[i].active /\ row[j].active /\ i # j => SpanDays(i) \cap SpanDays(j) = {}

\* An approved override was decided by a parent other than its requester,
\* whatever reads were stale (core/approvals.py SELF_APPROVAL).
Consent ==
  \A i \in Ids : row[i].status = "Approved" =>
    row[i].decidedBy \in Parents \ {request[i].requester}

\* A request nobody has decided holds no day of the calendar and no decider.
OpenIsInactive ==
  \A i \in Ids : row[i].status \in {"Absent", "Draft", "Pending"} =>
    ~row[i].active /\ row[i].decidedBy = None

\* api/router.py:575, "Conflicts with an override that was just approved by
\* another request": an approval is refused only because it was itself approved
\* meanwhile or because an overlapping override became active after the read.
ConflictMeansRace ==
  \A s \in Sessions :
    LET i == ses[s].target IN
    ses[s].pc = "claiming" /\ Conflict(i, ses[s].batch) =>
      \/ row[i].active
      \/ \E j \in Ids \ ses[s].batch : row[j].active /\ SpanDays(j) \cap SpanDays(i) # {}

\* core/approvals.py ALREADY_DECIDED: a decided request keeps its decision.  Web
\* decisions, sweeps, texts, withdrawals and boots may interleave; only a second
\* answer that was already under way when the first was committed overturns it.
Decided(i) == row[i].status \in {"Approved", "Rejected", "Expired"}
DecidedIsFinal ==
  [][\A i \in Ids \ contested : Decided(i) => row'[i].status = row[i].status]_vars

\* What parents are shown is what is claimed: the day rows and the engine
\* (core/engine.py:57, the newest override that is active and approved) name the
\* same override on every day, though one is written and the other calculated,
\* unless one of the requests for that day was decided twice at once.
Shown(d) == {i \in Ids : row[i].active /\ row[i].status = "Approved" /\ d \in SpanDays(i)}

CalendarShowsClaim ==
  \A d \in Days : (\A i \in contested : d \notin SpanDays(i)) =>
    IF Shown(d) = {} THEN claim[d] = None
    ELSE claim[d] \in Shown(d) /\ \A i \in Shown(d) : i <= claim[d]

\* activate_override (database/activation.py): an active override goes out of
\* force only when the approval of an overlapping one supersedes it, whatever
\* was read how long ago and whoever withdraws, sweeps or restarts meanwhile.
EndsByOverlap ==
  [][\A i \in Ids \ contested : row[i].active /\ ~row'[i].active =>
       \E s \in Sessions : ActivateCommit(s) /\ RangesOverlap(i, ses[s].target)]_vars

\* The inductive invariant of the web API.  A row that exists carries a valid
\* request; a session that judged its override "ok" read it inactive and
\* undecided, and acts for a parent other than the requester.
RequestOK(i) ==
  IF row[i].status = "Absent" THEN request[i] = NoRequest
  ELSE /\ request[i].requester \in Parents
       /\ request[i].start \in Days
       /\ request[i].end \in Days
       /\ request[i].start <= request[i].end

SessionOK(s) ==
  LET i == ses[s].target
      open == ses[s].seen.status = "Pending"
      blank == ~ses[s].seen.active /\ ses[s].seen.decidedBy = None
  IN  /\ ses[s].pc \notin {"reloading", "setting", "saving"}
      /\ ses[s].pc \in {"deciding", "expiring", "rejecting", "activating", "claiming"} =>
           row[i].status # "Absent" /\ ses[s].by \in Parents
      /\ ses[s].pc = "deciding" /\ open => blank
      /\ ses[s].pc \in {"activating", "claiming"} =>
           open /\ blank /\ ses[s].by # request[i].requester
      /\ ses[s].pc = "claiming" =>
           \A j \in ses[s].batch : j # i /\ row[j].status # "Absent" /\ RangesOverlap(i, j)
      /\ ses[s].pc = "sweeping" => \A j \in ses[s].batch : row[j].status # "Absent"

WebInv == /\ \A i \in Ids : RequestOK(i)
          /\ \A s \in Sessions : SessionOK(s)
          /\ ActiveOwnsDays
          /\ OpenIsInactive
          /\ Consent

\* The store implements the abstract calendar: each commit of an approval
\* supersedes exactly the bookings that overlap it at that moment.
Calendar == INSTANCE CustodyCalendar
              WITH Requests <- Ids,
                   asked <- [i \in Ids |-> SpanDays(i)],
                   booked <- {i \in Ids : row[i].active}
ImplementsCalendar == Calendar!Spec
==============================================================================
