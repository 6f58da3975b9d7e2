------------------------------- MODULE Backup -------------------------------
(***************************************************************************)
(* The weekly evidence archive (api/backup_router.py): a trigger claims a  *)
(* date, stores the archive's bytes, mails them to every parent and        *)
(* settles the record; a later trigger retries an archive still owed; an   *)
(* operator may abandon one.                                               *)
(*                                                                         *)
(* A trigger is a chain of steps of one thread, one per statement that     *)
(* reads, sends or commits.  Time is counted in ticks: a lease is kept as  *)
(* the ticks left to it, and a session as the ticks since it took `now`,   *)
(* which the code reads once, at the start of the request.                 *)
(***************************************************************************)
EXTENDS Integers, FiniteSets, FiniteSetsExt

CONSTANTS
  Sessions,    \* threads of the pool that serve triggers and abandons
  NumParents,  \* recipient_parent_ids, in the order they are mailed
  MaxDate,     \* bound: household dates 1..MaxDate
  Lease,       \* LEASE_MINUTES, in ticks
  MaxAge,      \* bound: ticks a request may last; above Lease it outlives its lease
  MaxFaults,   \* bound: failed sends, lock timeouts and crashes
  None

ASSUME BackupAssumption ==
  /\ NumParents \in Nat \ {0} /\ MaxDate \in Nat \ {0}
  /\ Lease \in Nat \ {0} /\ MaxAge \in Nat \ {0} /\ MaxFaults \in Nat
  /\ None \notin Sessions /\ None \notin [date : 1..MaxDate, by : Sessions]
  /\ None \notin {"submitted", "abandoned"}

Parents == 1..NumParents
Dates   == 1..MaxDate

VARIABLES
  day,     \* household_today()
  rec,     \* backup_records, by backup_date
  box,     \* box[p]: the archive files in parent p's mailbox
  writer,  \* the session holding SQLite's write lock between two statements
  faults,  \* failed sends, lock timeouts and crashes so far
  ses      \* ses[s]: the request session s serves, and how far it is

vars == <<day, rec, box, writer, faults, ses>>

INSTANCE ArchiveChain

------------------------------------------------------------------------------
Statuses == {"absent", "pending", "submitted", "failed", "abandoned"}
Owed     == {"pending", "failed"}
Over     == -(MaxAge + 1)   \* a lease that ended before any live request began

NoRecord == [status |-> "absent", doc |-> None, held |-> FALSE, lease |-> Over]
Idle     == [pc |-> "idle", age |-> 0, date |-> 0, doc |-> None, to |-> 1, sent |-> TRUE]

Goto(s, pc) == ses' = [ses EXCEPT ![s].pc = pc]
Done(s)     == ses' = [ses EXCEPT ![s] = Idle]
Busy(s)     == ses[s].pc # "idle"

(* A write waits for the lock of another transaction that has flushed. *)
MayWrite(s) == writer \in {s, None}

Init ==
  /\ day = 1
  /\ rec = [d \in Dates |-> NoRecord]
  /\ box = [p \in Parents |-> {}]
  /\ writer = None
  /\ faults = 0
  /\ ses = [s \in Sessions |-> Idle]

------------------------------------------------------------------------------
(* A trigger: what is owed comes first. *)

(* Wrong: only a crashed attempt is retried, a failed one is passed over. *)
CrashedOnly == {d \in Dates : rec[d].status = "pending"}

Unresolved == {d \in Dates : rec[d].status \in Owed}

(* "in flight": pending, with a lease the reader's clock has not passed. *)
Live(d) == rec[d].status = "pending" /\ rec[d].lease > 0

Trigger(s) ==
  /\ ~Busy(s)
  /\ \/ /\ Unresolved = {}
        /\ ses' = [ses EXCEPT ![s].pc = "today"]
     \/ /\ Unresolved # {}
        /\ ~Live(Max(Unresolved))
        /\ ses' = [ses EXCEPT ![s].pc = "lease", ![s].date = Max(Unresolved)]
  /\ UNCHANGED <<day, rec, box, writer, faults>>

(* Wrong: any unsettled record may be taken, its lease is not looked at. *)
AnyOwed(s) == rec[ses[s].date].status \in Owed

Acquirable(s) ==
  LET r == rec[ses[s].date]
  IN  \/ r.status = "failed"
      \/ r.status = "pending" /\ r.lease < -ses[s].age

TryAcquireLease(s) ==
  /\ ses[s].pc = "lease"
  /\ MayWrite(s)
  /\ IF Acquirable(s)
     THEN /\ rec' = [rec EXCEPT ![ses[s].date] =
                       [@ EXCEPT !.status = "pending", !.lease = Lease - ses[s].age]]
          /\ Goto(s, "deliver")
     ELSE /\ Done(s)
          /\ UNCHANGED rec
  /\ UNCHANGED <<day, box, writer, faults>>

------------------------------------------------------------------------------
(* A trigger with nothing owed: claim today. *)

CheckToday(s) ==
  /\ ses[s].pc = "today"
  /\ IF rec[day].status = "absent"
     THEN ses' = [ses EXCEPT ![s].pc = "build", ![s].date = day]
     ELSE Done(s)
  /\ UNCHANGED <<day, rec, box, writer, faults>>

(* Wrong: the digest is taken of a fresh export, not of the archive sent. *)
RebuiltSha ==
  LET submitted == {d \in Dates : rec[d].status = "submitted"}
  IN  IF submitted = {} THEN None ELSE [date |-> Max(submitted), by |-> None]

(* Wrong: an archive links to the newest record, delivered or not. *)
LastRecordSha ==
  LET made == {d \in Dates : rec[d].status # "absent"}
  IN  IF made = {} THEN None ELSE rec[Max(made)].doc.sha

LastSubmittedSha ==
  LET submitted == {d \in Dates : rec[d].status = "submitted"}
  IN  IF submitted = {} THEN None ELSE rec[Max(submitted)].doc.sha

(* backup_records as the export embeds them; the row claimed is not there yet. *)
History ==
  LET made == {d \in Dates : rec[d].status # "absent"}
  IN  [x \in {rec[d].doc.sha : d \in made} |-> rec[x.date].status]

(* The digest stands for the bytes: two builds of one date differ. *)
Build(s) ==
  /\ ses[s].pc = "build"
  /\ LET doc == [sha |-> [date |-> ses[s].date, by |-> s], date |-> ses[s].date,
                 prev |-> LastSubmittedSha, history |-> History]
     IN  ses' = [ses EXCEPT ![s].pc = "claim", ![s].doc = doc]
  /\ UNCHANGED <<day, rec, box, writer, faults>>

(* Wrong: without the UNIQUE column the later claim replaces the earlier. *)
NotSubmitted(d) == rec[d].status # "submitted"

Unclaimed(d) == rec[d].status = "absent"

ClaimToday(s) ==
  /\ ses[s].pc = "claim"
  /\ MayWrite(s)
  /\ IF Unclaimed(ses[s].date)
     THEN /\ rec' = [rec EXCEPT ![ses[s].date] =
                       [status |-> "pending", doc |-> ses[s].doc, held |-> TRUE,
                        lease |-> Lease - ses[s].age]]
          /\ Goto(s, "deliver")
     ELSE /\ Done(s)
          /\ UNCHANGED rec
  /\ UNCHANGED <<day, box, writer, faults>>

------------------------------------------------------------------------------
(* Delivery of the stored bytes. *)

(* refresh, then the assertion that the bytes are still there: if they are *)
(* not, the request fails and leaves the record as it is.                  *)
LoadBytes(s) ==
  /\ ses[s].pc = "deliver"
  /\ IF rec[ses[s].date].held
     THEN ses' = [ses EXCEPT ![s].pc = "send", ![s].doc = rec[ses[s].date].doc]
     ELSE Done(s)
  /\ UNCHANGED <<day, rec, box, writer, faults>>

(* Reading the second parent flushes the first one's delivery row, so from *)
(* then on the session holds the write lock.  A send that is reported as   *)
(* failed may have reached the mailbox all the same.                       *)
Send(s) ==
  LET p == ses[s].to
  IN  /\ ses[s].pc = "send" /\ p \in Parents
      /\ p > 1 => MayWrite(s)
      /\ writer' = IF p > 1 THEN s ELSE writer
      /\ \/ /\ box' = [box EXCEPT ![p] = @ \cup {ses[s].doc}]
            /\ ses' = [ses EXCEPT ![s].to = p + 1]
            /\ UNCHANGED faults
         \/ /\ faults < MaxFaults /\ faults' = faults + 1
            /\ ses' = [ses EXCEPT ![s].to = p + 1, ![s].sent = FALSE]
            /\ \E reached \in {{}, {ses[s].doc}} :
                 box' = [box EXCEPT ![p] = @ \cup reached]
      /\ UNCHANGED <<day, rec>>

(* Wrong: one parent reached is enough. *)
AnySent(s) == \E p \in Parents : ses[s].doc \in box[p]

AllSent(s) == ses[s].sent

(* The record is written from the copy loaded at the start of delivery. *)
Settle(s) ==
  /\ ses[s].pc = "send" /\ ses[s].to > NumParents
  /\ MayWrite(s)
  /\ rec' = [rec EXCEPT ![ses[s].date] =
               IF AllSent(s)
               THEN [@ EXCEPT !.status = "submitted", !.held = FALSE, !.lease = Over]
               ELSE [@ EXCEPT !.status = "failed", !.lease = Over]]
  /\ writer' = None
  /\ Done(s)
  /\ UNCHANGED <<day, box, faults>>

(* A statement that has to write waits five seconds for the lock and fails. *)
LockTimeout(s) ==
  /\ ses[s].pc \in {"lease", "claim", "abandon", "send"}
  /\ ses[s].pc = "send" => ses[s].to > 1
  /\ ~MayWrite(s)
  /\ faults < MaxFaults /\ faults' = faults + 1
  /\ Done(s)
  /\ UNCHANGED <<day, rec, box, writer>>

------------------------------------------------------------------------------
(* The operator's abandon: a read and a write. *)

(* Wrong: an attempt in flight does not stop an abandon. *)
Anything(d) == TRUE

MayAbandon(d) == ~Live(d)

AbandonRead(s) ==
  /\ ~Busy(s)
  /\ Unresolved # {}
  /\ MayAbandon(Max(Unresolved))
  /\ ses' = [ses EXCEPT ![s].pc = "abandon", ![s].date = Max(Unresolved)]
  /\ UNCHANGED <<day, rec, box, writer, faults>>

AbandonWrite(s) ==
  /\ ses[s].pc = "abandon"
  /\ MayWrite(s)
  /\ rec' = [rec EXCEPT ![ses[s].date] = [@ EXCEPT !.status = "abandoned", !.lease = Over]]
  /\ Done(s)
  /\ UNCHANGED <<day, box, writer, faults>>

------------------------------------------------------------------------------
(* The machine dies; whatever was not committed is gone. *)
Crash ==
  /\ \E s \in Sessions : Busy(s)
  /\ faults < MaxFaults /\ faults' = faults + 1
  /\ ses' = [s \in Sessions |-> Idle]
  /\ writer' = None
  /\ UNCHANGED <<day, rec, box>>

Tick ==
  /\ \A s \in Sessions : Busy(s) => ses[s].age < MaxAge
  /\ rec' = [d \in Dates |-> [rec[d] EXCEPT !.lease = IF @ > Over THEN @ - 1 ELSE @]]
  /\ ses' = [s \in Sessions |-> IF Busy(s) THEN [ses[s] EXCEPT !.age = @ + 1] ELSE ses[s]]
  /\ UNCHANGED <<day, box, writer, faults>>

Midnight ==
  /\ day < MaxDate
  /\ day' = day + 1
  /\ UNCHANGED <<rec, box, writer, faults, ses>>

Work(s) ==
  \/ TryAcquireLease(s) \/ CheckToday(s) \/ Build(s) \/ ClaimToday(s)
  \/ LoadBytes(s) \/ Send(s) \/ Settle(s) \/ AbandonWrite(s)

Next ==
  \/ \E s \in Sessions : Trigger(s) \/ Work(s) \/ AbandonRead(s) \/ LockTimeout(s)
  \/ Crash \/ Tick \/ Midnight

Spec == Init /\ [][Next]_vars

(* What the schedule of triggers grants: no claim is under way at midnight *)
(* and no retry is started between the two halves of an abandon.           *)
Orderly ==
  /\ day' # day => \A s \in Sessions : ses[s].pc \notin {"today", "build", "claim"}
  /\ \A s \in Sessions : ses[s].pc = "lease" /\ ses'[s].pc = "deliver" =>
       \A t \in Sessions : ses[t].pc # "abandon"

OrderlyNext == Next /\ Orderly

(* Triggers keep coming, requests run on, and time passes. *)
Fairness ==
  /\ WF_vars(Tick)
  /\ \A s \in Sessions : WF_vars(Trigger(s)) /\ WF_vars(Work(s) /\ Orderly)

OrderlySpec == Init /\ [][OrderlyNext]_vars /\ Fairness

------------------------------------------------------------------------------
Shas  == [date : Dates, by : Sessions]
IsDoc(x) ==
  /\ x.sha \in Shas /\ x.date = x.sha.date
  /\ x.prev \in Shas \cup {None}
  /\ DOMAIN x.history \subseteq Shas

(* Every variable has its shape: statuses and labels of the code, leases   *)
(* and ages within their bounds, bytes wherever a record exists.           *)
TypeOK ==
  /\ day \in Dates
  /\ \A d \in Dates :
       /\ rec[d].status \in Statuses /\ rec[d].held \in BOOLEAN
       /\ rec[d].lease \in Over..Lease
       /\ rec[d].status # "absent" => IsDoc(rec[d].doc)
  /\ \A p \in Parents : \A f \in box[p] : IsDoc(f)
  /\ writer \in Sessions \cup {None}
  /\ faults \in 0..MaxFaults
  /\ \A s \in Sessions :
       /\ ses[s].pc \in {"idle", "today", "build", "claim", "lease", "deliver",
                         "send", "abandon"}
       /\ ses[s].age \in 0..MaxAge /\ ses[s].to \in 1..(NumParents + 1)
       /\ ses[s].pc \in {"claim", "send"} => IsDoc(ses[s].doc)

(* One backup date identifies one immutable archive, however many attempts *)
(* were made and whichever request built it (core/backup.py, invariant 1). *)
OneArchivePerDate ==
  \A p, q \in Parents : \A f \in box[p] : \A g \in box[q] : f.date = g.date => f = g

(* A record is marked submitted only when its bytes are in the mailbox of  *)
(* every parent (invariant 2).                                             *)
SubmittedReachedAll ==
  \A d \in Dates : rec[d].status = "submitted" => \A p \in Parents : rec[d].doc \in box[p]

(* Two requests never deliver the same record, although a lease is handed  *)
(* on after a crash and a retry reads the record before it owns it         *)
(* (invariant 3).                                                          *)
OneOwner ==
  \A s, t \in Sessions :
    /\ ses[s].pc \in {"deliver", "send"} /\ ses[t].pc \in {"deliver", "send"}
    => s = t

(* Whatever failed, was retried, crashed or was abandoned halfway, the     *)
(* files in a parent's mailbox pass the verifier, as long as the mailbox   *)
(* holds one first archive.                                                *)
MailboxVerifiesFromGenesis ==
  \A p \in Parents : Cardinality(Genesis(box[p])) = 1 => Verifies(box[p])

(* In a mailbox that verifies, no archive with a successor on the chain    *)
(* can be taken out unnoticed, nor replaced by an edited file of another   *)
(* digest (README: "editing, deleting ... is detectable").                 *)
TamperingShows ==
  \A p \in Parents : Verifies(box[p]) =>
    \A f \in Chain(box[p]) : Successors(box[p], f) # {} =>
      LET rest   == box[p] \ {f}
          edited == [f EXCEPT !.sha = [date |-> f.date, by |-> None]]
      IN  ~Verifies(rest) /\ ~Verifies(rest \cup {edited})

(* A settled archive stays settled: no late answer of another attempt and  *)
(* no abandon reopens what was submitted or revives what was abandoned.    *)
SettledIsFinal ==
  [][\A d \in Dates : rec[d].status \in {"submitted", "abandoned"} =>
       rec'[d].status = rec[d].status]_vars

(* As long as triggers keep coming and failures end, an archive owed to    *)
(* the parents is delivered, unless an operator abandons it.               *)
OwedIsSettled ==
  \A d \in Dates :
    rec[d].status \in Owed ~> rec[d].status \in {"submitted", "abandoned"}
=============================================================================
