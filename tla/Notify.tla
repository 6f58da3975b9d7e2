-------------------------------- MODULE Notify --------------------------------
(***************************************************************************)
(* Who is told what about an override: create_override plans an email and  *)
(* a text to the counterparty, sends both after the response and records   *)
(* how they went; decide_override_request mails the requester              *)
(* (api/router.py).  One parent asks, the other is told and decides, so    *)
(* there is one phone and its row of sms_opt_outs.                         *)
(*                                                                         *)
(* Requests run in a thread pool and their background tasks after them,    *)
(* one after the other.  Each commit is a step and each send is a step; a  *)
(* deploy or a failing commit may come between any two.  opt_out and       *)
(* opt_in read before they write but take effect at one instant: a lost    *)
(* race ends in the state the winner left.                                 *)
(***************************************************************************)
EXTENDS Integers, FiniteSets

CONSTANTS MaxOverrides, \* bound: requests for an override
          Setups,       \* contact details of the parent and credentials of the host
          Sessions,     \* decision requests
          MaxKeywords,  \* bound: STOP and START texts in a behaviour
          MaxFaults,    \* bound: deploys, failed commits and lost webhooks
          None

\* How a channel may be set up: no address, no credentials, or live.
Channels  == {"absent", "local", "live"}
Overrides == 1..MaxOverrides
Rulings   == {"Approved", "Rejected"}

ASSUME NotifyAssumption ==
  /\ Setups \subseteq [email : Channels, sms : Channels]
  /\ MaxOverrides \in Nat
  /\ MaxKeywords \in Nat /\ MaxFaults \in Nat
  /\ None \notin {"queued", "sent", "failed", "skipped_no_address", "skipped_no_phone",
                  "skipped_opt_out"}

VARIABLES env,        \* the setup, fixed while it runs
          row,        \* the overrides table
          audit,      \* the audit_logs table
          optedOut,   \* the phone is in sms_opt_outs
          job,        \* the create requests with their background tasks
          ses,        \* the decision requests
          carrier,    \* Twilio: the phone is blocked; the keyword on its way to us
          handed,     \* messages that a server is known to have accepted, by override
          told,       \* outcomes given to the notifier to mail to the requester
          heard,      \* history: overrides whose text was unchecked when it was too late
          keywords, faults

db    == <<row, audit, optedOut>>
world == <<env, carrier, handed, told, heard, keywords, faults>>
vars  == <<env, row, audit, optedOut, job, ses, carrier, handed, told, heard,
           keywords, faults>>

NoRow == [status |-> "absent", email |-> None, sms |-> None]
Idle  == [pc |-> "idle", override |-> None, ruling |-> None]
Done  == [Idle EXCEPT !.pc = "done"]

Init ==
  /\ env \in Setups
  /\ row = [o \in Overrides |-> NoRow]
  /\ audit = {}
  /\ optedOut = FALSE
  /\ job = [o \in Overrides |-> [pc |-> "idle", outcome |-> None]]
  /\ ses = [s \in Sessions |-> Idle]
  /\ carrier = [blocked |-> FALSE, word |-> None]
  /\ handed = [o \in Overrides |-> {}]
  /\ told = {}
  /\ heard = {}
  /\ keywords = 0 /\ faults = 0

Goto(o, pc) == job' = [job EXCEPT ![o] = [@ EXCEPT !.pc = pc]]
Holding(o, outcome, pc) == job' = [job EXCEPT ![o] = [pc |-> pc, outcome |-> outcome]]

------------------------------------------------------------------------------
(* create_override: the row, its audit entry and the plan are three        *)
(* commits.  The row is there to be decided from the first.                *)

Create(o) ==
  /\ job[o].pc = "idle"
  /\ \A earlier \in 1..(o - 1) : job[earlier].pc # "idle"     \* ids are handed out in order
  /\ row' = [row EXCEPT ![o] = [@ EXCEPT !.status = "Pending"]]
  /\ Goto(o, "recording")
  /\ UNCHANGED <<audit, optedOut, ses, world>>

RecordRequest(o) ==
  /\ job[o].pc = "recording"
  /\ audit' = audit \cup {<<"requested", o>>}
  /\ Goto(o, "planning")
  /\ UNCHANGED <<row, optedOut, ses, world>>

EmailPlan == IF env.email = "absent" THEN "skipped_no_address" ELSE "queued"

\* Wrong: the plan has a word of its own for a phone that opted out.
SmsPlanInWords == CASE env.sms = "absent" -> "skipped_no_phone"
                    [] env.sms # "absent" /\ optedOut -> "opted_out"
                    [] OTHER -> "queued"

SmsPlan == CASE env.sms = "absent" -> "skipped_no_phone"
             [] env.sms # "absent" /\ optedOut -> "skipped_opt_out"
             [] OTHER -> "queued"

\* Only the two columns that were set are written.
Planned(r) == [r EXCEPT !.email = EmailPlan, !.sms = SmsPlan]

\* Wrong: the text is only reached by way of the email.
EmailOnly(email, sms) == IF email = "queued" THEN "mailing" ELSE "done"

\* The background tasks in order: the email, then the text.
FirstTask(email, sms) ==
  CASE email = "queued" -> "mailing" [] sms = "queued" -> "checking" [] OTHER -> "done"

Plan(o) ==
  /\ job[o].pc = "planning"
  /\ row' = [row EXCEPT ![o] = Planned(@)]
  /\ Goto(o, FirstTask(EmailPlan, SmsPlan))
  /\ UNCHANGED <<audit, optedOut, ses, world>>

------------------------------------------------------------------------------
(* A send.  Without credentials nothing is handed to anybody and the       *)
(* outcome is still "sent".  An error may come after the server took the   *)
(* message: what failed may be out all the same.                           *)

\* Wrong: an error is logged and the outcome left as it was set before the try.
ErrorSwallowed(accepted) == "sent"

Outcome(accepted) == IF accepted THEN "sent" ELSE "failed"

Deliver(o, channel, kind, next) ==
  \/ /\ channel = "local"
     /\ Holding(o, "sent", next)
     /\ UNCHANGED handed
  \/ /\ channel = "live"
     /\ \E accepted \in BOOLEAN :
          /\ Holding(o, Outcome(accepted), next)
          /\ handed' = [handed EXCEPT ![o] = IF accepted THEN @ \cup {kind} ELSE @]

SendEmail(o) ==
  /\ job[o].pc = "mailing"
  /\ Deliver(o, env.email, "email", "savingEmail")
  /\ UNCHANGED <<db, ses, env, carrier, told, heard, keywords, faults>>

\* Whether the gateway drops a text.
\* Wrong: the plan already asked.
SuppressedByPlan(o) == row[o].sms = "skipped_opt_out"

Suppressed(o) == optedOut

CheckOptOut(o) ==
  /\ job[o].pc = "checking"
  /\ IF Suppressed(o) THEN Holding(o, "skipped_opt_out", "savingSms") ELSE Goto(o, "texting")
  /\ UNCHANGED <<db, ses, world>>

SendSms(o) ==
  /\ job[o].pc = "texting"
  /\ \/ /\ ~carrier.blocked
        /\ Deliver(o, env.sms, "sms", "savingSms")
     \/ /\ carrier.blocked                       \* error 21610, or none at all
        /\ \/ Goto(o, "refused")
           \/ Holding(o, "failed", "savingSms")
        /\ UNCHANGED handed
  /\ UNCHANGED <<db, ses, env, carrier, told, heard, keywords, faults>>

\* The overrides whose text has not been checked against the list yet.
Unchecked == {o \in Overrides : job[o].pc \in {"idle", "recording", "planning", "mailing",
                                               "savingEmail", "checking"}}

OptOut == optedOut' = TRUE /\ heard' = heard \cup Unchecked

RecordRefusal(o) ==
  /\ job[o].pc = "refused"
  /\ OptOut
  /\ Holding(o, "skipped_opt_out", "savingSms")
  /\ UNCHANGED <<row, audit, ses, env, carrier, handed, told, keywords, faults>>

------------------------------------------------------------------------------
(* The outcome: its column, and an audit entry in the same commit if the   *)
(* message failed.                                                         *)

Failure(o, kind, outcome) == IF outcome = "failed" THEN {<<kind, o>>} ELSE {}

SaveEmail(o) ==
  /\ job[o].pc = "savingEmail"
  /\ row' = [row EXCEPT ![o] = [@ EXCEPT !.email = job[o].outcome]]
  /\ audit' = audit \cup Failure(o, "email_send_failed", job[o].outcome)
  /\ Holding(o, None, IF row[o].sms = "queued" THEN "checking" ELSE "done")
  /\ UNCHANGED <<optedOut, ses, world>>

SaveSms(o) ==
  /\ job[o].pc = "savingSms"
  /\ row' = [row EXCEPT ![o] = [@ EXCEPT !.sms = job[o].outcome]]
  /\ audit' = audit \cup Failure(o, "sms_send_failed", job[o].outcome)
  /\ Holding(o, None, "done")
  /\ UNCHANGED <<optedOut, ses, world>>

------------------------------------------------------------------------------
(* decide_override_request reads, commits, records and mails.              *)

DecideRead(s, o, ruling) ==
  /\ ses[s].pc = "idle"
  /\ row[o].status = "Pending"
  /\ ses' = [ses EXCEPT ![s] = [pc |-> "deciding", override |-> o, ruling |-> ruling]]
  /\ UNCHANGED <<db, job, world>>

\* Wrong: the requester hears of it as soon as it is committed.
MailFirst == "mailing"

AfterDecision == "recording"

DecideCommit(s) ==
  /\ ses[s].pc = "deciding"
  /\ row' = [row EXCEPT ![ses[s].override] = [@ EXCEPT !.status = ses[s].ruling]]
  /\ ses' = [ses EXCEPT ![s] = [@ EXCEPT !.pc = AfterDecision]]
  /\ UNCHANGED <<audit, optedOut, job, env, carrier, handed, told, heard, keywords, faults>>

\* 409: an approval took the days first (module Overrides).
DecideConflict(s) ==
  /\ ses[s].pc = "deciding" /\ ses[s].ruling = "Approved"
  /\ ses' = [ses EXCEPT ![s] = Done]
  /\ UNCHANGED <<db, job, world>>

DecideRecord(s) ==
  /\ ses[s].pc = "recording"
  /\ audit' = audit \cup {<<ses[s].ruling, ses[s].override>>}
  /\ ses' = [ses EXCEPT ![s] = [@ EXCEPT !.pc = "mailing"]]
  /\ UNCHANGED <<row, optedOut, job, world>>

\* _send_email_legacy: whether the mail gets out or not is not kept.
DecideMail(s) ==
  /\ ses[s].pc = "mailing"
  /\ told' = told \cup {<<ses[s].ruling, ses[s].override>>}
  /\ ses' = [ses EXCEPT ![s] = Done]
  /\ UNCHANGED <<db, job, env, carrier, handed, heard, keywords, faults>>

------------------------------------------------------------------------------
(* The parent's keywords.  Twilio acts on them itself, then calls us.      *)

Text(word) ==
  /\ env.sms = "live"
  /\ keywords < MaxKeywords /\ keywords' = keywords + 1
  /\ carrier.word = None
  /\ (word = "stop") # carrier.blocked           \* repeating a keyword says nothing new
  /\ carrier' = [blocked |-> word = "stop", word |-> word]
  /\ UNCHANGED <<db, job, ses, env, handed, told, heard, faults>>

Keyword ==
  /\ carrier.word # None
  /\ carrier' = [carrier EXCEPT !.word = None]
  /\ IF carrier.word = "stop" THEN OptOut
                              ELSE optedOut' = FALSE /\ heard' = heard \ Unchecked
  /\ UNCHANGED <<row, audit, job, ses, env, handed, told, keywords, faults>>

------------------------------------------------------------------------------
(* Faults.  A job that dies takes its remaining tasks with it.             *)

Fault == faults < MaxFaults /\ faults' = faults + 1

Restart ==
  /\ Fault
  /\ job' = [o \in Overrides |-> IF job[o].pc \in {"idle", "done"} THEN job[o]
                                 ELSE [pc |-> "lost", outcome |-> None]]
  /\ ses' = [s \in Sessions |-> IF ses[s].pc = "idle" THEN ses[s] ELSE Done]
  /\ UNCHANGED <<db, env, carrier, handed, told, heard, keywords>>

\* "database is locked": the exception ends the request or the task, and the
\* tasks queued behind it.
CommitFails(o) ==
  /\ Fault
  /\ job[o].pc \in {"recording", "planning", "savingEmail", "refused", "savingSms"}
  /\ Holding(o, None, "lost")
  /\ UNCHANGED <<db, ses, env, carrier, handed, told, heard, keywords>>

DecideFails(s) ==
  /\ Fault
  /\ ses[s].pc \in {"deciding", "recording"}
  /\ ses' = [ses EXCEPT ![s] = Done]
  /\ UNCHANGED <<db, job, env, carrier, handed, told, heard, keywords>>

WebhookLost ==
  /\ Fault
  /\ carrier.word # None
  /\ carrier' = [carrier EXCEPT !.word = None]
  /\ UNCHANGED <<db, job, ses, env, handed, told, heard, keywords>>

------------------------------------------------------------------------------
Job(o) == \/ RecordRequest(o) \/ Plan(o) \/ SendEmail(o) \/ SaveEmail(o)
          \/ CheckOptOut(o) \/ SendSms(o) \/ RecordRefusal(o) \/ SaveSms(o)

Decide(s) == DecideCommit(s) \/ DecideConflict(s) \/ DecideRecord(s) \/ DecideMail(s)

Next == \/ \E o \in Overrides : Create(o) \/ Job(o) \/ CommitFails(o)
        \/ \E s \in Sessions : \/ Decide(s) \/ DecideFails(s)
                               \/ \E o \in Overrides, r \in Rulings : DecideRead(s, o, r)
        \/ \E word \in {"stop", "start"} : Text(word)
        \/ Keyword \/ Restart \/ WebhookLost

\* The pool runs every job on.
Spec == Init /\ [][Next]_vars /\ \A o \in Overrides : WF_vars(Job(o))

------------------------------------------------------------------------------
(* Properties.                                                             *)

Labels == {"idle", "recording", "planning", "mailing", "savingEmail", "checking",
           "texting", "refused", "savingSms", "done", "lost"}

Skips == {"skipped_no_address", "skipped_no_phone", "skipped_opt_out"}

\* Columns, labels and lists keep their types; an override without a row is not
\* worked on.
TypeOK ==
  /\ env \in Setups
  /\ row \in [Overrides -> [status : {"absent", "Pending"} \cup Rulings,
                            email : {None, "queued", "sent", "failed"} \cup Skips,
                            sms : {None, "queued", "sent", "failed"} \cup Skips]]
  /\ job \in [Overrides -> [pc : Labels, outcome : {None, "sent", "failed"} \cup Skips]]
  /\ ses \in [Sessions -> [pc : {"idle", "deciding", "recording", "mailing", "done"},
                           override : Overrides \cup {None}, ruling : Rulings \cup {None}]]
  /\ carrier \in [blocked : BOOLEAN, word : {None, "stop", "start"}]
  /\ optedOut \in BOOLEAN
  /\ handed \in [Overrides -> SUBSET {"email", "sms"}]
  /\ \A o \in Overrides : job[o].pc = "idle" => row[o].status = "absent"

\* The status shown beside a request is what happened (schema.py, "notify
\* outcomes for the create-path ping"): a live channel that says sent has handed
\* the message to a server, a skipped one has not, and a failure and its audit
\* entry come together, whatever dies between the send and the commit.
StatusIsTrue ==
  \A o \in Overrides :
    /\ row[o].email = "sent" /\ env.email = "live" => "email" \in handed[o]
    /\ row[o].sms = "sent" /\ env.sms = "live" => "sms" \in handed[o]
    /\ row[o].email \in Skips => "email" \notin handed[o]
    /\ row[o].sms \in Skips => "sms" \notin handed[o]
    /\ row[o].email = "failed" <=> <<"email_send_failed", o>> \in audit
    /\ row[o].sms = "failed" <=> <<"sms_send_failed", o>> \in audit

\* router.py:224, "Fresh opt-out session": an opt-out that is committed before
\* a text is checked stops it, by whichever way it came and however long ago the
\* text was planned; it is not even handed over to be refused.
StopIsHeeded ==
  \A o \in Overrides :
    o \in heard => "sms" \notin handed[o] /\ job[o].pc \notin {"texting", "refused"}

\* Nobody is told of what the audit log does not hold, wherever a deploy or a
\* failing commit cuts a request short; and the log speaks of a decision only
\* after one was committed, which nothing that create_override and its tasks
\* still write takes back to pending.  (Sweeps, expiry and text messages write
\* the status too: that is module Overrides.)
ToldIsRecorded ==
  /\ \A o \in Overrides : handed[o] # {} => <<"requested", o>> \in audit
  /\ told \subseteq audit
  /\ \A o \in Overrides, r \in Rulings : <<r, o>> \in audit => row[o].status \in Rulings

\* A message planned is resolved: its column leaves "queued" unless the job that
\* carries it was lost, in which case it says so for ever.
Queued(o) == "queued" \in {row[o].email, row[o].sms}
QueuedIsResolved ==
  \A o \in Overrides : Queued(o) ~> ~Queued(o) \/ job[o].pc = "lost"
=============================================================================
