----------------------------- MODULE NotifyProofs -----------------------------
(***************************************************************************)
(* Proofs about notifications, for any number of requests, decisions,      *)
(* keywords and faults, and any contact details.                           *)
(***************************************************************************)
EXTENDS Notify, TLAPS

Unplanned == {"idle", "recording", "planning"}
Texting   == {"checking", "texting", "refused", "savingSms"}
Recorded  == {"planning", "mailing", "savingEmail"} \cup Texting

\* Where override o stands: what its job still has to do is not done yet, and
\* what it is about to write is what happened.
JobInv(o) ==
  /\ job[o].pc \in Unplanned =>
       row[o].email = None /\ row[o].sms = None /\ handed[o] = {}
  /\ job[o].pc \in {"mailing", "savingEmail"} =>
       row[o].email = "queued" /\ env.email # "absent"
  /\ job[o].pc = "savingEmail" =>
       /\ job[o].outcome \in {"sent", "failed"}
       /\ job[o].outcome = "sent" /\ env.email = "live" => "email" \in handed[o]
  /\ job[o].pc \in Texting => row[o].sms = "queued"
  /\ job[o].pc \notin {"savingSms", "done", "lost"} => "sms" \notin handed[o]
  /\ job[o].pc = "savingSms" =>
       /\ job[o].outcome \in {"sent", "failed", "skipped_opt_out"}
       /\ job[o].outcome = "sent" /\ env.sms = "live" => "sms" \in handed[o]
       /\ job[o].outcome = "skipped_opt_out" => "sms" \notin handed[o]
  /\ job[o].pc \in Recorded => <<"requested", o>> \in audit
  /\ handed[o] # {} => <<"requested", o>> \in audit
  /\ "email" \in handed[o] => env.email = "live"
  /\ row[o].email \in Skips => env.email = "absent"

\* StatusIsTrue and StopIsHeeded of one override.
StatusInv(o) ==
  /\ row[o].email = "sent" /\ env.email = "live" => "email" \in handed[o]
  /\ row[o].sms = "sent" /\ env.sms = "live" => "sms" \in handed[o]
  /\ row[o].email \in Skips => "email" \notin handed[o]
  /\ row[o].sms \in Skips => "sms" \notin handed[o]
  /\ row[o].email = "failed" <=> <<"email_send_failed", o>> \in audit
  /\ row[o].sms = "failed" <=> <<"sms_send_failed", o>> \in audit

\* An opt-out that came too early for a text is still on the list when the text
\* is checked.
HeardInv(o) ==
  o \in heard => /\ "sms" \notin handed[o] /\ job[o].pc \notin {"texting", "refused"}
                 /\ o \in Unchecked => optedOut

\* A decision under way is about an override that is there.
DecisionInv(s) ==
  /\ ses[s].pc \in {"deciding", "recording", "mailing"} =>
       /\ ses[s].override \in Overrides /\ ses[s].ruling \in Rulings
       /\ job[ses[s].override].pc # "idle"
  /\ ses[s].pc \in {"recording", "mailing"} => row[ses[s].override].status \in Rulings
  /\ ses[s].pc = "mailing" => <<ses[s].ruling, ses[s].override>> \in audit

AuditInv == \A o \in Overrides, r \in Rulings : <<r, o>> \in audit => row[o].status \in Rulings

IInv ==
  /\ TypeOK
  /\ \A o \in Overrides : JobInv(o) /\ StatusInv(o) /\ HeardInv(o)
  /\ \A s \in Sessions : DecisionInv(s)
  /\ told \subseteq audit
  /\ AuditInv

------------------------------------------------------------------------------
LEMMA InitIInv == Init => IInv
<1> SUFFICES ASSUME Init PROVE IInv
  OBVIOUS
<1>1. TypeOK
  BY NotifyAssumption DEF Init, TypeOK, NoRow, Idle, Labels
<1>2. ASSUME NEW o \in Overrides PROVE JobInv(o) /\ StatusInv(o) /\ HeardInv(o)
  BY NotifyAssumption DEF Init, JobInv, StatusInv, HeardInv, NoRow, Unplanned, Texting,
     Recorded, Skips
<1>3. ASSUME NEW s \in Sessions PROVE DecisionInv(s)
  BY DEF Init, DecisionInv, Idle
<1> QED BY <1>1, <1>2, <1>3 DEF Init, IInv, AuditInv

------------------------------------------------------------------------------
(* Types.                                                                  *)

Rows == [status : {"absent", "Pending"} \cup Rulings,
         email : {None, "queued", "sent", "failed"} \cup Skips,
         sms : {None, "queued", "sent", "failed"} \cup Skips]
Jobs == [pc : Labels, outcome : {None, "sent", "failed"} \cup Skips]
Decisions == [pc : {"idle", "deciding", "recording", "mailing", "done"},
              override : Overrides \cup {None}, ruling : Rulings \cup {None}]

\* The variables one by one.
LEMMA Retyped ==
  ASSUME env' \in Setups,
         row' \in [Overrides -> Rows],
         job' \in [Overrides -> Jobs],
         ses' \in [Sessions -> Decisions],
         carrier' \in [blocked : BOOLEAN, word : {None, "stop", "start"}],
         optedOut' \in BOOLEAN,
         handed' \in [Overrides -> SUBSET {"email", "sms"}],
         \A o \in Overrides : job'[o].pc = "idle" => row'[o].status = "absent"
  PROVE  TypeOK'
BY DEF TypeOK, Rows, Jobs, Decisions

LEMMA Types ==
  ASSUME TypeOK
  PROVE  /\ env \in Setups
         /\ row \in [Overrides -> Rows]
         /\ job \in [Overrides -> Jobs]
         /\ ses \in [Sessions -> Decisions]
         /\ carrier \in [blocked : BOOLEAN, word : {None, "stop", "start"}]
         /\ optedOut \in BOOLEAN
         /\ handed \in [Overrides -> SUBSET {"email", "sms"}]
         /\ \A o \in Overrides : job[o].pc = "idle" => row[o].status = "absent"
BY DEF TypeOK, Rows, Jobs, Decisions

\* A job moves on, and only this one.
LEMMA GotoJob ==
  ASSUME TypeOK, NEW o \in Overrides, NEW pc \in Labels \ {"idle"}, Goto(o, pc)
  PROVE  /\ job' \in [Overrides -> Jobs]
         /\ job'[o].pc = pc /\ job'[o].outcome = job[o].outcome
         /\ \A p \in Overrides \ {o} : job'[p] = job[p]
BY Types DEF Goto, Jobs

LEMMA HoldingJob ==
  ASSUME TypeOK, NEW o \in Overrides, NEW pc \in Labels \ {"idle"},
         NEW outcome \in {None, "sent", "failed"} \cup Skips, Holding(o, outcome, pc)
  PROVE  /\ job' \in [Overrides -> Jobs]
         /\ job'[o].pc = pc /\ job'[o].outcome = outcome
         /\ \A p \in Overrides \ {o} : job'[p] = job[p]
BY Types DEF Holding, Jobs

------------------------------------------------------------------------------
(* What a step leaves alone keeps its invariants.                          *)

LEMMA Untouched ==
  ASSUME NEW p \in Overrides, JobInv(p), StatusInv(p), HeardInv(p),
         env' = env, job'[p] = job[p], handed'[p] = handed[p],
         row'[p].email = row[p].email, row'[p].sms = row[p].sms,
         optedOut' = optedOut, heard' = heard,
         \A k \in {"requested", "email_send_failed", "sms_send_failed"} :
           <<k, p>> \in audit' <=> <<k, p>> \in audit
  PROVE  JobInv(p)' /\ StatusInv(p)' /\ HeardInv(p)'
<1>1. JobInv(p)'
  BY DEF JobInv
<1>2. StatusInv(p)'
  BY DEF StatusInv
<1>3. HeardInv(p)'
  BY DEF HeardInv, Unchecked
<1> QED BY <1>1, <1>2, <1>3

LEMMA DecisionsStand ==
  ASSUME IInv, ses' = ses, audit \subseteq audit',
         \A o \in Overrides : row'[o].status = row[o].status,
         \A o \in Overrides : job[o].pc # "idle" => job'[o].pc # "idle"
  PROVE  \A s \in Sessions : DecisionInv(s)'
BY DEF IInv, DecisionInv

\* One step of the job of o: it is enough to look at o.
LEMMA JobStep ==
  ASSUME IInv, TypeOK', NEW o \in Overrides,
         env' = env, ses' = ses, told' = told, optedOut' = optedOut, heard' = heard,
         \A p \in Overrides : row'[p].status = row[p].status,
         \A p \in Overrides \ {o} :
           job'[p] = job[p] /\ row'[p] = row[p] /\ handed'[p] = handed[p],
         job'[o].pc # "idle",
         audit \subseteq audit',
         \A k : \A p \in Overrides : <<k, p>> \in audit' =>
           \/ <<k, p>> \in audit
           \/ p = o /\ k \in {"requested", "email_send_failed", "sms_send_failed"},
         JobInv(o)', StatusInv(o)', HeardInv(o)'
  PROVE  IInv'
<1>1. \A p \in Overrides \ {o} : \A k : <<k, p>> \in audit' <=> <<k, p>> \in audit
  OBVIOUS
<1>2. \A p \in Overrides : JobInv(p)' /\ StatusInv(p)' /\ HeardInv(p)'
  BY <1>1, Untouched DEF IInv
<1>3. \A s \in Sessions : DecisionInv(s)'
  BY DecisionsStand
<1>4. AuditInv'
  <2> SUFFICES ASSUME NEW p \in Overrides, NEW r \in Rulings, <<r, p>> \in audit'
               PROVE  row'[p].status \in Rulings
    BY DEF AuditInv
  <2>1. <<r, p>> \in audit
    BY DEF Rulings
  <2> QED BY <2>1 DEF IInv, AuditInv
<1>5. told' \subseteq audit'
  BY DEF IInv
<1> QED BY <1>2, <1>3, <1>4, <1>5 DEF IInv

------------------------------------------------------------------------------
(* The steps of a job.                                                     *)

LEMMA CreateIInv == ASSUME IInv, NEW o \in Overrides, Create(o) PROVE IInv'
<1>0. TypeOK /\ JobInv(o) /\ StatusInv(o) /\ HeardInv(o)
  BY DEF IInv
<1>1. /\ job[o].pc = "idle" /\ row[o].status = "absent"
      /\ job' \in [Overrides -> Jobs] /\ job'[o].pc = "recording"
      /\ \A p \in Overrides \ {o} : job'[p] = job[p]
  BY <1>0, GotoJob DEF Create, Labels, TypeOK
<1>2. /\ row' \in [Overrides -> Rows]
      /\ row'[o].status = "Pending" /\ row'[o].email = row[o].email /\ row'[o].sms = row[o].sms
      /\ \A p \in Overrides \ {o} : row'[p] = row[p]
  BY <1>0, Types DEF Create, Rows
<1>3. TypeOK'
  BY <1>0, <1>1, <1>2, Types, Retyped DEF Create, world
<1>4. UNCHANGED <<env, audit, optedOut, handed, told, heard, ses>>
  BY DEF Create, world
<1>5. JobInv(o)'
  BY <1>0, <1>1, <1>2, <1>4 DEF JobInv, Unplanned, Texting, Recorded
<1>6. StatusInv(o)'
  BY <1>0, <1>2, <1>4 DEF StatusInv
<1>7. HeardInv(o)'
  BY <1>0, <1>1, <1>4 DEF HeardInv, Unchecked
<1>8. \A p \in Overrides : JobInv(p)' /\ StatusInv(p)' /\ HeardInv(p)'
  BY <1>1, <1>2, <1>4, <1>5, <1>6, <1>7, Untouched DEF IInv
<1>9. ASSUME NEW s \in Sessions PROVE DecisionInv(s)'
  <2>1. DecisionInv(s)
    BY DEF IInv
  <2>2. ses[s].pc \in {"deciding", "recording", "mailing"} => ses[s].override # o
    BY <2>1, <1>1 DEF DecisionInv
  <2> QED BY <2>1, <2>2, <1>1, <1>2, <1>4 DEF DecisionInv
<1>10. AuditInv'
  <2>1. \A r \in Rulings : <<r, o>> \notin audit
    BY <1>1 DEF IInv, AuditInv, Rulings
  <2> QED BY <2>1, <1>2, <1>4 DEF IInv, AuditInv
<1> QED BY <1>3, <1>4, <1>8, <1>9, <1>10 DEF IInv

LEMMA RecordRequestIInv == ASSUME IInv, NEW o \in Overrides, RecordRequest(o) PROVE IInv'
<1>0. TypeOK /\ JobInv(o) /\ StatusInv(o) /\ HeardInv(o)
  BY DEF IInv
<1>1. /\ job[o].pc = "recording"
      /\ job' \in [Overrides -> Jobs] /\ job'[o].pc = "planning"
      /\ \A p \in Overrides \ {o} : job'[p] = job[p]
  BY <1>0, GotoJob DEF RecordRequest, Labels
<1>2. /\ UNCHANGED <<row, optedOut, ses, env, carrier, handed, told, heard>>
      /\ audit' = audit \cup {<<"requested", o>>}
  BY DEF RecordRequest, world
<1>3. TypeOK'
  BY <1>0, <1>1, <1>2, Types, Retyped
<1>4. JobInv(o)'
  BY <1>0, <1>1, <1>2 DEF JobInv, Unplanned, Texting, Recorded
<1>5. StatusInv(o)'
  BY <1>0, <1>2 DEF StatusInv
<1>6. HeardInv(o)'
  BY <1>0, <1>1, <1>2 DEF HeardInv, Unchecked
<1> QED BY <1>1, <1>2, <1>3, <1>4, <1>5, <1>6, JobStep

LEMMA PlanIInv == ASSUME IInv, NEW o \in Overrides, Plan(o) PROVE IInv'
<1>0. TypeOK /\ JobInv(o) /\ StatusInv(o) /\ HeardInv(o)
  BY DEF IInv
<1>1. /\ EmailPlan \in {"skipped_no_address", "queued"}
      /\ EmailPlan = "queued" <=> env.email # "absent"
      /\ SmsPlan \in {"skipped_no_phone", "skipped_opt_out", "queued"}
  BY DEF EmailPlan, SmsPlan
<1>2. /\ FirstTask(EmailPlan, SmsPlan) \in {"mailing", "checking", "done"}
      /\ FirstTask(EmailPlan, SmsPlan) = "mailing" => EmailPlan = "queued"
      /\ FirstTask(EmailPlan, SmsPlan) = "checking" => SmsPlan = "queued"
  BY DEF FirstTask
<1>3. /\ job[o].pc = "planning" /\ job' \in [Overrides -> Jobs]
      /\ job'[o].pc = FirstTask(EmailPlan, SmsPlan)
      /\ \A p \in Overrides \ {o} : job'[p] = job[p]
  BY <1>0, <1>2, GotoJob DEF Plan, Labels
<1>4. /\ row' \in [Overrides -> Rows]
      /\ row'[o].status = row[o].status /\ row'[o].email = EmailPlan /\ row'[o].sms = SmsPlan
      /\ \A p \in Overrides \ {o} : row'[p] = row[p]
  <2>1. row[o] \in Rows
    BY <1>0, Types
  <2>2. /\ Planned(row[o]) \in Rows /\ Planned(row[o]).status = row[o].status
        /\ Planned(row[o]).email = EmailPlan /\ Planned(row[o]).sms = SmsPlan
    BY <2>1, <1>1 DEF Planned, Rows, Skips
  <2> QED BY <1>0, <2>2, Types DEF Plan
<1>5. UNCHANGED <<audit, optedOut, ses, env, carrier, handed, told, heard>>
  BY DEF Plan, world
<1>6. TypeOK'
  BY <1>0, <1>2, <1>3, <1>4, <1>5, Types, Retyped
<1>7. handed[o] = {} /\ row[o].email # "failed" /\ row[o].sms # "failed"
  BY <1>0, <1>3, NotifyAssumption DEF JobInv, Unplanned
<1>8. JobInv(o)'
  BY <1>0, <1>1, <1>2, <1>3, <1>4, <1>5, <1>7
     DEF JobInv, Unplanned, Texting, Recorded, Skips
<1>9. StatusInv(o)'
  BY <1>0, <1>1, <1>4, <1>5, <1>7 DEF StatusInv, Skips
<1>10. HeardInv(o)'
  BY <1>0, <1>2, <1>3, <1>5, <1>7 DEF HeardInv, Unchecked
<1> QED BY <1>2, <1>3, <1>4, <1>5, <1>6, <1>8, <1>9, <1>10, JobStep

LEMMA SendEmailIInv == ASSUME IInv, NEW o \in Overrides, SendEmail(o) PROVE IInv'
<1>0. TypeOK /\ JobInv(o) /\ StatusInv(o) /\ HeardInv(o)
  BY DEF IInv
<1>1. UNCHANGED <<row, audit, optedOut, ses, env, carrier, told, heard>> /\ job[o].pc = "mailing"
  BY DEF SendEmail, db
<1>2. PICK outcome \in {"sent", "failed"} :
        /\ Holding(o, outcome, "savingEmail")
        /\ \/ handed' = handed /\ (env.email = "live" => outcome = "failed")
           \/ /\ env.email = "live"
              /\ handed' = [handed EXCEPT ![o] = @ \cup {"email"}]
  BY <1>0, Types DEF SendEmail, Deliver, Outcome
<1>3. /\ handed' \in [Overrides -> SUBSET {"email", "sms"}]
      /\ \A p \in Overrides \ {o} : handed'[p] = handed[p]
      /\ "sms" \in handed'[o] <=> "sms" \in handed[o]
      /\ "email" \in handed'[o] => env.email = "live"
      /\ env.email = "live" /\ outcome = "sent" => "email" \in handed'[o]
  BY <1>0, <1>2, Types DEF JobInv
<1>4. /\ job' \in [Overrides -> Jobs]
      /\ job'[o].pc = "savingEmail" /\ job'[o].outcome = outcome
      /\ \A p \in Overrides \ {o} : job'[p] = job[p]
  BY <1>0, <1>2, HoldingJob DEF Labels
<1>5. TypeOK'
  BY <1>0, <1>1, <1>3, <1>4, Types, Retyped
<1>6. JobInv(o)'
  BY <1>0, <1>1, <1>3, <1>4, NotifyAssumption DEF JobInv, Unplanned, Texting, Recorded
<1>7. StatusInv(o)'
  BY <1>0, <1>1, <1>3, NotifyAssumption DEF StatusInv, JobInv, Skips
<1>8. HeardInv(o)'
  BY <1>0, <1>1, <1>3, <1>4 DEF HeardInv, Unchecked
<1> QED BY <1>1, <1>3, <1>4, <1>5, <1>6, <1>7, <1>8, JobStep

LEMMA SaveEmailIInv == ASSUME IInv, NEW o \in Overrides, SaveEmail(o) PROVE IInv'
<1>0. TypeOK /\ JobInv(o) /\ StatusInv(o) /\ HeardInv(o)
  BY DEF IInv
<1> DEFINE next == IF row[o].sms = "queued" THEN "checking" ELSE "done"
<1>1. /\ UNCHANGED <<optedOut, ses, env, carrier, handed, told, heard>>
      /\ job[o].pc = "savingEmail"
      /\ audit' = audit \cup Failure(o, "email_send_failed", job[o].outcome)
      /\ Holding(o, None, next)
  BY DEF SaveEmail, world
<1>2. job[o].outcome \in {"sent", "failed"} /\ row[o].email = "queued"
  BY <1>0, <1>1 DEF JobInv
<1>3. /\ row' \in [Overrides -> Rows]
      /\ row'[o].status = row[o].status /\ row'[o].email = job[o].outcome
      /\ row'[o].sms = row[o].sms
      /\ \A p \in Overrides \ {o} : row'[p] = row[p]
  BY <1>0, <1>2, Types DEF SaveEmail, Rows
<1>4. /\ next \in {"checking", "done"}
      /\ next = "checking" => row[o].sms = "queued"
  OBVIOUS
<1> HIDE DEF next
<1>5. /\ job' \in [Overrides -> Jobs] /\ job'[o].pc = next
      /\ \A p \in Overrides \ {o} : job'[p] = job[p]
  BY <1>0, <1>1, <1>4, HoldingJob DEF Labels
<1>6. /\ audit \subseteq audit'
      /\ <<"email_send_failed", o>> \in audit' <=> job[o].outcome = "failed"
      /\ \A k : \A p \in Overrides : <<k, p>> \in audit' =>
           <<k, p>> \in audit \/ (p = o /\ k = "email_send_failed")
  BY <1>0, <1>1, <1>2 DEF Failure, StatusInv
<1>7. TypeOK'
  BY <1>0, <1>1, <1>3, <1>4, <1>5, Types, Retyped
<1>8. JobInv(o)'
  BY <1>0, <1>1, <1>2, <1>3, <1>4, <1>5, <1>6 DEF JobInv, Unplanned, Texting, Recorded, Skips
<1>9. StatusInv(o)'
  BY <1>0, <1>1, <1>2, <1>3, <1>6 DEF StatusInv, JobInv, Skips
<1>10. HeardInv(o)'
  BY <1>0, <1>1, <1>4, <1>5 DEF HeardInv, Unchecked
<1> QED BY <1>1, <1>3, <1>4, <1>5, <1>6, <1>7, <1>8, <1>9, <1>10, JobStep

LEMMA CheckOptOutIInv == ASSUME IInv, NEW o \in Overrides, CheckOptOut(o) PROVE IInv'
<1>0. TypeOK /\ JobInv(o) /\ StatusInv(o) /\ HeardInv(o)
  BY DEF IInv
<1>1. /\ UNCHANGED <<row, audit, optedOut, ses, env, carrier, handed, told, heard>>
      /\ job[o].pc = "checking"
  BY DEF CheckOptOut, db, world
<1>2. /\ job' \in [Overrides -> Jobs]
      /\ \A p \in Overrides \ {o} : job'[p] = job[p]
      /\ \/ job'[o].pc = "savingSms" /\ job'[o].outcome = "skipped_opt_out"
         \/ ~optedOut /\ job'[o].pc = "texting"
  BY <1>0, GotoJob, HoldingJob DEF CheckOptOut, Suppressed, Labels, Skips
<1>3. TypeOK'
  BY <1>0, <1>1, <1>2, Types, Retyped
<1>4. JobInv(o)'
  BY <1>0, <1>1, <1>2 DEF JobInv, Unplanned, Texting, Recorded
<1>5. StatusInv(o)'
  BY <1>0, <1>1 DEF StatusInv
<1>6. HeardInv(o)'
  BY <1>0, <1>1, <1>2 DEF HeardInv, Unchecked
<1> QED BY <1>1, <1>2, <1>3, <1>4, <1>5, <1>6, JobStep

LEMMA SendSmsIInv == ASSUME IInv, NEW o \in Overrides, SendSms(o) PROVE IInv'
<1>0. TypeOK /\ JobInv(o) /\ StatusInv(o) /\ HeardInv(o)
  BY DEF IInv
<1>1. UNCHANGED <<row, audit, optedOut, ses, env, carrier, told, heard>> /\ job[o].pc = "texting"
  BY DEF SendSms, db
<1>2. /\ o \notin heard /\ "sms" \notin handed[o] /\ row[o].sms = "queued"
  BY <1>0, <1>1 DEF JobInv, HeardInv, Texting
<1>3. \/ /\ Goto(o, "refused") /\ handed' = handed
      \/ /\ Holding(o, "failed", "savingSms") /\ handed' = handed
      \/ /\ Holding(o, "sent", "savingSms") /\ handed' = handed /\ env.sms # "live"
      \/ /\ Holding(o, "sent", "savingSms")
         /\ handed' = [handed EXCEPT ![o] = @ \cup {"sms"}]
  BY <1>0, Types DEF SendSms, Deliver, Outcome
<1>4. /\ job' \in [Overrides -> Jobs]
      /\ handed' \in [Overrides -> SUBSET {"email", "sms"}]
      /\ \A p \in Overrides \ {o} : job'[p] = job[p] /\ handed'[p] = handed[p]
      /\ "email" \in handed'[o] <=> "email" \in handed[o]
      /\ \/ job'[o].pc = "refused" /\ handed'[o] = handed[o]
         \/ /\ job'[o].pc = "savingSms" /\ job'[o].outcome \in {"sent", "failed"}
            /\ job'[o].outcome = "sent" /\ env.sms = "live" => "sms" \in handed'[o]
  BY <1>0, <1>3, Types, GotoJob, HoldingJob DEF Labels
<1>5. TypeOK'
  BY <1>0, <1>1, <1>4, Types, Retyped
<1>6. JobInv(o)'
  BY <1>0, <1>1, <1>4 DEF JobInv, Unplanned, Texting, Recorded
<1>7. StatusInv(o)'
  BY <1>0, <1>1, <1>2, <1>4 DEF StatusInv, Skips
<1>8. HeardInv(o)'
  BY <1>1, <1>2 DEF HeardInv
<1> QED BY <1>1, <1>4, <1>5, <1>6, <1>7, <1>8, JobStep

LEMMA SaveSmsIInv == ASSUME IInv, NEW o \in Overrides, SaveSms(o) PROVE IInv'
<1>0. TypeOK /\ JobInv(o) /\ StatusInv(o) /\ HeardInv(o)
  BY DEF IInv
<1>1. /\ UNCHANGED <<optedOut, ses, env, carrier, handed, told, heard>>
      /\ job[o].pc = "savingSms"
      /\ audit' = audit \cup Failure(o, "sms_send_failed", job[o].outcome)
      /\ Holding(o, None, "done")
  BY DEF SaveSms, world
<1>2. job[o].outcome \in {"sent", "failed", "skipped_opt_out"} /\ row[o].sms = "queued"
  BY <1>0, <1>1 DEF JobInv, Texting
<1>3. /\ row' \in [Overrides -> Rows]
      /\ row'[o].status = row[o].status /\ row'[o].sms = job[o].outcome
      /\ row'[o].email = row[o].email
      /\ \A p \in Overrides \ {o} : row'[p] = row[p]
  BY <1>0, <1>2, Types DEF SaveSms, Rows, Skips
<1>4. /\ job' \in [Overrides -> Jobs] /\ job'[o].pc = "done"
      /\ \A p \in Overrides \ {o} : job'[p] = job[p]
  BY <1>0, <1>1, HoldingJob DEF Labels
<1>5. /\ audit \subseteq audit'
      /\ <<"sms_send_failed", o>> \in audit' <=> job[o].outcome = "failed"
      /\ \A k : \A p \in Overrides : <<k, p>> \in audit' =>
           <<k, p>> \in audit \/ (p = o /\ k = "sms_send_failed")
  BY <1>0, <1>1, <1>2 DEF Failure, StatusInv
<1>6. TypeOK'
  BY <1>0, <1>1, <1>3, <1>4, Types, Retyped
<1>7. JobInv(o)'
  BY <1>0, <1>1, <1>3, <1>4, <1>5 DEF JobInv, Unplanned, Texting, Recorded
<1>8. StatusInv(o)'
  BY <1>0, <1>1, <1>2, <1>3, <1>5 DEF StatusInv, JobInv, Skips
<1>9. HeardInv(o)'
  BY <1>0, <1>1, <1>4 DEF HeardInv, Unchecked
<1> QED BY <1>1, <1>3, <1>4, <1>5, <1>6, <1>7, <1>8, <1>9, JobStep

LEMMA CommitFailsIInv == ASSUME IInv, NEW o \in Overrides, CommitFails(o) PROVE IInv'
<1>0. TypeOK /\ JobInv(o) /\ StatusInv(o) /\ HeardInv(o)
  BY DEF IInv
<1>1. UNCHANGED <<row, audit, optedOut, ses, env, carrier, handed, told, heard>>
  BY DEF CommitFails, db
<1>2. /\ job' \in [Overrides -> Jobs] /\ job'[o].pc = "lost"
      /\ \A p \in Overrides \ {o} : job'[p] = job[p]
      /\ job[o].pc # "idle"
  BY <1>0, HoldingJob DEF CommitFails, Labels
<1>3. TypeOK'
  BY <1>0, <1>1, <1>2, Types, Retyped
<1>4. JobInv(o)'
  BY <1>0, <1>1, <1>2 DEF JobInv, Unplanned, Texting, Recorded
<1>5. StatusInv(o)'
  BY <1>0, <1>1 DEF StatusInv
<1>6. HeardInv(o)'
  BY <1>0, <1>1, <1>2 DEF HeardInv, Unchecked
<1> QED BY <1>1, <1>2, <1>3, <1>4, <1>5, <1>6, JobStep

------------------------------------------------------------------------------
(* Opting out and in: the list changes for all overrides at once.          *)

\* What the parent was not asked yet when the opt-out came.
LEMMA OptOutHeard ==
  ASSUME IInv, OptOut, handed' = handed, NEW p \in Overrides,
         job'[p] = job[p] \/ (p \notin heard \cup Unchecked /\ job'[p].pc = "savingSms")
  PROVE  HeardInv(p)'
<1>1. JobInv(p) /\ HeardInv(p)
  BY DEF IInv
<1>2. optedOut' /\ heard' = heard \cup Unchecked
  BY DEF OptOut
<1>3. p \in Unchecked => "sms" \notin handed[p] /\ job[p].pc \notin {"texting", "refused"}
  BY <1>1 DEF Unchecked, JobInv
<1>4. p \in heard' => "sms" \notin handed[p] /\ job'[p].pc \notin {"texting", "refused"}
  BY <1>1, <1>2, <1>3 DEF HeardInv
<1> QED BY <1>2, <1>4 DEF HeardInv

\* Jobs and statuses when the list alone changes.
LEMMA ListChanges ==
  ASSUME IInv, UNCHANGED <<env, row, audit, handed>>, NEW p \in Overrides, job'[p] = job[p]
  PROVE  JobInv(p)' /\ StatusInv(p)'
BY DEF IInv, JobInv, StatusInv

LEMMA RecordRefusalIInv == ASSUME IInv, NEW o \in Overrides, RecordRefusal(o) PROVE IInv'
<1>0. TypeOK /\ JobInv(o) /\ StatusInv(o) /\ HeardInv(o)
  BY DEF IInv
<1>1. /\ UNCHANGED <<row, audit, ses, env, carrier, handed, told>>
      /\ job[o].pc = "refused" /\ OptOut
  BY DEF RecordRefusal
<1>2. /\ job' \in [Overrides -> Jobs]
      /\ job'[o].pc = "savingSms" /\ job'[o].outcome = "skipped_opt_out"
      /\ \A p \in Overrides \ {o} : job'[p] = job[p]
  BY <1>0, HoldingJob DEF RecordRefusal, Labels, Skips
<1>3. optedOut' \in BOOLEAN
  BY <1>1 DEF OptOut
<1>4. TypeOK'
  BY <1>0, <1>1, <1>2, <1>3, Types, Retyped
<1>5. JobInv(o)' /\ StatusInv(o)'
  <2>1. JobInv(o)'
    BY <1>0, <1>1, <1>2 DEF JobInv, Unplanned, Texting, Recorded
  <2>2. StatusInv(o)'
    BY <1>0, <1>1 DEF StatusInv
  <2> QED BY <2>1, <2>2
<1>6. o \notin heard \cup Unchecked
  BY <1>0, <1>1 DEF HeardInv, Unchecked
<1>7. \A p \in Overrides : JobInv(p)' /\ StatusInv(p)' /\ HeardInv(p)'
  BY <1>1, <1>2, <1>5, <1>6, ListChanges, OptOutHeard
<1>8. \A s \in Sessions : DecisionInv(s)'
  BY <1>1, <1>2, DecisionsStand
<1> QED BY <1>1, <1>4, <1>7, <1>8 DEF IInv, AuditInv

LEMMA KeywordIInv == ASSUME IInv, Keyword PROVE IInv'
<1>0. TypeOK
  BY DEF IInv
<1>1. /\ UNCHANGED <<row, audit, job, ses, env, handed, told>>
      /\ OptOut \/ (optedOut' = FALSE /\ heard' = heard \ Unchecked)
  BY DEF Keyword
<1>2. carrier' \in [blocked : BOOLEAN, word : {None, "stop", "start"}]
  BY <1>0, Types DEF Keyword
<1>3. optedOut' \in BOOLEAN
  BY <1>1 DEF OptOut
<1>4. TypeOK'
  BY <1>0, <1>1, <1>2, <1>3, Types, Retyped
<1>5. ASSUME NEW p \in Overrides PROVE HeardInv(p)'
  <2>1. CASE OptOut
    BY <1>1, <2>1, OptOutHeard
  <2>2. CASE optedOut' = FALSE /\ heard' = heard \ Unchecked
    <3>1. HeardInv(p) /\ job' = job /\ handed' = handed
      BY <1>1 DEF IInv
    <3> QED BY <3>1, <2>2 DEF HeardInv, Unchecked
  <2> QED BY <1>1, <2>1, <2>2
<1>6. \A p \in Overrides : JobInv(p)' /\ StatusInv(p)' /\ HeardInv(p)'
  BY <1>1, <1>5, ListChanges
<1>7. \A s \in Sessions : DecisionInv(s)'
  BY <1>1, DecisionsStand
<1> QED BY <1>1, <1>4, <1>6, <1>7 DEF IInv, AuditInv

------------------------------------------------------------------------------
(* Decisions.                                                              *)

\* A decision request touches no job and no plan.
LEMMA JobsStand ==
  ASSUME IInv, UNCHANGED <<env, optedOut, job, handed, heard>>,
         \A p \in Overrides : row'[p].email = row[p].email /\ row'[p].sms = row[p].sms,
         \A k \in {"requested", "email_send_failed", "sms_send_failed"}, p \in Overrides :
           <<k, p>> \in audit' <=> <<k, p>> \in audit
  PROVE  \A p \in Overrides : JobInv(p)' /\ StatusInv(p)' /\ HeardInv(p)'
BY Untouched DEF IInv

LEMMA DecideReadIInv ==
  ASSUME IInv, NEW s \in Sessions, NEW o \in Overrides, NEW r \in Rulings, DecideRead(s, o, r)
  PROVE  IInv'
<1>0. TypeOK
  BY DEF IInv
<1>1. UNCHANGED <<row, audit, optedOut, job, env, carrier, handed, told, heard>>
  BY DEF DecideRead, db, world
<1>2. /\ ses' \in [Sessions -> Decisions]
      /\ ses'[s] = [pc |-> "deciding", override |-> o, ruling |-> r]
      /\ \A q \in Sessions \ {s} : ses'[q] = ses[q]
  BY <1>0, Types DEF DecideRead, Decisions
<1>3. TypeOK'
  BY <1>0, <1>1, <1>2, Types, Retyped
<1>4. \A p \in Overrides : JobInv(p)' /\ StatusInv(p)' /\ HeardInv(p)'
  BY <1>1, JobsStand
<1>5. job[o].pc # "idle"
  BY <1>0, Types DEF DecideRead
<1>6. ASSUME NEW q \in Sessions PROVE DecisionInv(q)'
  BY <1>1, <1>2, <1>5 DEF IInv, DecisionInv
<1> QED BY <1>1, <1>3, <1>4, <1>6 DEF IInv, AuditInv

LEMMA DecideCommitIInv == ASSUME IInv, NEW s \in Sessions, DecideCommit(s) PROVE IInv'
<1>0. TypeOK /\ DecisionInv(s)
  BY DEF IInv
<1>1. /\ UNCHANGED <<audit, optedOut, job, env, carrier, handed, told, heard>>
      /\ ses[s].pc = "deciding"
  BY DEF DecideCommit
<1>2. PICK o \in Overrides : o = ses[s].override
  BY <1>0, <1>1 DEF DecisionInv
<1>3. ses[s].ruling \in Rulings /\ job[o].pc # "idle"
  BY <1>0, <1>1, <1>2 DEF DecisionInv
<1>4. /\ ses' \in [Sessions -> Decisions]
      /\ ses'[s].pc = "recording" /\ ses'[s].override = o
      /\ ses'[s].ruling = ses[s].ruling
      /\ \A q \in Sessions \ {s} : ses'[q] = ses[q]
  BY <1>0, <1>2, Types DEF DecideCommit, AfterDecision, Decisions
<1>5. /\ row' \in [Overrides -> Rows]
      /\ row'[o].status = ses[s].ruling
      /\ \A p \in Overrides \ {o} : row'[p] = row[p]
      /\ \A p \in Overrides : row'[p].email = row[p].email /\ row'[p].sms = row[p].sms
  BY <1>0, <1>2, <1>3, Types DEF DecideCommit, Rows
<1>6. TypeOK'
  BY <1>0, <1>1, <1>3, <1>4, <1>5, Types, Retyped
<1>7. \A p \in Overrides : JobInv(p)' /\ StatusInv(p)' /\ HeardInv(p)'
  BY <1>1, <1>5, JobsStand
<1>8. \A p \in Overrides : row[p].status \in Rulings => row'[p].status \in Rulings
  BY <1>3, <1>5
<1>9. ASSUME NEW q \in Sessions PROVE DecisionInv(q)'
  <2>1. DecisionInv(q)
    BY DEF IInv
  <2>2. CASE q = s
    BY <2>2, <1>1, <1>3, <1>4, <1>5 DEF DecisionInv
  <2>3. CASE q # s
    BY <2>1, <2>3, <1>1, <1>4, <1>8 DEF DecisionInv
  <2> QED BY <2>2, <2>3
<1> QED BY <1>1, <1>6, <1>7, <1>8, <1>9 DEF IInv, AuditInv

LEMMA DecideRecordIInv == ASSUME IInv, NEW s \in Sessions, DecideRecord(s) PROVE IInv'
<1>0. TypeOK /\ DecisionInv(s)
  BY DEF IInv
<1>1. /\ UNCHANGED <<row, optedOut, job, env, carrier, handed, told, heard>>
      /\ ses[s].pc = "recording"
      /\ audit' = audit \cup {<<ses[s].ruling, ses[s].override>>}
  BY DEF DecideRecord, world
<1>2. /\ ses[s].override \in Overrides /\ ses[s].ruling \in Rulings
      /\ job[ses[s].override].pc # "idle" /\ row[ses[s].override].status \in Rulings
  BY <1>0, <1>1 DEF DecisionInv
<1>3. /\ ses' \in [Sessions -> Decisions]
      /\ ses'[s].pc = "mailing" /\ ses'[s].override = ses[s].override
      /\ ses'[s].ruling = ses[s].ruling
      /\ \A q \in Sessions \ {s} : ses'[q] = ses[q]
  BY <1>0, Types DEF DecideRecord, Decisions
<1>4. TypeOK'
  BY <1>0, <1>1, <1>3, Types, Retyped
<1>5. \A p \in Overrides : JobInv(p)' /\ StatusInv(p)' /\ HeardInv(p)'
  <2>1. \A k \in {"requested", "email_send_failed", "sms_send_failed"}, p \in Overrides :
          <<k, p>> \in audit' <=> <<k, p>> \in audit
    BY <1>1, <1>2 DEF Rulings
  <2> QED BY <2>1, <1>1, JobsStand
<1>6. ASSUME NEW q \in Sessions PROVE DecisionInv(q)'
  <2>1. DecisionInv(q)
    BY DEF IInv
  <2>2. CASE q = s
    BY <2>2, <1>1, <1>2, <1>3 DEF DecisionInv
  <2>3. CASE q # s
    BY <2>1, <2>3, <1>1, <1>3 DEF DecisionInv
  <2> QED BY <2>2, <2>3
<1>7. AuditInv'
  BY <1>1, <1>2 DEF IInv, AuditInv
<1> QED BY <1>1, <1>4, <1>5, <1>6, <1>7 DEF IInv

\* A decision that ends has nothing left to do, whatever it told the notifier.
LEMMA DecisionEnds ==
  ASSUME IInv, NEW s \in Sessions, ses' = [ses EXCEPT ![s] = Done],
         UNCHANGED <<row, audit, optedOut, job, env, carrier, handed, heard>>,
         told' \subseteq audit
  PROVE  IInv'
<1>0. TypeOK
  BY DEF IInv
<1>1. /\ ses' \in [Sessions -> Decisions] /\ ses'[s].pc = "done"
      /\ \A q \in Sessions \ {s} : ses'[q] = ses[q]
  BY <1>0, Types DEF Done, Idle, Decisions
<1>2. TypeOK'
  BY <1>0, <1>1, Types, Retyped
<1>3. \A p \in Overrides : JobInv(p)' /\ StatusInv(p)' /\ HeardInv(p)'
  BY JobsStand
<1>4. ASSUME NEW q \in Sessions PROVE DecisionInv(q)'
  BY <1>1 DEF IInv, DecisionInv
<1> QED BY <1>2, <1>3, <1>4 DEF IInv, AuditInv

LEMMA DecideEndsIInv ==
  ASSUME IInv, NEW s \in Sessions, DecideConflict(s) \/ DecideMail(s) \/ DecideFails(s)
  PROVE  IInv'
<1>1. ses' = [ses EXCEPT ![s] = Done]
  BY DEF DecideConflict, DecideMail, DecideFails
<1>2. UNCHANGED <<row, audit, optedOut, job, env, carrier, handed, heard>>
  BY DEF DecideConflict, DecideMail, DecideFails, db, world
<1>3. told' \subseteq audit
  BY DEF DecideConflict, DecideMail, DecideFails, world, IInv, DecisionInv
<1> QED BY <1>1, <1>2, <1>3, DecisionEnds

------------------------------------------------------------------------------
(* The world.                                                              *)

LEMMA CarrierIInv ==
  ASSUME IInv, WebhookLost \/ \E word \in {"stop", "start"} : Text(word)
  PROVE  IInv'
<1>0. TypeOK
  BY DEF IInv
<1>1. UNCHANGED <<row, audit, optedOut, job, ses, env, handed, told, heard>>
  BY DEF WebhookLost, Text, db
<1>2. carrier' \in [blocked : BOOLEAN, word : {None, "stop", "start"}]
  <2>0. carrier \in [blocked : BOOLEAN, word : {None, "stop", "start"}]
    BY <1>0 DEF TypeOK
  <2>1. CASE WebhookLost
    BY <2>0, <2>1 DEF WebhookLost
  <2>2. ASSUME NEW word \in {"stop", "start"}, Text(word)
        PROVE  carrier' \in [blocked : BOOLEAN, word : {None, "stop", "start"}]
    <3>1. carrier' = [blocked |-> word = "stop", word |-> word]
      BY <2>2 DEF Text
    <3>2. (word = "stop") \in BOOLEAN
      OBVIOUS
    <3> QED BY <3>1, <3>2
  <2> QED BY <2>1, <2>2
<1>3. TypeOK'
  BY <1>0, <1>1, <1>2, Types, Retyped
<1>4. \A p \in Overrides : JobInv(p)' /\ StatusInv(p)' /\ HeardInv(p)'
  BY <1>1, JobsStand
<1>5. \A s \in Sessions : DecisionInv(s)'
  BY <1>1, DecisionsStand
<1> QED BY <1>1, <1>3, <1>4, <1>5 DEF IInv, AuditInv

LEMMA RestartIInv == ASSUME IInv, Restart PROVE IInv'
<1>0. TypeOK
  BY DEF IInv
<1>1. UNCHANGED <<row, audit, optedOut, env, carrier, handed, told, heard>>
  BY DEF Restart, db
<1>2. /\ job' \in [Overrides -> Jobs]
      /\ \A p \in Overrides : \/ job'[p] = job[p]
                              \/ job[p].pc # "idle" /\ job'[p].pc = "lost"
  BY <1>0, Types DEF Restart, Jobs, Labels
<1>3. /\ ses' \in [Sessions -> Decisions]
      /\ \A q \in Sessions : ses'[q] = ses[q] \/ ses'[q].pc = "done"
  BY <1>0, Types DEF Restart, Done, Idle, Decisions
<1>4. TypeOK'
  BY <1>0, <1>1, <1>2, <1>3, Types, Retyped
<1>5. ASSUME NEW p \in Overrides PROVE JobInv(p)' /\ StatusInv(p)' /\ HeardInv(p)'
  <2>0. JobInv(p) /\ StatusInv(p) /\ HeardInv(p)
    BY DEF IInv
  <2>1. CASE job'[p] = job[p]
    BY <2>0, <2>1, <1>1, Untouched
  <2>2. CASE job[p].pc # "idle" /\ job'[p].pc = "lost"
    <3>1. JobInv(p)'
      BY <2>0, <2>2, <1>1 DEF JobInv, Unplanned, Texting, Recorded
    <3>2. StatusInv(p)'
      BY <2>0, <1>1 DEF StatusInv
    <3>3. HeardInv(p)'
      BY <2>0, <2>2, <1>1 DEF HeardInv, Unchecked
    <3> QED BY <3>1, <3>2, <3>3
  <2> QED BY <1>2, <2>1, <2>2
<1>6. ASSUME NEW q \in Sessions PROVE DecisionInv(q)'
  <2>1. CASE ses'[q] = ses[q]
    BY <2>1, <1>1, <1>2 DEF IInv, DecisionInv
  <2>2. CASE ses'[q].pc = "done"
    BY <2>2 DEF DecisionInv
  <2> QED BY <1>3, <2>1, <2>2
<1> QED BY <1>1, <1>4, <1>5, <1>6 DEF IInv, AuditInv

------------------------------------------------------------------------------
LEMMA StutterIInv == ASSUME IInv, UNCHANGED vars PROVE IInv'
<1>0. TypeOK
  BY DEF IInv
<1>1. UNCHANGED <<row, audit, optedOut, job, ses, env, carrier, handed, told, heard>>
  BY DEF vars
<1>2. TypeOK'
  BY <1>0, <1>1, Types, Retyped
<1>3. \A p \in Overrides : JobInv(p)' /\ StatusInv(p)' /\ HeardInv(p)'
  BY <1>1, JobsStand
<1>4. \A s \in Sessions : DecisionInv(s)'
  BY <1>1, DecisionsStand
<1> QED BY <1>1, <1>2, <1>3, <1>4 DEF IInv, AuditInv

LEMMA NextIInv == IInv /\ [Next]_vars => IInv'
<1> SUFFICES ASSUME IInv, [Next]_vars PROVE IInv'
  OBVIOUS
<1>1. ASSUME NEW o \in Overrides, Create(o) \/ Job(o) \/ CommitFails(o) PROVE IInv'
  BY <1>1, CreateIInv, RecordRequestIInv, PlanIInv, SendEmailIInv, SaveEmailIInv,
     CheckOptOutIInv, SendSmsIInv, RecordRefusalIInv, SaveSmsIInv, CommitFailsIInv DEF Job
<1>2. ASSUME NEW s \in Sessions, Decide(s) \/ DecideFails(s) PROVE IInv'
  BY <1>2, DecideCommitIInv, DecideRecordIInv, DecideEndsIInv DEF Decide
<1>3. ASSUME NEW s \in Sessions, NEW o \in Overrides, NEW r \in Rulings, DecideRead(s, o, r)
      PROVE  IInv'
  BY <1>3, DecideReadIInv
<1>4. CASE WebhookLost \/ \E word \in {"stop", "start"} : Text(word)
  BY <1>4, CarrierIInv
<1>5. CASE Keyword
  BY <1>5, KeywordIInv
<1>6. CASE Restart
  BY <1>6, RestartIInv
<1>7. CASE UNCHANGED vars
  BY <1>7, StutterIInv
<1> QED BY <1>1, <1>2, <1>3, <1>4, <1>5, <1>6, <1>7 DEF Next

LEMMA Invariance == Spec => []IInv
BY InitIInv, NextIInv, PTL DEF Spec

------------------------------------------------------------------------------
\* Columns, labels and lists keep their types, for any number of requests,
\* sessions, keywords and faults.
THEOREM TypeCorrect == Spec => []TypeOK
<1>1. IInv => TypeOK
  BY DEF IInv
<1> QED BY <1>1, Invariance, PTL

\* The status shown beside a request is what happened to its messages.
THEOREM StatusesTrue == Spec => []StatusIsTrue
<1>1. IInv => StatusIsTrue
  BY DEF IInv, StatusInv, StatusIsTrue
<1> QED BY <1>1, Invariance, PTL

\* An opt-out that is committed before a text is checked stops that text.
THEOREM StopHeeded == Spec => []StopIsHeeded
<1>1. IInv => StopIsHeeded
  BY DEF IInv, HeardInv, StopIsHeeded
<1> QED BY <1>1, Invariance, PTL

\* Nobody is told of what the audit log does not hold, and what the log says was
\* decided is not taken back to pending by the writes of its own request.
THEOREM ToldRecorded == Spec => []ToldIsRecorded
<1>1. IInv => ToldIsRecorded
  BY DEF IInv, JobInv, AuditInv, ToldIsRecorded
<1> QED BY <1>1, Invariance, PTL
===============================================================================
