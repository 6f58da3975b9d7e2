# The custody scheduler, as a TLA+ development

This directory models the custody scheduler of this repository: the modules
are checked by TLC on small instances and the theorems by TLAPS for every
value of the constants.

## 1. The system

One family (two parents and a shared read-only viewer) uses one SQLite
database behind one uvicorn process. A parent asks for an *override* of the
2-2-3 baseline calendar on the web or by text message, the other parent
approves or rejects it, and an approved override decides who has the children
on its days. Nothing else may move the calendar.

| Component | State it keeps | Operations | Talks to |
|---|---|---|---|
| Override lifecycle, web (`api/router.py`, `core/approvals.py`) | `overrides` rows: status, is_active, decider, expiry | create, decide, sweep, list | activation, audit, notify |
| Activation and day claims (`database/activation.py`, `main.py`) | `active_custody_days`, primary key (family, day) | activate and supersede, release, boot backfill | every writer of overrides |
| SMS concierge (`concierge/runner.py`, `graph.py`, `nodes.py`) | `handshake_threads`, checkpointed graph threads, `sms_opt_outs`, `twilio_idempotency` | one inbound message: dedupe, keyword, opt-out gate, resume or start a thread | override repository, SMS gateway, audit |
| Notifications (`api/router.py`, `api/email_notifier.py`, `concierge/adapters.py`) | email and SMS status columns of a row, `audit_logs`, `sms_opt_outs` | plan, send in a background task, record the outcome; mail a decision | SMTP, Twilio |
| Backup (`api/backup_router.py`, `core/backup.py`) | `backup_records`, `backup_deliveries` | trigger, retry under a lease, abandon; verify a chain of archives | SMTP, export |
| Login throttle (`api/login_throttle.py`) | `login_attempts` | locked_until, record_failure, record_success | auth and passcode endpoints |
| Schedule engine (`core/engine.py`, `ranges.py`, `schedule_summary.py`, `ics.py`) | none (pure) | state of each day from baseline and overrides; summary text; feed | calendar, ICS feed, SMS queries |
| Intent parsing (`concierge/adapters.py`, `llm_parser.py`) | none | text to swap, question or unclear | SMS concierge |
| Seeding and migrations (`main.py`) | the schema, users, baseline | add what an old database lacks, seed, back-fill | database |
| Accounts (`api/me_router.py`) | users' phone, email, passcode, feed token | edit contacts, change passcode, mint or rotate a calendar link | throttle, SMS sender lookup |
| Web frontend (`frontend/src`) | a page's copy of the calendar | load, refetch, act | the API |

Sync endpoints run in FastAPI's thread pool, each request with a SQLAlchemy
session of its own, so any two requests interleave between their statements.
The driver opens a transaction at the first write, not at the first read; a
SELECT therefore sees the latest committed rows and protects nothing, and a
commit is one atomic write. SQLAlchemy's UPDATE names only the columns whose
value differs from the one that session loaded and tests only the primary key.
These three facts are what makes the system hard; every module starts from
them.

### What is hard, by component

* Overrides: two decisions on one request; approvals of overlapping ranges
  that each read before the other writes; a sweep or a STOP that read a row
  before it was approved; a commit refused by the backstop; expiry at the
  boundary; a restart in between.
* Concierge: a reply routed to the wrong or to a dead thread; a proposal
  overwritten by another proposal; a message claimed and then lost to a crash;
  STOP in the middle of a handshake; an opted-out counterparty.
* Backup: a process that dies mid-send, one that outlives its lease, two
  triggers around midnight, abandon against a retry.
* Notifications: a deploy or a failing commit between any two of plan, send
  and record; an opt-out between the plan of a text and its sending; a decision
  made while the request is still being announced.
* Throttle: concurrent failures, lock expiry against a late failure.
* Engine and parsing: inclusive ends, spans of the maximum length, days before
  the epoch, overlapping rows; a model whose answer is malformed.
* Accounts: two requests on one row; a boot killed halfway; secrets that change
  between boots; one number asked for twice.

## 2. The modules

### `CustodyCalendar`: what the store promises

No sessions, columns, clock or day rows: a request asks for a set of days, and
booking it takes its days in one step, releasing exactly the bookings it
overlaps. `Overrides` implements it (`ImplementsCalendar`).

### `Overrides`: the override store

`request[i]` holds the columns of override *i* that never change, `row[i]` its
status, is_active and decider, `claim[d]` the row of `active_custody_days` for
day *d*, `now` the clock and `ses[s]` what thread *s* of the pool has read and
is about to do. A request is a chain of actions through the labels of
`ses[s].pc`, one action per read and per commit:

| Code | Actions |
|---|---|
| `POST /overrides` | `CreateOverride` |
| `POST /overrides/{id}/decision` | `DecideRead`, then `DecideRefused` or `DecideJudged`, then `DecideExpired`, `DecideRejected`, or `ReadActives` and `ActivateCommit` / `ActivateConflict` |
| `POST /overrides/sweep-expired` | `SweepRead`, `SweepCommit` |
| SMS swap request, YES/NO, ACCEPT/DENY | `CreateDraft`, `InitiatorReply`, `CounterpartyReply`, `ActivateReload`, `SetStatusLoad`, `SetStatusCommit` |
| STOP | `StopWithdraw`, then one `SetStatusLoad`/`SetStatusCommit` per open request |
| crash or deploy, boot backfill | `Restart` |

`Flush` is the one library fact the model rests on: the UPDATE writes a column
only if it differs from the value loaded. `WebSpec` is the system without the
SMS concierge, `Spec` is all of it. The clock a handler uses may be older than
the clock at its next step (`at \in 0..now`), since `deps.now` and `now` are
taken once per request.

The definitions that begin with a comment "Wrong:" are plausible bugs of the
definition that follows each; no specification uses them.

| Run | Instance | Shows |
|---|---|---|
| `overrides_web` | 2 sessions, 2 overrides, 2 days | under every interleaving of web requests and restarts: claims and flags agree, no double booking, consent, a 409 always has a cause, the store implements `CustodyCalendar` |
| `overrides_concurrent` | web and SMS, STOP, sweeps and restarts, 2 sessions, 2 overrides, 1 day | unless two answers to one request were under way together, its decision is final, it goes out of force only when superseded, and the calendar shows each day as its claim has it |
| `double_booking` | 3 sessions, no clock | a promise the code does not keep when STOP overlaps approvals (section 4) |

When text and STOP interleave with the web, `ActiveOwnsDays` and `NoDoubleBooking`
fail, because no UPDATE tests the status its judgement was based on: a sweep that
read a pending row may turn it from rejected to expired, a second decision within
milliseconds overturns the first, and a STOP strips an approval of its days
(section 4). What the code does guarantee is that this stays with the request it
happens to. The history `contested` holds the overrides one of whose decisions
was committed while another session had the same override in work; the three
properties of `overrides_concurrent` are about all others, whatever the other
sessions do, supersession, STOP and restarts included. That run has one day, so
that two requests always overlap; longer spans are in `overrides_web`.

Two overrides and two days are enough for the cases of the code: ranges that
are equal, nested, overlapping in one day, or disjoint, and a third override
adds only a second element to a set the code treats as a whole. `MaxNow` is
two steps past the shorter TTL, so that requests are judged before, at and
after their expiry.

### `Handshake`: what the concierge promises

No routes, checkpoints, opt-outs, clocks or calls. A request has an asker, a
status and the texts spent on it (`said`): the asker proposes and confirms, the
other parent answers, each with a text that no request has spent; the web may
decide what is pending, an open request may expire, and only a parent's own
requests are taken back by their STOP. One exception is part of the promise: a
requester in `crossed` (two of their texts were handled at once, or a deploy cut
one before the registry was updated) may be taken for the other parent when they
answer. `Concierge` implements it (`ImplementsHandshake`): the asker and the
status of a request are those of the conversation that drafts it, `said` is its
history `heard`, `crossed` the history of that name.

### `Concierge`: one inbound text

`registry[p]` is the row of `handshake_threads` of parent *p*'s phone,
`thread[t]` the checkpoint of conversation *t* (the step it is paused at)
together with the status of the override it drafts, `claimed` the table of
handled message ids, `optedOut` our opt-out list and `blocked` Twilio's, `due`
the overrides past their `expires_at`. `text[m]` is a text as its sender wrote
it, with the question they had last read (`prompt`); a text may be delivered
at any later time, more than once, to several calls at a time. `heard` is a
history of the texts that made the decisions of a conversation: the swap
request, the requester's YES, the counterparty's answer.

| Code | Actions |
|---|---|
| webhook and claim of the message id (`runner.py:151`) | `Receive` |
| STOP: tear down, withdraw and notify, record (`runner.py:87-172`) | `StopTearDown`, `StopWithdraw`, `StopOptOut` |
| START; HELP and opted-out phones | `OptIn`, `ReplyOnly` |
| registry lookup (`runner.py:185`) | `Route` |
| a run of the graph to its next interrupt (`graph.py`, `nodes.py`) | `StartDraft`, `AnswerOrClarify`, `Reprompt`, `InitiatorError`, `InitiatorDecides`, `CounterpartyError`, `CounterpartyDecides`, `ResumeEnded` |
| registry update after the run (`runner.py:209-242`) | `Settle` |
| a deploy or a crash | `Restart` |
| the world: parents, the clock, the web API | `SendText`, `Expire`, `WebDecide` |

A run of the graph is one step here. Its writes to the override store are
separate commits, and how they interleave with other writers is `Overrides`.
LangGraph runs an interrupted node again from its top, so the first reply to a
question has the question sent a second time before it is read (`AskedAgain`);
`reminded` holds the threads paused in a node that sends nothing.
Parsing is outside: a text has a word, which is one of the vocabularies the
code compares the whole body with, a swap request, a question, or neither.

| Run | Instance | Shows |
|---|---|---|
| `concierge_words` | 2 parents, 2 conversations, 4 texts of 7 words, one call at a time, restarts at any step | a registered phone is one whose answer is awaited; no conversation ends and leaves a draft behind |
| `concierge_concurrent` | 2 calls at once, restarts at any step, 4 texts of 2 words | no text counts twice, whatever is redelivered or dies; every step is a step of `Handshake` |
| `concierge_reads`, `concierge_crossed` | smallest instances | section 4 |

Four texts reach the end of one conversation (request, YES, ACCEPT) with one
text to disturb it, or let two conversations cross. The two runs divide the
words and the calls between them because both at once are too many states; the
theorems of section 3 have no such bound. `concierge_reads` and
`concierge_crossed` leave restarts out (`OrderlySpec`): the counterexamples need
none.

`crossed` is the only excuse. `RoutedToAwaited` leaves out the conversations of a
requester in it and the phone of a parent in it, and `Handshake` lets the answer
to such a requester's proposal be their own. Two parents who text at the same
time are not excused anything.

### `ArchiveChain` and `Backup`: the evidence archive

`ArchiveChain` is the verifier: a file is its digest, its date, its
predecessor's digest and its history, the statuses of the earlier records as
the export embeds them. `Chain` is the walk from the first archive, `Verifies`
the verdict. Digests are assumed not to collide, so a changed file is a file of
another digest.

`Backup` is the endpoint. `rec[d]` is the record of backup date *d* (its
status, its archive, whether the bytes are still stored, the ticks left to its
lease), `box[p]` the mailbox of parent *p*, `writer` the session whose flush
holds SQLite's write lock, `ses[s]` the request a thread serves.

| Code | Actions |
|---|---|
| `POST /backup-email`: what is owed first | `Trigger`, `TryAcquireLease` |
| ... nothing owed: claim today | `CheckToday`, `Build`, `ClaimToday` |
| `_deliver` | `LoadBytes`, one `Send` per parent, `Settle` |
| a write that waits too long for the lock | `LockTimeout` |
| `POST /backup-abandon` | `AbandonRead`, `AbandonWrite` |
| the machine, the clock, the household calendar | `Crash`, `Tick`, `Midnight` |

A request reads the clock once, at its start, and uses that time in every
comparison, so a session carries its age. A send reported as failed may have
reached the mailbox. From the second parent on the session holds the write
lock, because reading that parent flushes the first delivery row.

Run `backup_orderly` (2 requests, 2 parents, 3 dates, 2 failures of any kind)
shows that one date is one archive, that submitted means delivered to all, that
no archive has two owners, that what is settled stays settled, that every
mailbox with one first archive passes the verifier at every moment, and that
tampering with any archive that has a successor makes it fail. Three dates are
a first archive, a dead one and its replacement. Two faults are a failure and
one more during its retry. `Lease` is two ticks and `MaxAge`, the longest a
request may last, one: a request is over before its lease ends, as it is with
SMTP timeouts of ten seconds and a lease of ten minutes. That matters at one
boundary: a lease that ends exactly now is no longer live for the abandon.

Liveness (`OwedIsSettled`) assumes weak fairness of triggers (the weekly cron),
of the steps of a request (threads run on) and of time, and that failures are
finitely many (`MaxFaults`); an abandon is never forced.

`Orderly` is what the run assumes about the operators: no claim is under way at
household midnight, and no retry starts between the read and the write of an
abandon. Without the first, two triggers can claim two dates with one
predecessor, which the UNIQUE date does not prevent; without the second, the
delivery overwrites the abandon.

`MailboxVerifiesFromGenesis` speaks of mailboxes with one first archive. If the
very first archive reached one parent only and was abandoned, that parent also
holds the next first archive: two files without a predecessor, which the
verifier refuses although a later archive explains the dead one.

Left out: the bearer token, the `backup_deliveries` log, audit rows, and the
refusal to claim when no parent has an address.

### `Intents` and `Schedule`: who has the children

`Intents` is parsing as operators. A text is what the parsers look for in it: a
question, the parents it names, its dates in order. `Heuristic`, `LLM` and
`Composite` are the deterministic parser, the model-backed one (its answer is
anything the schema of `llm_parser.py` admits, unreadable dates included) and
the first of them that does not decline.
`IsValidRange`, `EffectiveEnd` and `Covers` are `core/ranges.py`.

`Schedule` is one request for a stretch of the calendar from its arrival to its
reply:

| Code | Actions |
|---|---|
| `GET /schedule`, `GET feed.ics` | `AskWeb`, `AskFeed` |
| `parse_intent` | `ParseText`, then `AnswerQuery` or `Handled` |
| `load_baseline`, `load_overrides`, early return | `Load` |
| the loop of `calculate_schedule` | `CalculateDay` (`DayState`, `Winner`, `BaselineParent`), `Calculated` |
| `_runs` of the text reply | `GroupDay` |
| the answer | `Reply` (`Feed` is the list of events) |

`Load` reads any baseline and any rows: the engine must be right about every
store, also one in which active rows overlap (section 4). Run `schedule` takes
two override rows over three spans (two that overlap, one of a single day),
four windows (one that begins before every epoch, one empty, one of one day),
epochs on both sides of the days asked for, so that every segment of the
fourteen-day rotation and negative offsets occur, texts of up to three dates
(start, end and a date too many; nearer and further than `MaxRangeDays`), and
`MaxQueryDays` 3, which a query of four days exceeds. It shows that a question
is never taken for a swap, that a span is as the parent or the model wrote it
and never shortened, that each day shows the youngest override that covers it or
the rotation, and that the reply by text says of each day it mentions what was
calculated. That the days are those asked for, once each and in order, is proved
(`DaysComplete`).

### `Throttle`: guesses at a passcode

One user id: `hash` is the passcode, `attempt` the row of `login_attempts`,
`req[r]` what a request in flight has read. `served` counts the wrong guesses
answered since the count last ended, `crowd` is the most requests that were in
flight at once since then (3 stands for any more); both are histories. A lock is
compared with the clock its request read when it began (`Live`), `age` ticks ago.

| Code | Actions |
|---|---|
| `POST /auth/token`, `PATCH /me/passcode` | `Login`, `Change` |
| `locked_until`: read, drop an expired row | `Check`, `Drop` |
| `verify_passcode`, the new hash | `Verify`, `Save` |
| `record_failure`: read, commit | `CountRead`, `CountWrite` |
| `record_success`: read, delete | `ClearRead`, `Delete`, `Grant` |
| clock, deploy | `Tick`, `Restart` |

Run `throttle` has two requests at once, the real limit of five, a lock of three
ticks, requests that last at most one and one deploy. As long as no two are in
flight at once (`crowd = 1`), the fifth wrong guess locks, none is served beyond
it and nobody is locked out early (`LockIsEarned`). When two race they lose
increments; `Ceiling` 18 is the most guesses that are served per count while no
three race, so the loss is bounded (`RacingBudget`), although above the "one increment" of `login_throttle.py:83`. TLC finds a ceiling
of 17 passed, and section 3 shows where 18 comes from.
A failure in flight never takes a lock away, and every lock ends: weak fairness
of time and of the steps of a request, which the thread pool justifies; nothing
is assumed about whether requests keep coming. A request is shorter than half a
lock (`ThrottleAssumption`): a passcode check takes a tenth of a second, a lock
two minutes.

### `Notify`: who is told what

One parent asks and one is told. `row[o]` holds the status and the two notify
columns of override *o*, `audit` the entries, `optedOut` our list, `carrier`
Twilio's block and the keyword on its way to us, `handed` the messages a server
has accepted, `told` the decisions given to the mailer, `heard` the texts whose
recipient had opted out before they were checked.

| Code | Actions |
|---|---|
| `create_override`: row, audit entry, plan | `Create`, `RecordRequest`, `Plan` |
| `_send_email_safely` | `SendEmail`, `SaveEmail` |
| `_send_sms_safely` and the gateway | `CheckOptOut`, `SendSms`, `RecordRefusal` (error 21610), `SaveSms` |
| `decide_override_request` | `DecideRead`, `DecideCommit` / `DecideConflict`, `DecideRecord`, `DecideMail` |
| STOP and START | `Text`, then `Keyword` |
| deploy, failing commit, lost webhook | `Restart`, `CommitFails`, `DecideFails`, `WebhookLost` |

Run `notify` has two overrides, one decision request, two keywords, one fault
and four setups (both channels live, no email address, no Twilio credentials, no
phone and no SMTP). The statuses are true whatever dies in between, an opt-out
that is committed before a text is checked stops it however long ago the text was
planned, nobody is told of what the audit log lacks, a decision in the log is not
taken back to pending by what `create_override` and its tasks still write, and
what is queued is resolved unless its job is lost. Sweeps, expiry and decisions
by text write the status too, but they are in `Overrides`, which also says when
a decision is final. The liveness property assumes weak fairness of each job: the
pool runs background tasks on. Two overrides let one opt-out hit one text before
and another after its check; a second fault adds only a second lost job.

### `Accounts`: the users table

`schema` holds what the migrations have added, `boot` the step the boot is at,
`user[u]` a row, `req[r]` what a request has loaded and is about to write.

| Code | Actions |
|---|---|
| `ensure_*_column`, one commit each | `Migrate` |
| `ensure_default_seed_data` | `Reconcile` |
| `PATCH /me` | `PatchMe` (the load), `CheckPhone` if it sets a phone, `Commit` |
| `PATCH /me/passcode`, after its checks | `ChangePasscode`, `Commit` |
| `POST /me/calendar-feed` | `MintFeed`, `Commit` |
| deploy or crash | `Kill` |

`Init` is a new database, whose `create_all` may have been killed before it made
the index, or one that an earlier version of the program served. Run `accounts` has two kills, three requests, two parents, three numbers,
two addresses and two passcodes: the third number is the free one that two
parents may want, the second address and passcode differ from the seeds. The
operator's secrets may differ from boot to boot. The schema served is whole, a
number has one owner unless two parents looked for it before either had it
(`crossed`, a race the code allows), and what a parent
set stands through other requests and reboots. Two kills cut a boot and the boot
after it; three requests are two that overlap and one before or after.

## 3. What is proved

`OverridesProofs` proves, for any number of sessions, overrides, days, parents
and any life times (`OverridesAssumption`):

* `TypeCorrect`: `Spec => []TypeOK`, for web and SMS together.
* `WebInvariant`: `WebSpec => [](TypeOK /\ WebInv)`. `ActiveOwnsDays` alone is
  not inductive: an approval's commit adds the claims of its override, and
  whether it also raises the flag depends on what its session loaded. `WebInv`
  therefore says of every session that is about to activate that it read the
  row open, inactive and undecided, and of every open row that it is inactive.
* from it `WebActiveOwnsDays`, `WebNoDoubleBooking`, `WebConsent`,
  `WebConflictMeansRace` and `WebImplementsCalendar`.

The argument for no double booking is: each claimed day has one owner, each
active override owns all its days, hence two of them share none.

The other theorems are about `Spec`: web and SMS together, with STOP, sweeps and
restarts, any number of sessions and no hypothesis on how they overlap. The
columns no longer tell everything (a late UPDATE may name another decider, or an
active row may read "rejected"; `Consent` is false there), but the calendar still
moves as it should:

* `ClaimsAreOrderly`: a claimed day lies in the span of the request that holds
  it, and that request was put to the other parent; a draft never holds a day.
* `CalendarMovesByConsent`: an override becomes active, or gets a day it did not
  have, only by `ActivateCommit` of a session that acts for a parent other than
  the requester; a boot may give back the days of one that is already active.

The invariant `AnyInv` can only say of a session what nobody else can undo: its
request exists, has left the draft status for good (`WasPut`) and is decided by
the other parent. `Forward` is the lemma that carries it over the steps of other
sessions, and `AnyEffect` sorts all steps into four kinds: those that at most
release days, an insert, a boot, an activation.

Four more say that an interleaving damages no override but the one it is about:

* `UncontestedOverridesAreSound`: an override outside `contested` owns exactly its
  days while it is in force, shares none with another such, is in force only by
  the other parent's approval, and holds nothing while it is open.
* `CalendarAlwaysShowsClaim`, `DecisionsAreFinal` and `OverridesEndByOverlap`:
  the three properties of the run `overrides_concurrent`.

`SoundInv` says of every session that what it has read of an uncontested override
still holds: whoever commits a decision marks the override if another session is
at it, so as long as it is unmarked, nobody else has moved it since the read.
Each commit then needs one argument, about the overrides it decides
(`ClosingSound` for those that close a request, `SoundActivates` for an approval
with what it supersedes), and the frame `SoundFrame` for all the rest.

`ConciergeProofs` is about `Spec`: any number of calls at once, conversations,
texts and repeated deliveries, with restarts at every step. One lemma, `GraphRuns`, reduces the branches of the conversation graph to
two cases: the text advances one conversation, or it is answered without one.
The invariant `Stores` says that a conversation's status agrees with the step it
is paused at (`Coherent`), that what it has heard was claimed, that no two calls
handle one text, and that before its run of the graph a call's text is in no
conversation. `TypeCorrect`, `EachTextCountsOnce` and `NoDraftLeftBehind` follow:
the claim of the message id, not the registry, is what makes a text count once.

`RoutingHolds` is about the registry and gives `RepliesAreRouted`
(`RoutedToAwaited`) and `AuthorsAreRight` (`RightAuthor`). The invariant
`Routing` adds what the registry means while calls are under way: the phone of a
conversation that is not yet confirmed is its requester's (`Linked`); two calls
of one parent put that parent in `crossed` (`Single`); for all others, a call
that has been routed is still awaited when it resumes (`RunsAwaited`), the pause
it is about to register still stands (`PauseStands`), and between the requester's
YES and its registration nobody else reaches the conversation (`Alone`), which
is why the other parent's concurrent texts cannot spoil it. Two parents whose
requests cross are included; `concierge_crossed` shows that being routed rightly
is not being understood rightly.

From all of it follows `ConciergeImplementsHandshake`, also for `Spec`. `Says`
lists what a run of the graph may make of the status of a request, next to what
`GraphRuns` says of its texts; with `RightAuthor` each such run is one Propose,
Confirm, Answer or Close, STOP is one Withdraw, a second call of one parent or a
restart is one Cross, and every other step of a call stutters. That a text is
unspent comes from the claim of its message id (`Stores`), that it is the right
parent's from the registry (`Routing`).

`BackupProofs` proves, for any parents, dates, requests and faults
(`BackupAssumption`; of it the proofs use above all that None is neither a
record nor a status):

* in any order of steps and however long a request lasts (`Spec`): `TypeCorrect`,
  `NeverTwoArchives` and `SubmittedIsReceived`. The invariant `Integrity` says
  what a request holds of the record it works on and that what it has sent so far
  is in the mailboxes.
* for triggers and abandons kept apart (`OrderlySpec`) and a request shorter than
  its lease (`LeaseOutlivesRequest`, `MaxAge < Lease`): `DeliveryIsExclusive`
  (`OneOwner`) and `SettledStays` (`SettledIsFinal`). `Exclusive` adds that the
  lease of a delivery runs with the age of the request that took it, that one
  record at most is unresolved, that a request on its way to claim today found
  nothing owed, and that nobody abandons what is being delivered.

`MailboxProofs` carries this to the verifier, under the same hypotheses. `Linked`
(`LinkedHolds`) says that each archive points at the newest one submitted before
it and embeds the final status of every earlier record. `MailboxesVerify` follows
from it: `ArchiveChain` accepts every mailbox with one first archive, for any
number of dates. `TamperingIsSeen`: an archive with a successor can neither be
taken out of a mailbox that verifies nor replaced. The walk of the verifier is a
recursive function; what it reaches is shown step by step, with a least date that
would not be reached (or a first that would not fit) led to a contradiction.

`ThrottleProofs` proves, for any number of requests at once, any limit and any
lock (`ThrottleAssumption`), `TypeCorrect`, `SerialLimit` (`LockIsEarned`) and
`LocksStay` (`GuessesNeverUnlock`). `LockIsEarned` is not inductive by itself: a
request that has been told there is no lock acts on it several steps later. The
invariant adds `Alone`: while `crowd` is 1 there is at most one in flight, and
what it has read of the row is still true. That one request at a time is a
condition in the property, on the history, and no assumption on the system.

Two more are about requests that race. `LocksOutliveGuesses`, for any number: a
lock has longer to run than any request that is still to answer a guess, since
a request is shorter than half a lock. `RacesAreBounded` (`RacingBudget`), also
for any number of requests, any limit *L* and any ceiling of at least
*L*(*L*+1)/2 + 3 (`CeilingSuffices`, 18 for the code's five): every count during
which no three requests were in flight at once stays within the ceiling, whatever
came before it. Nothing in the code keeps a third request away, and then more
guesses are answered. The worst that two can do: a request that saw the previous, expired lock deletes a whole new
count of *L* by it. Then the row is inserted (one guess), a second INSERT is
refused and answers without counting (one more), and from there one request
reads the count, the other climbs to the last count below the limit and the
first sets it back to one more than it read: the climbs shrink by one each time
and add up to *L*-1 + ... + 1. The last guess is the one in flight when the
lock falls. `RaceBudget` says so as a potential: `Room(c)` is twice what may
still be answered when the row counts *c*, `LateRoom(c, d)` the same when the
other request is about to write *d*+1; each step uses up at least what it
serves. `RaceOrder` says which overlaps of dropping, counting and writing exist
at all.

`ScheduleProofs` proves, for any epochs, spans, windows and dates
(`ScheduleAssumption`, `IntentsAssumption`):

* `BaselineIsRotation` and `NextWeekIsTheOthers`: the segment table is the 2-2-3
  rotation, and a week later the other parent has the day. The first gives the
  engine's case analysis a definition of another form to be compared with.
* `TypeCorrect`, `QuestionsOnlyAnswered`, `SpansKept`, `DaysComplete`,
  `DaysRight`, `SummaryTrue` and `FeedContiguous` (each event of the feed ends
  where the next begins). The invariant is the conjunction of what each stage
  has finished (`ParsedOK`, `Progress`, the days so far, `SummaryIsTrue`); the
  step that needs it most is `GroupDay`, where a day joins a group only if every
  day between belongs to it.

`NotifyProofs` proves `TypeCorrect`, `StatusesTrue`, `StopHeeded` and
`ToldRecorded` for any number of overrides, decisions, keywords and faults and
any contact details. The invariant says of each job what its label implies about
the columns, the outcome it holds and what was handed over (`JobInv`); of an
early opt-out that it is still on the list when the text comes to be checked
(`HeardInv`); and of each decision in flight that what it is about to record is
committed (`DecisionInv`). That a decision stands is `DecisionsAreFinal` of
`OverridesProofs`.

`AccountsProofs` proves `TypeCorrect`, `SchemaWhole`, `OneAuthor` and
`ChoicesKept` for any parents, numbers, addresses, requests and kills. Its
invariant says that what the boot has passed is there and the index missing only
in front of the boot or after a kill there (`SchemaInv`), that requests run only
while the host serves (`RequestInv`), and that while no two parents are between
the check and the commit of one number, what the check found is still true when
the number is written (`PhonesInv`).

Only model-checked: liveness (`LockClears`, `QueuedIsResolved`,
`OwedIsSettled`), which is out of the prover's reach. Every invariant and action
property that a passing run checks is a theorem. What is neither proved nor
true is in section 4.

Hypotheses beyond the assumptions on constants are in the statement of each
theorem: `LeaseOutlivesRequest` and `OrderlySpec` of the backup (section 2 says
what they stand for) and `CeilingSuffices` of the throttle, which names the
bound. No theorem limits how many requests or calls run at once. Where two
requests at one object do harm, the property itself says which object
(`contested`, `crossed`, `crowd`) and speaks of all others.

## 4. Where the code and its own documentation disagree

Each is a run that TLC finds violated.

* `double_booking`: STOP can strip an override of its day rows that was
  approved between its read and its write; after that the overlapping ranges of
  README.md:273 can both be active (three requests within milliseconds).
* `concierge_reads`: a question or an unclear text from one parent clears the
  other parent's paused conversation, in ordinary use.
* `concierge_crossed`: when two requests cross, the YES a parent sends to
  confirm their own draft approves the other parent's proposal.

Known behaviours that no run states, met while modelling:

* A second YES of the requester that arrives after the graph paused for the
  counterparty and before the registry is updated, or after a deploy between
  the two, approves the requester's own proposal: the case that `crossed` excuses
  in `Handshake` and in `RightAuthor`. At the first pause, the same deploy leaves
  a paused conversation that no phone is routed to (concierge/runner.py:227-230).
* The first reply to a question is answered with that question once more, before
  the reply is read (concierge/graph.py:86-104, LangGraph's rule for interrupts).
* Two answers to one request within milliseconds (decisions, a decision and a
  sweep, a decision and a STOP) overwrite each other; the later commit wins.
* An unrecognized reply is answered before the expiry check, so "your request is
  still waiting" can be sent of an expired one (concierge/nodes.py:253).
* A refusal (Twilio's error 21610) that is recorded after a newer START puts the
  phone back on our list, and it stays there until the next START, although
  README.md:182 has our list converge on Twilio's.
* A channel without credentials reports "sent"; `NotifyStatus.UNCONFIGURED` is
  written by nothing.
* A commit of the email's status that fails also drops the text queued behind
  it, whose column says "queued" for ever; so does a deploy.
* Two parents whose PATCH requests overlap can end with one number despite the
  409 "phone is already in use"; texts from it then go to whichever row is first.
* An email a parent cleared is seeded again by the next boot.
* A boot that is killed between the feed token's column and its index never gets
  the index: the next boot looks for the column only. The same holds of a new
  database whose `create_all` is killed there.

## 5. Not modelled

* Tokens and roles: each request checks a signed token by itself; there is no
  state. Which parent may decide a request is in `Overrides` (`Verdict`).
* The export, apart from the backup history inside an archive, and the parsing
  and canonical form of archive files: conversions without a protocol.
* Audit entries of the concierge and of backups, and the `backup_deliveries`
  log: written, and read back by nothing but the export.
* The wording of messages, the layout, escaping and line folding of the feed,
  the Retry-After header.
* The web frontend, which presents the API, and the simulator, a development
  tool that drives the concierge from a terminal.

PROJECT.json gives each component's status and the lines behind each definition.

## 6. Plan

What remains worth doing:

1. A composition of `Concierge` and `Overrides` in which the graph's writes to
   the store are the commits of `Overrides`.
2. A bound for `RacingBudget` while three or more requests race.
3. The frontend's refetch after a write, against stale replies.
