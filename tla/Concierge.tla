------------------------------ MODULE Concierge ------------------------------
(***************************************************************************)
(* The SMS concierge: what handle_sms (concierge/runner.py) does with one  *)
(* inbound text, the conversation graph it drives (concierge/graph.py,     *)
(* nodes.py), and the four durable stores it uses: claimed message ids,    *)
(* the opt-out list, the phone -> thread registry and the checkpointed     *)
(* threads.                                                                *)
(*                                                                         *)
(* Each webhook call runs on a thread of the pool.  A call is a few steps: *)
(* claim the message id, pass the keyword and opt-out gates and look up    *)
(* the registry, run the graph to its next pause, update the registry.     *)
(* One run of the graph is one step here; how its writes to the override   *)
(* store interleave with other requests is the subject of Overrides.       *)
(* LangGraph runs an interrupted node again from its top, so the first     *)
(* reply to a question has the question sent once more.                    *)
(***************************************************************************)
EXTENDS Naturals, Sequences

CONSTANTS
  Parents,    \* the two parents, each standing for their phone number
  Texts,      \* bound: the texts the parents may send, named by MessageSid
  Threads,    \* bound: conversations, each with the override it drafts
  Sessions,   \* threads of the pool
  Words,      \* bound: the kinds of text that are sent
  None

Vocabulary == {"swap", "query", "chat", "yes", "accept", "no", "deny",
               "stop", "start", "help"}

ASSUME ConciergeAssumption ==
  /\ \E p, q \in Parents : p # q /\ Parents = {p, q}
  /\ Words \subseteq Vocabulary
  /\ None \notin Parents \cup Texts \cup Threads

Other(p) == CHOOSE q \in Parents : q # p

VARIABLES
  text,       \* text[m]: sender, word, and the prompt the sender had last read
  claimed,    \* twilio_idempotency
  optedOut,   \* sms_opt_outs
  blocked,    \* Twilio's own list of opted-out numbers
  registry,   \* handshake_threads: registry[p] is the thread p's next text resumes
  thread,     \* thread[t]: checkpoint of the graph, and the status of its override
  reminded,   \* the threads paused in a node that sends nothing (a reprompt)
  due,        \* the overrides whose expires_at has passed
  prompt,     \* prompt[p]: the last question p received
  crossed,    \* history: parents two of whose texts were handled at once, or one
              \* of whose texts a crash cut before the registry was written
  ses         \* ses[s]: the text session s handles, and how far it is

store == <<claimed, optedOut, registry, thread, reminded>>
world == <<text, blocked, due, prompt, crossed>>
vars  == <<store, world, ses>>

------------------------------------------------------------------------------
Steps    == {"none", "confirm", "consent", "end"}
Statuses == {"Absent", "Draft", "Pending", "Approved", "Rejected", "Expired"}
Open     == {"Draft", "Pending"}

NoPrompt == [thread |-> None, step |-> "none"]
NoText   == [from |-> None, word |-> "chat", about |-> NoPrompt]
NoThread == [step |-> "none", requester |-> None, status |-> "Absent", heard |-> <<>>]
Idle     == [pc |-> "idle", text |-> None, thread |-> None, late |-> {},
             pause |-> "none"]

Sender(s) == text[ses[s].text].from
Word(s)   == text[ses[s].text].word

\* The whole body is matched against each vocabulary; a word outside it is no
\* answer.  "yes" and "no" are in both.
InitiatorYes == {"yes"}
InitiatorNo  == {"no"}
CounterpartyApprove == {"accept", "yes"}
CounterpartyReject  == {"deny", "no"}

Init == /\ text = [m \in Texts |-> NoText]
        /\ claimed = {}
        /\ optedOut = {}
        /\ blocked = {}
        /\ registry = [p \in Parents |-> None]
        /\ thread = [t \in Threads |-> NoThread]
        /\ reminded = {}
        /\ due = {}
        /\ prompt = [p \in Parents |-> NoPrompt]
        /\ crossed = {}
        /\ ses = [s \in Sessions |-> Idle]

Update(s, fields) == ses' = [ses EXCEPT ![s] = fields]
At(s, label) == ses[s].pc = label

------------------------------------------------------------------------------
(* The world around the webhook.                                           *)

\* A parent texts.  Twilio keeps a list of its own of who sent STOP.
SendText == \E m \in Texts, p \in Parents, w \in Words :
  /\ text[m] = NoText
  /\ text' = [text EXCEPT ![m] = [from |-> p, word |-> w, about |-> prompt[p]]]
  /\ blocked' = CASE w = "stop" -> blocked \cup {p}
                  [] w = "start" -> blocked \ {p}
                  [] OTHER -> blocked
  /\ UNCHANGED <<store, due, prompt, crossed, ses>>

Expire == \E t \in Threads \ due :
  /\ thread[t].status # "Absent"
  /\ due' = due \cup {t}
  /\ UNCHANGED <<store, text, blocked, prompt, crossed, ses>>

\* The web API decides or sweeps a proposal (api/router.py).
WebDecide == \E t \in Threads, verdict \in {"Approved", "Rejected", "Expired"} :
  /\ thread[t].status = "Pending"
  /\ verdict = "Expired" <=> t \in due
  /\ thread' = [thread EXCEPT ![t].status = verdict]
  /\ UNCHANGED <<world, claimed, optedOut, registry, reminded, ses>>

\* OptOutAwareSmsGateway.send to each of the phones `to`: one on our list is
\* skipped, one that Twilio refuses is put on our list.
Send(to) == optedOut' = optedOut \cup (to \cap blocked)

\* What the parents have read once thread t puts its question to the phones
\* `to`; for some it is suppressed.
Asked(read, to, t, step) ==
  [p \in Parents |-> IF p \in to \ (optedOut \cup blocked)
                       THEN [thread |-> t, step |-> step] ELSE read[p]]

Ask(to, t, step) == prompt' = Asked(prompt, to, t, step)

------------------------------------------------------------------------------
(* handle_sms, up to the graph.                                            *)

\* Wrong: a message id may be claimed again.
ClaimAgain(m) == claimed' = claimed \cup {m}

\* Wrong: the id is looked up but not written.
ClaimUnrecorded(m) == m \notin claimed /\ UNCHANGED claimed

\* The unique index on message_sid refuses an id that is already there.
Claim(m) == m \notin claimed /\ claimed' = claimed \cup {m}

\* A call of p's is under way.
InFlight(p) == \E u \in Sessions : ~At(u, "idle") /\ Sender(u) = p

\* The runner is built, which fixes deps.now, and claims the id.  Any text may
\* be delivered late or more than once; a claimed one is dropped.
Receive(s) == \E m \in Texts :
  /\ At(s, "idle")
  /\ text[m] # NoText
  /\ Claim(m)
  /\ Update(s, [Idle EXCEPT !.pc = "gate", !.text = m, !.late = due])
  /\ crossed' = crossed \cup {p \in {text[m].from} : InFlight(p)}
  /\ UNCHANGED <<text, blocked, due, prompt, optedOut, registry, thread, reminded>>

\* STOP: tear down the threads either parent owes a reply to, ...
StopTearDown(s) ==
  LET pair == {Sender(s), Other(Sender(s))}
  IN  /\ At(s, "gate")
      /\ Word(s) = "stop"
      /\ registry' = [p \in Parents |-> IF p \in pair THEN None ELSE registry[p]]
      /\ Update(s, [ses[s] EXCEPT !.pc = "withdraw"])
      /\ UNCHANGED <<world, claimed, optedOut, thread, reminded>>

\* ... reject the sender's open requests and tell the other parent, ...
StopWithdraw(s) ==
  LET open == {t \in Threads : /\ thread[t].requester = Sender(s)
                               /\ thread[t].status \in Open
                               /\ t \notin ses[s].late}
  IN  /\ At(s, "withdraw")
      /\ thread' = [t \in Threads |-> IF t \in open
                      THEN [thread[t] EXCEPT !.status = "Rejected"] ELSE thread[t]]
      /\ IF open = {} THEN UNCHANGED optedOut ELSE Send({Other(Sender(s))})
      /\ Update(s, [ses[s] EXCEPT !.pc = "optout"])
      /\ UNCHANGED <<world, claimed, registry, reminded>>

\* ... then record the opt-out.
StopOptOut(s) ==
  /\ At(s, "optout")
  /\ optedOut' = optedOut \cup {Sender(s)}
  /\ Update(s, Idle)
  /\ UNCHANGED <<world, claimed, registry, thread, reminded>>

OptIn(s) ==
  /\ At(s, "gate")
  /\ Word(s) = "start"
  /\ optedOut' = (optedOut \ {Sender(s)}) \cup ({Sender(s)} \cap blocked)
  /\ Update(s, Idle)
  /\ UNCHANGED <<world, claimed, registry, thread, reminded>>

\* HELP, and anything from an opted-out phone, gets a forced reply.
ReplyOnly(s) ==
  /\ At(s, "gate")
  /\ \/ Word(s) = "help"
     \/ Word(s) \notin {"stop", "start"} /\ Sender(s) \in optedOut
  /\ Send({Sender(s)})
  /\ Update(s, Idle)
  /\ UNCHANGED <<world, claimed, registry, thread, reminded>>

\* The registry is read; the graph is about to run.
Route(s) ==
  /\ At(s, "gate")
  /\ Word(s) \notin {"stop", "start", "help"}
  /\ Sender(s) \notin optedOut
  /\ Update(s, [ses[s] EXCEPT !.pc = "run", !.thread = registry[Sender(s)]])
  /\ UNCHANGED <<world, store>>

------------------------------------------------------------------------------
(* The graph, from where it is resumed to its next interrupt or its end.   *)

\* `pause` is the step of the interrupt the graph ran into, "end" if none.
Ran(s, t, pause) == Update(s, [ses[s] EXCEPT !.pc = "settle", !.thread = t, !.pause = pause])

\* Checkpoint thread t at `step`; its override has `status` and the text that
\* made it so is remembered.
Decide(s, t, step, status) ==
  thread' = [thread EXCEPT ![t].step = step, ![t].status = status,
                              ![t].heard = Append(@, ses[s].text)]

\* Wrong: the conversation ends and the override keeps its status.
StatusKept(t, status) == thread' = [thread EXCEPT ![t].step = "end"]

\* The conversation ends without a decision of the sender's.
EndThread(t, status) ==
  thread' = [thread EXCEPT ![t] = [@ EXCEPT !.step = "end", !.status = status]]

Resumed(s, step) == /\ At(s, "run")
                    /\ ses[s].thread \in Threads
                    /\ thread[ses[s].thread].step = step

Requester(t) == thread[t].requester
Counterparty(t) == Other(Requester(t))
AskedParent(t) == IF thread[t].step = "confirm" THEN Requester(t) ELSE Counterparty(t)

\* The phones that get the question of thread t a second time when it is
\* resumed: the node that asked is run again from its top.
AskedAgain(t) == IF t \in reminded THEN {} ELSE {AskedParent(t)}

\* A fresh conversation that asks for a swap: draft it and ask for a YES.
StartDraft(s) == \E t \in Threads :
  /\ At(s, "run")
  /\ ses[s].thread = None
  /\ Word(s) = "swap"
  /\ thread[t] = NoThread
  /\ thread' = [thread EXCEPT ![t] =
       [step |-> "confirm", requester |-> Sender(s), status |-> "Draft",
        heard |-> <<ses[s].text>>]]
  /\ Send({Sender(s)})
  /\ Ask({Sender(s)}, t, "confirm")
  /\ Ran(s, t, "confirm")
  /\ UNCHANGED <<text, blocked, due, crossed, claimed, registry, reminded>>

\* A fresh conversation that is a question, or unclear: one reply, no thread.
AnswerOrClarify(s) ==
  /\ At(s, "run")
  /\ ses[s].thread = None
  /\ Word(s) # "swap"
  /\ Send({Sender(s)})
  /\ Ran(s, None, "end")
  /\ UNCHANGED <<world, claimed, registry, thread, reminded>>

\* Not an answer: ask again, decide nothing.
Reprompt(s) ==
  LET t == ses[s].thread IN
  /\ \/ Resumed(s, "confirm") /\ Word(s) \notin InitiatorYes \cup InitiatorNo
     \/ Resumed(s, "consent") /\ Word(s) \notin CounterpartyApprove \cup CounterpartyReject
  /\ Send({AskedParent(t)})
  /\ Ask({AskedParent(t)}, t, thread[t].step)
  /\ reminded' = reminded \cup {t}
  /\ Ran(s, t, thread[t].step)
  /\ UNCHANGED <<text, blocked, due, crossed, claimed, registry, thread>>

\* process_initiator_reply: no longer a draft, or expired.
InitiatorError(s) ==
  LET t == ses[s].thread IN
  /\ Resumed(s, "confirm")
  /\ Word(s) \in InitiatorYes \cup InitiatorNo
  /\ \/ /\ thread[t].status # "Draft"
        /\ EndThread(t, thread[t].status)
        /\ Send(AskedAgain(t))
     \/ /\ thread[t].status = "Draft"
        /\ t \in ses[s].late
        /\ EndThread(t, "Expired")
        /\ Send({Requester(t)})
  /\ Ask(AskedAgain(t), t, "confirm")
  /\ Ran(s, t, "end")
  /\ UNCHANGED <<text, blocked, due, crossed, claimed, registry, reminded>>

InitiatorDecides(s) ==
  LET t == ses[s].thread IN
  /\ Resumed(s, "confirm")
  /\ thread[t].status = "Draft"
  /\ t \notin ses[s].late
  /\ \/ /\ Word(s) \in InitiatorNo
        /\ Decide(s, t, "end", "Rejected")
        /\ Send({Requester(t)})
        /\ Ask(AskedAgain(t), t, "confirm")
        /\ Ran(s, t, "end")
        /\ UNCHANGED reminded
     \/ /\ Word(s) \in InitiatorYes
        /\ Decide(s, t, "consent", "Pending")
        /\ Send(AskedAgain(t) \cup {Counterparty(t)})
        /\ prompt' = Asked(Asked(prompt, AskedAgain(t), t, "confirm"),
                           {Counterparty(t)}, t, "consent")
        /\ reminded' = reminded \ {t}
        /\ Ran(s, t, "consent")
  /\ UNCHANGED <<text, blocked, due, crossed, claimed, registry>>

\* process_counterparty_reply: already decided, or expired.
CounterpartyError(s) ==
  LET t == ses[s].thread IN
  /\ Resumed(s, "consent")
  /\ Word(s) \in CounterpartyApprove \cup CounterpartyReject
  /\ \/ thread[t].status # "Pending" /\ EndThread(t, thread[t].status)
     \/ thread[t].status = "Pending" /\ t \in ses[s].late /\ EndThread(t, "Expired")
  /\ Send({Requester(t), Counterparty(t)})
  /\ Ask(AskedAgain(t), t, "consent")
  /\ Ran(s, t, "end")
  /\ UNCHANGED <<text, blocked, due, crossed, claimed, registry, reminded>>

\* commit_transaction may find the days taken: the request stays Pending and
\* the conversation is over.
CounterpartyDecides(s) ==
  LET t == ses[s].thread IN
  /\ Resumed(s, "consent")
  /\ thread[t].status = "Pending"
  /\ t \notin ses[s].late
  /\ \/ Word(s) \in CounterpartyReject /\ Decide(s, t, "end", "Rejected")
     \/ Word(s) \in CounterpartyApprove /\ Decide(s, t, "end", "Approved")
     \/ Word(s) \in CounterpartyApprove /\ EndThread(t, "Pending")
  /\ Send({Requester(t), Counterparty(t)})
  /\ Ask(AskedAgain(t), t, "consent")
  /\ Ran(s, t, "end")
  /\ UNCHANGED <<text, blocked, due, crossed, claimed, registry, reminded>>

\* Resuming a thread that has ended runs nothing.
ResumeEnded(s) ==
  /\ Resumed(s, "end")
  /\ Ran(s, ses[s].thread, "end")
  /\ UNCHANGED <<world, store>>

------------------------------------------------------------------------------
(* handle_sms, after the graph: who is expected to text next.              *)

\* Wrong: the proposal is registered for whoever texted last.
SameParentNext(s, t) ==
  [registry EXCEPT ![Sender(s)] = IF ses[s].pause = "end" THEN None ELSE t]

\* Wrong: the end of a conversation clears nothing.
NeverCleared(s, t) ==
  CASE ses[s].pause = "consent" ->
         [[registry EXCEPT ![Sender(s)] = None] EXCEPT ![Counterparty(t)] = t]
    [] ses[s].pause = "confirm" -> [registry EXCEPT ![Sender(s)] = t]
    [] OTHER -> registry

Expected(s, t) ==
  CASE ses[s].pause = "consent" ->
         [[registry EXCEPT ![Sender(s)] = None] EXCEPT ![Counterparty(t)] = t]
    [] ses[s].pause = "confirm" -> [registry EXCEPT ![Sender(s)] = t]
    [] OTHER ->
         LET from == IF t = None THEN Sender(s) ELSE Requester(t)
         IN  [p \in Parents |-> IF p \in {from, Other(from), Sender(s)}
                                  THEN None ELSE registry[p]]

Settle(s) ==
  /\ At(s, "settle")
  /\ registry' = Expected(s, ses[s].thread)
  /\ Update(s, Idle)
  /\ UNCHANGED <<world, claimed, optedOut, thread, reminded>>

\* A deploy or a crash: the calls in flight are gone, the stores remain.
Restart == /\ ses' = [s \in Sessions |-> Idle]
           /\ crossed' = crossed \cup {Sender(s) : s \in {u \in Sessions : At(u, "settle")}}
           /\ UNCHANGED <<text, blocked, due, prompt, store>>

------------------------------------------------------------------------------
Gate(s) == \/ Receive(s) \/ StopTearDown(s) \/ StopWithdraw(s) \/ StopOptOut(s)
           \/ OptIn(s) \/ ReplyOnly(s) \/ Route(s)

Graph(s) == \/ StartDraft(s) \/ AnswerOrClarify(s) \/ Reprompt(s)
            \/ InitiatorError(s) \/ InitiatorDecides(s)
            \/ CounterpartyError(s) \/ CounterpartyDecides(s) \/ ResumeEnded(s)

\* No restarts.
OrderlyNext == \/ SendText \/ Expire \/ WebDecide
               \/ \E s \in Sessions : Gate(s) \/ Graph(s) \/ Settle(s)

Next == OrderlyNext \/ Restart

OrderlySpec == Init /\ [][OrderlyNext]_vars
Spec == Init /\ [][Next]_vars
------------------------------------------------------------------------------
(* Properties.                                                             *)

Prompts == [thread : Threads \cup {None}, step : Steps]

\* Every store keeps its type, and a session past the gate has a text.
TypeOK ==
  /\ text \in [Texts -> [from : Parents \cup {None}, word : Vocabulary, about : Prompts]]
  /\ claimed \subseteq Texts
  /\ optedOut \subseteq Parents
  /\ blocked \subseteq Parents
  /\ registry \in [Parents -> Threads \cup {None}]
  /\ thread \in [Threads -> [step : Steps, requester : Parents \cup {None},
                             status : Statuses, heard : Seq(Texts)]]
  /\ reminded \subseteq Threads
  /\ due \subseteq Threads
  /\ crossed \subseteq Parents
  /\ prompt \in [Parents -> Prompts]
  /\ ses \in [Sessions -> [pc : {"idle", "gate", "withdraw", "optout", "run", "settle"},
                           text : Texts \cup {None}, thread : Threads \cup {None},
                           late : SUBSET Threads, pause : Steps]]
  /\ \A s \in Sessions : ~At(s, "idle") => ses[s].text \in claimed /\ Sender(s) \in Parents

\* Thread t is paused for an answer of parent p.
Awaits(t, p) == \/ thread[t].step = "confirm" /\ p = Requester(t)
                \/ thread[t].step = "consent" /\ p = Counterparty(t)

\* A registered phone is one whose answer its thread waits for
\* (database/schema.py:113, "which conversation a given number owes a reply to"),
\* whatever is under way for others and wherever a deploy cut a call, except
\* while a run of the phone's own is yet to be written to the registry and
\* unless two texts of one parent, or a text and a deploy, crossed.
RoutedToAwaited ==
  \A p \in Parents :
    LET t == registry[p] IN
    /\ t # None
    /\ {p, Requester(t)} \cap crossed = {}
    /\ \A s \in Sessions : ~(At(s, "settle") /\ Sender(s) = p)
    => Awaits(t, p)

\* docs/review/CHARTER_02_consent.md:21: the draft and its confirmation are the
\* requester's own texts, the decision is the counterparty's; only a requester
\* whose texts crossed can be heard in the counterparty's place.
RightAuthor ==
  \A t \in Threads : \A i \in DOMAIN thread[t].heard :
    LET from == text[thread[t].heard[i]].from IN
    IF i = 3 THEN from = Counterparty(t) \/ (from = Requester(t) /\ from \in crossed)
    ELSE from = Requester(t)

\* runner.py:155-163: a delivery that is repeated or late never counts twice,
\* neither in its own conversation nor in another.
OneTextOneEffect ==
  \A t, u \in Threads :
    \A i \in DOMAIN thread[t].heard, j \in DOMAIN thread[u].heard :
      thread[t].heard[i] = thread[u].heard[j] => t = u /\ i = j

\* No conversation ends and leaves a draft, which no sweep would expire and no
\* endpoint could decide.
NoDeadDraft == \A t \in Threads : thread[t].status = "Draft" => thread[t].step = "confirm"

\* MAP.md:38, "read/unclear branches cannot strand a thread".
ReadsStrandNobody ==
  [][\A s \in Sessions, p \in Parents :
       Settle(s) /\ ses[s].thread = None /\ registry[p] # None => registry'[p] = registry[p]]_vars

\* docs/review/CHARTER_02_consent.md:21-22, "initiator YES/NO only on their
\* confirmation step": a text that answers "Reply YES to send" approves nothing.
ConfirmationIsNotConsent ==
  \A t \in Threads : Len(thread[t].heard) = 3 =>
    text[thread[t].heard[3]].about.step # "confirm"

\* The whole concierge is the two-phase consent it promises: a request is
\* proposed and confirmed by texts of its requester and decided by a text of the
\* counterparty (or of a requester whose texts crossed), each spent once, and
\* only the requester's STOP withdraws it.
Consent == INSTANCE Handshake
             WITH Requests <- Threads,
                  sender <- [m \in Texts |-> text[m].from],
                  status <- [t \in Threads |-> thread[t].status],
                  asker <- [t \in Threads |-> thread[t].requester],
                  said <- [t \in Threads |-> thread[t].heard]
ImplementsHandshake == Consent!Spec
==============================================================================
