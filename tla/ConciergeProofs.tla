--------------------------- MODULE ConciergeProofs ---------------------------
(***************************************************************************)
(* Proofs about Concierge, for any number of calls at once and restarts at *)
(* any step.  Two inductive invariants: one of the stores (Stores), and    *)
(* one of the registry (Routing), which excuses the parents whose texts    *)
(* crossed.  What a run of the graph may do to a conversation is said      *)
(* once, in Advances, and every branch of the graph is shown to be one     *)
(* (GraphRuns); what it may do to the status of the request, in Says.      *)
(* That routes stay right under concurrency rests on three facts: two      *)
(* calls of one parent are marked in crossed (Single), before a request is *)
(* confirmed only its requester's phone leads to it (Linked), and until    *)
(* the confirmation is registered nobody else can reach it (Alone).  From  *)
(* the two invariants and Says the concierge implements Handshake.         *)
(***************************************************************************)
EXTENDS Concierge, TLAPS

LabelSet == {"idle", "gate", "withdraw", "optout", "run", "settle"}
SessionRec == [pc : LabelSet, text : Texts \cup {None}, thread : Threads \cup {None},
               late : SUBSET Threads, pause : Steps]
ThreadRec  == [step : Steps, requester : Parents \cup {None},
               status : Statuses, heard : Seq(Texts)]

\* A call that is past the door handles a claimed text of a parent.
Holds(y, c, x) == y.pc # "idle" => y.text \in c /\ x[y.text].from \in Parents

\* Every text has been sent by a parent or not at all.
Sent == \A m \in Texts : text[m] = NoText \/ text[m].from \in Parents

\* The type invariant in the terms of the records above.
LEMMA TypeShape ==
  TypeOK <=>
    /\ text \in [Texts -> [from : Parents \cup {None}, word : Vocabulary, about : Prompts]]
    /\ claimed \subseteq Texts
    /\ optedOut \subseteq Parents
    /\ blocked \subseteq Parents
    /\ registry \in [Parents -> Threads \cup {None}]
    /\ thread \in [Threads -> ThreadRec]
    /\ reminded \subseteq Threads
    /\ due \subseteq Threads
    /\ crossed \subseteq Parents
    /\ prompt \in [Parents -> Prompts]
    /\ ses \in [Sessions -> SessionRec]
    /\ \A s \in Sessions : Holds(ses[s], claimed, text)
  BY DEF TypeOK, ThreadRec, SessionRec, LabelSet, Holds, At, Sender

LEMMA IdleTyped == Idle \in SessionRec /\ \A c, x : Holds(Idle, c, x)
  BY DEF Idle, SessionRec, LabelSet, Steps, Holds

LEMMA NoThreadTyped == NoThread \in ThreadRec
  BY DEF NoThread, ThreadRec, Steps, Statuses

LEMMA InitTyped == Init => TypeOK
<1> SUFFICES ASSUME Init PROVE TypeOK
  OBVIOUS
<1>1. text \in [Texts -> [from : Parents \cup {None}, word : Vocabulary, about : Prompts]]
  BY DEF Init, NoText, NoPrompt, Vocabulary, Prompts, Steps
<1>2. thread \in [Threads -> ThreadRec]
  BY NoThreadTyped DEF Init
<1>3. prompt \in [Parents -> Prompts]
  BY DEF Init, NoPrompt, Prompts, Steps
<1>4. ses \in [Sessions -> SessionRec] /\ \A s \in Sessions : Holds(ses[s], claimed, text)
  BY IdleTyped DEF Init
<1>5. /\ claimed \subseteq Texts /\ optedOut \subseteq Parents
      /\ blocked \subseteq Parents /\ due \subseteq Threads
      /\ reminded \subseteq Threads /\ crossed \subseteq Parents
      /\ registry \in [Parents -> Threads \cup {None}]
  BY DEF Init
<1> QED
  BY <1>1, <1>2, <1>3, <1>4, <1>5, TypeShape

\* A call moves and nobody's text changes: the sessions stay typed.
LEMMA SessionMoves ==
  ASSUME TypeOK, NEW s \in Sessions, NEW y \in SessionRec,
         ses' = [ses EXCEPT ![s] = y], UNCHANGED text,
         claimed \subseteq claimed', Holds(y, claimed', text)
  PROVE  /\ ses' \in [Sessions -> SessionRec]
         /\ \A u \in Sessions : Holds(ses'[u], claimed', text')
<1>1. ses \in [Sessions -> SessionRec] /\ \A u \in Sessions : Holds(ses[u], claimed, text)
  BY TypeShape
<1>2. ses' \in [Sessions -> SessionRec] /\ ses'[s] = y
  BY <1>1
<1>3. \A u \in Sessions : u # s => ses'[u] = ses[u]
  BY <1>1
<1>4. ASSUME NEW u \in Sessions PROVE Holds(ses'[u], claimed', text')
  <2>1. CASE u = s
    BY <2>1, <1>2
  <2>2. CASE u # s
    <3>1. ses'[u] = ses[u] /\ Holds(ses[u], claimed, text)
      BY <2>2, <1>1, <1>3
    <3> QED
      BY <3>1 DEF Holds
  <2> QED
    BY <2>1, <2>2
<1> QED
  BY <1>2, <1>4

\* What the gateway writes is a set of phones; what a parent reads is a prompt.
LEMMA SendTyped ==
  ASSUME TypeOK, NEW to, Send(to) PROVE optedOut' \subseteq Parents
  BY DEF Send, TypeOK

LEMMA AskedTyped ==
  ASSUME NEW read \in [Parents -> Prompts], NEW to, NEW t \in Threads, NEW step \in Steps
  PROVE  Asked(read, to, t, step) \in [Parents -> Prompts]
<1>1. [thread |-> t, step |-> step] \in Prompts
  BY DEF Prompts
<1> QED
  BY <1>1 DEF Asked

LEMMA AskTyped ==
  ASSUME TypeOK, NEW to, NEW t \in Threads, NEW step \in Steps, Ask(to, t, step)
  PROVE  prompt' \in [Parents -> Prompts]
  BY AskedTyped DEF Ask, TypeOK

------------------------------------------------------------------------------
(* Type correctness, one step per action.                                  *)

StoresTyped == /\ claimed' \subseteq Texts
               /\ claimed \subseteq claimed'
               /\ optedOut' \subseteq Parents
               /\ registry' \in [Parents -> Threads \cup {None}]
               /\ thread' \in [Threads -> ThreadRec]
               /\ prompt' \in [Parents -> Prompts]
               /\ reminded' \subseteq Threads
               /\ crossed' \subseteq Parents

\* A step of one call keeps the types when its stores and its session do.
LEMMA CallTyped ==
  ASSUME TypeOK, NEW s \in Sessions, NEW y \in SessionRec,
         ses' = [ses EXCEPT ![s] = y], Holds(y, claimed', text),
         UNCHANGED <<text, blocked, due>>, StoresTyped
  PROVE  TypeOK'
<1>1. /\ ses' \in [Sessions -> SessionRec]
      /\ \A u \in Sessions : Holds(ses'[u], claimed', text')
  BY SessionMoves DEF StoresTyped
<1>2. /\ text' \in [Texts -> [from : Parents \cup {None}, word : Vocabulary, about : Prompts]]
      /\ blocked' \subseteq Parents /\ due' \subseteq Threads
  BY DEF TypeOK
<1> QED
  BY <1>1, <1>2 DEF StoresTyped, TypeOK, ThreadRec, SessionRec, LabelSet, Holds, At, Sender

\* A session at a step of handle_sms: its record and its sender.
LEMMA CallHasText ==
  ASSUME TypeOK, NEW s \in Sessions, ses[s].pc # "idle"
  PROVE  /\ ses[s] \in SessionRec
         /\ ses[s].text \in claimed
         /\ ses[s].text \in Texts
         /\ Sender(s) \in Parents
  BY TypeShape DEF Holds, Sender

\* The stores as they are.
LEMMA StoresKept ==
  ASSUME TypeOK, UNCHANGED <<claimed, registry, thread, prompt, reminded, crossed>>,
         optedOut' \subseteq Parents
  PROVE  StoresTyped
  BY TypeShape DEF StoresTyped

LEMMA SendTextTyped == ASSUME TypeOK, SendText PROVE TypeOK'
<1>1. PICK m \in Texts, p \in Parents, w \in Words :
        /\ text[m] = NoText
        /\ text' = [text EXCEPT ![m] = [from |-> p, word |-> w, about |-> prompt[p]]]
        /\ blocked' = CASE w = "stop" -> blocked \cup {p}
                        [] w = "start" -> blocked \ {p}
                        [] OTHER -> blocked
        /\ UNCHANGED <<store, due, prompt, crossed, ses>>
  BY DEF SendText
<1> DEFINE T == [from : Parents \cup {None}, word : Vocabulary, about : Prompts]
           x == [from |-> p, word |-> w, about |-> prompt[p]]
<1>2. x \in T /\ x.from = p
  BY ConciergeAssumption DEF TypeOK
<1>3. text \in [Texts -> T]
  BY DEF TypeOK
<1> HIDE DEF x, T
<1>4. text' \in [Texts -> T]
  BY <1>1, <1>2, <1>3 DEF x
<1>5. \A n \in Texts : text[n].from \in Parents => text'[n].from \in Parents
  BY <1>1, <1>2, <1>3 DEF x
<1>6. blocked' \subseteq Parents
  BY <1>1 DEF TypeOK
<1>7. \A s \in Sessions : Holds(ses'[s], claimed', text')
  BY <1>1, <1>5, TypeShape DEF Holds, store
<1>8. UNCHANGED <<claimed, optedOut, registry, thread, reminded, due, prompt, crossed, ses>>
  BY <1>1 DEF store
<1> QED
  BY <1>4, <1>6, <1>7, <1>8 DEF T, TypeOK, Holds, At, Sender

LEMMA WorldTyped == ASSUME TypeOK, Expire \/ WebDecide \/ Restart PROVE TypeOK'
<1>1. CASE Expire
  BY <1>1 DEF Expire, TypeOK, store, At, Sender
<1>2. CASE WebDecide
  <2>1. PICK t \in Threads, v \in {"Approved", "Rejected", "Expired"} :
          thread' = [thread EXCEPT ![t].status = v]
    BY <1>2 DEF WebDecide
  <2>2. thread' \in [Threads -> ThreadRec]
    BY <2>1, TypeShape DEF ThreadRec, Statuses
  <2> QED
    BY <1>2, <2>2 DEF WebDecide, world, TypeOK, ThreadRec, At, Sender
<1>3. CASE Restart
  <2>1. ses' \in [Sessions -> SessionRec] /\ \A s \in Sessions : ses'[s] = Idle
    BY <1>3, IdleTyped DEF Restart
  <2>2. \A s \in Sessions : ses'[s].pc = "idle"
    BY <2>1 DEF Idle
  <2>3. {Sender(s) : s \in {u \in Sessions : At(u, "settle")}} \subseteq Parents
    BY DEF TypeOK, At
  <2>4. crossed' \subseteq Parents
    BY <1>3, <2>3 DEF Restart, TypeOK
  <2> QED
    BY <1>3, <2>1, <2>2, <2>4 DEF Restart, store, TypeOK, SessionRec, LabelSet, At, Sender
<1> QED
  BY <1>1, <1>2, <1>3

LEMMA GateTyped == ASSUME TypeOK, Sent, NEW s \in Sessions, Gate(s) PROVE TypeOK'
<1>1. CASE Receive(s)
  <2>1. PICK m \in Texts :
          /\ text[m] # NoText /\ Claim(m)
          /\ ses' = [ses EXCEPT ![s] = [Idle EXCEPT !.pc = "gate", !.text = m, !.late = due]]
          /\ crossed' = crossed \cup {p \in {text[m].from} : InFlight(p)}
          /\ UNCHANGED <<text, blocked, due, prompt, optedOut, registry, thread, reminded>>
    BY <1>1 DEF Receive, Update
  <2> DEFINE y == [Idle EXCEPT !.pc = "gate", !.text = m, !.late = due]
  <2>2. due \subseteq Threads
    BY DEF TypeOK
  <2>3. y \in SessionRec
    BY <2>2 DEF Idle, SessionRec, LabelSet, Steps
  <2>4. m \in claimed' /\ claimed' \subseteq Texts /\ claimed \subseteq claimed'
    BY <2>1 DEF Claim, TypeOK
  <2>5. Holds(y, claimed', text)
    BY <2>1, <2>4 DEF Holds, Idle, Sent
  <2>6. text[m].from \in Parents
    BY <2>1 DEF Sent
  <2>7. StoresTyped
    BY <2>1, <2>4, <2>6, TypeShape DEF StoresTyped
  <2>8. ses' = [ses EXCEPT ![s] = y] /\ UNCHANGED <<text, blocked, due>>
    BY <2>1
  <2> HIDE DEF y
  <2> QED
    BY <2>3, <2>5, <2>7, <2>8, CallTyped
<1>2. CASE StopTearDown(s)
  <2> DEFINE y == [ses[s] EXCEPT !.pc = "withdraw"]
  <2>1. y \in SessionRec /\ Holds(y, claimed', text) /\ ses' = [ses EXCEPT ![s] = y]
    BY <1>2, CallHasText DEF StopTearDown, Update, At, SessionRec, LabelSet, Holds, Sender
  <2>2. StoresTyped
    BY <1>2, TypeShape DEF StopTearDown, world, StoresTyped
  <2> HIDE DEF y
  <2> QED
    BY <1>2, <2>1, <2>2, CallTyped DEF StopTearDown, world
<1>3. CASE StopWithdraw(s)
  <2> DEFINE y == [ses[s] EXCEPT !.pc = "optout"]
  <2>1. y \in SessionRec /\ Holds(y, claimed', text) /\ ses' = [ses EXCEPT ![s] = y]
    BY <1>3, CallHasText DEF StopWithdraw, Update, At, SessionRec, LabelSet, Holds, Sender
  <2>2. thread' \in [Threads -> ThreadRec]
    BY <1>3, TypeShape DEF StopWithdraw, ThreadRec, Statuses
  <2>3. optedOut' \subseteq Parents
    BY <1>3 DEF StopWithdraw, Send, TypeOK
  <2>4. StoresTyped
    BY <1>3, <2>2, <2>3, TypeShape DEF StopWithdraw, world, StoresTyped
  <2> HIDE DEF y
  <2> QED
    BY <1>3, <2>1, <2>4, CallTyped DEF StopWithdraw, world
<1>4. CASE StopOptOut(s) \/ OptIn(s) \/ ReplyOnly(s)
  <2>1. ses[s].pc # "idle" /\ ses' = [ses EXCEPT ![s] = Idle]
    BY <1>4 DEF StopOptOut, OptIn, ReplyOnly, At, Update
  <2>2. UNCHANGED <<world, claimed, registry, thread, reminded>>
    BY <1>4 DEF StopOptOut, OptIn, ReplyOnly
  <2>3. optedOut' \subseteq Parents
    BY <1>4, <2>1, CallHasText DEF StopOptOut, OptIn, ReplyOnly, Send, TypeOK
  <2>4. StoresTyped
    BY <2>2, <2>3, StoresKept DEF world
  <2>5. UNCHANGED <<text, blocked, due>>
    BY <2>2 DEF world
  <2> QED
    BY <2>1, <2>4, <2>5, IdleTyped, CallTyped
<1>5. CASE Route(s)
  <2> DEFINE y == [ses[s] EXCEPT !.pc = "run", !.thread = registry[Sender(s)]]
  <2>1. ses[s].pc # "idle" /\ ses' = [ses EXCEPT ![s] = y] /\ UNCHANGED <<world, store>>
    BY <1>5 DEF Route, Update, At
  <2>2. registry[Sender(s)] \in Threads \cup {None}
    BY <2>1, CallHasText, TypeShape
  <2>3. y \in SessionRec /\ Holds(y, claimed', text)
    BY <2>1, <2>2, CallHasText DEF SessionRec, LabelSet, Holds, Sender, store
  <2>4. StoresTyped
    BY <2>1, StoresKept, TypeShape DEF world, store
  <2>5. UNCHANGED <<text, blocked, due>>
    BY <2>1 DEF world
  <2> HIDE DEF y
  <2> QED
    BY <2>1, <2>3, <2>4, <2>5, CallTyped
<1> QED
  BY <1>1, <1>2, <1>3, <1>4, <1>5 DEF Gate

LEMMA GraphTyped == ASSUME TypeOK, NEW s \in Sessions, Graph(s) PROVE TypeOK'
<1> DEFINE t0 == ses[s].thread
           y(t, pause) == [ses[s] EXCEPT !.pc = "settle", !.thread = t, !.pause = pause]
<1>0. At(s, "run")
  BY DEF Graph, StartDraft, AnswerOrClarify, Reprompt, InitiatorError, InitiatorDecides,
         CounterpartyError, CounterpartyDecides, ResumeEnded, Resumed
<1>1. ses[s].pc # "idle"
  BY <1>0 DEF At
<1>2. ASSUME NEW t \in Threads \cup {None}, NEW pause \in Steps
      PROVE  y(t, pause) \in SessionRec /\ Holds(y(t, pause), claimed, text)
  BY <1>1, CallHasText DEF SessionRec, LabelSet, Holds, Sender
<1>3. ASSUME NEW t \in Threads \cup {None}, NEW pause \in Steps, Ran(s, t, pause),
             UNCHANGED <<text, blocked, due, crossed, claimed, registry>>,
             optedOut' \subseteq Parents, prompt' \in [Parents -> Prompts],
             thread' \in [Threads -> ThreadRec], reminded' \subseteq Threads
      PROVE  TypeOK'
  <2>1. StoresTyped
    BY <1>3, TypeShape DEF StoresTyped
  <2>2. ses' = [ses EXCEPT ![s] = y(t, pause)]
    BY <1>3 DEF Ran, Update
  <2>3. Holds(y(t, pause), claimed', text)
    BY <1>2, <1>3
  <2> HIDE DEF y
  <2> QED
    BY <1>2, <1>3, <2>1, <2>2, <2>3, CallTyped
<1> HIDE DEF y
<1>4. /\ thread \in [Threads -> ThreadRec] /\ prompt \in [Parents -> Prompts]
      /\ reminded \subseteq Threads
  BY TypeShape
<1>5. {"none", "confirm", "consent", "end"} = Steps
  BY DEF Steps
<1>6. ses[s].text \in Texts /\ Sender(s) \in Parents
  BY <1>1, CallHasText
<1>7. CASE StartDraft(s)
  <2>1. PICK t \in Threads :
          /\ thread' = [thread EXCEPT ![t] =
               [step |-> "confirm", requester |-> Sender(s), status |-> "Draft",
                heard |-> <<ses[s].text>>]]
          /\ Send({Sender(s)})
          /\ Ask({Sender(s)}, t, "confirm")
          /\ Ran(s, t, "confirm")
          /\ UNCHANGED <<text, blocked, due, crossed, claimed, registry, reminded>>
    BY <1>7 DEF StartDraft
  <2>2. [step |-> "confirm", requester |-> Sender(s), status |-> "Draft",
          heard |-> <<ses[s].text>>] \in ThreadRec
    BY <1>6 DEF ThreadRec, Steps, Statuses
  <2>3. thread' \in [Threads -> ThreadRec]
    BY <1>4, <2>1, <2>2
  <2> QED
    BY <1>3, <1>4, <1>5, <2>1, <2>3, SendTyped, AskTyped
<1>8. CASE AnswerOrClarify(s)
  BY <1>3, <1>4, <1>5, <1>8, SendTyped DEF AnswerOrClarify, world
<1>9. CASE Reprompt(s)
  <2>1. t0 \in Threads /\ thread[t0].step \in Steps
    BY <1>4, <1>9 DEF Reprompt, Resumed, ThreadRec
  <2>2. /\ \E to : Send(to) /\ Ask(to, t0, thread[t0].step)
        /\ Ran(s, t0, thread[t0].step)
        /\ reminded' = reminded \cup {t0}
        /\ UNCHANGED <<text, blocked, due, crossed, claimed, registry, thread>>
    BY <1>9 DEF Reprompt
  <2> HIDE DEF t0
  <2> QED
    BY <1>3, <1>4, <2>1, <2>2, SendTyped, AskTyped
<1>10. ASSUME NEW t \in Threads, NEW status \in Statuses, EndThread(t, status)
       PROVE  thread' \in [Threads -> ThreadRec]
  BY <1>4, <1>10 DEF EndThread, ThreadRec, Steps
<1>11. ASSUME NEW t \in Threads, NEW step \in Steps, NEW status \in Statuses,
              Decide(s, t, step, status)
       PROVE  thread' \in [Threads -> ThreadRec]
  <2>1. Append(thread[t].heard, ses[s].text) \in Seq(Texts)
    BY <1>4, <1>6 DEF ThreadRec
  <2> QED
    BY <1>4, <1>11, <2>1 DEF Decide, ThreadRec
<1>12. Statuses = {"Absent", "Draft", "Pending", "Approved", "Rejected", "Expired"}
  BY DEF Statuses
<1>13. t0 \in Threads => thread[t0].status \in Statuses
  BY <1>4 DEF ThreadRec
<1>14. CASE InitiatorError(s)
  <2>1. /\ t0 \in Threads /\ Ran(s, t0, "end")
        /\ Ask(AskedAgain(t0), t0, "confirm")
        /\ UNCHANGED <<text, blocked, due, crossed, claimed, registry, reminded>>
    BY <1>14 DEF InitiatorError, Resumed
  <2>2. \E status \in Statuses : EndThread(t0, status)
    BY <1>12, <1>13, <1>14, <2>1 DEF InitiatorError
  <2>3. optedOut' \subseteq Parents
    <3>1. Send(AskedAgain(t0)) \/ Send({Requester(t0)})
      BY <1>14 DEF InitiatorError
    <3> QED
      BY <3>1, SendTyped
  <2> HIDE DEF t0
  <2>4. thread' \in [Threads -> ThreadRec]
    BY <1>10, <2>1, <2>2
  <2> QED
    BY <1>3, <1>4, <1>5, <2>1, <2>3, <2>4, AskTyped
<1>15. CASE InitiatorDecides(s)
  <2>1. t0 \in Threads /\ UNCHANGED <<text, blocked, due, crossed, claimed, registry>>
    BY <1>15 DEF InitiatorDecides, Resumed
  <2>2. CASE /\ Decide(s, t0, "end", "Rejected") /\ Send({Requester(t0)})
             /\ Ask(AskedAgain(t0), t0, "confirm") /\ Ran(s, t0, "end") /\ UNCHANGED reminded
    <3> HIDE DEF t0
    <3>1. thread' \in [Threads -> ThreadRec]
      BY <1>5, <1>11, <1>12, <2>1, <2>2
    <3> QED
      BY <1>3, <1>4, <1>5, <2>1, <2>2, <3>1, SendTyped, AskTyped
  <2>3. CASE /\ Decide(s, t0, "consent", "Pending")
             /\ Send(AskedAgain(t0) \cup {Counterparty(t0)})
             /\ prompt' = Asked(Asked(prompt, AskedAgain(t0), t0, "confirm"),
                                {Counterparty(t0)}, t0, "consent")
             /\ reminded' = reminded \ {t0} /\ Ran(s, t0, "consent")
    <3> HIDE DEF t0
    <3>1. thread' \in [Threads -> ThreadRec]
      BY <1>5, <1>11, <1>12, <2>1, <2>3
    <3>2. Asked(prompt, AskedAgain(t0), t0, "confirm") \in [Parents -> Prompts]
      BY <1>4, <1>5, <2>1, AskedTyped
    <3>3. prompt' \in [Parents -> Prompts]
      BY <1>5, <2>1, <2>3, <3>2, AskedTyped
    <3> QED
      BY <1>3, <1>4, <1>5, <2>1, <2>3, <3>1, <3>3, SendTyped
  <2> QED
    BY <1>15, <2>2, <2>3 DEF InitiatorDecides
<1>16. CASE CounterpartyError(s)
  <2>1. /\ t0 \in Threads /\ Ran(s, t0, "end")
        /\ Ask(AskedAgain(t0), t0, "consent") /\ Send({Requester(t0), Counterparty(t0)})
        /\ UNCHANGED <<text, blocked, due, crossed, claimed, registry, reminded>>
    BY <1>16 DEF CounterpartyError, Resumed
  <2>2. \E status \in Statuses : EndThread(t0, status)
    BY <1>12, <1>13, <1>16, <2>1 DEF CounterpartyError
  <2> HIDE DEF t0
  <2>3. thread' \in [Threads -> ThreadRec]
    BY <1>10, <2>1, <2>2
  <2> QED
    BY <1>3, <1>4, <1>5, <2>1, <2>3, SendTyped, AskTyped
<1>17. CASE CounterpartyDecides(s)
  <2>1. /\ t0 \in Threads /\ Ran(s, t0, "end")
        /\ Ask(AskedAgain(t0), t0, "consent") /\ Send({Requester(t0), Counterparty(t0)})
        /\ UNCHANGED <<text, blocked, due, crossed, claimed, registry, reminded>>
    BY <1>17 DEF CounterpartyDecides, Resumed
  <2>2. \/ Decide(s, t0, "end", "Rejected") \/ Decide(s, t0, "end", "Approved")
        \/ EndThread(t0, "Pending")
    BY <1>17 DEF CounterpartyDecides
  <2> HIDE DEF t0
  <2>3. thread' \in [Threads -> ThreadRec]
    BY <1>5, <1>10, <1>11, <1>12, <2>1, <2>2
  <2> QED
    BY <1>3, <1>4, <1>5, <2>1, <2>3, SendTyped, AskTyped
<1>18. CASE ResumeEnded(s)
  <2>1. t0 \in Threads /\ Ran(s, t0, "end") /\ UNCHANGED <<world, store>>
    BY <1>18 DEF ResumeEnded, Resumed
  <2>2. optedOut' \subseteq Parents
    BY <2>1 DEF store, TypeOK
  <2> HIDE DEF t0
  <2> QED
    BY <1>3, <1>4, <1>5, <2>1, <2>2 DEF world, store
<1> QED
  BY <1>7, <1>8, <1>9, <1>14, <1>15, <1>16, <1>17, <1>18 DEF Graph

LEMMA SettleTyped == ASSUME TypeOK, NEW s \in Sessions, Settle(s) PROVE TypeOK'
<1> DEFINE t == ses[s].thread
<1>1. ses[s].pc # "idle" /\ ses' = [ses EXCEPT ![s] = Idle]
  BY DEF Settle, At, Update
<1>2. t \in Threads \cup {None}
  BY <1>1, CallHasText DEF SessionRec
<1>3. registry' = Expected(s, t) /\ UNCHANGED <<world, claimed, optedOut, thread, reminded>>
  BY DEF Settle
<1> HIDE DEF t
<1>4. registry \in [Parents -> Threads \cup {None}]
  BY TypeShape
<1>5. Expected(s, t) \in [Parents -> Threads \cup {None}]
  BY <1>2, <1>4 DEF Expected
<1>6. StoresTyped
  BY <1>3, <1>5, TypeShape DEF world, StoresTyped
<1>7. UNCHANGED <<text, blocked, due>>
  BY <1>3 DEF world
<1> QED
  BY <1>1, <1>6, <1>7, IdleTyped, CallTyped

LEMMA TypeStep == ASSUME TypeOK, Sent, [Next]_vars PROVE TypeOK'
<1>1. CASE UNCHANGED vars
  BY <1>1 DEF vars, store, world, TypeOK, At, Sender
<1> QED
  BY <1>1, SendTextTyped, WorldTyped, GateTyped, GraphTyped, SettleTyped
  DEF Next, OrderlyNext

LEMMA SentStep == ASSUME TypeOK, Sent, [Next]_vars PROVE Sent'
<1>1. CASE SendText
  <2>1. PICK m \in Texts, p \in Parents, w \in Words :
          text' = [text EXCEPT ![m] = [from |-> p, word |-> w, about |-> prompt[p]]]
    BY <1>1 DEF SendText
  <2>2. text \in [Texts -> [from : Parents \cup {None}, word : Vocabulary, about : Prompts]]
    BY DEF TypeOK
  <2> QED
    BY <2>1, <2>2 DEF Sent
<1>2. ASSUME NEW s \in Sessions, Gate(s) PROVE UNCHANGED text
  BY <1>2 DEF Gate, Receive, StopTearDown, StopWithdraw, StopOptOut, OptIn, ReplyOnly, Route, world
<1>3. ASSUME NEW s \in Sessions, Graph(s) PROVE UNCHANGED text
  BY <1>3 DEF Graph, StartDraft, AnswerOrClarify, Reprompt, InitiatorError, InitiatorDecides,
              CounterpartyError, CounterpartyDecides, ResumeEnded, world
<1>4. Expire \/ WebDecide \/ Restart \/ (\E s \in Sessions : Settle(s)) \/ UNCHANGED vars
        => UNCHANGED text
  BY DEF Expire, WebDecide, Restart, Settle, world, vars
<1>5. UNCHANGED text => Sent'
  BY DEF Sent
<1> QED
  BY <1>1, <1>2, <1>3, <1>4, <1>5 DEF Next, OrderlyNext

Typed == TypeOK /\ Sent

(* Every store and every call in flight keeps its type, and a text has a   *)
(* parent for its sender or has not been sent.                             *)
THEOREM TypedHolds == Spec => []Typed
<1>1. Init => Typed
  BY InitTyped DEF Init, Typed, Sent
<1>2. Typed /\ [Next]_vars => Typed'
  BY TypeStep, SentStep DEF Typed
<1> QED
  BY <1>1, <1>2, PTL DEF Spec

(* The type invariant of the runs.                                         *)
THEOREM TypeCorrect == Spec => []TypeOK
  BY TypedHolds, PTL DEF Typed

------------------------------------------------------------------------------
(* One run of the graph, whichever branch it takes.                        *)

(* The record x of a conversation is as the graph leaves it: the texts that*)
(* made it, in the number its step calls for, and a draft only while its   *)
(* confirmation is awaited.                                                *)
Coherent(x) ==
  /\ x.step = "none" => x = NoThread
  /\ x.step # "none" => x.requester \in Parents
  /\ x.step = "confirm" => Len(x.heard) = 1
  /\ x.step = "consent" => Len(x.heard) = 2
  /\ x.status = "Draft" => x.step = "confirm"

(* The call of session s takes the record x of its conversation to y.  It  *)
(* is the text m of the parent p that is handled.                          *)
Advances(x, y, m, p) ==
  /\ y.step # "none"
  /\ y.requester = IF x = NoThread THEN p ELSE x.requester
  /\ \/ y.heard = x.heard
     \/ y.heard = Append(x.heard, m) /\ x.step # "end"
  /\ y.step = "confirm" => x = NoThread \/ x.step = "confirm"
  /\ y.step = "consent" => x.step \in {"confirm", "consent"}
  /\ Coherent(y)

(* A run of the graph takes thread t to y and pauses where y says.         *)
Advanced(s, t, y) ==
  /\ ses[s].thread = t \/ (ses[s].thread = None /\ thread[t] = NoThread)
  /\ ses[s].thread = t => thread[t] # NoThread
  /\ thread' = [thread EXCEPT ![t] = y]
  /\ Advances(thread[t], y, ses[s].text, Sender(s))
  /\ Ran(s, t, y.step)

(* A reply without a conversation.                                         *)
Answered(s) == ses[s].thread = None /\ UNCHANGED thread /\ Ran(s, None, "end")

LEMMA GraphFrame ==
  ASSUME NEW s \in Sessions, Graph(s)
  PROVE  At(s, "run") /\ UNCHANGED <<text, blocked, due, crossed, claimed, registry>>
  BY DEF Graph, StartDraft, AnswerOrClarify, Reprompt, InitiatorError, InitiatorDecides,
         CounterpartyError, CounterpartyDecides, ResumeEnded, Resumed, world, store

\* A conversation that ends without a decision keeps its texts.
LEMMA EndAdvances ==
  ASSUME NEW x \in ThreadRec, Coherent(x), x.step \in {"confirm", "consent"},
         NEW status \in Statuses \ {"Draft"}, NEW m, NEW p, NEW y,
         y = [x EXCEPT !.step = "end", !.status = status]
  PROVE  y \in ThreadRec /\ y.step = "end" /\ Advances(x, y, m, p)
<1>1. /\ y \in ThreadRec /\ y.step = "end" /\ y.status = status
      /\ y.requester = x.requester /\ y.heard = x.heard
  BY DEF ThreadRec, Steps
<1>2. x # NoThread /\ x.requester \in Parents
  BY DEF Coherent, NoThread
<1> QED
  BY <1>1, <1>2 DEF Advances, Coherent

\* A decision adds the text that made it.
LEMMA DecideAdvances ==
  ASSUME NEW x \in ThreadRec, Coherent(x), x.step \in {"confirm", "consent"},
         NEW m \in Texts, NEW p, NEW y \in ThreadRec, y.step \in {"consent", "end"},
         y.step = "consent" => x.step = "confirm", y.status # "Draft",
         y.requester = x.requester, y.heard = Append(x.heard, m)
  PROVE  Advances(x, y, m, p)
<1>0. x.heard \in Seq(Texts)
  BY DEF ThreadRec
<1>1. Append(x.heard, m) \in Seq(Texts) /\ Len(Append(x.heard, m)) = Len(x.heard) + 1
  BY <1>0
<1>3. x # NoThread /\ x.requester \in Parents /\ x.step # "end"
  BY DEF Coherent, NoThread
<1>4. ASSUME y.step = "consent" PROVE Len(y.heard) = 2
  <2>1. Len(x.heard) = 1
    BY <1>4 DEF Coherent
  <2>2. Len(y.heard) = Len(x.heard) + 1
    BY <1>1
  <2> QED
    BY <2>1, <2>2
<1> QED
  BY <1>3, <1>4 DEF Advances, Coherent

\* Every branch of the graph is an answer or an advance of one conversation.
LEMMA GraphRuns ==
  ASSUME TypeOK, \A t \in Threads : Coherent(thread[t]), NEW s \in Sessions, Graph(s)
  PROVE  Answered(s) \/ \E t \in Threads : \E y \in ThreadRec : Advanced(s, t, y)
<1> DEFINE u == ses[s].thread
           m == ses[s].text
<1>0. At(s, "run") /\ ses[s].pc # "idle"
  BY GraphFrame DEF At
<1>1. thread \in [Threads -> ThreadRec] /\ m \in Texts /\ Sender(s) \in Parents
  BY <1>0, CallHasText, TypeShape
<1>2. \A step \in Steps : Resumed(s, step) =>
        u \in Threads /\ thread[u] \in ThreadRec /\ Coherent(thread[u]) /\ thread[u].step = step
  BY <1>1 DEF Resumed
<1>3. {"none", "confirm", "consent", "end"} = Steps
  BY DEF Steps
<1>4. {"Absent", "Draft", "Pending", "Approved", "Rejected", "Expired"} = Statuses
  BY DEF Statuses
<1>5. ASSUME u \in Threads, thread[u].step # "none", NEW y \in ThreadRec,
             thread' = [thread EXCEPT ![u] = y],
             Advances(thread[u], y, m, Sender(s)), Ran(s, u, y.step)
      PROVE  \E t \in Threads : \E z \in ThreadRec : Advanced(s, t, z)
  <2>1. thread[u] # NoThread
    BY <1>5 DEF NoThread
  <2>2. Advanced(s, u, y)
    BY <1>5, <2>1 DEF Advanced
  <2> HIDE DEF u
  <2> QED
    BY <1>5, <2>2
<1>6. ASSUME u \in Threads, thread[u].step \in {"confirm", "consent"},
             NEW status \in Statuses \ {"Draft"}, EndThread(u, status), Ran(s, u, "end")
      PROVE  \E t \in Threads : \E z \in ThreadRec : Advanced(s, t, z)
  <2> DEFINE y == [thread[u] EXCEPT !.step = "end", !.status = status]
  <2>1. y \in ThreadRec /\ y.step = "end" /\ Advances(thread[u], y, m, Sender(s))
    BY <1>1, <1>6, EndAdvances
  <2>2. thread' = [thread EXCEPT ![u] = y]
    BY <1>6 DEF EndThread
  <2> HIDE DEF y, u, m
  <2> QED
    BY <1>5, <1>6, <2>1, <2>2
<1>7. ASSUME u \in Threads, thread[u].step \in {"confirm", "consent"},
             NEW status \in Statuses \ {"Draft"}, NEW step \in {"consent", "end"},
             step = "consent" => thread[u].step = "confirm",
             Decide(s, u, step, status), Ran(s, u, step)
      PROVE  \E t \in Threads : \E z \in ThreadRec : Advanced(s, t, z)
  <2> DEFINE x == thread[u]
             y == [x EXCEPT !.step = step, !.status = status, !.heard = Append(x.heard, m)]
  <2>1. /\ x \in ThreadRec /\ Coherent(x) /\ x.step \in {"confirm", "consent"}
        /\ step = "consent" => x.step = "confirm"
    BY <1>1, <1>7
  <2>2. thread' = [thread EXCEPT ![u] = y]
    BY <1>1, <1>7 DEF Decide
  <2> HIDE DEF x, m, u
  <2>3. Append(x.heard, m) \in Seq(Texts)
    BY <1>1, <2>1 DEF ThreadRec
  <2>4. /\ y \in ThreadRec /\ y.step = step /\ y.status = status
        /\ y.requester = x.requester /\ y.heard = Append(x.heard, m)
    BY <1>7, <2>1, <2>3 DEF ThreadRec, Steps
  <2> HIDE DEF y
  <2>5. Advances(x, y, m, Sender(s))
    BY <1>1, <1>7, <2>1, <2>4, DecideAdvances
  <2> QED
    BY <1>5, <1>7, <2>1, <2>2, <2>4, <2>5 DEF x
<1> HIDE DEF m
<1>8. CASE StartDraft(s)
  <2>1. PICK t \in Threads :
          /\ u = None /\ thread[t] = NoThread
          /\ thread' = [thread EXCEPT ![t] =
               [step |-> "confirm", requester |-> Sender(s), status |-> "Draft", heard |-> <<m>>]]
          /\ Ran(s, t, "confirm")
    BY <1>8 DEF StartDraft, m
  <2> DEFINE y == [step |-> "confirm", requester |-> Sender(s), status |-> "Draft",
                   heard |-> <<m>>]
  <2>2. y \in ThreadRec /\ y.step = "confirm"
    BY <1>1 DEF ThreadRec, Steps, Statuses
  <2>3. y.heard = Append(NoThread.heard, m) /\ Len(y.heard) = 1
    BY <1>1 DEF NoThread
  <2>4. y.requester = Sender(s) /\ y.requester \in Parents /\ NoThread.step = "none"
    BY <1>1 DEF NoThread
  <2>5. thread' = [thread EXCEPT ![t] = y]
    BY <2>1
  <2> HIDE DEF y
  <2>6. Advances(thread[t], y, m, Sender(s))
    BY <2>1, <2>2, <2>3, <2>4 DEF Advances, Coherent
  <2>7. u # t
    BY <2>1, ConciergeAssumption
  <2> QED
    BY <2>1, <2>2, <2>5, <2>6, <2>7 DEF Advanced, m
<1>9. CASE AnswerOrClarify(s)
  BY <1>9 DEF AnswerOrClarify, Answered
<1>10. CASE Reprompt(s) \/ ResumeEnded(s)
  <2>1. /\ u \in Threads /\ thread[u] \in ThreadRec /\ Coherent(thread[u])
        /\ thread[u].step \in {"confirm", "consent", "end"}
        /\ UNCHANGED thread /\ Ran(s, u, thread[u].step)
    BY <1>2, <1>3, <1>10 DEF Reprompt, ResumeEnded, Resumed, store
  <2>2. thread' = [thread EXCEPT ![u] = thread[u]]
    BY <1>1, <2>1
  <2>3. Advances(thread[u], thread[u], m, Sender(s))
    BY <2>1 DEF Advances, NoThread
  <2> QED
    BY <1>5, <2>1, <2>2, <2>3
<1>11. CASE InitiatorError(s)
  <2>1. u \in Threads /\ thread[u].step = "confirm" /\ Ran(s, u, "end")
    BY <1>11 DEF InitiatorError, Resumed
  <2>2. EndThread(u, "Expired") \/ (thread[u].status # "Draft" /\ EndThread(u, thread[u].status))
    BY <1>11 DEF InitiatorError
  <2>3. thread[u].status \in Statuses
    BY <1>1, <2>1 DEF ThreadRec
  <2> HIDE DEF u
  <2> QED
    BY <1>4, <1>6, <2>1, <2>2, <2>3
<1>12. CASE InitiatorDecides(s)
  <2>1. u \in Threads /\ thread[u].step = "confirm"
    BY <1>12 DEF InitiatorDecides, Resumed
  <2>2. \/ Decide(s, u, "end", "Rejected") /\ Ran(s, u, "end")
        \/ Decide(s, u, "consent", "Pending") /\ Ran(s, u, "consent")
    BY <1>12 DEF InitiatorDecides
  <2> HIDE DEF u
  <2> QED
    BY <1>4, <1>7, <2>1, <2>2
<1>13. CASE CounterpartyError(s)
  <2>1. u \in Threads /\ thread[u].step = "consent" /\ Ran(s, u, "end")
    BY <1>13 DEF CounterpartyError, Resumed
  <2>2. EndThread(u, "Expired") \/ EndThread(u, thread[u].status)
    BY <1>13 DEF CounterpartyError
  <2>3. thread[u].status \in Statuses /\ thread[u].status # "Draft"
    BY <1>1, <1>2, <2>1 DEF ThreadRec, Coherent
  <2> HIDE DEF u
  <2> QED
    BY <1>4, <1>6, <2>1, <2>2, <2>3
<1>14. CASE CounterpartyDecides(s)
  <2>1. u \in Threads /\ thread[u].step = "consent" /\ Ran(s, u, "end")
    BY <1>14 DEF CounterpartyDecides, Resumed
  <2>2. \/ Decide(s, u, "end", "Rejected") \/ Decide(s, u, "end", "Approved")
        \/ EndThread(u, "Pending")
    BY <1>14 DEF CounterpartyDecides
  <2> HIDE DEF u
  <2> QED
    BY <1>4, <1>6, <1>7, <2>1, <2>2
<1> QED
  BY <1>8, <1>9, <1>10, <1>11, <1>12, <1>13, <1>14 DEF Graph

------------------------------------------------------------------------------
(* What one step does to the conversations and to the calls in flight.     *)

AllCoherent == \A t \in Threads : Coherent(thread[t])

\* Nobody but the graph moves a conversation on; a status may change.
ThreadsKept ==
  \A t \in Threads : /\ thread'[t].step = thread[t].step
                     /\ thread'[t].requester = thread[t].requester
                     /\ thread'[t].heard = thread[t].heard
                     /\ Coherent(thread'[t])

GraphStep(s, t, y) == /\ At(s, "run")
                      /\ UNCHANGED <<text, blocked, due, crossed, claimed, registry>>
                      /\ Advanced(s, t, y)

\* A record that is open has been drafted, and another status than Draft
\* leaves it coherent.
LEMMA StatusCoherent ==
  ASSUME NEW x \in ThreadRec, Coherent(x), x.status # "Absent",
         NEW v \in Statuses \ {"Draft"}, NEW y, y = [x EXCEPT !.status = v]
  PROVE  y.step = x.step /\ y.requester = x.requester /\ y.heard = x.heard /\ Coherent(y)
<1>1. /\ y.step = x.step /\ y.requester = x.requester
      /\ y.heard = x.heard /\ y.status = v
  BY DEF ThreadRec
<1>2. x.step # "none"
  BY DEF Coherent, NoThread
<1> QED
  BY <1>1, <1>2 DEF Coherent

LEMMA ThreadStep ==
  ASSUME Typed, AllCoherent, [Next]_vars
  PROVE  \/ ThreadsKept
         \/ \E s \in Sessions, t \in Threads : \E y \in ThreadRec : GraphStep(s, t, y)
<1>0. TypeOK /\ thread \in [Threads -> ThreadRec]
  BY TypeShape DEF Typed
<1>1. UNCHANGED thread => ThreadsKept
  BY DEF ThreadsKept, AllCoherent
<1>2. CASE WebDecide
  <2>1. PICK t \in Threads, v \in {"Approved", "Rejected", "Expired"} :
          thread[t].status = "Pending" /\ thread' = [thread EXCEPT ![t].status = v]
    BY <1>2 DEF WebDecide
  <2>2. \A u \in Threads : u # t => thread'[u] = thread[u]
    BY <1>0, <2>1
  <2>3. thread'[t] = [thread[t] EXCEPT !.status = v]
    BY <1>0, <2>1
  <2>4. v \in Statuses \ {"Draft"} /\ thread[t].status # "Absent"
    BY <2>1 DEF Statuses
  <2>5. Coherent(thread[t]) /\ thread[t] \in ThreadRec
    BY <1>0 DEF AllCoherent
  <2> DEFINE x == thread[t]
             y == thread'[t]
  <2>6. y.step = x.step /\ y.requester = x.requester /\ y.heard = x.heard /\ Coherent(y)
    <3> HIDE DEF x, y
    <3>1. y = [x EXCEPT !.status = v] /\ Coherent(x) /\ x \in ThreadRec /\ x.status # "Absent"
      BY <2>3, <2>4, <2>5 DEF x, y
    <3> QED
      BY <2>4, <3>1, StatusCoherent
  <2> QED
    BY <2>2, <2>6 DEF ThreadsKept, AllCoherent
<1>3. ASSUME NEW s \in Sessions, StopWithdraw(s) PROVE ThreadsKept
  <2> DEFINE open == {t \in Threads : /\ thread[t].requester = Sender(s)
                                     /\ thread[t].status \in Open
                                     /\ t \notin ses[s].late}
  <2>1. thread' = [t \in Threads |-> IF t \in open
                     THEN [thread[t] EXCEPT !.status = "Rejected"] ELSE thread[t]]
    BY <1>3 DEF StopWithdraw
  <2>2. \A t \in open : t \in Threads /\ thread[t].status # "Absent"
    BY DEF Open
  <2> HIDE DEF open
  <2>3. ASSUME NEW t \in Threads
        PROVE  /\ thread'[t].step = thread[t].step
               /\ thread'[t].requester = thread[t].requester
               /\ thread'[t].heard = thread[t].heard
               /\ Coherent(thread'[t])
    <3>1. CASE t \notin open
      BY <2>1, <3>1 DEF AllCoherent
    <3>2. CASE t \in open
      <4> DEFINE x == thread[t]
                 y == thread'[t]
      <4>1. y = [x EXCEPT !.status = "Rejected"]
        BY <2>1, <3>2
      <4>2. Coherent(x) /\ x \in ThreadRec /\ x.status # "Absent"
        BY <1>0, <2>2, <3>2 DEF AllCoherent
      <4>3. "Rejected" \in Statuses \ {"Draft"}
        BY DEF Statuses
      <4> HIDE DEF x, y
      <4>4. y.step = x.step /\ y.requester = x.requester /\ y.heard = x.heard /\ Coherent(y)
        BY <4>1, <4>2, <4>3, StatusCoherent
      <4> QED
        BY <4>4 DEF x, y
    <3> QED
      BY <3>1, <3>2
  <2> QED
    BY <2>3 DEF ThreadsKept
<1>4. ASSUME NEW s \in Sessions,
             Receive(s) \/ StopTearDown(s) \/ StopOptOut(s) \/ OptIn(s) \/ ReplyOnly(s)
               \/ Route(s) \/ Settle(s)
      PROVE  UNCHANGED thread
  BY <1>4 DEF Receive, StopTearDown, StopOptOut, OptIn, ReplyOnly, Route, Settle, store
<1>5. SendText \/ Expire \/ Restart \/ UNCHANGED vars => UNCHANGED thread
  BY DEF SendText, Expire, Restart, store, vars
<1>6. ASSUME NEW s \in Sessions, Graph(s)
      PROVE  ThreadsKept \/ \E t \in Threads : \E y \in ThreadRec : GraphStep(s, t, y)
  <2>1. Answered(s) \/ \E t \in Threads : \E y \in ThreadRec : Advanced(s, t, y)
    BY <1>0, <1>6, GraphRuns DEF AllCoherent
  <2>2. At(s, "run") /\ UNCHANGED <<text, blocked, due, crossed, claimed, registry>>
    BY <1>6, GraphFrame
  <2> QED
    BY <1>1, <2>1, <2>2 DEF GraphStep, Answered
<1> QED
  BY <1>1, <1>2, <1>3, <1>4, <1>5, <1>6 DEF Next, OrderlyNext, Gate

\* A call goes on with the text it has, or it is over.
Keeps(x, y) == \/ y.pc = "idle"
               \/ /\ x.pc # "idle" /\ y.text = x.text
                  /\ y.pc \in {"gate", "run"} => x.pc \in {"gate", "run"}

LEMMA SessionStep ==
  ASSUME TypeOK, [Next]_vars
  PROVE  (\E s \in Sessions : Receive(s)) \/ \A u \in Sessions : Keeps(ses[u], ses'[u])
<1>0. ses \in [Sessions -> SessionRec]
  BY TypeShape
<1>1. UNCHANGED ses => \A u \in Sessions : Keeps(ses[u], ses'[u])
  BY DEF Keeps
<1>2. ASSUME NEW s \in Sessions, NEW y, Update(s, y), Keeps(ses[s], y)
      PROVE  \A u \in Sessions : Keeps(ses[u], ses'[u])
  <2>1. ses'[s] = y /\ \A u \in Sessions : u # s => ses'[u] = ses[u]
    BY <1>0, <1>2 DEF Update
  <2>2. \A u \in Sessions : Keeps(ses[u], ses[u])
    BY DEF Keeps
  <2> QED
    BY <1>2, <2>1, <2>2
<1>3. ASSUME NEW s \in Sessions, Update(s, Idle)
      PROVE  \A u \in Sessions : Keeps(ses[u], ses'[u])
  BY <1>2, <1>3 DEF Keeps, Idle
<1>4. ASSUME NEW s \in Sessions, NEW l \in {"withdraw", "optout"}, ses[s].pc # "idle",
             Update(s, [ses[s] EXCEPT !.pc = l])
      PROVE  \A u \in Sessions : Keeps(ses[u], ses'[u])
  <2> DEFINE y == [ses[s] EXCEPT !.pc = l]
  <2>1. Keeps(ses[s], y)
    BY <1>0, <1>4 DEF Keeps, SessionRec
  <2> HIDE DEF y
  <2> QED
    BY <1>2, <1>4, <2>1 DEF y
<1>5. ASSUME NEW s \in Sessions, NEW t, NEW pause, At(s, "run"), Ran(s, t, pause)
      PROVE  \A u \in Sessions : Keeps(ses[u], ses'[u])
  <2> DEFINE y == [ses[s] EXCEPT !.pc = "settle", !.thread = t, !.pause = pause]
  <2>1. Keeps(ses[s], y)
    BY <1>0, <1>5 DEF Keeps, SessionRec, At
  <2> HIDE DEF y
  <2> QED
    BY <1>2, <1>5, <2>1 DEF y, Ran
<1>6. ASSUME NEW s \in Sessions, Graph(s)
      PROVE  \A u \in Sessions : Keeps(ses[u], ses'[u])
  <2>1. At(s, "run") /\ \E t, pause : Ran(s, t, pause)
    BY <1>6, GraphFrame DEF Graph, StartDraft, AnswerOrClarify, Reprompt, InitiatorError,
         InitiatorDecides, CounterpartyError, CounterpartyDecides, ResumeEnded
  <2> QED
    BY <1>5, <2>1
<1>7. ASSUME NEW s \in Sessions, StopOptOut(s) \/ OptIn(s) \/ ReplyOnly(s) \/ Settle(s)
      PROVE  \A u \in Sessions : Keeps(ses[u], ses'[u])
  BY <1>3, <1>7 DEF StopOptOut, OptIn, ReplyOnly, Settle
<1>8. ASSUME NEW s \in Sessions, StopTearDown(s) \/ StopWithdraw(s)
      PROVE  \A u \in Sessions : Keeps(ses[u], ses'[u])
  BY <1>4, <1>8 DEF StopTearDown, StopWithdraw, At
<1>9. ASSUME NEW s \in Sessions, Route(s)
      PROVE  \A u \in Sessions : Keeps(ses[u], ses'[u])
  <2> DEFINE y == [ses[s] EXCEPT !.pc = "run", !.thread = registry[Sender(s)]]
  <2>1. Keeps(ses[s], y)
    BY <1>0, <1>9 DEF Keeps, SessionRec, At, Route
  <2> HIDE DEF y
  <2> QED
    BY <1>2, <1>9, <2>1 DEF y, Route
<1>10. Restart => \A u \in Sessions : Keeps(ses[u], ses'[u])
  BY DEF Restart, Keeps, Idle
<1>11. SendText \/ Expire \/ WebDecide \/ UNCHANGED vars => UNCHANGED ses
  BY DEF SendText, Expire, WebDecide, vars
<1> QED
  BY <1>1, <1>6, <1>7, <1>8, <1>9, <1>10, <1>11 DEF Next, OrderlyNext, Gate

LEMMA ClaimedGrows == ASSUME [Next]_vars PROVE claimed \subseteq claimed'
<1>1. ASSUME NEW s \in Sessions, Gate(s) PROVE claimed \subseteq claimed'
  BY <1>1 DEF Gate, Receive, Claim, StopTearDown, StopWithdraw, StopOptOut, OptIn,
              ReplyOnly, Route, store
<1>2. ASSUME NEW s \in Sessions, Graph(s) \/ Settle(s) PROVE UNCHANGED claimed
  BY <1>2, GraphFrame DEF Settle
<1>3. SendText \/ Expire \/ WebDecide \/ Restart \/ UNCHANGED vars => UNCHANGED claimed
  BY DEF SendText, Expire, WebDecide, Restart, store, vars
<1> QED
  BY <1>1, <1>2, <1>3 DEF Next, OrderlyNext

------------------------------------------------------------------------------
(* One text, one effect, for any interleaving of the calls and any crash.  *)

\* What a conversation has heard was claimed.
HeardClaimed ==
  \A t \in Threads : \A i \in DOMAIN thread[t].heard : thread[t].heard[i] \in claimed

\* The text of session s has not been heard yet.
Fresh(s) ==
  \A t \in Threads : \A i \in DOMAIN thread[t].heard : thread[t].heard[i] # ses[s].text

\* No two calls handle one text, and before its run of the graph the text of a
\* call is in no conversation.
DistinctTexts ==
  \A s, u \in Sessions :
    ses[s].pc # "idle" /\ ses[u].pc # "idle" /\ ses[s].text = ses[u].text => s = u
FreshTexts == \A s \in Sessions : ses[s].pc \in {"gate", "run"} => Fresh(s)

Stores == AllCoherent /\ HeardClaimed /\ DistinctTexts /\ FreshTexts /\ OneTextOneEffect

LEMMA AppendShape ==
  ASSUME NEW h \in Seq(Texts), NEW m \in Texts, NEW g, g = h \/ g = Append(h, m)
  PROVE  \A i \in DOMAIN g :
           \/ i \in DOMAIN h /\ g[i] = h[i]
           \/ g = Append(h, m) /\ i = Len(h) + 1 /\ i \notin DOMAIN h /\ g[i] = m
<1>1. CASE g = h
  BY <1>1
<1>2. CASE g = Append(h, m)
  <2>1. /\ DOMAIN g = 1 .. Len(h) + 1 /\ DOMAIN h = 1 .. Len(h) /\ Len(h) \in Nat
        /\ g[Len(h) + 1] = m
    BY <1>2
  <2>2. \A i \in 1 .. Len(h) : g[i] = h[i]
    BY <1>2
  <2>3. \A i \in 1 .. Len(h) + 1 : i \in 1 .. Len(h) \/ (i = Len(h) + 1 /\ i \notin 1 .. Len(h))
    BY <2>1
  <2> QED
    BY <1>2, <2>1, <2>2, <2>3, Zenon
<1> QED
  BY <1>1, <1>2

LEMMA InitStores == Init => Stores
<1> SUFFICES ASSUME Init PROVE Stores
  OBVIOUS
<1>1. \A t \in Threads : thread[t] = NoThread
  BY DEF Init
<1>2. NoThread.step = "none" /\ NoThread.status = "Absent" /\ DOMAIN NoThread.heard = {}
  BY DEF NoThread
<1>3. \A s \in Sessions : ses[s].pc = "idle"
  BY DEF Init, Idle
<1>4. AllCoherent
  BY <1>1, <1>2 DEF AllCoherent, Coherent
<1>5. HeardClaimed /\ OneTextOneEffect
  BY <1>1, <1>2 DEF HeardClaimed, OneTextOneEffect
<1>6. DistinctTexts /\ FreshTexts
  BY <1>3 DEF DistinctTexts, FreshTexts
<1> QED
  BY <1>4, <1>5, <1>6 DEF Stores

\* A run of the graph: one record changes, and by at most its own text.
LEMMA AdvanceHeard ==
  ASSUME Typed, NEW s \in Sessions, NEW t \in Threads, NEW y \in ThreadRec, GraphStep(s, t, y)
  PROVE  /\ \A u \in Threads : u # t => thread'[u] = thread[u]
         /\ thread'[t] = y
         /\ thread[t].heard \in Seq(Texts) /\ ses[s].text \in Texts /\ ses[s].text \in claimed
         /\ \A i \in DOMAIN y.heard :
              \/ i \in DOMAIN thread[t].heard /\ y.heard[i] = thread[t].heard[i]
              \/ /\ y.heard = Append(thread[t].heard, ses[s].text)
                 /\ i = Len(thread[t].heard) + 1 /\ i \notin DOMAIN thread[t].heard
                 /\ y.heard[i] = ses[s].text
<1>1. TypeOK /\ thread \in [Threads -> ThreadRec] /\ ses[s].pc # "idle"
  BY TypeShape DEF Typed, GraphStep, At
<1>2. ses[s].text \in Texts /\ ses[s].text \in claimed /\ thread[t].heard \in Seq(Texts)
  BY <1>1, CallHasText DEF ThreadRec
<1>3. thread' = [thread EXCEPT ![t] = y]
  BY DEF GraphStep, Advanced
<1>4. y.heard = thread[t].heard \/ y.heard = Append(thread[t].heard, ses[s].text)
  BY DEF GraphStep, Advanced, Advances
<1>5. (\A u \in Threads : u # t => thread'[u] = thread[u]) /\ thread'[t] = y
  BY <1>1, <1>3
<1> DEFINE h == thread[t].heard
           g == y.heard
           m == ses[s].text
<1> HIDE DEF h, g, m
<1>6. \A i \in DOMAIN g :
        \/ i \in DOMAIN h /\ g[i] = h[i]
        \/ g = Append(h, m) /\ i = Len(h) + 1 /\ i \notin DOMAIN h /\ g[i] = m
  BY <1>2, <1>4, AppendShape DEF h, g, m
<1> QED
  BY <1>2, <1>5, <1>6 DEF h, g, m

LEMMA SettledAfterRun ==
  ASSUME TypeOK, NEW s \in Sessions, NEW t, NEW pause, Ran(s, t, pause)
  PROVE  /\ \A u \in Sessions : u # s => ses'[u] = ses[u]
         /\ ses'[s].pc = "settle" /\ ses'[s].text = ses[s].text
         /\ ses'[s].thread = t /\ ses'[s].pause = pause
<1>1. ses \in [Sessions -> SessionRec] /\ ses[s] \in SessionRec
  BY TypeShape
<1> DEFINE y == [ses[s] EXCEPT !.pc = "settle", !.thread = t, !.pause = pause]
<1>2. y.pc = "settle" /\ y.text = ses[s].text /\ y.thread = t /\ y.pause = pause
  BY <1>1 DEF SessionRec
<1>3. ses' = [ses EXCEPT ![s] = y]
  BY DEF Ran, Update
<1> HIDE DEF y
<1> QED
  BY <1>1, <1>2, <1>3

LEMMA KeptStores == ASSUME Typed, Stores, [Next]_vars, ThreadsKept PROVE Stores'
<1>1. AllCoherent'
  BY DEF ThreadsKept, AllCoherent
<1>2. HeardClaimed'
  BY ClaimedGrows DEF Stores, ThreadsKept, HeardClaimed
<1>3. OneTextOneEffect'
  BY DEF Stores, ThreadsKept, OneTextOneEffect
<1>4. CASE \A u \in Sessions : Keeps(ses[u], ses'[u])
  <2>1. DistinctTexts'
    BY <1>4 DEF Stores, DistinctTexts, Keeps
  <2>2. FreshTexts'
    BY <1>4 DEF Stores, FreshTexts, Fresh, ThreadsKept, Keeps
  <2> QED
    BY <1>1, <1>2, <1>3, <2>1, <2>2 DEF Stores
<1>5. CASE \E s \in Sessions : Receive(s)
  <2>1. PICK s \in Sessions, m \in Texts :
          /\ m \notin claimed
          /\ ses' = [ses EXCEPT ![s] = [Idle EXCEPT !.pc = "gate", !.text = m, !.late = due]]
    BY <1>5 DEF Receive, Claim, Update
  <2>2. /\ ses'[s].text = m
        /\ \A u \in Sessions : u # s => ses'[u] = ses[u]
    BY <2>1, TypeShape DEF Typed, Idle
  <2>3. \A u \in Sessions : ses[u].pc # "idle" => ses[u].text # m
    BY <2>1, CallHasText DEF Typed
  <2>4. DistinctTexts'
    BY <2>2, <2>3 DEF Stores, DistinctTexts
  <2>5. FreshTexts'
    BY <2>1, <2>2 DEF Stores, FreshTexts, Fresh, ThreadsKept, HeardClaimed
  <2> QED
    BY <1>1, <1>2, <1>3, <2>4, <2>5 DEF Stores
<1> QED
  BY <1>4, <1>5, SessionStep DEF Typed

LEMMA AdvancedStores ==
  ASSUME Typed, Stores, [Next]_vars, NEW s \in Sessions, NEW t \in Threads,
         NEW y \in ThreadRec, GraphStep(s, t, y)
  PROVE  Stores'
<1> DEFINE m == ses[s].text
<1>1. /\ \A u \in Threads : u # t => thread'[u] = thread[u]
      /\ thread'[t] = y /\ m \in claimed
      /\ \A i \in DOMAIN y.heard :
           \/ i \in DOMAIN thread[t].heard /\ y.heard[i] = thread[t].heard[i]
           \/ i = Len(thread[t].heard) + 1 /\ y.heard[i] = m
  BY AdvanceHeard
<1>2. \A u \in Threads : \A i \in DOMAIN thread[u].heard : thread[u].heard[i] # m
  BY DEF Stores, FreshTexts, Fresh, GraphStep, At
<1>3. UNCHANGED claimed
  BY DEF GraphStep
<1>4. /\ \A u \in Sessions : u # s => ses'[u] = ses[u]
      /\ ses'[s].pc = "settle" /\ ses'[s].text = m
  BY SettledAfterRun DEF Typed, GraphStep, Advanced
<1>5. \A u \in Sessions : u # s /\ ses[u].pc # "idle" => ses[u].text # m
  BY DEF GraphStep, At, Stores, DistinctTexts
<1> HIDE DEF m
<1>6. AllCoherent'
  <2>1. Coherent(y)
    BY DEF GraphStep, Advanced, Advances
  <2> QED
    BY <1>1, <2>1 DEF Stores, AllCoherent
<1>7. HeardClaimed'
  BY <1>1, <1>3 DEF Stores, HeardClaimed
<1>8. DistinctTexts'
  BY <1>4, <1>5 DEF Stores, DistinctTexts
<1>9. FreshTexts'
  BY <1>1, <1>4, <1>5 DEF Stores, FreshTexts, Fresh
<1>10. OneTextOneEffect'
  <2> DEFINE Old(u, i) == i \in DOMAIN thread[u].heard /\ thread'[u].heard[i] = thread[u].heard[i]
             New(u, i) == u = t /\ i = Len(thread[t].heard) + 1 /\ thread'[u].heard[i] = m
  <2>1. \A u \in Threads : \A i \in DOMAIN thread'[u].heard : Old(u, i) \/ New(u, i)
    BY <1>1
  <2>2. ASSUME NEW u \in Threads, NEW v \in Threads, NEW i \in DOMAIN thread'[u].heard,
               NEW j \in DOMAIN thread'[v].heard, thread'[u].heard[i] = thread'[v].heard[j]
        PROVE  u = v /\ i = j
    <3>1. CASE Old(u, i) /\ Old(v, j)
      <4>1. /\ i \in DOMAIN thread[u].heard /\ j \in DOMAIN thread[v].heard
            /\ thread[u].heard[i] = thread[v].heard[j]
        BY <2>2, <3>1
      <4> QED
        BY <4>1 DEF Stores, OneTextOneEffect
    <3>2. CASE New(u, i) /\ New(v, j)
      BY <3>2
    <3>3. CASE Old(u, i) /\ New(v, j)
      BY <1>2, <2>2, <3>3
    <3>4. CASE New(u, i) /\ Old(v, j)
      BY <1>2, <2>2, <3>4
    <3> QED
      BY <2>1, <3>1, <3>2, <3>3, <3>4
  <2> QED
    BY <2>2 DEF OneTextOneEffect
<1> QED
  BY <1>6, <1>7, <1>8, <1>9, <1>10 DEF Stores

LEMMA StoresStep == ASSUME Typed, Stores, [Next]_vars PROVE Stores'
<1>1. AllCoherent
  BY DEF Stores
<1> QED
  BY <1>1, ThreadStep, KeptStores, AdvancedStores

(* The inductive invariant of the stores, for any number of calls at once. *)
THEOREM StoresHold == Spec => [](Typed /\ Stores)
<1>1. Init => Typed /\ Stores
  BY InitTyped, InitStores DEF Init, Typed, Sent
<1>2. Typed /\ Stores /\ [Next]_vars => (Typed /\ Stores)'
  BY TypeStep, SentStep, StoresStep DEF Typed
<1> QED
  BY <1>1, <1>2, PTL DEF Spec

(* A text a parent sent takes effect at most once, whatever is delivered   *)
(* twice or late, whichever calls run at once and wherever one dies.       *)
THEOREM EachTextCountsOnce == Spec => []OneTextOneEffect
<1>1. Stores => OneTextOneEffect
  BY DEF Stores
<1> QED
  BY <1>1, StoresHold, PTL

(* No conversation ends and leaves its override in Draft.                  *)
THEOREM NoDraftLeftBehind == Spec => []NoDeadDraft
<1>1. Stores => NoDeadDraft
  BY DEF Stores, AllCoherent, Coherent, NoDeadDraft
<1> QED
  BY <1>1, StoresHold, PTL

------------------------------------------------------------------------------
(* Routing and authorship, for any number of calls and any crash, of the   *)
(* parents whose texts have not crossed.                                   *)

LEMMA TheOther ==
  ASSUME NEW p \in Parents
  PROVE  /\ Other(p) \in Parents /\ Other(p) # p
         /\ \A q \in Parents : q = p \/ q = Other(p)
<1>1. \E q \in Parents : q # p
  BY ConciergeAssumption
<1>2. Other(p) \in Parents /\ Other(p) # p
  BY <1>1 DEF Other
<1> QED
  BY <1>2, ConciergeAssumption

\* A sent text stays as it was sent.
LEMMA TextKept ==
  ASSUME TypeOK, [Next]_vars, NEW m \in Texts, text[m].from \in Parents
  PROVE  text'[m] = text[m]
<1>1. CASE SendText
  <2>1. PICK n \in Texts, p \in Parents, w \in Words :
          /\ text[n] = NoText
          /\ text' = [text EXCEPT ![n] = [from |-> p, word |-> w, about |-> prompt[p]]]
    BY <1>1 DEF SendText
  <2>2. n # m
    BY <2>1, ConciergeAssumption DEF NoText
  <2>3. text \in [Texts -> [from : Parents \cup {None}, word : Vocabulary, about : Prompts]]
    BY DEF TypeOK
  <2> QED
    BY <2>1, <2>2, <2>3
<1>2. ASSUME NEW s \in Sessions, Gate(s) PROVE UNCHANGED text
  BY <1>2 DEF Gate, Receive, StopTearDown, StopWithdraw, StopOptOut, OptIn, ReplyOnly, Route, world
<1>3. ASSUME NEW s \in Sessions, Graph(s) PROVE UNCHANGED text
  BY <1>3, GraphFrame
<1>4. Expire \/ WebDecide \/ Restart \/ (\E s \in Sessions : Settle(s)) \/ UNCHANGED vars
        => UNCHANGED text
  BY DEF Expire, WebDecide, Restart, Settle, world, vars
<1> QED
  BY <1>1, <1>2, <1>3, <1>4 DEF Next, OrderlyNext

\* Texts that crossed stay crossed.
LEMMA CrossedGrows == ASSUME [Next]_vars PROVE crossed \subseteq crossed'
<1>1. ASSUME NEW s \in Sessions, Gate(s) PROVE crossed \subseteq crossed'
  BY <1>1 DEF Gate, Receive, StopTearDown, StopWithdraw, StopOptOut, OptIn,
              ReplyOnly, Route, world
<1>2. ASSUME NEW s \in Sessions, Graph(s) \/ Settle(s) PROVE UNCHANGED crossed
  BY <1>2, GraphFrame DEF Settle, world
<1>3. SendText \/ Expire \/ WebDecide \/ UNCHANGED vars => UNCHANGED crossed
  BY DEF SendText, Expire, WebDecide, world, vars
<1>4. Restart => crossed \subseteq crossed'
  BY DEF Restart
<1> QED
  BY <1>1, <1>2, <1>3, <1>4 DEF Next, OrderlyNext

\* A call that goes on keeps its sender.
LEMMA SenderKept ==
  ASSUME TypeOK, [Next]_vars, NEW s \in Sessions, ses[s].pc # "idle",
         ses'[s].text = ses[s].text
  PROVE  Sender(s)' = Sender(s)
<1>1. ses[s].text \in Texts /\ text[ses[s].text].from \in Parents
  BY CallHasText DEF Sender
<1> QED
  BY <1>1, TextKept DEF Sender

\* The conversation t has begun, and before its requester has confirmed it only
\* the requester's phone leads to it.
Leads(p, t) == /\ thread[t].step # "none"
               /\ p = Requester(t) \/ thread[t].step \in {"consent", "end"}

Clear(p, t) == p \notin crossed /\ Requester(t) \notin crossed

Linked ==
  /\ \A p \in Parents : registry[p] # None => Leads(p, registry[p])
  /\ \A s \in Sessions :
       At(s, "run") /\ ses[s].thread # None => Leads(Sender(s), ses[s].thread)

\* The graph has run: what the pause it reported says of its conversation.
Paused(s) ==
  LET t == ses[s].thread IN
  /\ ses[s].pause \in {"confirm", "consent", "end"}
  /\ t = None => ses[s].pause = "end"
  /\ t # None => /\ thread[t].step # "none"
                 /\ ses[s].pause = "confirm" => Sender(s) = Requester(t)
                 /\ ses[s].pause = "consent" => thread[t].step \in {"consent", "end"}
                 /\ ses[s].pause = "end" => thread[t].step = "end"
AllPaused == \A s \in Sessions : At(s, "settle") => Paused(s)

\* Two calls of one parent: its texts have crossed.
Single == \A s, u \in Sessions :
            /\ s # u /\ ses[s].pc # "idle" /\ ses[u].pc # "idle"
            /\ Sender(s) = Sender(u)
            => Sender(s) \in crossed

\* The conversation a call is about to resume waits for the call's sender.
RunsAwaited ==
  \A s \in Sessions :
    At(s, "run") /\ ses[s].thread # None /\ Clear(Sender(s), ses[s].thread)
      => Awaits(ses[s].thread, Sender(s))

\* The conversation is still at the pause that is about to be registered.
PauseStands ==
  \A s \in Sessions :
    At(s, "settle") /\ ses[s].thread # None /\ Clear(Sender(s), ses[s].thread)
      => thread[ses[s].thread].step = ses[s].pause

\* Until the requester's YES is registered nobody else can reach the
\* conversation it has moved on.
Alone ==
  \A s \in Sessions :
    /\ At(s, "settle") /\ ses[s].thread # None /\ ses[s].pause = "consent"
    /\ Sender(s) = Requester(ses[s].thread) /\ Sender(s) \notin crossed
    => /\ registry[Other(Sender(s))] # ses[s].thread
       /\ \A u \in Sessions : u # s /\ ses[u].pc \in {"run", "settle"}
                                => ses[u].thread # ses[s].thread

Routing == /\ Linked /\ AllPaused /\ Single
           /\ RoutedToAwaited /\ RunsAwaited /\ PauseStands /\ Alone

LEMMA InitRouting == Init => Routing
<1> SUFFICES ASSUME Init PROVE Routing
  OBVIOUS
<1>1. (\A s \in Sessions : ses[s].pc = "idle") /\ \A p \in Parents : registry[p] = None
  BY DEF Init, Idle
<1> QED
  BY <1>1 DEF Routing, Linked, AllPaused, Single, RoutedToAwaited, RunsAwaited,
              PauseStands, Alone, At

LEMMA SingleStep == ASSUME Typed, Single, [Next]_vars PROVE Single'
<1>0. TypeOK
  BY DEF Typed
<1>1. CASE \A u \in Sessions : Keeps(ses[u], ses'[u])
  <2>1. \A u \in Sessions : ses'[u].pc # "idle" =>
          ses[u].pc # "idle" /\ Sender(u)' = Sender(u)
    BY <1>0, <1>1, SenderKept DEF Keeps
  <2> QED
    BY <2>1, CrossedGrows DEF Single
<1>2. CASE \E s \in Sessions : Receive(s)
  <2>1. PICK s \in Sessions, m \in Texts :
          /\ At(s, "idle")
          /\ Update(s, [Idle EXCEPT !.pc = "gate", !.text = m, !.late = due])
          /\ crossed' = crossed \cup {p \in {text[m].from} : InFlight(p)}
          /\ UNCHANGED text
    BY <1>2 DEF Receive
  <2>2. ses'[s].text = m /\ \A u \in Sessions : u # s => ses'[u] = ses[u]
    BY <1>0, <2>1, TypeShape DEF Update, Idle
  <2>3. Sender(s)' = text[m].from /\ \A u \in Sessions : u # s => Sender(u)' = Sender(u)
    BY <2>1, <2>2 DEF Sender
  <2>4. \A u \in Sessions : u # s /\ ses[u].pc # "idle" /\ Sender(u) = text[m].from
                              => text[m].from \in crossed'
    BY <2>1 DEF InFlight, At
  <2> QED
    BY <2>1, <2>2, <2>3, <2>4 DEF Single
<1> QED
  BY <1>0, <1>1, <1>2, SessionStep

(* A step that starts no run of the graph and ends none, except by a crash,*)
(* and takes phones off the registry if it touches it at all.              *)
Tame == /\ ThreadsKept
        /\ \A u \in Sessions : ses'[u] = ses[u] \/ ses'[u].pc \notin {"run", "settle"}
        /\ \A p \in Parents : registry'[p] \in {registry[p], None}
        /\ \A u \in Sessions : At(u, "settle") => ses'[u] = ses[u] \/ Sender(u) \in crossed'

LEMMA TameStep ==
  ASSUME Typed, Stores, Routing, [Next]_vars, Tame
  PROVE  Routing'
<1>0. /\ TypeOK /\ ses \in [Sessions -> SessionRec]
      /\ registry \in [Parents -> Threads \cup {None}]
  BY TypeShape DEF Typed
<1>1. Single'
  BY SingleStep DEF Routing
<1>2. \A t \in Threads : /\ thread'[t].step = thread[t].step
                         /\ Requester(t)' = Requester(t) /\ Counterparty(t)' = Counterparty(t)
  BY DEF Tame, ThreadsKept, Requester, Counterparty
<1>3. \A u \in Sessions : ses'[u].pc \in {"run", "settle"} =>
        /\ ses'[u] = ses[u] /\ ses[u].thread \in Threads \cup {None}
        /\ Sender(u)' = Sender(u) /\ Sender(u) \in Parents
  BY <1>0, SenderKept, CallHasText DEF Tame, SessionRec
<1>4. crossed \subseteq crossed'
  BY CrossedGrows
<1>5. \A p \in Parents : registry'[p] # None => registry'[p] = registry[p] /\ registry[p] \in Threads
  BY <1>0 DEF Tame
<1>6. \A t \in Threads, p \in Parents :
        /\ Leads(p, t) => Leads(p, t)'
        /\ Clear(p, t)' => Clear(p, t)
        /\ Awaits(t, p) => Awaits(t, p)'
  BY <1>2, <1>4 DEF Leads, Clear, Awaits
<1>7. Linked'
  BY <1>3, <1>5, <1>6 DEF Routing, Linked, At
<1>8. AllPaused'
  BY <1>2, <1>3 DEF Routing, AllPaused, Paused, At
<1>9. RunsAwaited'
  BY <1>3, <1>6 DEF Routing, RunsAwaited, At
<1>10. PauseStands'
  BY <1>2, <1>3, <1>6 DEF Routing, PauseStands, At
<1>11. RoutedToAwaited'
  <2> SUFFICES ASSUME NEW p \in Parents, registry'[p] # None,
                      ({p, Requester(registry[p])} \cap crossed = {})',
                      \A s \in Sessions : ~(At(s, "settle")' /\ Sender(s)' = p)
               PROVE  Awaits(registry[p], p)'
    BY DEF RoutedToAwaited
  <2> DEFINE t == registry[p]
  <2>1. registry'[p] = t /\ t \in Threads
    BY <1>5
  <2>2. {p, Requester(t)} \cap crossed = {} /\ p \notin crossed'
    BY <1>2, <1>4, <2>1
  <2>3. ASSUME NEW s \in Sessions, At(s, "settle"), Sender(s) = p PROVE FALSE
    <3>1. ses'[s] = ses[s]
      BY <2>2, <2>3 DEF Tame
    <3>2. At(s, "settle")' /\ Sender(s)' = p
      BY <1>3, <2>3, <3>1 DEF At
    <3> QED
      BY <3>2
  <2>4. Awaits(t, p)
    BY <2>1, <2>2, <2>3, ConciergeAssumption DEF Routing, RoutedToAwaited
  <2> QED
    BY <1>6, <2>1, <2>4
<1>12. Alone'
  <2> SUFFICES ASSUME NEW s \in Sessions, ses'[s].pc = "settle", ses'[s].thread # None,
                      ses'[s].pause = "consent", Sender(s)' = Requester(ses[s].thread)',
                      Sender(s)' \notin crossed'
               PROVE  /\ registry'[Other(Sender(s)')] # ses'[s].thread
                      /\ \A u \in Sessions : u # s /\ ses'[u].pc \in {"run", "settle"}
                                               => ses'[u].thread # ses'[s].thread
    BY DEF Alone, At
  <2>1. /\ ses'[s] = ses[s] /\ Sender(s)' = Sender(s) /\ Sender(s) \in Parents
        /\ ses[s].thread \in Threads
    BY <1>3
  <2>2. /\ registry[Other(Sender(s))] # ses[s].thread
        /\ \A u \in Sessions : u # s /\ ses[u].pc \in {"run", "settle"}
                                 => ses[u].thread # ses[s].thread
    BY <1>2, <1>4, <2>1 DEF Routing, Alone, At
  <2>3. Other(Sender(s)) \in Parents
    BY <2>1, TheOther
  <2> QED
    BY <1>3, <1>5, <2>1, <2>2, <2>3
<1> QED
  BY <1>1, <1>7, <1>8, <1>9, <1>10, <1>11, <1>12 DEF Routing

\* The calls other than that of s stay where they are, and so do the senders.
LEMMA OneCallMoves ==
  ASSUME TypeOK, [Next]_vars, NEW s \in Sessions, ses[s].pc # "idle", NEW y,
         Update(s, y), y.text = ses[s].text
  PROVE  /\ ses'[s] = y /\ Sender(s)' = Sender(s) /\ Sender(s) \in Parents
         /\ \A u \in Sessions : u # s => ses'[u] = ses[u]
         /\ \A u \in Sessions : ses[u].pc # "idle" =>
              /\ Sender(u)' = Sender(u) /\ Sender(u) \in Parents
              /\ ses[u].thread \in Threads \cup {None}
<1>1. ses \in [Sessions -> SessionRec]
  BY TypeShape
<1>2. ses'[s] = y /\ \A u \in Sessions : u # s => ses'[u] = ses[u]
  BY <1>1 DEF Update
<1>3. \A u \in Sessions : ses[u].pc # "idle" => ses'[u].text = ses[u].text
  BY <1>2
<1>4. \A u \in Sessions : ses[u].pc # "idle" => Sender(u)' = Sender(u) /\ Sender(u) \in Parents
  BY <1>3, SenderKept, CallHasText
<1> QED
  BY <1>1, <1>2, <1>4 DEF SessionRec

LEMMA RouteRouted ==
  ASSUME Typed, Stores, Routing, [Next]_vars, NEW s \in Sessions, Route(s)
  PROVE  Routing'
<1>0. /\ TypeOK /\ ses[s].pc = "gate" /\ registry \in [Parents -> Threads \cup {None}]
      /\ UNCHANGED <<registry, thread, crossed>>
  BY TypeShape DEF Typed, Route, At, store, world
<1> DEFINE y == [ses[s] EXCEPT !.pc = "run", !.thread = registry[Sender(s)]]
<1>1. /\ y.pc = "run" /\ y.text = ses[s].text /\ y.thread = registry[Sender(s)]
      /\ Update(s, y)
  BY <1>0, TypeShape DEF Route, SessionRec
<1> HIDE DEF y
<1>2. /\ ses'[s] = y /\ Sender(s)' = Sender(s) /\ Sender(s) \in Parents
      /\ \A u \in Sessions : u # s => ses'[u] = ses[u]
      /\ \A u \in Sessions : ses[u].pc # "idle" =>
           /\ Sender(u)' = Sender(u) /\ Sender(u) \in Parents
           /\ ses[u].thread \in Threads \cup {None}
  BY <1>0, <1>1, OneCallMoves
<1>3. Single'
  BY SingleStep DEF Routing
<1>4. \A p, t : (Leads(p, t)' <=> Leads(p, t)) /\ (Clear(p, t)' <=> Clear(p, t))
                  /\ (Awaits(t, p)' <=> Awaits(t, p)) /\ Requester(t)' = Requester(t)
  BY <1>0 DEF Leads, Clear, Awaits, Requester, Counterparty
<1>5. \A u \in Sessions : ses'[u].pc = "settle" => u # s /\ ses'[u] = ses[u] /\ Sender(u)' = Sender(u)
  BY <1>1, <1>2
<1>6. Linked'
  BY <1>0, <1>1, <1>2, <1>4 DEF Routing, Linked, At
<1>7. AllPaused' /\ PauseStands'
  BY <1>0, <1>4, <1>5 DEF Routing, AllPaused, PauseStands, Paused, At
<1>8. RoutedToAwaited'
  BY <1>0, <1>2, <1>1, <1>4 DEF Routing, RoutedToAwaited, At
<1>9. ASSUME y.thread # None, Clear(Sender(s), y.thread) PROVE Awaits(y.thread, Sender(s))
  <2>1. \A u \in Sessions : ~(At(u, "settle") /\ Sender(u) = Sender(s))
    BY <1>0, <1>9 DEF Routing, Single, At, Clear
  <2> QED
    BY <1>1, <1>2, <1>9, <2>1 DEF Routing, RoutedToAwaited, Clear
<1>10. RunsAwaited'
  BY <1>1, <1>2, <1>4, <1>9 DEF Routing, RunsAwaited, At
<1>11. Alone'
  <2> SUFFICES ASSUME NEW u \in Sessions, ses'[u].pc = "settle", ses'[u].thread # None,
                      ses'[u].pause = "consent",
                      Sender(u)' = thread'[ses'[u].thread].requester,
                      Sender(u)' \notin crossed'
               PROVE  /\ registry'[Other(Sender(u)')] # ses'[u].thread
                      /\ \A v \in Sessions : v # u /\ ses'[v].pc \in {"run", "settle"}
                                               => ses'[v].thread # ses'[u].thread
    BY DEF Alone, At, Requester
  <2>1. u # s /\ ses'[u] = ses[u] /\ Sender(u)' = Sender(u) /\ ses[u].pc = "settle"
    BY <1>5
  <2>6. Sender(u) = Requester(ses[u].thread) /\ Sender(u) \notin crossed
    BY <1>0, <2>1 DEF Requester
  <2>2. /\ registry[Other(Sender(u))] # ses[u].thread
        /\ \A v \in Sessions : v # u /\ ses[v].pc \in {"run", "settle"}
                                 => ses[v].thread # ses[u].thread
    BY <2>1, <2>6 DEF Routing, Alone, At
  <2>3. Sender(s) # Sender(u)
    BY <1>0, <2>1 DEF Routing, Single
  <2>4. Sender(s) = Other(Sender(u))
    BY <1>0, <1>2, <2>1, <2>3, TheOther
  <2>5. y.thread # ses[u].thread
    BY <1>1, <2>2, <2>4
  <2> QED
    BY <1>0, <1>2, <2>1, <2>2, <2>5
<1> QED
  BY <1>3, <1>6, <1>7, <1>8, <1>10, <1>11 DEF Routing

LEMMA AnsweredRouted ==
  ASSUME Typed, Stores, Routing, [Next]_vars, NEW s \in Sessions, At(s, "run"), Answered(s),
         UNCHANGED <<text, crossed, registry>>
  PROVE  Routing'
<1>0. TypeOK /\ ses[s].pc = "run" /\ UNCHANGED thread
  BY DEF Typed, At, Answered
<1> DEFINE y == [ses[s] EXCEPT !.pc = "settle", !.thread = None, !.pause = "end"]
<1>1. /\ y.pc = "settle" /\ y.text = ses[s].text /\ y.thread = None /\ y.pause = "end"
      /\ Update(s, y)
  BY <1>0, TypeShape DEF Answered, Ran, SessionRec
<1> HIDE DEF y
<1>2. /\ ses'[s] = y /\ Sender(s)' = Sender(s) /\ Sender(s) \in Parents
      /\ \A u \in Sessions : u # s => ses'[u] = ses[u]
      /\ \A u \in Sessions : ses[u].pc # "idle" =>
           /\ Sender(u)' = Sender(u) /\ Sender(u) \in Parents
           /\ ses[u].thread \in Threads \cup {None}
  BY <1>0, <1>1, OneCallMoves
<1>3. Single'
  BY SingleStep DEF Routing
<1>4. \A p, t : (Leads(p, t)' <=> Leads(p, t)) /\ (Clear(p, t)' <=> Clear(p, t))
                  /\ (Awaits(t, p)' <=> Awaits(t, p)) /\ Requester(t)' = Requester(t)
  BY <1>0 DEF Leads, Clear, Awaits, Requester, Counterparty
<1>5. \A u \in Sessions : u # s /\ ses'[u].pc \in {"run", "settle"} =>
                            ses'[u] = ses[u] /\ Sender(u)' = Sender(u)
  BY <1>2
<1>6. Linked' /\ RunsAwaited'
  BY <1>1, <1>2, <1>4, <1>5 DEF Routing, Linked, RunsAwaited, At
<1>7. AllPaused'
  BY <1>0, <1>1, <1>2, <1>4, <1>5 DEF Routing, AllPaused, Paused, At
<1>8. PauseStands'
  BY <1>0, <1>1, <1>2, <1>4, <1>5 DEF Routing, PauseStands, At
<1>9. RoutedToAwaited'
  BY <1>0, <1>2, <1>4 DEF Routing, RoutedToAwaited, At
<1>10. Alone'
  BY <1>0, <1>1, <1>2, <1>4, <1>5 DEF Routing, Alone, At
<1> QED
  BY <1>3, <1>6, <1>7, <1>8, <1>9, <1>10 DEF Routing

\* Only one parent can move a conversation that waits for the other, and it has
\* let its texts cross.
LEMMA NotOutOfTurn ==
  ASSUME Typed, Stores, Routing, NEW s \in Sessions, NEW t \in Threads, NEW y,
         GraphStep(s, t, y), NEW p \in Parents, Awaits(t, p), Requester(t) \notin crossed
  PROVE  Sender(s) = p
<1>1. thread[t].step \in {"confirm", "consent"} /\ thread[t] # NoThread
  BY DEF Awaits, NoThread
<1>2. ses[s].thread = t /\ At(s, "run") /\ t # None
  BY <1>1, ConciergeAssumption DEF GraphStep, Advanced
<1>3. Leads(Sender(s), t) /\ Sender(s) \in Parents
  BY <1>2, CallHasText DEF Routing, Linked, Typed, At
<1>4. CASE thread[t].step = "confirm"
  BY <1>3, <1>4 DEF Awaits, Leads
<1>5. CASE thread[t].step = "consent"
  <2>1. Requester(t) \in Parents /\ p = Other(Requester(t))
    BY <1>5 DEF Awaits, Counterparty, Stores, AllCoherent, Coherent, Requester
  <2>2. CASE Sender(s) = Requester(t)
    <3>1. Awaits(t, Requester(t))
      BY <1>2, <2>2 DEF Routing, RunsAwaited, Clear
    <3> QED
      BY <1>5, <2>1, <3>1, TheOther DEF Awaits, Counterparty
  <2> QED
    BY <1>3, <2>1, <2>2, TheOther
<1> QED
  BY <1>1, <1>4, <1>5

LEMMA AdvancedRouted ==
  ASSUME Typed, Stores, Routing, [Next]_vars, NEW s \in Sessions, NEW t \in Threads,
         NEW y \in ThreadRec, GraphStep(s, t, y)
  PROVE  Routing'
<1> DEFINE x == thread[t]
           z == [ses[s] EXCEPT !.pc = "settle", !.thread = t, !.pause = y.step]
           q == Sender(s)
<1>0. /\ TypeOK /\ ses[s].pc = "run" /\ registry \in [Parents -> Threads \cup {None}]
      /\ UNCHANGED <<text, crossed, registry>> /\ t # None /\ Coherent(x)
  BY TypeShape, ConciergeAssumption DEF Typed, GraphStep, At, Stores, AllCoherent
<1>1. /\ z.pc = "settle" /\ z.text = ses[s].text /\ z.thread = t /\ z.pause = y.step
      /\ Update(s, z)
  BY <1>0, TypeShape DEF GraphStep, Advanced, Ran, SessionRec
<1> HIDE DEF z
<1>2. /\ ses'[s] = z /\ q' = q /\ q \in Parents
      /\ \A u \in Sessions : u # s => ses'[u] = ses[u]
      /\ \A u \in Sessions : ses[u].pc # "idle" =>
           /\ Sender(u)' = Sender(u) /\ Sender(u) \in Parents
           /\ ses[u].thread \in Threads \cup {None}
  BY <1>0, <1>1, OneCallMoves
<1>3. thread'[t] = y /\ \A v \in Threads : v # t => thread'[v] = thread[v]
  BY AdvanceHeard
<1>4. /\ ses[s].thread = t \/ (ses[s].thread = None /\ x = NoThread)
      /\ ses[s].thread = t => x # NoThread
      /\ Advances(x, y, ses[s].text, q)
  BY DEF GraphStep, Advanced
<1>5. /\ y.step \in {"confirm", "consent", "end"} /\ y.requester \in Parents
      /\ x # NoThread => /\ x.step # "none" /\ y.requester = x.requester /\ ses[s].thread = t
      /\ x = NoThread => /\ x.step = "none" /\ y.requester = q /\ y.step \in {"confirm", "end"}
      /\ y.step = "confirm" => x = NoThread \/ x.step = "confirm"
      /\ y.step = "consent" => x.step \in {"confirm", "consent"}
  BY <1>0, <1>4 DEF Advances, Coherent, NoThread, ThreadRec, Steps
<1>6. x.step # "none" => x # NoThread /\ Leads(q, t)
  BY <1>0, <1>5, <1>4 DEF Routing, Linked, At, NoThread, Advances
<1>7. y.step = "confirm" => y.requester = q
  BY <1>5, <1>6 DEF Leads, Requester
<1> HIDE DEF q
<1>8. \A v \in Threads, p \in Parents : Leads(p, v) => Leads(p, v)'
  <2>1. Requester(t)' = y.requester
    BY <1>3 DEF Requester
  <2> QED
    BY <1>3, <1>5, <2>1 DEF Leads, Requester, NoThread
<1>9. \A v \in Threads, p \in Parents :
        /\ thread[v].step # "none" => Requester(v)' = Requester(v)
        /\ thread[v].step # "none" => (Clear(p, v)' <=> Clear(p, v))
        /\ v # t => (Awaits(v, p)' <=> Awaits(v, p))
  <2>1. \A v \in Threads : thread[v].step # "none" => Requester(v)' = Requester(v)
    BY <1>3, <1>5 DEF Requester, NoThread
  <2> QED
    BY <1>0, <1>3, <2>1 DEF Clear, Awaits, Requester, Counterparty
<1>19. \A v \in Threads : thread[v].step # "none" => thread'[v].requester = thread[v].requester
  BY <1>3, <1>5 DEF NoThread
<1>10. Single'
  BY SingleStep DEF Routing
<1>11. \A u \in Sessions : u # s /\ ses'[u].pc \in {"run", "settle"} =>
                             ses'[u] = ses[u] /\ Sender(u)' = Sender(u) /\ Sender(u) \in Parents
                             /\ ses[u].thread \in Threads \cup {None}
  BY <1>2
<1>12. \A u \in Sessions : u # s /\ ses[u].pc # "idle" /\ Sender(u) = q => q \in crossed
  BY <1>0 DEF Routing, Single, q
<1>13. Linked'
  <2>1. \A p \in Parents : registry'[p] # None => Leads(p, registry[p])'
    BY <1>0, <1>8 DEF Routing, Linked
  <2>2. \A u \in Sessions : ses'[u].pc = "run" => u # s
    BY <1>1, <1>2
  <2>3. \A u \in Sessions : ses'[u].pc = "run" /\ ses'[u].thread # None =>
                              Leads(Sender(u), ses[u].thread) /\ ses[u].thread \in Threads
    BY <1>11, <2>2 DEF Routing, Linked, At
  <2> QED
    BY <1>0, <1>8, <1>11, <2>1, <2>2, <2>3 DEF Linked, At
<1>14. AllPaused'
  <2> SUFFICES ASSUME NEW u \in Sessions, At(u, "settle")' PROVE Paused(u)'
    BY DEF AllPaused
  <2>1. CASE u = s
    <3>1. thread'[t].step = y.step /\ Requester(t)' = y.requester
      BY <1>3 DEF Requester
    <3> QED
      BY <1>0, <1>1, <1>2, <1>5, <1>7, <2>1, <3>1 DEF Paused, q
  <2>2. CASE u # s
    <3>1. /\ ses'[u] = ses[u] /\ Sender(u)' = Sender(u) /\ Paused(u)
          /\ ses[u].thread \in Threads \cup {None}
      BY <1>11, <2>2 DEF Routing, AllPaused, At
    <3>2. CASE ses[u].thread = None
      BY <3>1, <3>2 DEF Paused
    <3>3. CASE ses[u].thread # None
      <4>1. /\ thread[ses[u].thread].step # "none"
            /\ thread'[ses[u].thread].requester = thread[ses[u].thread].requester
        BY <1>19, <3>1, <3>3 DEF Paused
      <4>2. /\ thread'[ses[u].thread].step # "none"
            /\ thread[ses[u].thread].step \in {"consent", "end"}
                 => thread'[ses[u].thread].step \in {"consent", "end"}
            /\ thread[ses[u].thread].step = "end" => thread'[ses[u].thread].step = "end"
        BY <1>3, <1>5, <3>1, <3>3, <4>1 DEF NoThread
      <4> QED
        BY <3>1, <3>3, <4>1, <4>2 DEF Paused, Requester
    <3> QED
      BY <3>2, <3>3
  <2> QED
    BY <2>1, <2>2
<1>15. RunsAwaited'
  <2> SUFFICES ASSUME NEW u \in Sessions, ses'[u].pc = "run", ses'[u].thread # None,
                      Clear(Sender(u), ses[u].thread)'
               PROVE  Awaits(ses[u].thread, Sender(u))'
    BY DEF RunsAwaited, At
  <2>1. /\ u # s /\ ses'[u] = ses[u] /\ Sender(u)' = Sender(u) /\ Sender(u) \in Parents
        /\ ses[u].thread \in Threads /\ ses[u].pc = "run"
    BY <1>1, <1>2, <1>11
  <2>2. Leads(Sender(u), ses[u].thread)
    BY <2>1, ConciergeAssumption DEF Routing, Linked, At
  <2>3. Clear(Sender(u), ses[u].thread)
    BY <1>9, <2>1, <2>2 DEF Leads, Clear
  <2>4. Awaits(ses[u].thread, Sender(u))
    BY <2>1, <2>3, ConciergeAssumption DEF Routing, RunsAwaited, At
  <2>5. CASE ses[u].thread # t
    BY <1>9, <2>1, <2>4, <2>5
  <2>6. CASE ses[u].thread = t
    <3>1. q = Sender(u)
      BY <2>1, <2>3, <2>4, <2>6, NotOutOfTurn DEF Clear, q
    <3> QED
      BY <1>12, <2>1, <2>3, <3>1 DEF Clear
  <2> QED
    BY <2>5, <2>6
<1>16. PauseStands'
  <2> SUFFICES ASSUME NEW u \in Sessions, ses'[u].pc = "settle", ses'[u].thread # None,
                      Clear(Sender(u), ses[u].thread)'
               PROVE  thread'[ses'[u].thread].step = ses'[u].pause
    BY DEF PauseStands, At
  <2>1. CASE u = s
    BY <1>1, <1>2, <1>3, <2>1
  <2>2. CASE u # s
    <3>1. /\ ses'[u] = ses[u] /\ Sender(u)' = Sender(u) /\ Sender(u) \in Parents
          /\ ses[u].thread \in Threads /\ ses[u].pc = "settle" /\ Paused(u)
      BY <1>11, <2>2 DEF Routing, AllPaused, At
    <3> DEFINE v == ses[u].thread
    <3>2. thread[v].step # "none" /\ v # None
      BY <3>1, ConciergeAssumption DEF Paused
    <3>3. Clear(Sender(u), v)
      BY <1>9, <3>1, <3>2
    <3>4. thread[v].step = ses[u].pause
      BY <3>1, <3>2, <3>3 DEF Routing, PauseStands, At
    <3>5. CASE v # t
      BY <1>3, <3>1, <3>4, <3>5
    <3>6. CASE v = t
      <4>0. q # Sender(u) /\ Requester(t) \notin crossed
        BY <1>12, <2>2, <3>1, <3>3, <3>6 DEF Clear
      <4>1. ses[u].pause # "confirm"
        <5>1. ses[u].pause = "confirm" => Awaits(t, Sender(u))
          BY <3>1, <3>2, <3>4, <3>6 DEF Paused, Awaits
        <5> QED
          BY <3>1, <4>0, <5>1, NotOutOfTurn DEF q
      <4>2. ses[u].pause # "consent"
        <5> SUFFICES ASSUME ses[u].pause = "consent" PROVE FALSE
          OBVIOUS
        <5>1. x.requester = Requester(t) /\ Requester(t) \in Parents
          BY <1>0, <3>2, <3>6 DEF Coherent, Requester
        <5>2. CASE Sender(u) = Requester(t)
          <6>1. ses[s].thread # t
            BY <1>0, <2>2, <3>1, <3>2, <3>6, <4>0, <5>2 DEF Routing, Alone, At
          <6> QED
            BY <1>5, <3>2, <3>6, <6>1 DEF NoThread
        <5>3. CASE Sender(u) # Requester(t)
          <6>1. Awaits(t, Sender(u))
            BY <3>1, <3>4, <3>6, <5>1, <5>3, TheOther DEF Awaits, Counterparty
          <6> QED
            BY <3>1, <4>0, <6>1, NotOutOfTurn DEF q
        <5> QED
          BY <5>2, <5>3
      <4>3. x.step = "end" /\ ses[u].pause = "end"
        BY <3>1, <3>2, <3>4, <3>6, <4>1, <4>2 DEF Paused
      <4> QED
        BY <1>3, <1>5, <3>1, <3>6, <4>3 DEF NoThread
    <3> QED
      BY <3>5, <3>6
  <2> QED
    BY <2>1, <2>2
<1>17. RoutedToAwaited'
  <2> SUFFICES ASSUME NEW p \in Parents, registry'[p] # None,
                      ({p, Requester(registry[p])} \cap crossed = {})',
                      \A u \in Sessions : ~(At(u, "settle")' /\ Sender(u)' = p)
               PROVE  Awaits(registry[p], p)'
    BY DEF RoutedToAwaited
  <2> DEFINE v == registry[p]
  <2>1. registry'[p] = v /\ v \in Threads /\ v # None
    BY <1>0
  <2>2. Leads(p, v)
    BY <2>1 DEF Routing, Linked
  <2>3. Requester(v)' = Requester(v) /\ {p, Requester(v)} \cap crossed = {}
    BY <1>0, <1>9, <2>1, <2>2 DEF Leads
  <2>4. q # p
    BY <1>1, <1>2, <1>11 DEF At, q
  <2>5. \A u \in Sessions : ~(At(u, "settle") /\ Sender(u) = p)
    BY <1>0, <1>2 DEF At
  <2>6. Awaits(v, p)
    BY <2>1, <2>3, <2>5 DEF Routing, RoutedToAwaited
  <2>7. v # t
    BY <2>3, <2>4, <2>6, NotOutOfTurn DEF q
  <2> QED
    BY <1>9, <2>1, <2>6, <2>7
<1>18. Alone'
  <2> SUFFICES ASSUME NEW u \in Sessions, ses'[u].pc = "settle", ses'[u].thread # None,
                      ses'[u].pause = "consent",
                      Sender(u)' = thread'[ses'[u].thread].requester, Sender(u)' \notin crossed'
               PROVE  /\ registry'[Other(Sender(u)')] # ses'[u].thread
                      /\ \A v \in Sessions : v # u /\ ses'[v].pc \in {"run", "settle"}
                                               => ses'[v].thread # ses'[u].thread
    BY DEF Alone, At, Requester
  <2>1. CASE u = s
    <3>1. y.step = "consent" /\ ses'[u].thread = t /\ q = y.requester /\ q \notin crossed
      BY <1>0, <1>1, <1>2, <1>3, <2>1 DEF q
    <3>2. /\ x # NoThread /\ x.step \in {"confirm", "consent"} /\ Requester(t) = q
          /\ ses[s].thread = t
      BY <1>5, <3>1 DEF NoThread, Requester
    <3>3. Awaits(t, q)
      BY <1>0, <3>1, <3>2 DEF Routing, RunsAwaited, At, Clear, q
    <3>4. x.step = "confirm"
      BY <1>2, <3>2, <3>3, TheOther DEF Awaits, Counterparty
    <3>5. registry[Other(q)] # t
      BY <1>0, <1>2, <3>2, <3>4, TheOther DEF Routing, Linked, Leads
    <3>6. ASSUME NEW v \in Sessions, v # s, ses[v].pc = "run", ses[v].thread = t PROVE FALSE
      BY <1>0, <1>12, <3>1, <3>2, <3>4, <3>6 DEF Routing, Linked, Leads, At
    <3>7. ASSUME NEW v \in Sessions, v # s, ses[v].pc = "settle", ses[v].thread = t PROVE FALSE
      BY <1>0, <1>12, <3>1, <3>2, <3>4, <3>7 DEF Routing, AllPaused, Paused, At
    <3> QED
      BY <1>0, <1>2, <2>1, <3>1, <3>5, <3>6, <3>7 DEF q
  <2>2. CASE u # s
    <3>1. /\ ses'[u] = ses[u] /\ Sender(u)' = Sender(u) /\ ses[u].thread \in Threads
          /\ ses[u].pc = "settle" /\ Paused(u)
      BY <1>11, <2>2 DEF Routing, AllPaused, At
    <3>2. thread[ses[u].thread].step # "none"
      BY <3>1, ConciergeAssumption DEF Paused
    <3>3. Sender(u) = Requester(ses[u].thread)
      BY <1>19, <3>1, <3>2 DEF Requester
    <3>4. /\ registry[Other(Sender(u))] # ses[u].thread
          /\ \A v \in Sessions : v # u /\ ses[v].pc \in {"run", "settle"}
                                   => ses[v].thread # ses[u].thread
      BY <1>0, <3>1, <3>3 DEF Routing, Alone, At
    <3>5. t # ses[u].thread
      BY <1>0, <1>5, <2>2, <3>2, <3>4 DEF NoThread
    <3> QED
      BY <1>0, <1>1, <1>2, <3>1, <3>4, <3>5
  <2> QED
    BY <2>1, <2>2
<1> QED
  BY <1>10, <1>13, <1>14, <1>15, <1>16, <1>17, <1>18 DEF Routing

LEMMA SettleRouted ==
  ASSUME Typed, Stores, Routing, [Next]_vars, NEW s \in Sessions, Settle(s)
  PROVE  Routing'
<1> DEFINE t == ses[s].thread
           q == Sender(s)
<1>0. /\ TypeOK /\ ses[s].pc = "settle" /\ Paused(s) /\ UNCHANGED <<text, thread, crossed>>
      /\ registry' = Expected(s, t)
      /\ registry \in [Parents -> Threads \cup {None}]
      /\ ses \in [Sessions -> SessionRec]
  BY TypeShape DEF Typed, Routing, AllPaused, Settle, At, world
<1>1. ses'[s] = Idle /\ \A u \in Sessions : u # s => ses'[u] = ses[u]
  BY <1>0 DEF Settle, Update
<1>2. q \in Parents /\ t \in Threads \cup {None}
  BY <1>0, CallHasText DEF SessionRec
<1>3. Idle.pc = "idle"
  BY DEF Idle
<1>4. \A u \in Sessions : ses'[u].pc # "idle" =>
        /\ u # s /\ ses'[u] = ses[u] /\ Sender(u)' = Sender(u) /\ Sender(u) \in Parents
        /\ ses[u].thread \in Threads \cup {None}
  BY <1>0, <1>1, <1>3, SenderKept, CallHasText DEF SessionRec
<1>5. \A p, v : /\ Leads(p, v)' <=> Leads(p, v)
                /\ Clear(p, v)' <=> Clear(p, v)
                /\ Awaits(v, p)' <=> Awaits(v, p)
                /\ Requester(v)' = Requester(v)
  BY <1>0 DEF Leads, Clear, Awaits, Requester, Counterparty
<1>6. t # None => /\ thread[t].step # "none" /\ Requester(t) \in Parents
                  /\ Counterparty(t) \in Parents /\ Counterparty(t) # Requester(t)
                  /\ Counterparty(t) = Other(Requester(t))
  BY <1>0, <1>2, TheOther DEF Paused, Stores, AllCoherent, Coherent, Requester, Counterparty
<1> HIDE DEF t, q
\* The registry, by the pause of the run.
<1>7. \A p \in Parents :
        \/ registry'[p] = None
        \/ registry'[p] = registry[p] /\ p # q
        \/ /\ registry'[p] = t /\ t # None
           /\ \/ ses[s].pause = "consent" /\ p = Counterparty(t)
              \/ ses[s].pause = "confirm" /\ p = q /\ q = Requester(t)
  <2>1. CASE ses[s].pause = "consent"
    <3>1. registry' = [[registry EXCEPT ![q] = None] EXCEPT ![Counterparty(t)] = t]
      BY <1>0, <2>1 DEF Expected, q
    <3>2. t # None
      BY <1>0, <2>1 DEF Paused, t
    <3> QED
      BY <1>0, <2>1, <3>1, <3>2
  <2>2. CASE ses[s].pause = "confirm"
    <3>1. registry' = [registry EXCEPT ![q] = t]
      BY <1>0, <2>2 DEF Expected, q
    <3>2. t # None /\ q = Requester(t)
      BY <1>0, <2>2 DEF Paused, t, q
    <3> QED
      BY <1>0, <2>2, <3>1, <3>2
  <2>3. CASE ses[s].pause = "end"
    <3> DEFINE from == IF t = None THEN q ELSE Requester(t)
    <3>1. from \in Parents
      BY <1>2, <1>6
    <3>2. registry' = [p \in Parents |-> IF p \in {from, Other(from), q}
                                          THEN None ELSE registry[p]]
      BY <1>0, <2>3 DEF Expected, q
    <3> HIDE DEF from
    <3> QED
      BY <3>1, <3>2, TheOther
  <2> QED
    BY <1>0, <2>1, <2>2, <2>3 DEF Paused
<1>8. Single'
  BY SingleStep DEF Routing
<1>9. t # None => /\ ses[s].pause = "consent" => Leads(Counterparty(t), t)
                  /\ ses[s].pause = "confirm" => Leads(q, t)
  BY <1>0, <1>6 DEF Paused, Leads, t, q
<1>10. Linked'
  <2>1. \A p \in Parents : registry'[p] # None => Leads(p, registry'[p])
    BY <1>7, <1>9 DEF Routing, Linked
  <2>2. \A p \in Parents : registry'[p] # None => Leads(p, registry[p])'
    BY <1>0, <2>1 DEF Leads, Requester
  <2>3. \A u \in Sessions : At(u, "run")' /\ ses'[u].thread # None => Leads(Sender(u), ses[u].thread)'
    BY <1>0, <1>4 DEF Routing, Linked, At, Leads, Requester
  <2> QED
    BY <2>2, <2>3 DEF Linked
<1>11. AllPaused' /\ PauseStands' /\ RunsAwaited'
  BY <1>0, <1>4 DEF Routing, AllPaused, Paused, PauseStands, RunsAwaited, At, Clear, Awaits,
                    Requester, Counterparty
<1>12. RoutedToAwaited'
  <2> SUFFICES ASSUME NEW p \in Parents, registry'[p] # None,
                      {p, Requester(registry'[p])} \cap crossed = {},
                      \A u \in Sessions : ~(ses'[u].pc = "settle" /\ Sender(u)' = p)
               PROVE  Awaits(registry'[p], p)
    BY <1>0 DEF RoutedToAwaited, At, Awaits, Requester, Counterparty
  <2>1. CASE registry'[p] = registry[p] /\ p # q
    <3>1. \A u \in Sessions : ~(At(u, "settle") /\ Sender(u) = p)
      BY <1>1, <1>4, <2>1 DEF At, q
    <3> QED
      BY <2>1, <3>1 DEF Routing, RoutedToAwaited
  <2>2. CASE /\ registry'[p] = t /\ t # None
             /\ ses[s].pause = "confirm" /\ p = q /\ q = Requester(t)
    <3>1. Clear(q, t)
      BY <2>2 DEF Clear
    <3>2. thread[t].step = "confirm"
      BY <1>0, <2>2, <3>1 DEF Routing, PauseStands, At, t, q
    <3> QED
      BY <2>2, <3>2 DEF Awaits
  <2>3. CASE registry'[p] = t /\ t # None /\ ses[s].pause = "consent" /\ p = Counterparty(t)
    <3>1. q \in {p, Requester(t)}
      BY <1>2, <1>6, <2>3, TheOther
    <3>2. Clear(q, t)
      BY <2>3, <3>1 DEF Clear
    <3>3. thread[t].step = "consent"
      BY <1>0, <2>3, <3>2 DEF Routing, PauseStands, At, t, q
    <3> QED
      BY <2>3, <3>3 DEF Awaits
  <2> QED
    BY <1>7, <2>1, <2>2, <2>3
<1>13. Alone'
  <2> SUFFICES ASSUME NEW u \in Sessions, ses'[u].pc = "settle", ses'[u].thread # None,
                      ses'[u].pause = "consent",
                      Sender(u)' = thread'[ses'[u].thread].requester, Sender(u)' \notin crossed'
               PROVE  /\ registry'[Other(Sender(u)')] # ses'[u].thread
                      /\ \A v \in Sessions : v # u /\ ses'[v].pc \in {"run", "settle"}
                                               => ses'[v].thread # ses'[u].thread
    BY DEF Alone, At, Requester
  <2>1. u # s /\ ses'[u] = ses[u] /\ Sender(u)' = Sender(u) /\ Sender(u) \in Parents
    BY <1>4
  <2>2. Sender(u) = Requester(ses[u].thread) /\ Sender(u) \notin crossed
    BY <1>0, <2>1 DEF Requester
  <2>3. /\ registry[Other(Sender(u))] # ses[u].thread
        /\ \A v \in Sessions : v # u /\ ses[v].pc \in {"run", "settle"}
                                 => ses[v].thread # ses[u].thread
    BY <2>1, <2>2 DEF Routing, Alone, At
  <2>4. t # ses[u].thread /\ Other(Sender(u)) \in Parents
    BY <1>0, <2>1, <2>3, TheOther DEF t
  <2>5. registry'[Other(Sender(u))] # ses[u].thread
    BY <1>7, <2>1, <2>3, <2>4
  <2> QED
    BY <1>4, <2>1, <2>3, <2>5
<1> QED
  BY <1>8, <1>10, <1>11, <1>12, <1>13 DEF Routing

\* A step that is not a run of the graph, a lookup or an update of the registry.
LEMMA TameActions ==
  ASSUME Typed, ThreadsKept,
         \/ SendText \/ Expire \/ WebDecide \/ Restart \/ UNCHANGED vars
         \/ \E s \in Sessions : \/ Receive(s) \/ StopTearDown(s) \/ StopWithdraw(s)
                                \/ StopOptOut(s) \/ OptIn(s) \/ ReplyOnly(s)
  PROVE  Tame
<1>0. ses \in [Sessions -> SessionRec] /\ registry \in [Parents -> Threads \cup {None}]
  BY TypeShape DEF Typed
<1>1. CASE SendText \/ Expire \/ WebDecide \/ UNCHANGED vars
  BY <1>1 DEF Tame, SendText, Expire, WebDecide, vars, store
<1>2. CASE Restart
  <2>1. \A u \in Sessions : ses'[u].pc = "idle"
    BY <1>2 DEF Restart, Idle
  <2> QED
    BY <1>2, <2>1 DEF Tame, Restart, store
<1>3. ASSUME NEW s \in Sessions, NEW y, Update(s, y), y.pc \notin {"run", "settle"},
             ses[s].pc # "settle", \A p \in Parents : registry'[p] \in {registry[p], None}
      PROVE  Tame
  <2>1. ses'[s] = y /\ \A u \in Sessions : u # s => ses'[u] = ses[u]
    BY <1>0, <1>3 DEF Update
  <2> QED
    BY <1>3, <2>1 DEF Tame, At
<1>4. ASSUME NEW s \in Sessions, Receive(s) PROVE Tame
  <2>1. PICK m \in Texts : Update(s, [Idle EXCEPT !.pc = "gate", !.text = m, !.late = due])
    BY <1>4 DEF Receive
  <2> DEFINE y == [Idle EXCEPT !.pc = "gate", !.text = m, !.late = due]
  <2>2. y.pc = "gate"
    BY DEF Idle
  <2> HIDE DEF y
  <2> QED
    BY <1>3, <1>4, <2>1, <2>2 DEF Receive, At, y
<1>5. ASSUME NEW s \in Sessions, StopTearDown(s) \/ StopWithdraw(s) PROVE Tame
  <2>1. PICK l \in {"withdraw", "optout"} : Update(s, [ses[s] EXCEPT !.pc = l])
    BY <1>5 DEF StopTearDown, StopWithdraw
  <2> DEFINE y == [ses[s] EXCEPT !.pc = l]
  <2>2. y.pc = l
    BY <1>0 DEF SessionRec
  <2> HIDE DEF y
  <2>3. ses[s].pc \in {"gate", "withdraw"} /\ \A p \in Parents : registry'[p] \in {registry[p], None}
    BY <1>5 DEF StopTearDown, StopWithdraw, At
  <2> QED
    BY <1>3, <2>1, <2>2, <2>3 DEF y
<1>6. ASSUME NEW s \in Sessions, StopOptOut(s) \/ OptIn(s) \/ ReplyOnly(s) PROVE Tame
  <2>1. Update(s, Idle) /\ Idle.pc = "idle" /\ ses[s].pc # "settle" /\ UNCHANGED registry
    BY <1>6 DEF StopOptOut, OptIn, ReplyOnly, At, Idle
  <2> QED
    BY <1>3, <2>1
<1> QED
  BY <1>1, <1>2, <1>4, <1>5, <1>6

LEMMA RoutingStep == ASSUME Typed, Stores, Routing, [Next]_vars PROVE Routing'
<1>1. TypeOK /\ AllCoherent
  BY DEF Typed, Stores
<1>2. CASE \E s \in Sessions, t \in Threads : \E y \in ThreadRec : GraphStep(s, t, y)
  BY <1>2, AdvancedRouted
<1>3. CASE ~\E s \in Sessions, t \in Threads : \E y \in ThreadRec : GraphStep(s, t, y)
  <2>1. ThreadsKept
    BY <1>1, <1>3, ThreadStep
  <2>2. ASSUME NEW s \in Sessions, Graph(s) PROVE Routing'
    <3>1. Answered(s)
      BY <1>1, <1>3, <2>2, GraphRuns, GraphFrame DEF AllCoherent, GraphStep
    <3> QED
      BY <2>2, <3>1, AnsweredRouted, GraphFrame
  <2>3. ASSUME NEW s \in Sessions, Route(s) \/ Settle(s) PROVE Routing'
    BY <2>3, RouteRouted, SettleRouted
  <2> QED
    BY <2>1, <2>2, <2>3, TameActions, TameStep DEF Next, OrderlyNext, Gate
<1> QED
  BY <1>2, <1>3

\* Who may be the author of the i-th text of a conversation of r's.
Author(p, i, r) ==
  IF i = 3 THEN p = Other(r) \/ (p = r /\ p \in crossed) ELSE p = r

LEMMA InitAuthor == Init => RightAuthor
<1> SUFFICES ASSUME Init, NEW t \in Threads PROVE DOMAIN thread[t].heard = {}
  BY DEF RightAuthor
<1> QED
  BY DEF Init, NoThread

LEMMA KeptAuthor ==
  ASSUME Typed, Stores, RightAuthor, ThreadsKept, [Next]_vars PROVE RightAuthor'
<1> SUFFICES ASSUME NEW t \in Threads, NEW i \in DOMAIN thread'[t].heard
             PROVE  LET p == text'[thread'[t].heard[i]].from
                        r == thread'[t].requester
                    IN  IF i = 3 THEN p = Other(r) \/ (p = r /\ p \in crossed') ELSE p = r
  BY DEF RightAuthor, Requester, Counterparty
<1>1. thread'[t].heard = thread[t].heard /\ thread'[t].requester = thread[t].requester
  BY DEF ThreadsKept
<1>2. thread[t] \in ThreadRec /\ Coherent(thread[t])
  BY TypeShape DEF Typed, Stores, AllCoherent
<1>3. thread[t].step # "none"
  <2>1. DOMAIN NoThread.heard = {}
    BY DEF NoThread
  <2> QED
    BY <1>1, <1>2, <2>1 DEF Coherent
<1>4. thread[t].requester \in Parents /\ Other(thread[t].requester) \in Parents
  BY <1>2, <1>3, TheOther DEF Coherent
<1> DEFINE p == text[thread[t].heard[i]].from
<1>5. Author(p, i, thread[t].requester)
  BY <1>1 DEF RightAuthor, Author, Requester, Counterparty
<1>6. thread[t].heard[i] \in Texts
  BY <1>1, <1>2 DEF ThreadRec
<1>7. text'[thread[t].heard[i]].from = p
  BY <1>4, <1>5, <1>6, TextKept DEF Typed, Author
<1>8. crossed \subseteq crossed'
  BY CrossedGrows
<1> HIDE DEF p
<1> QED
  BY <1>1, <1>5, <1>7, <1>8 DEF Author

\* A text that resumes a conversation comes from the parent it waits for, unless
\* its requester's texts crossed.
LEMMA RunsInTurn ==
  ASSUME Typed, Stores, Routing, NEW s \in Sessions, NEW t \in Threads, NEW y,
         GraphStep(s, t, y), thread[t] # NoThread
  PROVE  /\ Sender(s) \in Parents /\ Requester(t) \in Parents
         /\ thread[t].step = "confirm" => Sender(s) = Requester(t)
         /\ thread[t].step = "consent" =>
              \/ Sender(s) = Counterparty(t)
              \/ Sender(s) = Requester(t) /\ Sender(s) \in crossed
<1>1. ses[s].thread = t /\ At(s, "run") /\ t # None
  BY ConciergeAssumption DEF GraphStep, Advanced
<1>2. Leads(Sender(s), t) /\ Sender(s) \in Parents /\ Requester(t) \in Parents
  BY <1>1, CallHasText DEF Routing, Linked, Leads, Typed, At, Stores, AllCoherent, Coherent,
                           Requester
<1>3. thread[t].step = "confirm" => Sender(s) = Requester(t)
  BY <1>2 DEF Leads
<1>4. ASSUME thread[t].step = "consent", Sender(s) = Requester(t), Sender(s) \notin crossed
      PROVE  FALSE
  <2>1. Awaits(t, Sender(s))
    BY <1>1, <1>4 DEF Routing, RunsAwaited, Clear
  <2> QED
    BY <1>2, <1>4, <2>1, TheOther DEF Awaits, Counterparty
<1> QED
  BY <1>2, <1>3, <1>4, TheOther DEF Counterparty

LEMMA AdvancedAuthor ==
  ASSUME Typed, Stores, Routing, RightAuthor, NEW s \in Sessions, NEW t \in Threads,
         NEW y \in ThreadRec, GraphStep(s, t, y)
  PROVE  RightAuthor'
<1> DEFINE m == ses[s].text
           x == thread[t]
<1>1. /\ \A u \in Threads : u # t => thread'[u] = thread[u]
      /\ thread'[t] = y /\ x.heard \in Seq(Texts)
      /\ \A i \in DOMAIN y.heard :
           \/ i \in DOMAIN x.heard /\ y.heard[i] = x.heard[i]
           \/ /\ y.heard = Append(x.heard, m)
              /\ i = Len(x.heard) + 1 /\ i \notin DOMAIN x.heard /\ y.heard[i] = m
  BY AdvanceHeard
<1>2. UNCHANGED <<text, crossed>> /\ Coherent(x) /\ text[m].from = Sender(s)
  BY DEF GraphStep, Stores, AllCoherent, Sender
<1>3. Sender(s) \in Parents
  BY CallHasText DEF Typed, GraphStep, At
<1>4. x # NoThread =>
        /\ x.requester = Requester(t)
        /\ x.step = "confirm" => Sender(s) = x.requester
        /\ x.step = "consent" => \/ Sender(s) = Other(x.requester)
                                 \/ Sender(s) = x.requester /\ Sender(s) \in crossed
  BY RunsInTurn DEF Requester, Counterparty
<1>5. /\ y.requester = IF x = NoThread THEN Sender(s) ELSE x.requester
      /\ y.heard = x.heard \/ (y.heard = Append(x.heard, m) /\ x.step # "end")
  BY DEF GraphStep, Advanced, Advances
<1>6. \A u \in Threads : \A i \in DOMAIN thread[u].heard :
        Author(text[thread[u].heard[i]].from, i, thread[u].requester)
  BY DEF RightAuthor, Requester, Counterparty, Author
<1>7. ASSUME NEW i \in DOMAIN y.heard, i \in DOMAIN x.heard, y.heard[i] = x.heard[i]
      PROVE  Author(text[y.heard[i]].from, i, y.requester)
  <2>1. x # NoThread
    BY <1>7 DEF NoThread
  <2>2. y.requester = x.requester
    BY <1>5, <2>1
  <2>3. Author(text[x.heard[i]].from, i, x.requester)
    BY <1>6, <1>7
  <2> QED
    BY <1>7, <2>2, <2>3
<1>8. ASSUME NEW i \in DOMAIN y.heard, i = Len(x.heard) + 1, y.heard[i] = m,
             y.heard = Append(x.heard, m)
      PROVE  Author(text[y.heard[i]].from, i, y.requester)
  <2>1. text[y.heard[i]].from = Sender(s)
    BY <1>2, <1>8
  <2>2. CASE x = NoThread
    <3>1. i = 1 /\ y.requester = Sender(s)
      BY <1>5, <1>8, <2>2 DEF NoThread
    <3> QED
      BY <2>1, <3>1 DEF Author
  <2>3. CASE x # NoThread /\ x.step = "confirm"
    <3>1. Len(x.heard) = 1
      BY <1>2, <2>3 DEF Coherent
    <3>2. i = 2
      BY <1>8, <3>1
    <3>3. y.requester = Sender(s)
      BY <1>4, <1>5, <2>3
    <3> QED
      BY <2>1, <3>2, <3>3 DEF Author
  <2>4. CASE x # NoThread /\ x.step = "consent"
    <3>1. Len(x.heard) = 2
      BY <1>2, <2>4 DEF Coherent
    <3>2. i = 3
      BY <1>8, <3>1
    <3> QED
      BY <1>4, <1>5, <2>1, <2>4, <3>2 DEF Author
  <2>5. x = NoThread \/ x.step \in {"confirm", "consent"}
    <3>1. x.heard # Append(x.heard, m)
      BY <1>1, <1>8
    <3> QED
      BY <1>2, <1>5, <1>8, <3>1, TypeShape DEF Coherent, ThreadRec, Steps, Typed
  <2> QED
    BY <2>2, <2>3, <2>4, <2>5
<1>9. \A i \in DOMAIN y.heard : Author(text[y.heard[i]].from, i, y.requester)
  BY <1>1, <1>7, <1>8
<1>10. ASSUME NEW u \in Threads, NEW i \in DOMAIN thread'[u].heard
       PROVE  Author(text[thread'[u].heard[i]].from, i, thread'[u].requester)
  <2>1. CASE u = t
    BY <1>1, <1>9, <2>1
  <2>2. CASE u # t
    BY <1>1, <1>6, <2>2
  <2> QED
    BY <2>1, <2>2
<1> QED
  BY <1>2, <1>10 DEF RightAuthor, Requester, Counterparty, Author

LEMMA AuthorStep ==
  ASSUME Typed, Stores, Routing, RightAuthor, [Next]_vars
  PROVE  RightAuthor'
<1>1. AllCoherent
  BY DEF Stores
<1> QED
  BY <1>1, ThreadStep, KeptAuthor, AdvancedAuthor

(* The inductive invariant of the registry, and the authors it makes right.*)
THEOREM RoutingHolds == Spec => [](Typed /\ Stores /\ Routing /\ RightAuthor)
<1> DEFINE Inv == Typed /\ Stores /\ Routing /\ RightAuthor
<1>1. Init => Inv
  BY InitTyped, InitStores, InitRouting, InitAuthor DEF Init, Typed, Sent
<1>2. Inv /\ [Next]_vars => Inv'
  BY TypeStep, SentStep, StoresStep, RoutingStep, AuthorStep DEF Typed
<1> QED
  BY <1>1, <1>2, PTL DEF Spec

(* Whatever calls run at once and wherever a deploy cuts them: a phone in  *)
(* the registry is one whose answer its conversation waits for, while none *)
(* of the two parents of the conversation has texts that crossed.          *)
THEOREM RepliesAreRouted == Spec => []RoutedToAwaited
<1>1. Routing => RoutedToAwaited
  BY DEF Routing
<1> QED
  BY <1>1, RoutingHolds, PTL

(* ... and a request is drafted and confirmed by its requester and decided *)
(* by the other parent, or by a requester whose texts crossed.             *)
THEOREM AuthorsAreRight == Spec => []RightAuthor
  BY RoutingHolds, PTL

------------------------------------------------------------------------------
(* The concierge implements the handshake: what the abstract actions need  *)
(* is that the registry brought the text to the conversation that waits    *)
(* for its sender (Routing), and that it has been heard nowhere else       *)
(* (Stores).                                                               *)

LEMMA InitConsent == Init => Consent!Init
<1> SUFFICES ASSUME Init PROVE Consent!Init
  OBVIOUS
<1>1. \A m \in Texts : text[m].from = None
  BY DEF Init, NoText
<1>2. \A t \in Threads : /\ thread[t].status = "Absent" /\ thread[t].requester = None
                         /\ thread[t].heard = <<>>
  BY DEF Init, NoThread
<1> QED
  BY <1>1, <1>2 DEF Init, Consent!Init

LEMMA ConsentStutters == UNCHANGED <<text, thread, crossed>> => UNCHANGED Consent!vars
  BY DEF Consent!vars

\* A function that differs from another in one place.
LEMMA PointUpdate ==
  ASSUME NEW S, NEW F, NEW G, NEW t \in S, NEW v,
         F = [u \in S |-> F[u]], G = [u \in S |-> G[u]],
         G[t] = v, \A u \in S : u # t => G[u] = F[u]
  PROVE  G = [F EXCEPT ![t] = v]
  OBVIOUS

\* Text m is spent on conversation t, and on no other.
LEMMA ConsentSpends ==
  ASSUME TypeOK, NEW t \in Threads, NEW y, NEW m \in Texts,
         thread' = [thread EXCEPT ![t] = y], UNCHANGED <<text, crossed>>,
         y.heard = Append(thread[t].heard, m),
         \A u \in Threads : \A i \in DOMAIN thread[u].heard : thread[u].heard[i] # m
  PROVE  /\ Consent!Spend(t, m, y.status)
         /\ [u \in Threads |-> thread'[u].requester]
              = [[u \in Threads |-> thread[u].requester] EXCEPT ![t] = y.requester]
<1>1. thread'[t] = y /\ \A u \in Threads : u # t => thread'[u] = thread[u]
  BY TypeShape
<1>2. [u \in Threads |-> thread'[u].status]
        = [[u \in Threads |-> thread[u].status] EXCEPT ![t] = y.status]
  <2> DEFINE F == [u \in Threads |-> thread[u].status]
             G == [u \in Threads |-> thread'[u].status]
  <2>1. /\ F = [u \in Threads |-> F[u]] /\ G = [u \in Threads |-> G[u]]
        /\ G[t] = y.status /\ \A u \in Threads : u # t => G[u] = F[u]
    BY <1>1
  <2> HIDE DEF F, G
  <2>2. G = [F EXCEPT ![t] = y.status]
    BY <2>1, PointUpdate
  <2> QED
    BY <2>2 DEF F, G
<1>3. [u \in Threads |-> thread'[u].heard]
        = [[u \in Threads |-> thread[u].heard] EXCEPT ![t] = y.heard]
  <2> DEFINE F == [u \in Threads |-> thread[u].heard]
             G == [u \in Threads |-> thread'[u].heard]
  <2>1. /\ F = [u \in Threads |-> F[u]] /\ G = [u \in Threads |-> G[u]]
        /\ G[t] = y.heard /\ \A u \in Threads : u # t => G[u] = F[u]
    BY <1>1
  <2> HIDE DEF F, G
  <2>2. G = [F EXCEPT ![t] = y.heard]
    BY <2>1, PointUpdate
  <2> QED
    BY <2>2 DEF F, G
<1>4. [u \in Threads |-> thread'[u].requester]
        = [[u \in Threads |-> thread[u].requester] EXCEPT ![t] = y.requester]
  <2> DEFINE F == [u \in Threads |-> thread[u].requester]
             G == [u \in Threads |-> thread'[u].requester]
  <2>1. /\ F = [u \in Threads |-> F[u]] /\ G = [u \in Threads |-> G[u]]
        /\ G[t] = y.requester /\ \A u \in Threads : u # t => G[u] = F[u]
    BY <1>1
  <2> HIDE DEF F, G
  <2>2. G = [F EXCEPT ![t] = y.requester]
    BY <2>1, PointUpdate
  <2> QED
    BY <2>2 DEF F, G
<1>5. [u \in Threads |-> thread'[u].heard]
        = [[u \in Threads |-> thread[u].heard] EXCEPT ![t] = Append(@, m)]
  <2>1. [u \in Threads |-> thread[u].heard][t] = thread[t].heard
    OBVIOUS
  <2> QED
    BY <1>3, <2>1
<1>6. Consent!Unspent(m)
  BY DEF Consent!Unspent
<1> QED
  BY <1>2, <1>4, <1>5, <1>6 DEF Consent!Spend

\* What a run of the graph may do to the status of a conversation, and at which
\* step of it, when it counts the text m and when it counts none.
Says(x, y, m) ==
  \/ x = NoThread /\ y.heard = <<m>> /\ y.status = "Draft"
  \/ y = x
  \/ /\ x.step \in {"confirm", "consent"} /\ y.heard = x.heard
     /\ y.status = x.status \/ (x.status \in Open /\ y.status = "Expired")
  \/ /\ x.step = "confirm" /\ x.status = "Draft" /\ y.heard = Append(x.heard, m)
     /\ y.status \in {"Pending", "Rejected"}
  \/ /\ x.step = "consent" /\ x.status = "Pending" /\ y.heard = Append(x.heard, m)
     /\ y.status \in {"Approved", "Rejected"}

LEMMA GraphSays ==
  ASSUME TypeOK, NEW s \in Sessions, Graph(s), NEW u \in Threads
  PROVE  Says(thread[u], thread'[u], ses[s].text)
<1> DEFINE t == ses[s].thread
           m == ses[s].text
<1>0. thread \in [Threads -> ThreadRec]
  BY TypeShape
<1>1. UNCHANGED thread => Says(thread[u], thread'[u], m)
  BY DEF Says
<1>2. CASE StartDraft(s)
  <2>1. PICK v \in Threads :
          /\ thread[v] = NoThread
          /\ thread' = [thread EXCEPT ![v] =
               [step |-> "confirm", requester |-> Sender(s), status |-> "Draft", heard |-> <<m>>]]
    BY <1>2 DEF StartDraft
  <2> QED
    BY <1>0, <2>1 DEF Says
<1>3. ASSUME NEW v \in Statuses, EndThread(t, v), t \in Threads,
             thread[t].step \in {"confirm", "consent"},
             v = thread[t].status \/ (thread[t].status \in Open /\ v = "Expired")
      PROVE  Says(thread[u], thread'[u], m)
  <2> DEFINE y == [thread[t] EXCEPT !.step = "end", !.status = v]
  <2>1. thread' = [thread EXCEPT ![t] = y]
    BY <1>3 DEF EndThread
  <2>2. y.heard = thread[t].heard /\ y.status = v
    BY <1>0, <1>3 DEF ThreadRec
  <2> HIDE DEF y
  <2>3. thread'[u] = IF u = t THEN y ELSE thread[u]
    BY <1>0, <1>3, <2>1
  <2> QED
    BY <1>3, <2>2, <2>3 DEF Says
<1>4. ASSUME NEW step, NEW v, Decide(s, t, step, v), t \in Threads,
             \/ /\ thread[t].step = "confirm" /\ thread[t].status = "Draft"
                /\ v \in {"Pending", "Rejected"}
             \/ /\ thread[t].step = "consent" /\ thread[t].status = "Pending"
                /\ v \in {"Approved", "Rejected"}
      PROVE  Says(thread[u], thread'[u], m)
  <2> DEFINE y == [thread[t] EXCEPT !.step = step, !.status = v, !.heard = Append(@, m)]
  <2>1. thread' = [thread EXCEPT ![t] = y]
    BY <1>0, <1>4 DEF Decide
  <2>2. y.heard = Append(thread[t].heard, m) /\ y.status = v
    BY <1>0, <1>4 DEF ThreadRec
  <2> HIDE DEF y
  <2>3. thread'[u] = IF u = t THEN y ELSE thread[u]
    BY <1>0, <1>4, <2>1
  <2> QED
    BY <1>4, <2>2, <2>3 DEF Says
<1>5. AnswerOrClarify(s) \/ Reprompt(s) \/ ResumeEnded(s) => UNCHANGED thread
  BY DEF AnswerOrClarify, Reprompt, ResumeEnded, store
<1>6. CASE InitiatorError(s) \/ CounterpartyError(s)
  <2>1. /\ t \in Threads /\ thread[t].step \in {"confirm", "consent"}
        /\ \/ EndThread(t, thread[t].status)
           \/ thread[t].status \in Open /\ EndThread(t, "Expired")
    BY <1>6 DEF InitiatorError, CounterpartyError, Resumed, Open
  <2>2. thread[t].status \in Statuses /\ "Expired" \in Statuses
    BY <1>0, <2>1 DEF ThreadRec, Statuses
  <2> QED
    BY <1>3, <2>1, <2>2
<1>7. CASE InitiatorDecides(s)
  <2>1. /\ t \in Threads /\ thread[t].step = "confirm" /\ thread[t].status = "Draft"
        /\ Decide(s, t, "end", "Rejected") \/ Decide(s, t, "consent", "Pending")
    BY <1>7 DEF InitiatorDecides, Resumed
  <2> QED
    BY <1>4, <2>1
<1>8. CASE CounterpartyDecides(s)
  <2>1. /\ t \in Threads /\ thread[t].step = "consent" /\ thread[t].status = "Pending"
        /\ \/ Decide(s, t, "end", "Rejected")
           \/ Decide(s, t, "end", "Approved")
           \/ EndThread(t, "Pending")
    BY <1>8 DEF CounterpartyDecides, Resumed
  <2> QED
    BY <1>3, <1>4, <2>1 DEF Statuses
<1> QED
  BY <1>1, <1>2, <1>5, <1>6, <1>7, <1>8 DEF Graph

\* The status of conversation t changes, if anything, and no text is counted.
LEMMA ConsentCloses ==
  ASSUME TypeOK, NEW t \in Threads, NEW y, thread' = [thread EXCEPT ![t] = y],
         UNCHANGED <<text, crossed>>, y.heard = thread[t].heard, y.requester = thread[t].requester,
         \/ y.status = thread[t].status
         \/ thread[t].status = "Pending" /\ y.status \in {"Approved", "Rejected", "Expired"}
         \/ thread[t].status = "Draft" /\ y.status = "Expired"
  PROVE  Consent!Next \/ UNCHANGED Consent!vars
<1>1. thread'[t] = y /\ \A u \in Threads : u # t => thread'[u] = thread[u]
  BY TypeShape
<1>2. \A u \in Threads : /\ thread'[u].heard = thread[u].heard
                         /\ thread'[u].requester = thread[u].requester
  BY <1>1
<1>3. /\ [u \in Threads |-> thread'[u].heard] = [u \in Threads |-> thread[u].heard]
      /\ [u \in Threads |-> thread'[u].requester] = [u \in Threads |-> thread[u].requester]
  BY <1>2
<1>4. CASE y.status = thread[t].status
  <2>1. \A u \in Threads : thread'[u].status = thread[u].status
    BY <1>1, <1>4
  <2>2. [u \in Threads |-> thread'[u].status] = [u \in Threads |-> thread[u].status]
    BY <2>1
  <2> QED
    BY <1>3, <2>2 DEF Consent!vars
<1>5. CASE y.status # thread[t].status
  <2> DEFINE F == [u \in Threads |-> thread[u].status]
             G == [u \in Threads |-> thread'[u].status]
  <2>1. /\ F = [u \in Threads |-> F[u]] /\ G = [u \in Threads |-> G[u]]
        /\ G[t] = y.status /\ \A u \in Threads : u # t => G[u] = F[u]
        /\ F[t] = thread[t].status
    BY <1>1
  <2> HIDE DEF F, G
  <2>2. G = [F EXCEPT ![t] = y.status]
    BY <2>1, PointUpdate
  <2>3. /\ y.status \in {"Approved", "Rejected", "Expired"}
        /\ F[t] = "Pending" \/ (F[t] = "Draft" /\ y.status = "Expired")
    BY <1>5, <2>1
  <2>4. Consent!Close(t)
    BY <1>3, <2>2, <2>3 DEF Consent!Close, F, G
  <2> QED
    BY <2>4 DEF Consent!Next
<1> QED
  BY <1>4, <1>5

LEMMA ConsentRuns ==
  ASSUME Typed, Stores, Routing, NEW s \in Sessions, NEW t \in Threads, NEW y \in ThreadRec,
         GraphStep(s, t, y), Says(thread[t], y, ses[s].text)
  PROVE  Consent!Next \/ UNCHANGED Consent!vars
<1> DEFINE x == thread[t]
           m == ses[s].text
<1>1. /\ TypeOK /\ ses[s].pc = "run" /\ UNCHANGED <<text, crossed>>
      /\ thread' = [thread EXCEPT ![t] = y] /\ Coherent(x)
  BY DEF Typed, GraphStep, Advanced, At, Stores, AllCoherent
<1>2. Sender(s) \in Parents /\ m \in Texts /\ text[m].from = Sender(s)
  BY <1>1, CallHasText DEF Sender
<1>3. \A u \in Threads : \A i \in DOMAIN thread[u].heard : thread[u].heard[i] # m
  BY <1>1 DEF Stores, FreshTexts, Fresh
<1>4. x # NoThread =>
        /\ x.step = "confirm" => Sender(s) = x.requester
        /\ x.step = "consent" => Sender(s) = Other(x.requester) \/ Sender(s) \in crossed
  BY RunsInTurn DEF Requester, Counterparty
<1>5. /\ y.step # "none"
      /\ y.requester = IF x = NoThread THEN Sender(s) ELSE x.requester
  BY DEF GraphStep, Advanced, Advances
<1>6. [n \in Texts |-> text[n].from][m] = Sender(s)
  BY <1>2
<1>7. /\ [u \in Threads |-> thread[u].status][t] = x.status
      /\ [u \in Threads |-> thread[u].requester][t] = x.requester
  OBVIOUS
<1>8. CASE x = NoThread /\ y.heard = <<m>> /\ y.status = "Draft"
  <2>1. y.heard = Append(x.heard, m) /\ x.status = "Absent" /\ y.requester = Sender(s)
    BY <1>5, <1>8 DEF NoThread
  <2>2. /\ Consent!Spend(t, m, y.status)
        /\ [u \in Threads |-> thread'[u].requester]
             = [[u \in Threads |-> thread[u].requester] EXCEPT ![t] = y.requester]
    BY <1>1, <1>2, <1>3, <2>1, ConsentSpends
  <2>3. Consent!Propose(t)
    BY <1>2, <1>6, <1>7, <1>8, <2>1, <2>2 DEF Consent!Propose
  <2> QED
    BY <2>3 DEF Consent!Next
<1>9. ASSUME x # NoThread, y.heard = Append(x.heard, m)
      PROVE  /\ Consent!Spend(t, m, y.status)
             /\ [u \in Threads |-> thread'[u].requester] = [u \in Threads |-> thread[u].requester]
  <2>1. y.requester = x.requester /\ Consent!Spend(t, m, y.status)
    BY <1>1, <1>2, <1>3, <1>5, <1>9, ConsentSpends
  <2>2. \A u \in Threads : thread'[u].requester = thread[u].requester
    BY <1>1, <2>1, TypeShape
  <2> QED
    BY <2>1, <2>2
<1>10. CASE /\ x.step = "confirm" /\ x.status = "Draft" /\ y.heard = Append(x.heard, m)
            /\ y.status \in {"Pending", "Rejected"}
  <2>1. x # NoThread /\ x.requester = Sender(s)
    BY <1>4, <1>10 DEF NoThread
  <2>2. Consent!Confirm(t)
    BY <1>2, <1>6, <1>7, <1>9, <1>10, <2>1 DEF Consent!Confirm
  <2> QED
    BY <2>2 DEF Consent!Next
<1>11. CASE /\ x.step = "consent" /\ x.status = "Pending" /\ y.heard = Append(x.heard, m)
            /\ y.status \in {"Approved", "Rejected"}
  <2>1. x # NoThread /\ x.requester \in Parents
    BY <1>1, <1>11 DEF NoThread, Coherent
  <2>2. Sender(s) \in Parents \ ({x.requester} \ crossed)
    BY <1>2, <1>4, <1>11, <2>1, TheOther
  <2>3. Consent!Answer(t)
    BY <1>2, <1>6, <1>7, <1>9, <1>11, <2>1, <2>2 DEF Consent!Answer
  <2> QED
    BY <2>3 DEF Consent!Next
<1>12. CASE y = x
  <2>1. y.heard = thread[t].heard /\ y.requester = thread[t].requester
        /\ y.status = thread[t].status
    BY <1>12
  <2> QED
    BY <1>1, <2>1, ConsentCloses
<1>13. CASE /\ x.step \in {"confirm", "consent"} /\ y.heard = x.heard
            /\ y.status = x.status \/ (x.status \in Open /\ y.status = "Expired")
  <2>1. y.requester = x.requester
    BY <1>5, <1>13 DEF NoThread
  <2> QED
    BY <1>1, <1>13, <2>1, ConsentCloses DEF Open
<1> QED
  BY <1>8, <1>10, <1>11, <1>12, <1>13 DEF Says

\* A STOP takes back requests of its sender.
LEMMA ConsentWithdraws ==
  ASSUME Typed, NEW s \in Sessions, StopWithdraw(s)
  PROVE  Consent!Next
<1> DEFINE open == {t \in Threads : /\ thread[t].requester = Sender(s)
                                   /\ thread[t].status \in Open
                                   /\ t \notin ses[s].late}
           asker == [u \in Threads |-> thread[u].requester]
           status == [u \in Threads |-> thread[u].status]
<1>1. /\ thread' = [t \in Threads |-> IF t \in open
                      THEN [thread[t] EXCEPT !.status = "Rejected"] ELSE thread[t]]
      /\ UNCHANGED <<text, crossed>>
  BY DEF StopWithdraw, world
<1>2. PICK p \in Parents : p = Sender(s)
  BY CallHasText DEF Typed, StopWithdraw, At
<1>3. open \in SUBSET {r \in Threads : asker[r] = p /\ status[r] \in {"Draft", "Pending"}}
  BY <1>2 DEF Open
<1>4. thread \in [Threads -> ThreadRec]
  BY TypeShape DEF Typed
<1> HIDE DEF open
<1>5. ASSUME NEW u \in Threads
      PROVE  /\ thread'[u].heard = thread[u].heard /\ thread'[u].requester = thread[u].requester
             /\ thread'[u].status = IF u \in open THEN "Rejected" ELSE status[u]
  <2>1. thread'[u] = IF u \in open THEN [thread[u] EXCEPT !.status = "Rejected"] ELSE thread[u]
    BY <1>1
  <2> QED
    BY <1>4, <2>1 DEF ThreadRec
<1>6. /\ [u \in Threads |-> thread'[u].heard] = [u \in Threads |-> thread[u].heard]
      /\ [u \in Threads |-> thread'[u].requester] = asker
      /\ [u \in Threads |-> thread'[u].status]
           = [r \in Threads |-> IF r \in open THEN "Rejected" ELSE status[r]]
  BY <1>5
<1>7. Consent!Withdraw(p)
  BY <1>1, <1>3, <1>6 DEF Consent!Withdraw
<1> QED
  BY <1>7 DEF Consent!Next

LEMMA ConsentSends == ASSUME TypeOK, SendText PROVE Consent!Next
<1>1. PICK m \in Texts, p \in Parents, w \in Words :
        /\ text[m] = NoText
        /\ text' = [text EXCEPT ![m] = [from |-> p, word |-> w, about |-> prompt[p]]]
  BY DEF SendText
<1>2. UNCHANGED <<thread, crossed>> /\ text \in [Texts -> [from : Parents \cup {None}, word : Vocabulary,
                                              about : Prompts]]
  BY DEF SendText, store, TypeOK
<1> DEFINE F == [n \in Texts |-> text[n].from]
           G == [n \in Texts |-> text'[n].from]
<1>3. /\ F = [n \in Texts |-> F[n]] /\ G = [n \in Texts |-> G[n]]
      /\ F[m] = None /\ G[m] = p /\ \A n \in Texts : n # m => G[n] = F[n]
  BY <1>1, <1>2 DEF NoText
<1> HIDE DEF F, G
<1>4. G = [F EXCEPT ![m] = p]
  BY <1>3, PointUpdate
<1>5. Consent!Send
  BY <1>2, <1>3, <1>4 DEF Consent!Send, F, G
<1> QED
  BY <1>5 DEF Consent!Next

LEMMA ConsentStep ==
  ASSUME Typed, Stores, Routing, [Next]_vars
  PROVE  Consent!Next \/ UNCHANGED Consent!vars
<1>0. TypeOK /\ AllCoherent /\ thread \in [Threads -> ThreadRec]
  BY TypeShape DEF Typed, Stores
<1>1. ASSUME NEW s \in Sessions, Graph(s) PROVE Consent!Next \/ UNCHANGED Consent!vars
  <2>1. At(s, "run") /\ UNCHANGED <<text, blocked, due, crossed, claimed, registry>>
    BY <1>1, GraphFrame
  <2>2. CASE Answered(s)
    BY <2>1, <2>2, ConsentStutters DEF Answered
  <2>3. CASE \E t \in Threads : \E y \in ThreadRec : Advanced(s, t, y)
    <3>1. PICK t \in Threads, y \in ThreadRec : Advanced(s, t, y)
      BY <2>3
    <3>2. GraphStep(s, t, y)
      BY <2>1, <3>1 DEF GraphStep
    <3>3. thread'[t] = y
      BY <1>0, <3>1 DEF Advanced
    <3>4. Says(thread[t], y, ses[s].text)
      BY <1>0, <1>1, <3>3, GraphSays
    <3> QED
      BY <3>2, <3>4, ConsentRuns
  <2> QED
    BY <1>0, <1>1, <2>2, <2>3, GraphRuns DEF AllCoherent
<1>2. CASE WebDecide
  <2>1. PICK t \in Threads, v \in {"Approved", "Rejected", "Expired"} :
          thread[t].status = "Pending" /\ thread' = [thread EXCEPT ![t].status = v]
    BY <1>2 DEF WebDecide
  <2> DEFINE y == [thread[t] EXCEPT !.status = v]
  <2>2. thread' = [thread EXCEPT ![t] = y] /\ UNCHANGED <<text, crossed>>
    BY <1>2, <2>1 DEF WebDecide, world
  <2>3. y.heard = thread[t].heard /\ y.requester = thread[t].requester /\ y.status = v
    BY <1>0 DEF ThreadRec
  <2> HIDE DEF y
  <2> QED
    BY <1>0, <2>1, <2>2, <2>3, ConsentCloses
<1>3. ASSUME NEW s \in Sessions,
             StopTearDown(s) \/ StopOptOut(s) \/ OptIn(s) \/ ReplyOnly(s)
               \/ Route(s) \/ Settle(s)
      PROVE  UNCHANGED <<text, thread, crossed>>
  BY <1>3 DEF StopTearDown, StopOptOut, OptIn, ReplyOnly, Route, Settle, store, world
<1>4. Expire \/ UNCHANGED vars => UNCHANGED <<text, thread, crossed>>
  BY DEF Expire, store, world, vars
<1>5. ASSUME NEW s \in Sessions, Receive(s) PROVE Consent!Cross
  <2>1. PICK m \in Texts :
          /\ text[m] # NoText
          /\ crossed' = crossed \cup {p \in {text[m].from} : InFlight(p)}
          /\ UNCHANGED <<text, thread>>
    BY <1>5 DEF Receive
  <2>2. {p \in {text[m].from} : InFlight(p)} \in SUBSET Parents
    BY <2>1 DEF Typed, Sent
  <2> QED
    BY <2>1, <2>2 DEF Consent!Cross
<1>6. CASE Restart
  <2>1. {Sender(s) : s \in {u \in Sessions : At(u, "settle")}} \in SUBSET Parents
    BY <1>0, CallHasText DEF At
  <2> QED
    BY <1>6, <2>1 DEF Restart, store, Consent!Cross, Consent!Next
<1> QED
  BY <1>0, <1>1, <1>2, <1>3, <1>4, <1>5, <1>6, ConsentStutters, ConsentWithdraws, ConsentSends
  DEF Next, OrderlyNext, Gate, Consent!Next

(* Every conversation of the concierge is a handshake of its two parents,  *)
(* whatever is sent, repeated or withdrawn, whichever calls run at once    *)
(* and wherever a deploy cuts them.                                        *)
THEOREM ConciergeImplementsHandshake == Spec => ImplementsHandshake
<1>1. Typed /\ Stores /\ Routing /\ RightAuthor /\ [Next]_vars
        => [Consent!Next]_Consent!vars
  BY ConsentStep
<1> QED
  BY <1>1, InitConsent, RoutingHolds, PTL DEF Spec, ImplementsHandshake, Consent!Spec

=============================================================================
