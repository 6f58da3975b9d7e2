------------------------------ MODULE Handshake ------------------------------
(***************************************************************************)
(* What the concierge promises of a request made by text, with no routes,  *)
(* checkpoints, opt-outs, expiry clocks or calls: the requester proposes   *)
(* and confirms, the other parent decides, and each of the three spends a  *)
(* text of its own (core/handshake.py; docs/review/CHARTER_02_consent.md,  *)
(* "only the counterparty's ACCEPT/DENY decides").  A request that is open *)
(* may also be decided on the web, lapse, or be withdrawn by who made it.  *)
(* A parent two of whose texts were handled at once, or one of whose texts *)
(* a deploy cut off, may be taken for the other parent in the third step.  *)
(***************************************************************************)
EXTENDS Sequences

CONSTANTS Parents, Texts, Requests, None

VARIABLES crossed,   \* the parents whose texts were handled two at once or cut off
          sender,    \* sender[m]: who sent text m, None if nobody has
          status,    \* status[r]: the status of request r
          asker,     \* asker[r]: the parent who made request r
          said       \* said[r]: the texts spent on request r, in order

vars == <<crossed, sender, status, asker, said>>

Init == /\ crossed = {}
        /\ sender = [m \in Texts |-> None]
        /\ status = [r \in Requests |-> "Absent"]
        /\ asker = [r \in Requests |-> None]
        /\ said = [r \in Requests |-> <<>>]

Unspent(m) == \A r \in Requests : \A i \in DOMAIN said[r] : said[r][i] # m

\* Request r gets status v by text m.
Spend(r, m, v) == /\ Unspent(m)
                  /\ status' = [status EXCEPT ![r] = v]
                  /\ said' = [said EXCEPT ![r] = Append(@, m)]
                  /\ UNCHANGED <<crossed, sender>>

Send == \E m \in Texts, p \in Parents : /\ sender[m] = None
                                        /\ sender' = [sender EXCEPT ![m] = p]
                                        /\ UNCHANGED <<crossed, status, asker, said>>

Propose(r) == \E m \in Texts : /\ status[r] = "Absent"
                               /\ sender[m] \in Parents
                               /\ Spend(r, m, "Draft")
                               /\ asker' = [asker EXCEPT ![r] = sender[m]]

Confirm(r) == \E m \in Texts, v \in {"Pending", "Rejected"} :
                /\ status[r] = "Draft"
                /\ sender[m] = asker[r]
                /\ Spend(r, m, v)
                /\ UNCHANGED asker

Answer(r) == \E m \in Texts, v \in {"Approved", "Rejected"} :
               /\ status[r] = "Pending"
               /\ sender[m] \in Parents \ ({asker[r]} \ crossed)
               /\ Spend(r, m, v)
               /\ UNCHANGED asker

\* No text is spent: the web API decides, or the time is up.
Close(r) == \E v \in {"Approved", "Rejected", "Expired"} :
              /\ status[r] = "Pending" \/ (status[r] = "Draft" /\ v = "Expired")
              /\ status' = [status EXCEPT ![r] = v]
              /\ UNCHANGED <<crossed, sender, asker, said>>

\* STOP takes back open requests of one parent, and of nobody else.
Withdraw(p) == \E open \in SUBSET {r \in Requests : /\ asker[r] = p
                                                    /\ status[r] \in {"Draft", "Pending"}} :
                 /\ status' = [r \in Requests |-> IF r \in open THEN "Rejected" ELSE status[r]]
                 /\ UNCHANGED <<crossed, sender, asker, said>>

\* A parent's texts cross, from now on.
Cross == \E who \in SUBSET Parents : /\ crossed' = crossed \cup who
                                     /\ UNCHANGED <<sender, status, asker, said>>

Next == \/ Send \/ Cross
        \/ \E r \in Requests : Propose(r) \/ Confirm(r) \/ Answer(r) \/ Close(r)
        \/ \E p \in Parents : Withdraw(p)

Spec == Init /\ [][Next]_vars
==============================================================================
