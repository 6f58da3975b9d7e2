--------------------------- MODULE CustodyCalendar ---------------------------
(***************************************************************************)
(* What the override store promises a family, with no sessions, columns,   *)
(* clocks or day rows: a request asks for a set of days, and booking a     *)
(* request takes its days in one indivisible step, releasing exactly the   *)
(* bookings those days overlap (activate_override in                       *)
(* database/activation.py, the guarantee of README.md:273).                *)
(***************************************************************************)
CONSTANTS Requests,     \* request identifiers
          Days          \* calendar days

VARIABLES asked,        \* asked[r]: the days request r asks for, {} before it exists
          booked        \* the requests that currently decide who has the children

vars == <<asked, booked>>

Init == /\ asked = [r \in Requests |-> {}]
        /\ booked = {}

Overlaps(q, r) == asked[q] \cap asked[r] # {}

Ask(r) == /\ asked[r] = {}
          /\ \E days \in (SUBSET Days) \ {{}} : asked' = [asked EXCEPT ![r] = days]
          /\ UNCHANGED booked

Book(r) == /\ asked[r] # {}
           /\ r \notin booked
           /\ booked' = {q \in booked : ~Overlaps(q, r)} \cup {r}
           /\ UNCHANGED asked

Next == \E r \in Requests : Ask(r) \/ Book(r)

Spec == Init /\ [][Next]_vars
==============================================================================
