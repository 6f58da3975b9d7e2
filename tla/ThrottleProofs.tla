---------------------------- MODULE ThrottleProofs ----------------------------
(***************************************************************************)
(* Proofs about the login throttle, for any limit, any length of a lock    *)
(* and any number of requests in flight; at the end, how many guesses the  *)
(* loss of increments costs while no three of them meet.                   *)
(***************************************************************************)
EXTENDS Throttle, TLAPS

\* Where a request may be once it has been told that there is no lock.
PastCheck == {"verifying", "counting", "writing", "saving", "clearing", "deleting",
              "granting"}

\* A lock is over.
Ended == attempt.lock # Unlocked /\ attempt.lock <= 0

\* While requests come one at a time, what the one in flight has read is still
\* true when it acts on it.
Alone ==
  crowd = 1 =>
    /\ \A q, r \in Requests : Busy(q) /\ Busy(r) => q = r
    /\ \A r \in Requests :
         /\ req[r].pc \in PastCheck => attempt.lock = Unlocked
         /\ req[r].pc = "dropping" => Ended
         /\ req[r].pc = "writing" => req[r].count = attempt.count

IInv == TypeOK /\ Alone /\ LockIsEarned

\* A record update keeps the other fields.
LEMMA GotoType ==
  ASSUME TypeOK, NEW r \in Requests, NEW pc \in Labels, Goto(r, pc)
  PROVE  /\ req' \in [Requests -> Request]
         /\ req'[r].pc = pc /\ req'[r].count = req[r].count /\ req'[r].age = req[r].age
         /\ \A q \in Requests \ {r} : req'[q] = req[q]
BY DEF TypeOK, Goto, Request

LEMMA FinishType ==
  ASSUME TypeOK, NEW r \in Requests, Finish(r)
  PROVE  /\ req' \in [Requests -> Request]
         /\ req'[r].pc = "idle"
         /\ \A q \in Requests \ {r} : req'[q] = req[q]
BY ThrottleAssumption DEF TypeOK, Finish, Request, Idle, Labels

\* The crowd only grows while a count lasts.
LEMMA CrowdGrows ==
  ASSUME TypeOK, NEW r \in Requests
  PROVE  /\ Joined(r) \in 1..3
         /\ Joined(r) = 1 => crowd = 1 /\ \A q \in Requests \ {r} : ~Busy(q)
         /\ Joined(r) <= 2 => crowd <= 2 /\ \A p, q \in Company(r) : p = q
<1>0. crowd \in 1..3
  BY DEF TypeOK
<1>1. CASE Company(r) = {}
  BY <1>0, <1>1 DEF Joined, Company
<1>2. CASE \E p, q \in Company(r) : p # q
  <2>1. Company(r) # {} /\ \A q \in Requests : Company(r) # {q}
    BY <1>2
  <2> QED BY <1>0, <1>2, <2>1 DEF Joined
<1>3. CASE Company(r) # {} /\ \A p, q \in Company(r) : p = q
  <2>1. \E q \in Requests : Company(r) = {q}
    BY <1>3 DEF Company
  <2>2. Joined(r) = IF crowd = 1 THEN 2 ELSE crowd
    BY <1>3, <2>1 DEF Joined
  <2> QED BY <1>0, <1>3, <2>2
<1> QED BY <1>1, <1>2, <1>3

LEMMA CrowdEnds ==
  ASSUME TypeOK, NEW r \in Requests, CountEnds(r)
  PROVE  /\ crowd' \in 1..3
         /\ crowd' # crowd => \A q \in Requests \ {r} : ~Busy(q)
BY DEF TypeOK, CountEnds, Company

\* The row a failure leaves is a row; it is locked exactly at the limit or if
\* it was locked before.
LEMMA CountedRow ==
  ASSUME NEW row \in [count : Nat, lock : Unlocked..Window], NEW seen \in Nat,
         NEW age \in 0..Slowest
  PROVE  /\ Counted(row, seen, age) \in [count : Nat, lock : Unlocked..Window]
         /\ Counted(row, seen, age).count = seen + 1
         /\ Counted(row, seen, age).lock # Unlocked <=>
              (seen + 1 >= MaxFailures \/ row.lock # Unlocked)
<1>1. CASE seen + 1 >= MaxFailures
  <2>1. Counted(row, seen, age) = [count |-> seen + 1, lock |-> Window - age]
    BY <1>1 DEF Counted
  <2>2. Window - age \in 0..Window
    BY ThrottleAssumption
  <2> QED BY <1>1, <2>1, <2>2, ThrottleAssumption DEF Unlocked
<1>2. CASE ~(seen + 1 >= MaxFailures)
  <2>1. Counted(row, seen, age) = [row EXCEPT !.count = seen + 1]
    BY <1>2 DEF Counted
  <2> QED BY <1>2, <2>1
<1> QED BY <1>1, <1>2

------------------------------------------------------------------------------
LEMMA InitIInv == Init => IInv
<1> SUFFICES ASSUME Init PROVE IInv
  OBVIOUS
<1>1. TypeOK
  <2>1. Idle \in Request
    BY ThrottleAssumption DEF Idle, Request, Labels
  <2>2. req \in [Requests -> Request]
    BY <2>1 DEF Init
  <2>3. NoRow \in [count : Nat, lock : Unlocked..Window] /\ NoRow.lock = Unlocked
    BY ThrottleAssumption DEF NoRow, Unlocked
  <2>4. crowd \in 1..3
    BY DEF Init
  <2> QED BY <2>2, <2>3, <2>4 DEF Init, TypeOK
<1>2. Alone
  BY DEF Init, Alone, Idle, Busy, PastCheck
<1>3. LockIsEarned
  BY ThrottleAssumption DEF Init, LockIsEarned, NoRow, Unlocked
<1> QED BY <1>1, <1>2, <1>3 DEF IInv

LEMMA NextType == TypeOK /\ [Next]_vars => TypeOK'
<1> SUFFICES ASSUME TypeOK, [Next]_vars PROVE TypeOK'
  OBVIOUS
<1> USE DEF NoRow
<1>0. NoRow \in [count : Nat, lock : Unlocked..Window]
  BY ThrottleAssumption DEF Unlocked
<1>1. ASSUME NEW r \in Requests, Login(r) \/ Change(r) PROVE TypeOK'
  <2>1. PICK change \in BOOLEAN, guess \in Codes : Arrive(r, change, guess)
    BY <1>1 DEF Login, Change
  <2> DEFINE seen == IF change THEN hash ELSE NoCode
             new  == [Idle EXCEPT !.pc = "checking", !.change = change, !.guess = guess,
                                  !.seen = seen]
  <2>a. seen \in Codes \cup {NoCode}
    BY DEF TypeOK
  <2>b. Idle \in Request
    BY ThrottleAssumption DEF Idle, Request, Labels
  <2> HIDE DEF seen
  <2>c. new \in Request
    BY <2>a, <2>b DEF Request, Labels
  <2>d. req' = [req EXCEPT ![r] = new]
    BY <2>1 DEF Arrive, seen
  <2> HIDE DEF new
  <2>2. req' \in [Requests -> Request]
    BY <2>c, <2>d DEF TypeOK
  <2>3. crowd' \in 1..3
    BY <2>1, CrowdGrows DEF Arrive
  <2> QED BY <2>1, <2>2, <2>3 DEF Arrive, TypeOK
<1>2. ASSUME NEW r \in Requests, Check(r) PROVE TypeOK'
  BY <1>2, GotoType, FinishType DEF Check, TypeOK, Labels
<1>3. ASSUME NEW r \in Requests, Drop(r) PROVE TypeOK'
  <2>1. req[r] \in Request
    BY DEF TypeOK
  <2>3. req' \in [Requests -> Request]
    BY <1>3, <2>1 DEF Drop, TypeOK, Request, Labels
  <2>4. served' \in Nat
    BY <1>3 DEF Drop, CountEnds, TypeOK
  <2>5. crowd' \in 1..3
    BY <1>3, CrowdEnds DEF Drop, TypeOK
  <2> QED BY <1>3, <1>0, <2>3, <2>4, <2>5 DEF Drop, TypeOK
<1>4. ASSUME NEW r \in Requests, Verify(r) PROVE TypeOK'
  BY <1>4, GotoType, FinishType DEF Verify, TypeOK, Labels
<1>5. ASSUME NEW r \in Requests, Save(r) PROVE TypeOK'
  BY <1>5, GotoType DEF Save, TypeOK, Labels
<1>6. ASSUME NEW r \in Requests, CountRead(r) PROVE TypeOK'
  <2> DEFINE new == [req[r] EXCEPT !.pc = "writing", !.count = attempt.count]
  <2>1. attempt.count \in Nat /\ req[r] \in Request
    BY DEF TypeOK
  <2>2. new \in Request
    BY <2>1 DEF Request, Labels
  <2>3. req' = [req EXCEPT ![r] = new]
    BY <1>6 DEF CountRead
  <2> HIDE DEF new
  <2>4. req' \in [Requests -> Request]
    BY <2>2, <2>3 DEF TypeOK
  <2> QED BY <1>6, <2>4 DEF CountRead, TypeOK
<1>7. ASSUME NEW r \in Requests, CountWrite(r) PROVE TypeOK'
  <2>1. req[r].count \in Nat /\ req[r].age \in 0..Slowest
    BY DEF TypeOK, Request
  <2> DEFINE new == Counted(attempt, req[r].count, req[r].age)
  <2>2. /\ new \in [count : Nat, lock : Unlocked..Window]
        /\ new.count # 0
    <3>1. attempt \in [count : Nat, lock : Unlocked..Window]
      BY DEF TypeOK
    <3>2. /\ new \in [count : Nat, lock : Unlocked..Window]
          /\ new.count = req[r].count + 1
      BY <2>1, <3>1, CountedRow
    <3> QED BY <2>1, <3>2
  <2>3. attempt' = new \/ attempt' = attempt
    BY <1>7 DEF CountWrite
  <2> HIDE DEF new
  <2>4. /\ attempt' \in [count : Nat, lock : Unlocked..Window]
        /\ attempt'.count = 0 => attempt'.lock = Unlocked
    BY <2>2, <2>3 DEF TypeOK
  <2>5. req' \in [Requests -> Request]
    BY <1>7, FinishType DEF CountWrite
  <2> QED BY <1>7, <2>4, <2>5 DEF CountWrite, TypeOK
<1>8. ASSUME NEW r \in Requests, ClearRead(r) PROVE TypeOK'
  BY <1>8, GotoType DEF ClearRead, TypeOK, Labels
<1>9. ASSUME NEW r \in Requests, Delete(r) PROVE TypeOK'
  <2>1. req' \in [Requests -> Request]
    BY <1>9, GotoType DEF Delete, Labels
  <2>2. crowd' \in 1..3
    BY <1>9, CrowdEnds DEF Delete
  <2> QED BY <1>9, <1>0, <2>1, <2>2 DEF Delete, CountEnds, TypeOK
<1>10. ASSUME NEW r \in Requests, Grant(r) PROVE TypeOK'
  BY <1>10, FinishType DEF Grant, TypeOK
<1>11. ASSUME Tick PROVE TypeOK'
  <2>1. req' \in [Requests -> Request]
    BY <1>11, ThrottleAssumption DEF Tick, TypeOK, Request
  <2>2. /\ attempt' \in [count : Nat, lock : Unlocked..Window]
        /\ attempt'.count = 0 => attempt'.lock = Unlocked
    BY <1>11, ThrottleAssumption DEF Tick, TypeOK, Older, Unlocked
  <2> QED BY <1>11, <2>1, <2>2 DEF Tick, TypeOK
<1>12. ASSUME Restart PROVE TypeOK'
  BY <1>12, ThrottleAssumption DEF Restart, TypeOK, Request, Idle, Labels
<1>13. ASSUME UNCHANGED vars PROVE TypeOK'
  BY <1>13 DEF vars, TypeOK
<1> QED
  BY <1>1, <1>2, <1>3, <1>4, <1>5, <1>6, <1>7, <1>8, <1>9, <1>10, <1>11, <1>12, <1>13
     DEF Next, Step

------------------------------------------------------------------------------
\* An old clock that finds a lock over is right.
LEMMA CheckEnded ==
  ASSUME TypeOK, NEW r \in Requests, attempt.lock # Unlocked, ~Live(attempt, req[r].age)
  PROVE  Ended
<1>1. attempt.lock \in Unlocked..Window /\ req[r].age \in 0..Slowest
  BY DEF TypeOK, Request
<1> QED BY <1>1, ThrottleAssumption DEF Live, Ended, Unlocked

\* One step: the invariant for a request that acts while it may be alone.
LEMMA NextIInv == IInv /\ [Next]_vars => IInv'
<1> SUFFICES ASSUME IInv, [Next]_vars PROVE Alone' /\ LockIsEarned'
  BY NextType DEF IInv
<1>0. TypeOK /\ TypeOK'
  BY NextType DEF IInv
<1>1. ASSUME NEW r \in Requests, Login(r) \/ Change(r) PROVE Alone' /\ LockIsEarned'
  <2>1. PICK change \in BOOLEAN, guess \in Codes : Arrive(r, change, guess)
    BY <1>1 DEF Login, Change
  <2>2. /\ req'[r].pc = "checking"
        /\ \A q \in Requests \ {r} : req'[q] = req[q]
    BY <2>1, <1>0 DEF Arrive, TypeOK, Idle
  <2>3. crowd' = 1 => crowd = 1 /\ \A q \in Requests : ~Busy(q)
    BY <1>0, <2>1, CrowdGrows DEF Arrive
  <2>4. attempt' = attempt /\ served' = served
    BY <2>1 DEF Arrive
  <2>5. Alone'
    BY <2>2, <2>3, <2>4 DEF Alone, IInv, Busy, PastCheck
  <2>6. LockIsEarned'
    BY <2>3, <2>4 DEF LockIsEarned, IInv
  <2> QED BY <2>5, <2>6
<1>2. ASSUME NEW r \in Requests, Check(r) PROVE Alone' /\ LockIsEarned'
  <2>1. /\ attempt' = attempt /\ served' = served /\ crowd' = crowd
        /\ Busy(r)
    BY <1>2 DEF Check, Busy
  <2>2. /\ \A q \in Requests \ {r} : req'[q] = req[q]
        /\ \/ req'[r].pc = "verifying" /\ attempt.lock = Unlocked
           \/ req'[r].pc = "dropping" /\ Ended
           \/ req'[r].pc = "idle"
    BY <1>0, <1>2, GotoType, FinishType, CheckEnded DEF Check, Labels
  <2>5. Alone'
    BY <2>1, <2>2 DEF Alone, IInv, Busy, PastCheck, Ended
  <2>6. LockIsEarned'
    BY <2>1 DEF LockIsEarned, IInv
  <2> QED BY <2>5, <2>6
<1>3. ASSUME NEW r \in Requests, Drop(r) PROVE Alone' /\ LockIsEarned'
  <2>1. /\ attempt'.count = 0 /\ attempt'.lock = Unlocked
        /\ Busy(r)
    BY <1>3 DEF Drop, NoRow, Busy
  <2>2. /\ \A q \in Requests \ {r} : req'[q] = req[q]
        /\ req'[r].pc = "verifying"
    BY <1>0, <1>3 DEF Drop, TypeOK, Request
  <2>3. crowd' = 1 => served' = 0 /\ \A q \in Requests \ {r} : ~Busy(q)
    <3>1. CASE crowd = 1
      <4>1. Ended /\ attempt.lock \in Unlocked..Window
        BY <1>0, <1>3, <3>1 DEF Alone, IInv, Drop, TypeOK
      <4>2. ~(Live(attempt, 0) \/ attempt.lock = Unlocked)
        BY <4>1, ThrottleAssumption DEF Ended, Live, Unlocked
      <4>3. served' = 0
        BY <1>3, <4>2 DEF Drop, CountEnds
      <4> QED BY <2>1, <3>1, <4>3 DEF Alone, IInv
    <3>2. CASE crowd # 1
      BY <1>0, <1>3, <3>2, CrowdEnds DEF Drop, CountEnds
    <3> QED BY <3>1, <3>2
  <2>4. Alone'
    BY <2>1, <2>2, <2>3 DEF Alone, Busy, PastCheck
  <2>5. LockIsEarned'
    BY <2>1, <2>3, ThrottleAssumption DEF LockIsEarned
  <2> QED BY <2>4, <2>5
<1>4. ASSUME NEW r \in Requests, Verify(r) \/ Save(r) \/ ClearRead(r) \/ Grant(r)
      PROVE  Alone' /\ LockIsEarned'
  <2>1. /\ attempt' = attempt /\ served' = served /\ crowd' = crowd
        /\ req[r].pc \in PastCheck
    BY <1>4 DEF Verify, Save, ClearRead, Grant, PastCheck
  <2>2. /\ \A q \in Requests \ {r} : req'[q] = req[q]
        /\ req'[r].pc \in PastCheck \ {"writing"} \/ req'[r].pc = "idle"
    <3>1. CASE Verify(r)
      BY <1>0, <3>1, GotoType, FinishType DEF Verify, Labels, PastCheck
    <3>2. CASE Save(r)
      BY <1>0, <3>2, GotoType DEF Save, Labels, PastCheck
    <3>3. CASE ClearRead(r)
      BY <1>0, <3>3, GotoType DEF ClearRead, Labels, PastCheck
    <3>4. CASE Grant(r)
      BY <1>0, <3>4, FinishType DEF Grant
    <3> QED BY <1>4, <3>1, <3>2, <3>3, <3>4
  <2>3. Alone'
    BY <2>1, <2>2 DEF Alone, IInv, Busy, PastCheck
  <2>4. LockIsEarned'
    BY <2>1 DEF LockIsEarned, IInv
  <2> QED BY <2>3, <2>4
<1>5. ASSUME NEW r \in Requests, CountRead(r) PROVE Alone' /\ LockIsEarned'
  <2>1. /\ attempt' = attempt /\ served' = served /\ crowd' = crowd
        /\ req[r].pc = "counting"
    BY <1>5 DEF CountRead
  <2>2. /\ \A q \in Requests \ {r} : req'[q] = req[q]
        /\ req'[r].pc = "writing" /\ req'[r].count = attempt.count
    BY <1>0, <1>5 DEF CountRead, TypeOK, Request
  <2>3. Alone'
    BY <2>1, <2>2 DEF Alone, IInv, Busy, PastCheck
  <2>4. LockIsEarned'
    BY <2>1 DEF LockIsEarned, IInv
  <2> QED BY <2>3, <2>4
<1>6. ASSUME NEW r \in Requests, CountWrite(r) PROVE Alone' /\ LockIsEarned'
  <2>1. /\ served' = served + 1 /\ crowd' = crowd
        /\ req[r].pc = "writing"
    BY <1>6 DEF CountWrite
  <2>2. /\ \A q \in Requests \ {r} : req'[q] = req[q]
        /\ req'[r].pc = "idle"
    BY <1>0, <1>6, FinishType DEF CountWrite
  <2> SUFFICES ASSUME crowd = 1 PROVE Alone' /\ LockIsEarned'
    BY <2>1 DEF Alone, LockIsEarned
  <2>3. /\ req[r].count = attempt.count
        /\ attempt.lock = Unlocked
        /\ \A q \in Requests \ {r} : ~Busy(q)
    BY <2>1 DEF IInv, Alone, Busy, PastCheck
  <2>4. Alone'
    BY <2>2, <2>3 DEF Alone, Busy, PastCheck
  <2>5. attempt' = Counted(attempt, attempt.count, req[r].age)
    BY <1>6, <2>3 DEF CountWrite
  <2>6. /\ attempt \in [count : Nat, lock : Unlocked..Window]
        /\ attempt.count \in Nat /\ req[r].age \in 0..Slowest
    BY <1>0 DEF TypeOK, Request
  <2>7. /\ attempt'.count = attempt.count + 1
        /\ attempt'.lock # Unlocked <=> attempt.count + 1 >= MaxFailures
    BY <2>3, <2>5, <2>6, CountedRow
  <2>8. attempt.count = served /\ ~(served >= MaxFailures) /\ served \in Nat
    BY <1>0, <2>3 DEF IInv, LockIsEarned, TypeOK
  <2>9. LockIsEarned'
    BY <2>1, <2>7, <2>8, ThrottleAssumption DEF LockIsEarned
  <2> QED BY <2>4, <2>9
<1>7. ASSUME NEW r \in Requests, Delete(r) PROVE Alone' /\ LockIsEarned'
  <2>1. /\ attempt'.count = 0 /\ attempt'.lock = Unlocked /\ served' = 0
        /\ Busy(r)
    BY <1>7 DEF Delete, CountEnds, NoRow, Busy
  <2>2. /\ \A q \in Requests \ {r} : req'[q] = req[q]
        /\ req'[r].pc = "granting"
    BY <1>0, <1>7, GotoType DEF Delete, Labels
  <2>3. crowd' = 1 => \A q \in Requests \ {r} : ~Busy(q)
    BY <1>0, <2>1, <1>7, CrowdEnds DEF IInv, Alone, Delete
  <2>4. Alone'
    BY <2>1, <2>2, <2>3 DEF Alone, Busy, PastCheck
  <2>5. LockIsEarned'
    BY <2>1, ThrottleAssumption DEF LockIsEarned
  <2> QED BY <2>4, <2>5
<1>8. ASSUME Tick PROVE Alone' /\ LockIsEarned'
  <2>1. served' = served /\ crowd' = crowd
    BY <1>8 DEF Tick
  <2>2. \A q \in Requests : req'[q].pc = req[q].pc /\ req'[q].count = req[q].count
    BY <1>0, <1>8 DEF Tick, TypeOK, Request
  <2>3. /\ attempt'.count = attempt.count
        /\ attempt'.lock = Unlocked <=> attempt.lock = Unlocked
        /\ Ended => Ended'
    BY <1>0, <1>8, ThrottleAssumption DEF Tick, TypeOK, Older, Unlocked, Ended
  <2>4. Alone'
    BY <2>1, <2>2, <2>3 DEF Alone, IInv, Busy, PastCheck
  <2>5. LockIsEarned'
    BY <2>1, <2>3 DEF LockIsEarned, IInv
  <2> QED BY <2>4, <2>5
<1>9. ASSUME Restart PROVE Alone' /\ LockIsEarned'
  <2>1. \A q \in Requests : req'[q].pc = "idle"
    BY <1>9 DEF Restart, Idle
  <2>2. Alone'
    BY <2>1 DEF Alone, Busy, PastCheck
  <2>3. LockIsEarned'
    BY <1>9 DEF Restart, LockIsEarned, IInv
  <2> QED BY <2>2, <2>3
<1>10. ASSUME UNCHANGED vars PROVE Alone' /\ LockIsEarned'
  BY <1>10 DEF vars, Alone, LockIsEarned, IInv, Busy, Ended
<1> QED
  BY <1>1, <1>2, <1>3, <1>4, <1>5, <1>6, <1>7, <1>8, <1>9, <1>10 DEF Next, Step

LEMMA Invariance == Spec => []IInv
BY InitIInv, NextIInv, PTL DEF Spec

------------------------------------------------------------------------------
\* Every column, counter and request keeps its type (Throttle!TypeOK).
THEOREM TypeCorrect == Spec => []TypeOK
<1>1. IInv => TypeOK
  BY DEF IInv
<1> QED BY <1>1, Invariance, PTL

\* While requests come one at a time a user is locked exactly at the limit, and
\* no guess beyond it is answered, whatever the limit, the length of a lock and
\* the moments of deploys (login_throttle.py).
THEOREM SerialLimit == Spec => []LockIsEarned
<1>1. IInv => LockIsEarned
  BY DEF IInv
<1> QED BY <1>1, Invariance, PTL

\* No failure in flight undoes a lock, however many requests race.
THEOREM LocksStay == Spec => GuessesNeverUnlock
<1>1. ASSUME TypeOK, NEW r \in Requests, CountWrite(r), attempt.lock # Unlocked
      PROVE  attempt'.lock # Unlocked
  <2>1. /\ attempt \in [count : Nat, lock : Unlocked..Window]
        /\ req[r].count \in Nat /\ req[r].age \in 0..Slowest
    BY <1>1 DEF TypeOK, Request
  <2>2. Counted(attempt, req[r].count, req[r].age).lock # Unlocked
    BY <1>1, <2>1, CountedRow
  <2>3. \/ attempt' = Counted(attempt, req[r].count, req[r].age)
        \/ attempt' = attempt
    BY <1>1 DEF CountWrite
  <2> QED BY <1>1, <2>2, <2>3
<1>2. TypeOK /\ [Next]_vars =>
        [\A r \in Requests : CountWrite(r) /\ attempt.lock # Unlocked =>
           attempt'.lock # Unlocked]_vars
  BY <1>1
<1> QED BY <1>2, TypeCorrect, PTL DEF Spec, GuessesNeverUnlock
------------------------------------------------------------------------------
(* Requests that race, no three of them at once: how many wrong guesses    *)
(* are answered before the count ends, for any limit.                      *)

TwoBusy == \A p, q, r \in Requests :
             Busy(p) /\ Busy(q) /\ Busy(r) => p = q \/ q = r \/ p = r

\* The crowd is at least the requests that are in flight.
CrowdKnown == crowd <= 2 => TwoBusy

\* 1 + ... + k, twice.
Steps(k) == k * (k + 1)

(* Room(c): twice the number of wrong guesses that may still be answered   *)
(* when the row counts c and no request holds an older count.  The best    *)
(* that two can do is for one to read, the other to climb to the last      *)
(* count below the limit, and the first to set the count back.             *)
Room(c) == IF c = 0 THEN Steps(MaxFailures - 1) + 6 ELSE Steps(MaxFailures - c) + 2

\* The same when a request is about to write that had read d.
LateRoom(c, d) ==
  IF (c = 0) # (d = 0) THEN Room(c) + 2          \* refused: answered, not counted
  ELSE IF d >= c       THEN Room(c)              \* read just now, or from before the row
                       ELSE 2 * (MaxFailures - c) + Room(d + 1)

\* The ceiling is not below the triangular number of the limit and three.
CeilingSuffices == 2 * Ceiling >= Steps(MaxFailures) + 6

LEMMA StepsGrow ==
  ASSUME NEW j \in Nat, NEW k \in Nat, j < k
  PROVE  Steps(j) \in Nat /\ Steps(j) + 2 <= Steps(k) /\ Steps(k) = Steps(k - 1) + 2 * k
<1>1. Steps(k) - Steps(j) = (k - j) * (k + j + 1)
  BY DEF Steps
<1>2. \A x, y \in Nat : x >= 1 /\ y >= 2 => x * y >= 2
  <2> TAKE x, y \in Nat
  <2> HAVE x >= 1 /\ y >= 2
  <2>1. x * y = (x - 1) * y + y /\ (x - 1) * y >= 0
    OBVIOUS
  <2> QED BY <2>1
<1>3. k - j \in Nat /\ k - j >= 1 /\ k + j + 1 \in Nat /\ k + j + 1 >= 2
  OBVIOUS
<1>4. (k - j) * (k + j + 1) >= 2
  BY <1>2, <1>3
<1>5. Steps(j) \in Nat /\ Steps(k) \in Int
  BY DEF Steps
<1>6. Steps(k) = Steps(k - 1) + 2 * k
  BY DEF Steps
<1> QED BY <1>1, <1>4, <1>5, <1>6

LEMMA RoomFacts ==
  ASSUME NEW c \in 0..(MaxFailures - 1)
  PROVE  /\ Room(c) \in Nat /\ Room(c) >= 4 /\ Room(c) <= Room(0)
         /\ c # 0 => Room(c) = Room(c + 1) + 2 * (MaxFailures - c)
         /\ c = 0 => Room(0) = Room(1) + 4
         /\ \A e \in (c + 1)..MaxFailures : Room(e) \in Nat /\ Room(e) + 2 <= Room(c)
<1>0. Steps(0) = 0 /\ MaxFailures \in Nat \ {0}
  BY ThrottleAssumption DEF Steps
<1>1. Steps(MaxFailures - 1) \in Nat
  BY <1>0 DEF Steps
<1>2. CASE c = 0
  <2>1. Room(0) = Steps(MaxFailures - 1) + 6 /\ Room(1) = Steps(MaxFailures - 1) + 2
    BY DEF Room
  <2>2. ASSUME NEW e \in 1..MaxFailures PROVE Room(e) \in Nat /\ Room(e) <= Room(1)
    <3>1. Room(e) = Steps(MaxFailures - e) + 2 /\ MaxFailures - e \in Nat
      BY <1>0 DEF Room
    <3>2. CASE e = 1
      BY <1>1, <2>1, <3>2
    <3>3. CASE e # 1
      <4>1. MaxFailures - 1 \in Nat /\ MaxFailures - e < MaxFailures - 1
        BY <1>0, <3>3
      <4>2. Steps(MaxFailures - e) \in Nat
            /\ Steps(MaxFailures - e) + 2 <= Steps(MaxFailures - 1)
        BY <3>1, <4>1, StepsGrow
      <4> QED BY <1>1, <2>1, <3>1, <4>2
    <3> QED BY <3>2, <3>3
  <2> QED BY <1>1, <1>2, <2>1, <2>2
<1>3. CASE c # 0
  <2> DEFINE k == MaxFailures - c
  <2>1. k \in Nat \ {0} /\ MaxFailures - 1 \in Nat /\ k <= MaxFailures - 1
    BY <1>0, <1>3
  <2>2. Room(c) = Steps(k) + 2 /\ Room(c + 1) = Steps(k - 1) + 2
    <3>1. MaxFailures - (c + 1) = k - 1
      BY <1>0
    <3> QED BY <1>3, <3>1 DEF Room
  <2>3. Steps(k) \in Nat /\ Steps(k) >= 2 /\ Steps(k) = Steps(k - 1) + 2 * k
        /\ Steps(k - 1) \in Nat
    <3>1. 0 \in Nat /\ k - 1 \in Nat /\ 0 < k /\ k - 1 < k
      BY <2>1
    <3>2. Steps(k) \in Nat
      BY <2>1 DEF Steps
    <3> HIDE DEF k
    <3> QED BY <1>0, <2>1, <3>1, <3>2, StepsGrow
  <2>4. Steps(k) <= Steps(MaxFailures - 1)
    <3>1. CASE k = MaxFailures - 1
      BY <1>1, <3>1
    <3>2. CASE k < MaxFailures - 1
      <4> HIDE DEF k
      <4> QED BY <1>1, <2>1, <2>3, <3>2, StepsGrow
    <3> QED BY <2>1, <3>1, <3>2
  <2>5. ASSUME NEW e \in (c + 1)..MaxFailures PROVE Room(e) \in Nat /\ Room(e) + 2 <= Room(c)
    <3>1. Room(e) = Steps(MaxFailures - e) + 2 /\ MaxFailures - e \in Nat
          /\ MaxFailures - e < k
      BY <1>0 DEF Room
    <3> HIDE DEF k
    <3>2. Steps(MaxFailures - e) \in Nat /\ Steps(MaxFailures - e) + 2 <= Steps(k)
      BY <2>1, <3>1, StepsGrow
    <3> QED BY <2>2, <2>3, <3>1, <3>2
  <2>6. Room(0) = Steps(MaxFailures - 1) + 6
    BY DEF Room
  <2> HIDE DEF k
  <2>7. Room(c) \in Nat /\ Room(c) >= 4 /\ Room(c) <= Room(0)
    BY <1>1, <2>2, <2>3, <2>4, <2>6
  <2>8. Room(c) = Room(c + 1) + 2 * k
    BY <2>1, <2>2, <2>3
  <2> QED BY <1>3, <2>5, <2>7, <2>8 DEF k
<1> QED BY <1>2, <1>3

\* Reading the row now makes no request late, and a late one is worth at most
\* one guess more when there is no row.
LEMMA LateOnTime ==
  ASSUME NEW c \in 0..(MaxFailures - 1), NEW d \in Nat
  PROVE  /\ LateRoom(c, c) = Room(c)
         /\ LateRoom(c, d) \in Nat
         /\ c = 0 => LateRoom(c, d) <= Room(0) + 2
         /\ (c = 0) # (d = 0) => LateRoom(c, d) = Room(c) + 2
<1>1. Room(c) \in Nat
  BY RoomFacts
<1>2. CASE (c = 0) # (d = 0)
  BY <1>1, <1>2 DEF LateRoom
<1>3. CASE (c = 0) = (d = 0) /\ d >= c
  BY <1>1, <1>3 DEF LateRoom
<1>4. CASE (c = 0) = (d = 0) /\ d < c
  <2>1. LateRoom(c, d) = 2 * (MaxFailures - c) + Room(d + 1)
    BY <1>4 DEF LateRoom
  <2>2. d \in 0..(MaxFailures - 1) /\ d + 1 \in (d + 1)..MaxFailures
    BY <1>4, ThrottleAssumption
  <2>3. Room(d + 1) \in Nat
    BY <2>2, RoomFacts
  <2>4. LateRoom(c, c) = Room(c) /\ c # 0 /\ d # 0 /\ MaxFailures - c \in Nat
    BY <1>4, ThrottleAssumption DEF LateRoom
  <2> QED BY <2>1, <2>3, <2>4
<1> QED BY <1>2, <1>3, <1>4 DEF LateRoom

\* A write that counts d + 1, below the limit, spends one guess: the room left
\* to the other request is smaller than what one of the two had before.
LEMMA LateWrite ==
  ASSUME NEW c \in 0..(MaxFailures - 1), NEW d \in Nat, (c = 0) <=> (d = 0),
         d + 1 < MaxFailures
  PROVE  /\ Room(d + 1) + 2 <= LateRoom(c, d)
         /\ \A e \in Nat : d = c \/ e = c =>
              \/ LateRoom(d + 1, e) + 2 <= LateRoom(c, d)
              \/ LateRoom(d + 1, e) + 2 <= LateRoom(c, e)
<1>0. /\ d + 1 \in 0..(MaxFailures - 1) /\ MaxFailures \in Nat /\ d + 1 # 0
      /\ d + 2 = (d + 1) + 1
  BY ThrottleAssumption
<1>1. /\ Room(c) \in Nat /\ Room(d + 1) \in Nat
      /\ \A e \in (c + 1)..MaxFailures : Room(e) \in Nat /\ Room(e) + 2 <= Room(c)
      /\ c = 0 => Room(0) = Room(1) + 4
      /\ c # 0 => Room(c) = Room(c + 1) + 2 * (MaxFailures - c)
      /\ Room(d + 1) = Room(d + 2) + 2 * (MaxFailures - (d + 1))
  <2>1. Room(d + 1) = Room(d + 2) + 2 * (MaxFailures - (d + 1)) /\ Room(d + 1) \in Nat
    BY <1>0, RoomFacts
  <2> QED BY <2>1, RoomFacts
<1>2. Room(d + 1) + 2 <= LateRoom(c, d)
  <2>1. CASE d >= c
    <3>1. LateRoom(c, d) = Room(c) /\ d + 1 \in (c + 1)..MaxFailures
      BY <2>1, <1>0 DEF LateRoom
    <3> QED BY <1>1, <3>1
  <2>2. CASE d < c
    <3>1. LateRoom(c, d) = 2 * (MaxFailures - c) + Room(d + 1) /\ MaxFailures - c >= 1
      BY <2>2, <1>0 DEF LateRoom
    <3> QED BY <1>0, <1>1, <3>1
  <2> QED BY <2>1, <2>2
<1>3. ASSUME NEW e \in Nat, d = c
      PROVE  \/ LateRoom(d + 1, e) + 2 <= LateRoom(c, d)
             \/ LateRoom(d + 1, e) + 2 <= LateRoom(c, e)
  <2>0. LateRoom(c, d) = Room(c)
    BY <1>3 DEF LateRoom
  <2>1. CASE e = 0
    <3>1. LateRoom(d + 1, e) = Room(d + 1) + 2
      BY <1>0, <2>1 DEF LateRoom
    <3>2. CASE c = 0
      BY <1>1, <1>3, <2>0, <3>1, <3>2
    <3>3. CASE c # 0
      <4>1. LateRoom(c, e) = Room(c) + 2 /\ c + 1 \in (c + 1)..MaxFailures
        BY <1>0, <2>1, <3>3 DEF LateRoom
      <4> QED BY <1>1, <1>3, <3>1, <4>1
    <3> QED BY <3>2, <3>3
  <2>2. CASE e # 0 /\ e >= d + 1
    <3>1. LateRoom(d + 1, e) = Room(d + 1)
      BY <1>0, <2>2 DEF LateRoom
    <3> QED BY <1>2, <3>1
  <2>3. CASE e # 0 /\ e < d + 1
    <3>1. /\ LateRoom(d + 1, e) = 2 * (MaxFailures - (d + 1)) + Room(e + 1)
          /\ c # 0
      BY <1>0, <1>3, <2>3 DEF LateRoom
    <3>2. CASE e = c
      <4>1. LateRoom(c, e) = Room(c)
        BY <3>2 DEF LateRoom
      <4> QED BY <1>0, <1>1, <1>3, <3>1, <3>2, <4>1
    <3>3. CASE e < c
      <4>1. LateRoom(c, e) = 2 * (MaxFailures - c) + Room(e + 1)
        BY <2>3, <3>1, <3>3 DEF LateRoom
      <4>2. e \in 0..(MaxFailures - 1) /\ e + 1 \in (e + 1)..MaxFailures
        BY <1>0, <3>3
      <4>3. Room(e + 1) \in Nat
        BY <4>2, RoomFacts
      <4> QED BY <1>0, <1>3, <3>1, <4>1, <4>3
    <3> QED BY <1>3, <2>3, <3>2, <3>3
  <2> QED BY <2>1, <2>2, <2>3
<1>4. ASSUME NEW e \in Nat, d # c, e = c
      PROVE  \/ LateRoom(d + 1, e) + 2 <= LateRoom(c, d)
             \/ LateRoom(d + 1, e) + 2 <= LateRoom(c, e)
  <2>1. c # 0 /\ d # 0 /\ e # 0
    BY <1>4
  <2>2. CASE e >= d + 1
    <3>1. LateRoom(d + 1, e) = Room(d + 1)
      BY <1>0, <2>1, <2>2 DEF LateRoom
    <3> QED BY <1>2, <3>1
  <2>3. CASE e < d + 1
    <3>1. /\ LateRoom(d + 1, e) = 2 * (MaxFailures - (d + 1)) + Room(c + 1)
          /\ LateRoom(c, e) = Room(c)
      BY <1>0, <1>4, <2>1, <2>3 DEF LateRoom
    <3>2. c < d /\ c + 1 \in (c + 1)..MaxFailures
      BY <1>0, <1>4, <2>3
    <3> QED BY <1>0, <1>1, <2>1, <3>1, <3>2
  <2> QED BY <2>2, <2>3, <1>0
<1> QED BY <1>2, <1>3, <1>4

LEMMA CeilingFits ==
  ASSUME CeilingSuffices
  PROVE  Room(0) + 2 * MaxFailures <= 2 * Ceiling /\ Room(0) \in Nat
<1>1. 0 \in 0..(MaxFailures - 1) /\ MaxFailures - 1 < MaxFailures /\ MaxFailures - 1 \in Nat
      /\ MaxFailures \in Nat
  BY ThrottleAssumption
<1>2. Steps(MaxFailures) = Steps(MaxFailures - 1) + 2 * MaxFailures
      /\ Steps(MaxFailures - 1) \in Nat
  BY <1>1, StepsGrow
<1>3. Room(0) = Steps(MaxFailures - 1) + 6
  BY DEF Room
<1> QED BY <1>1, <1>2, <1>3, ThrottleAssumption DEF CeilingSuffices

------------------------------------------------------------------------------
(* The invariant of the race.                                              *)

Guessing(r) == req[r].pc \in {"verifying", "counting", "writing"}
Writing(r)  == req[r].pc = "writing"
Dropping(r) == req[r].pc = "dropping"
Open        == attempt.lock = Unlocked

\* A lock ends only after the guesses that were in flight when it fell: for any
\* number of requests.
LockOutlivesGuesses ==
  ~Open => \A r \in Requests : Guessing(r) => attempt.lock + req[r].age > Slowest

(* Of two requests: a lock falls when one of them ends, so at most the      *)
(* other one has still to answer; while one drops or writes, only the      *)
(* other can move the count.                                               *)
RaceOrder ==
  /\ Open => attempt.count < MaxFailures
  /\ \A q, r \in Requests : Dropping(q) /\ Dropping(r) => q = r \/ Ended
  /\ Open => \A q, r \in Requests : Dropping(q) /\ Writing(r) => req[r].count = attempt.count
  /\ Open => \A q, r \in Requests : Writing(q) /\ Writing(r) =>
                q = r \/ req[q].count = attempt.count \/ req[r].count = attempt.count
  /\ ~Open => \A q, r \in Requests : Guessing(q) => ~Dropping(r) /\ (Guessing(r) => q = r)

\* n is twice the number of guesses that may be answered from here on.
Left(n) == 2 * served + n <= 2 * Ceiling

(* A request that drops, left over from the lock before, takes away a whole *)
(* count that the other one has climbed.                                    *)
RaceBudget ==
  /\ Left(0)
  /\ Open /\ (\A r \in Requests : ~Dropping(r)) =>
       /\ Left(Room(attempt.count))
       /\ \A r \in Requests : Writing(r) => Left(LateRoom(attempt.count, req[r].count))
  /\ Open => \A r \in Requests : Dropping(r) =>
       Left(Room(0) + 2 * (MaxFailures - attempt.count))
  /\ ~Open => \A r \in Requests : /\ Guessing(r) => Left(2)
                                  /\ Dropping(r) /\ Live(attempt, 0) => Left(Room(0))

Race == LockOutlivesGuesses /\ CrowdKnown /\ (crowd <= 2 => RaceOrder /\ RaceBudget)

LEMMA InitRace == CeilingSuffices /\ Init => Race
<1> SUFFICES ASSUME CeilingSuffices, Init PROVE Race
  OBVIOUS
<1>1. /\ attempt.lock = Unlocked /\ attempt.count = 0 /\ served = 0
      /\ \A r \in Requests : req[r].pc = "idle"
  BY DEF Init, NoRow, Idle
<1>2. Room(0) + 2 * MaxFailures <= 2 * Ceiling /\ Room(0) \in Nat
  BY CeilingFits
<1>3. LockOutlivesGuesses /\ CrowdKnown /\ RaceOrder
  BY <1>1, ThrottleAssumption
     DEF LockOutlivesGuesses, CrowdKnown, TwoBusy, Busy, RaceOrder, Open, Guessing, Writing,
         Dropping
<1>4. RaceBudget
  BY <1>1, <1>2, ThrottleAssumption
     DEF RaceBudget, Open, Guessing, Writing, Dropping, Left
<1> QED BY <1>3, <1>4 DEF Race

LEMMA TimingStep ==
  ASSUME TypeOK, TypeOK', LockOutlivesGuesses, [Next]_vars
  PROVE  LockOutlivesGuesses'
<1>0. /\ req \in [Requests -> Request] /\ attempt \in [count : Nat, lock : Unlocked..Window]
      /\ \A r \in Requests : req[r].age \in 0..Slowest /\ req'[r].age \in 0..Slowest
      /\ attempt.lock \in Unlocked..Window /\ attempt'.lock \in Unlocked..Window
  BY DEF TypeOK, Request
\* A request that moves on under an unchanged row.
<1>a. ASSUME NEW r \in Requests, attempt' = attempt,
             \A q \in Requests \ {r} : req'[q] = req[q],
             Guessing(r)' => Open \/ (Guessing(r) /\ req'[r].age = req[r].age)
      PROVE  LockOutlivesGuesses'
  BY <1>a DEF LockOutlivesGuesses, Open, Guessing
<1>1. ASSUME NEW r \in Requests, Login(r) \/ Change(r) PROVE LockOutlivesGuesses'
  <2>1. PICK change \in BOOLEAN, guess \in Codes : Arrive(r, change, guess)
    BY <1>1 DEF Login, Change
  <2>2. /\ req'[r].pc = "checking" /\ attempt' = attempt
        /\ \A q \in Requests \ {r} : req'[q] = req[q]
    BY <2>1, <1>0 DEF Arrive, Idle
  <2> QED BY <1>a, <2>2 DEF Guessing
<1>2. ASSUME NEW r \in Requests, Check(r) PROVE LockOutlivesGuesses'
  <2>1. /\ attempt' = attempt /\ \A q \in Requests \ {r} : req'[q] = req[q]
        /\ \/ req'[r].pc = "verifying" /\ Open
           \/ req'[r].pc \in {"dropping", "idle"}
    BY <1>2, GotoType, FinishType DEF Check, Labels, Open
  <2> QED BY <1>a, <2>1 DEF Guessing
<1>3. ASSUME NEW r \in Requests, Drop(r) \/ Delete(r) PROVE LockOutlivesGuesses'
  BY <1>3 DEF Drop, Delete, NoRow, LockOutlivesGuesses, Open
<1>4. ASSUME NEW r \in Requests, Verify(r) \/ Save(r) \/ ClearRead(r) \/ Grant(r)
      PROVE  LockOutlivesGuesses'
  <2>1. attempt' = attempt /\ req[r].pc \in {"verifying", "saving", "clearing", "granting"}
    BY <1>4 DEF Verify, Save, ClearRead, Grant
  <2>2. /\ \A q \in Requests \ {r} : req'[q] = req[q]
        /\ \/ req'[r].pc \in {"clearing", "saving", "deleting", "granting", "idle"}
           \/ req[r].pc = "verifying" /\ req'[r].pc = "counting" /\ req'[r].age = req[r].age
    <3>1. CASE Verify(r)
      BY <3>1, GotoType, FinishType DEF Verify, Labels
    <3>2. CASE Save(r) \/ ClearRead(r)
      BY <3>2, GotoType DEF Save, ClearRead, Labels
    <3>3. CASE Grant(r)
      BY <3>3, FinishType DEF Grant
    <3> QED BY <1>4, <3>1, <3>2, <3>3
  <2> QED BY <1>a, <2>1, <2>2 DEF Guessing
<1>5. ASSUME NEW r \in Requests, CountRead(r) PROVE LockOutlivesGuesses'
  <2>1. /\ attempt' = attempt /\ req[r].pc = "counting" /\ req'[r].age = req[r].age
        /\ \A q \in Requests \ {r} : req'[q] = req[q]
    BY <1>0, <1>5 DEF CountRead, Request
  <2> QED BY <1>a, <2>1 DEF Guessing
<1>6. ASSUME NEW r \in Requests, CountWrite(r) PROVE LockOutlivesGuesses'
  <2>1. /\ req'[r].pc = "idle" /\ \A q \in Requests \ {r} : req'[q] = req[q]
    BY <1>6, FinishType DEF CountWrite
  <2>2. \/ attempt'.lock = attempt.lock
        \/ attempt'.lock = Window - req[r].age
    BY <1>0, <1>6 DEF CountWrite, Counted
  <2>3. CASE attempt'.lock = attempt.lock
    BY <2>1, <2>3 DEF LockOutlivesGuesses, Open, Guessing
  <2>4. CASE attempt'.lock = Window - req[r].age
    BY <1>0, <2>1, <2>4, ThrottleAssumption DEF LockOutlivesGuesses, Guessing
  <2> QED BY <2>2, <2>3, <2>4
<1>7. ASSUME Tick PROVE LockOutlivesGuesses'
  <2>1. \A q \in Requests : Guessing(q)' =>
          Guessing(q) /\ req'[q].age = req[q].age + 1 /\ req[q].age < Slowest
    BY <1>0, <1>7 DEF Tick, Request, Guessing, Busy
  <2>2. attempt'.lock = Older(attempt.lock)
    BY <1>0, <1>7 DEF Tick
  <2> SUFFICES ASSUME ~Open', NEW q \in Requests, Guessing(q)'
               PROVE  attempt'.lock + req'[q].age > Slowest
    BY DEF LockOutlivesGuesses
  <2>3. ~Open
    BY <1>0, <2>2 DEF Open, Older
  <2>4. attempt.lock + req[q].age > Slowest
    BY <2>1, <2>3 DEF LockOutlivesGuesses
  <2> QED BY <1>0, <2>1, <2>2, <2>3, <2>4, ThrottleAssumption DEF Older, Open, Unlocked
<1>8. ASSUME Restart PROVE LockOutlivesGuesses'
  BY <1>8 DEF Restart, Idle, LockOutlivesGuesses, Guessing
<1>9. ASSUME UNCHANGED vars PROVE LockOutlivesGuesses'
  BY <1>9 DEF vars, LockOutlivesGuesses, Open, Guessing
<1> QED
  BY <1>1, <1>2, <1>3, <1>4, <1>5, <1>6, <1>7, <1>8, <1>9 DEF Next, Step

\* A request moves on without touching the row: it neither drops nor writes
\* afterwards, and only an open row lets it start to guess.
LEMMA QuietStep ==
  ASSUME RaceOrder, RaceBudget, NEW r \in Requests,
         attempt' = attempt, served' = served,
         \A q \in Requests \ {r} : req'[q] = req[q],
         ~Dropping(r), ~Dropping(r)', ~Writing(r)', Guessing(r)' => Guessing(r) \/ Open
  PROVE  RaceOrder' /\ RaceBudget'
<1>1. /\ \A q \in Requests : Dropping(q)' <=> Dropping(q)
      /\ \A q \in Requests : Writing(q)' => Writing(q) /\ req'[q].count = req[q].count
      /\ ~Open => \A q \in Requests : Guessing(q)' => Guessing(q)
  BY DEF Dropping, Writing, Guessing
<1>2. RaceOrder'
  BY <1>1 DEF RaceOrder, Open, Ended
<1>3. RaceBudget'
  BY <1>1 DEF RaceBudget, Open, Left, Live
<1> QED BY <1>2, <1>3

\* The row goes and guesses are counted from zero.
LEMMA FreshStep ==
  ASSUME TwoBusy', CeilingSuffices, TypeOK', NEW r \in Requests,
         attempt' = NoRow, served' = 0, Busy(r)', ~Dropping(r)', ~Writing(r)'
  PROVE  RaceOrder' /\ RaceBudget'
<1>1. attempt'.count = 0 /\ Open'
  BY DEF NoRow, Open
<1>2. \A p, q \in Requests : p # q => ~(Dropping(p)' /\ Dropping(q)')
  BY DEF TwoBusy, Dropping, Busy
<1>3. \A p, q \in Requests : Dropping(p)' => ~Writing(q)'
  BY DEF TwoBusy, Dropping, Writing, Busy
<1>4. \A p, q \in Requests : p # q => ~(Writing(p)' /\ Writing(q)')
  BY DEF TwoBusy, Writing, Busy
<1>5. RaceOrder'
  BY <1>1, <1>2, <1>3, <1>4, ThrottleAssumption DEF RaceOrder
<1>6. Room(0) + 2 * MaxFailures <= 2 * Ceiling /\ Room(0) \in Nat
  BY CeilingFits
<1>7. \A q \in Requests : LateRoom(0, req'[q].count) <= Room(0) + 2
                          /\ LateRoom(0, req'[q].count) \in Nat
  <2>1. \A q \in Requests : req'[q].count \in Nat
    BY DEF TypeOK, Request
  <2>2. 0 \in 0..(MaxFailures - 1)
    BY ThrottleAssumption
  <2> QED BY <2>1, <2>2, LateOnTime
<1>8. RaceBudget'
  BY <1>1, <1>6, <1>7, ThrottleAssumption DEF RaceBudget, Left
<1> QED BY <1>5, <1>8

\* A request that found the lock ended drops a row that is locked again, or a
\* count begun without it: guesses go on from zero but are not forgotten.
LEMMA LateDrop ==
  ASSUME TwoBusy, TypeOK, TypeOK', RaceOrder, RaceBudget, NEW r \in Requests,
         Drop(r), Live(attempt, 0) \/ Open
  PROVE  RaceOrder' /\ RaceBudget'
<1>1. /\ attempt' = NoRow /\ served' = served /\ Dropping(r) /\ req'[r].pc = "verifying"
      /\ \A q \in Requests \ {r} : req'[q] = req[q]
  BY DEF Drop, Dropping, TypeOK, Request, Open
<1>2. attempt'.count = 0 /\ Open'
  BY <1>1 DEF NoRow, Open
<1>3. \A q \in Requests \ {r} : ~Dropping(q)
  <2>1. attempt.lock \in Unlocked..Window
    BY DEF TypeOK
  <2>2. ~Ended
    BY <2>1, ThrottleAssumption DEF Live, Open, Ended, Unlocked
  <2> QED BY <1>1, <2>2 DEF RaceOrder
<1>4. \A q \in Requests : ~Dropping(q)'
  BY <1>1, <1>3 DEF Dropping
<1>5. \A q \in Requests : Writing(q)' => q # r /\ Writing(q) /\ req'[q].count = req[q].count
  BY <1>1 DEF Writing
<1>6. RaceOrder'
  <2>1. \A p, q \in Requests : Writing(p)' /\ Writing(q)' => p = q
    BY <1>1, <1>5 DEF TwoBusy, Busy, Writing, Dropping
  <2> QED BY <1>2, <1>4, <1>5, <2>1, ThrottleAssumption DEF RaceOrder
<1>7. 0 \in 0..(MaxFailures - 1) /\ Room(0) \in Nat
  BY ThrottleAssumption, RoomFacts
<1>8. \A q \in Requests : req[q].count \in Nat /\ LateRoom(0, req[q].count) \in Nat
                          /\ LateRoom(0, req[q].count) <= Room(0) + 2
  BY <1>7, LateOnTime DEF TypeOK, Request
<1>9. CASE Open
  <2>1. Left(Room(0) + 2 * (MaxFailures - attempt.count)) /\ attempt.count < MaxFailures
        /\ attempt.count \in Nat
    BY <1>1, <1>9 DEF RaceBudget, RaceOrder, TypeOK
  <2>2. Left(Room(0) + 2) /\ Left(0) /\ Left(Room(0))
    BY <1>7, <2>1, ThrottleAssumption DEF Left, TypeOK
  <2>3. \A q \in Requests : 2 * served + LateRoom(0, req[q].count) <= 2 * Ceiling
    BY <1>7, <1>8, <2>2, ThrottleAssumption DEF Left, TypeOK
  <2>4. \A q \in Requests : Writing(q)' => Left(LateRoom(attempt.count, req[q].count))'
    BY <1>1, <1>2, <1>5, <2>3 DEF Left
  <2>5. Left(0)' /\ Left(Room(attempt.count))'
    BY <1>1, <1>2, <2>2 DEF Left
  <2> QED BY <1>2, <1>4, <1>6, <2>4, <2>5 DEF RaceBudget
<1>10. CASE Live(attempt, 0) /\ ~Open
  <2>1. ~Open
    BY <1>10
  <2>2. Left(Room(0)) /\ Left(0) /\ \A q \in Requests : ~Writing(q)
    BY <1>1, <1>10, <2>1 DEF RaceBudget, RaceOrder, Guessing, Writing
  <2> QED BY <1>1, <1>2, <1>4, <1>5, <1>6, <2>2 DEF RaceBudget, Left
<1> QED BY <1>9, <1>10

\* A failure is counted, or refused because the row came or went meanwhile.
LEMMA RacingWrite ==
  ASSUME TwoBusy, TypeOK, TypeOK', RaceOrder, RaceBudget, NEW r \in Requests, CountWrite(r)
  PROVE  RaceOrder' /\ RaceBudget'
<1> DEFINE c == attempt.count
           d == req[r].count
<1>1. /\ served' = served + 1 /\ Writing(r) /\ Guessing(r) /\ req'[r].pc = "idle"
      /\ \A q \in Requests \ {r} : req'[q] = req[q]
      /\ c \in Nat /\ d \in Nat /\ served \in Nat /\ served' \in Nat
  BY FinishType DEF CountWrite, Writing, Guessing, TypeOK, Request
<1>2. /\ attempt' = attempt /\ ((c = 0) # (d = 0))
      \/ /\ attempt'.count = d + 1 /\ ((c = 0) = (d = 0))
         /\ Open' <=> (Open /\ d + 1 < MaxFailures)
  <2>1. CASE (c = 0) = (d = 0)
    <3>1. attempt' = Counted(attempt, d, req[r].age)
      BY <2>1 DEF CountWrite
    <3>2. attempt \in [count : Nat, lock : Unlocked..Window] /\ req[r].age \in 0..Slowest
      BY DEF TypeOK, Request
    <3>3. /\ attempt'.count = d + 1
          /\ attempt'.lock # Unlocked <=> (d + 1 >= MaxFailures \/ attempt.lock # Unlocked)
      <4> HIDE DEF d
      <4>1. /\ Counted(attempt, d, req[r].age).count = d + 1
            /\ Counted(attempt, d, req[r].age).lock # Unlocked <=>
                 (d + 1 >= MaxFailures \/ attempt.lock # Unlocked)
        BY <1>1, <3>2, CountedRow
      <4> QED BY <3>1, <4>1
    <3> QED BY <1>1, <2>1, <3>3, ThrottleAssumption DEF Open
  <2>2. CASE (c = 0) # (d = 0)
    BY <2>2 DEF CountWrite
  <2> QED BY <2>1, <2>2
<1>3. /\ \A q \in Requests : Dropping(q)' => q # r /\ Dropping(q)
      /\ \A q \in Requests : Writing(q)' => q # r /\ Writing(q) /\ req'[q].count = req[q].count
      /\ \A q \in Requests : Guessing(q)' => q # r /\ Guessing(q)
  BY <1>1 DEF Dropping, Writing, Guessing
<1>4. \A p, q \in Requests \ {r} :
        (Dropping(p) \/ Guessing(p)) /\ (Dropping(q) \/ Guessing(q)) => p = q
  BY <1>1 DEF TwoBusy, Busy, Dropping, Guessing, Writing
<1> HIDE DEF c, d
<1>5. CASE ~Open
  <2>1. ~Open' /\ Left(2) /\ \A q \in Requests \ {r} : ~Dropping(q) /\ ~Guessing(q)
    BY <1>1, <1>2, <1>5 DEF RaceBudget, RaceOrder, Open
  <2>2. \A q \in Requests : ~Dropping(q)' /\ ~Guessing(q)'
    BY <1>3, <2>1
  <2>3. RaceOrder'
    BY <2>1, <2>2 DEF RaceOrder
  <2>4. RaceBudget'
    BY <1>1, <2>1, <2>2 DEF RaceBudget, Left
  <2> QED BY <2>3, <2>4
<1>6. CASE Open /\ ~Open'
  <2>1. /\ c \in 0..(MaxFailures - 1) /\ MaxFailures \in Nat
    BY <1>1, <1>6, ThrottleAssumption DEF RaceOrder, c
  <2>2. Room(c) >= 4 /\ Room(c) \in Nat /\ Room(0) \in Nat
    BY <2>1, RoomFacts, ThrottleAssumption
  <2>3. RaceOrder'
    BY <1>3, <1>4, <1>6 DEF RaceOrder, Dropping, Guessing
  <2>4. CASE \E q \in Requests : Dropping(q)
    <3>1. PICK q \in Requests : Dropping(q)
      BY <2>4
    <3>2. Left(Room(0) + 2 * (MaxFailures - c)) /\ q # r
      BY <1>1, <1>6, <3>1 DEF RaceBudget, c, Dropping, Writing
    <3>3. \A p \in Requests : ~Guessing(p)'
      BY <1>3, <1>4, <3>1, <3>2 DEF Dropping, Guessing
    <3>4. Left(Room(0))' /\ Left(0)'
      <4>1. 2 * served' + Room(0) <= 2 * Ceiling
        BY <1>1, <2>1, <2>2, <3>2, ThrottleAssumption DEF Left
      <4> QED BY <1>1, <2>2, <4>1, ThrottleAssumption DEF Left
    <3> QED BY <1>6, <2>3, <3>3, <3>4 DEF RaceBudget
  <2>5. CASE \A q \in Requests : ~Dropping(q)
    <3>1. Left(Room(c))
      BY <1>6, <2>5 DEF RaceBudget, c
    <3>2. Left(2)' /\ Left(0)'
      BY <1>1, <2>2, <3>1, ThrottleAssumption DEF Left
    <3> QED BY <1>3, <1>6, <2>3, <2>5, <3>2 DEF RaceBudget
  <2> QED BY <2>4, <2>5
<1>7. CASE Open /\ Open'
  <2>1. /\ c \in 0..(MaxFailures - 1) /\ MaxFailures \in Nat
    BY <1>1, <1>7, ThrottleAssumption DEF RaceOrder, c
  <2>2. Room(c) \in Nat /\ Room(0) \in Nat /\ LateRoom(c, c) = Room(c) /\ LateRoom(c, d) \in Nat
    BY <1>1, <2>1, RoomFacts, LateOnTime, ThrottleAssumption
  <2>3. attempt'.count \in Nat /\ attempt'.count < MaxFailures
    BY <1>1, <1>2, <1>7, <2>1 DEF c
  <2>4. RaceOrder'
    BY <1>3, <1>4, <1>7, <2>3 DEF RaceOrder, Dropping, Writing, Guessing
  <2>5. CASE \E q \in Requests : Dropping(q)
    <3>1. PICK q \in Requests : Dropping(q)
      BY <2>5
    <3>2. /\ Left(Room(0) + 2 * (MaxFailures - c)) /\ q # r /\ d = c
      BY <1>1, <1>7, <3>1 DEF RaceBudget, RaceOrder, c, d, Dropping, Writing
    <3>3. attempt'.count = c + 1 /\ Dropping(q)'
      BY <1>1, <1>2, <3>1, <3>2 DEF Dropping
    <3>4. /\ 2 * served' + (Room(0) + 2 * (MaxFailures - (c + 1))) <= 2 * Ceiling
          /\ 2 * served' + 0 <= 2 * Ceiling
      <4>1. 2 * served' + (Room(0) + 2 * (MaxFailures - (c + 1))) <= 2 * Ceiling
        BY <1>1, <2>1, <2>2, <3>2, ThrottleAssumption DEF Left
      <4>2. 2 * served' + 0 <= 2 * Ceiling
        BY <1>1, <2>1, <2>2, <4>1, ThrottleAssumption
      <4> QED BY <4>1, <4>2
    <3>5. Left(0)' /\ Left(Room(0) + 2 * (MaxFailures - attempt.count))'
      BY <3>3, <3>4 DEF Left
    <3> QED BY <1>7, <2>4, <3>3, <3>5 DEF RaceBudget
  <2>6. CASE \A q \in Requests : ~Dropping(q)
    <3>1. /\ Left(Room(c)) /\ Left(LateRoom(c, d))
          /\ \A q \in Requests : Writing(q) => Left(LateRoom(c, req[q].count))
      BY <1>1, <1>7, <2>6 DEF RaceBudget, c, d
    <3>2. \A q \in Requests : Writing(q) /\ q # r =>
            req[q].count \in Nat /\ (d = c \/ req[q].count = c)
      BY <1>1, <1>7 DEF RaceOrder, c, d, TypeOK, Request
    <3>3. \A q \in Requests : ~Dropping(q)'
      BY <1>3, <2>6
    <3>4. SUFFICES /\ Left(0)' /\ Left(Room(attempt.count))'
                   /\ \A q \in Requests : Writing(q) /\ q # r =>
                        2 * served' + LateRoom(attempt'.count, req[q].count) <= 2 * Ceiling
      BY <1>3, <1>7, <2>4, <3>3 DEF RaceBudget, Left
    <3>5. CASE (c = 0) # (d = 0)
      <4>1. attempt'.count = c /\ LateRoom(c, d) = Room(c) + 2
        BY <1>1, <1>2, <2>1, <3>5, LateOnTime DEF c
      <4>2. 2 * served' + Room(c) <= 2 * Ceiling
        BY <1>1, <2>2, <3>1, <4>1, ThrottleAssumption DEF Left
      <4>3. \A q \in Requests : Writing(q) /\ q # r => req[q].count = c
        BY <3>2, <3>5
      <4> QED BY <1>1, <2>2, <4>1, <4>2, <4>3, ThrottleAssumption DEF Left
    <3>6. CASE (c = 0) = (d = 0)
      <4>1. attempt'.count = d + 1 /\ d + 1 < MaxFailures
        BY <1>2, <1>7, <3>6
      <4>2. /\ Room(d + 1) + 2 <= LateRoom(c, d)
            /\ \A e \in Nat : d = c \/ e = c =>
                 \/ LateRoom(d + 1, e) + 2 <= LateRoom(c, d)
                 \/ LateRoom(d + 1, e) + 2 <= LateRoom(c, e)
        BY <1>1, <2>1, <3>6, <4>1, LateWrite
      <4>3. d + 1 \in 0..(MaxFailures - 1) /\ Room(d + 1) \in Nat
        BY <1>1, <2>1, <4>1, RoomFacts
      <4>4. 2 * served' + Room(d + 1) <= 2 * Ceiling /\ 2 * served' + 0 <= 2 * Ceiling
        BY <1>1, <2>2, <3>1, <4>2, <4>3, ThrottleAssumption DEF Left
      <4>5. ASSUME NEW q \in Requests, Writing(q), q # r
            PROVE  2 * served' + LateRoom(d + 1, req[q].count) <= 2 * Ceiling
        <5> DEFINE e == req[q].count
        <5>1. e \in Nat /\ (d = c \/ e = c) /\ Left(LateRoom(c, e))
          BY <3>1, <3>2, <4>5
        <5> HIDE DEF e
        <5>2. LateRoom(c, e) \in Nat /\ LateRoom(d + 1, e) \in Nat
          BY <2>1, <4>3, <5>1, LateOnTime
        <5>3. \/ LateRoom(d + 1, e) + 2 <= LateRoom(c, d)
              \/ LateRoom(d + 1, e) + 2 <= LateRoom(c, e)
          BY <4>2, <5>1
        <5>4. 2 * served' + LateRoom(d + 1, e) <= 2 * Ceiling
          BY <1>1, <2>2, <3>1, <5>1, <5>2, <5>3, ThrottleAssumption DEF Left
        <5> QED BY <5>4 DEF e
      <4> QED BY <4>1, <4>4, <4>5 DEF Left
    <3> QED BY <3>5, <3>6
  <2> QED BY <2>5, <2>6
<1> QED BY <1>5, <1>6, <1>7

LEMMA CrowdStep ==
  ASSUME TypeOK, CrowdKnown, [Next]_vars
  PROVE  CrowdKnown'
<1>0. req \in [Requests -> Request] /\ crowd \in 1..3
  BY DEF TypeOK
<1>1. ASSUME NEW r \in Requests, Login(r) \/ Change(r) PROVE CrowdKnown'
  <2>1. PICK change \in BOOLEAN, guess \in Codes : Arrive(r, change, guess)
    BY <1>1 DEF Login, Change
  <2>2. /\ crowd' = Joined(r)
        /\ \A q \in Requests \ {r} : req'[q] = req[q]
    BY <2>1, <1>0 DEF Arrive
  <2>3. crowd' <= 2 => \A p, q \in Requests \ {r} : Busy(p) /\ Busy(q) => p = q
    BY <2>2, CrowdGrows DEF Company
  <2> QED BY <2>2, <2>3 DEF CrowdKnown, TwoBusy, Busy
<1>2. ASSUME NEW r \in Requests, Step(r) PROVE CrowdKnown'
  <2>1. /\ Busy(r)
        /\ \A q \in Requests \ {r} : req'[q] = req[q]
    BY <1>0, <1>2, GotoType, FinishType
       DEF Step, Check, Drop, Verify, Save, CountRead, CountWrite, ClearRead, Delete, Grant,
           Busy, Goto, Finish
  <2>2. crowd' # crowd => \A q \in Requests \ {r} : ~Busy(q)
    BY <1>2, CrowdEnds
       DEF Step, Check, Drop, Verify, Save, CountRead, CountWrite, ClearRead, Delete, Grant
  <2>3. CASE crowd' = crowd
    BY <2>1, <2>3 DEF CrowdKnown, TwoBusy, Busy
  <2>4. CASE crowd' # crowd
    BY <2>1, <2>2, <2>4 DEF CrowdKnown, TwoBusy, Busy
  <2> QED BY <2>3, <2>4
<1>3. ASSUME Tick PROVE CrowdKnown'
  <2>1. crowd' = crowd /\ \A q \in Requests : Busy(q)' <=> Busy(q)
    BY <1>0, <1>3 DEF Tick, Busy, Request
  <2> QED BY <2>1 DEF CrowdKnown, TwoBusy
<1>4. ASSUME Restart PROVE CrowdKnown'
  BY <1>4 DEF Restart, CrowdKnown, TwoBusy, Busy, Idle
<1>5. ASSUME UNCHANGED vars PROVE CrowdKnown'
  BY <1>5 DEF vars, CrowdKnown, TwoBusy, Busy
<1> QED BY <1>1, <1>2, <1>3, <1>4, <1>5 DEF Next

LEMMA RaceStep ==
  ASSUME CeilingSuffices, TypeOK, TypeOK', Race, CrowdKnown', [Next]_vars, crowd' <= 2
  PROVE  RaceOrder' /\ RaceBudget'
<1>0. /\ req \in [Requests -> Request]
      /\ attempt.lock \in Unlocked..Window /\ attempt.count \in Nat /\ served \in Nat
  BY DEF TypeOK
<1>a. TwoBusy'
  BY DEF CrowdKnown
<1>b. LockOutlivesGuesses /\ (crowd' = crowd => TwoBusy /\ RaceOrder /\ RaceBudget)
  BY DEF Race, CrowdKnown
<1>1. ASSUME NEW r \in Requests, Login(r) \/ Change(r) PROVE RaceOrder' /\ RaceBudget'
  <2>1. PICK change \in BOOLEAN, guess \in Codes : Arrive(r, change, guess)
    BY <1>1 DEF Login, Change
  <2>2. /\ req'[r].pc = "checking" /\ req[r].pc = "idle"
        /\ attempt' = attempt /\ served' = served
        /\ \A q \in Requests \ {r} : req'[q] = req[q]
    BY <2>1, <1>0 DEF Arrive, Idle, Busy
  <2>3. RaceOrder /\ RaceBudget
    BY <2>1, CrowdGrows DEF Arrive, Race
  <2> QED BY <2>2, <2>3, QuietStep DEF Guessing, Writing, Dropping
<1>2. ASSUME NEW r \in Requests, Check(r) PROVE RaceOrder' /\ RaceBudget'
  <2>0. crowd' = crowd
    BY <1>2 DEF Check
  <2>1. /\ attempt' = attempt /\ served' = served /\ req[r].pc = "checking"
        /\ \A q \in Requests \ {r} : req'[q] = req[q]
        /\ \/ req'[r].pc = "verifying" /\ Open
           \/ req'[r].pc = "idle"
           \/ req'[r].pc = "dropping" /\ ~Open /\ Ended
    BY <1>2, GotoType, FinishType, CheckEnded DEF Check, Labels, Open
  <2>2. CASE req'[r].pc \in {"verifying", "idle"}
    BY <1>b, <2>0, <2>1, <2>2, QuietStep DEF Guessing, Writing, Dropping
  <2>3. CASE req'[r].pc = "dropping"
    <3>1. ~Open /\ Ended
      BY <2>1, <2>3
    <3>2. \A q \in Requests : ~Guessing(q)
      <4>1. \A q \in Requests : req[q].age \in 0..Slowest
        BY <1>0 DEF Request
      <4> QED BY <1>0, <1>b, <3>1, <4>1, ThrottleAssumption DEF LockOutlivesGuesses, Ended, Unlocked
    <3>3. \A q \in Requests : ~Guessing(q)'
      BY <2>1, <2>3, <3>2 DEF Guessing
    <3>4. ~Open' /\ ~Live(attempt, 0)' /\ Ended' /\ Left(0)'
      BY <1>0, <1>b, <2>0, <2>1, <3>1, ThrottleAssumption
         DEF Open, Live, Ended, Unlocked, RaceBudget, Left
    <3> QED BY <3>3, <3>4 DEF RaceOrder, RaceBudget
  <2> QED BY <2>1, <2>2, <2>3
<1>3. ASSUME NEW r \in Requests, Drop(r) PROVE RaceOrder' /\ RaceBudget'
  <2>1. CASE Live(attempt, 0) \/ Open
    <3>1. crowd' = crowd
      BY <1>3, <2>1 DEF Drop, Open
    <3> QED BY <1>3, <1>b, <2>1, <3>1, LateDrop
  <2>2. CASE ~(Live(attempt, 0) \/ Open)
    <3>1. attempt' = NoRow /\ served' = 0 /\ req'[r].pc = "verifying"
      BY <1>0, <1>3, <2>2 DEF Drop, CountEnds, Open, Request
    <3> QED BY <1>a, <3>1, FreshStep DEF Dropping, Writing, Busy
  <2> QED BY <2>1, <2>2
<1>4. ASSUME NEW r \in Requests, Verify(r) \/ Save(r) \/ ClearRead(r) \/ Grant(r)
      PROVE  RaceOrder' /\ RaceBudget'
  <2>1. /\ attempt' = attempt /\ served' = served /\ crowd' = crowd
        /\ req[r].pc \in {"verifying", "saving", "clearing", "granting"}
    BY <1>4 DEF Verify, Save, ClearRead, Grant
  <2>2. /\ \A q \in Requests \ {r} : req'[q] = req[q]
        /\ \/ req'[r].pc \in {"clearing", "saving", "deleting", "granting", "idle"}
           \/ req[r].pc = "verifying" /\ req'[r].pc = "counting"
    <3>1. CASE Verify(r)
      BY <3>1, GotoType, FinishType DEF Verify, Labels
    <3>2. CASE Save(r) \/ ClearRead(r)
      BY <3>2, GotoType DEF Save, ClearRead, Labels
    <3>3. CASE Grant(r)
      BY <3>3, FinishType DEF Grant
    <3> QED BY <1>4, <3>1, <3>2, <3>3
  <2> QED BY <1>b, <2>1, <2>2, QuietStep DEF Guessing, Writing, Dropping
<1>5. ASSUME NEW r \in Requests, CountRead(r) PROVE RaceOrder' /\ RaceBudget'
  <2>0. crowd' = crowd
    BY <1>5 DEF CountRead
  <2>1. /\ attempt' = attempt /\ served' = served /\ req[r].pc = "counting"
        /\ req'[r].pc = "writing" /\ req'[r].count = attempt.count
        /\ \A q \in Requests \ {r} : req'[q] = req[q]
    BY <1>0, <1>5 DEF CountRead, Request
  <2>2. /\ \A q \in Requests : Dropping(q)' <=> Dropping(q)
        /\ \A q \in Requests : Guessing(q)' <=> Guessing(q)
        /\ \A q \in Requests \ {r} : Writing(q)' <=> Writing(q)
    BY <2>1 DEF Dropping, Guessing, Writing
  <2>3. RaceOrder'
    BY <1>b, <2>0, <2>1, <2>2 DEF RaceOrder, Open, Ended
  <2>4. Open => LateRoom(attempt.count, attempt.count) = Room(attempt.count)
    BY <1>0, <1>b, <2>0, LateOnTime, ThrottleAssumption DEF RaceOrder
  <2>5. RaceBudget'
    BY <1>b, <2>0, <2>1, <2>2, <2>4 DEF RaceBudget, Open, Left, Live
  <2> QED BY <2>3, <2>5
<1>6. ASSUME NEW r \in Requests, CountWrite(r) PROVE RaceOrder' /\ RaceBudget'
  BY <1>6, <1>b, RacingWrite DEF CountWrite
<1>7. ASSUME NEW r \in Requests, Delete(r) PROVE RaceOrder' /\ RaceBudget'
  <2>1. attempt' = NoRow /\ served' = 0 /\ req'[r].pc = "granting"
    BY <1>7, GotoType DEF Delete, CountEnds, Labels
  <2> QED BY <1>a, <2>1, FreshStep DEF Dropping, Writing, Busy
<1>8. ASSUME Tick PROVE RaceOrder' /\ RaceBudget'
  <2>1. served' = served /\ crowd' = crowd
    BY <1>8 DEF Tick
  <2>2. \A q \in Requests : req'[q].pc = req[q].pc /\ req'[q].count = req[q].count
    BY <1>0, <1>8 DEF Tick, Request
  <2>3. /\ attempt'.count = attempt.count /\ (Open' <=> Open)
        /\ Ended => Ended'
        /\ ~Open /\ Live(attempt, 0)' => Live(attempt, 0)
    BY <1>0, <1>8, ThrottleAssumption DEF Tick, TypeOK, Older, Unlocked, Open, Live, Ended
  <2>4. RaceOrder'
    BY <1>b, <2>1, <2>2, <2>3 DEF RaceOrder, Guessing, Dropping, Writing
  <2>5. RaceBudget'
    BY <1>b, <2>1, <2>2, <2>3 DEF RaceBudget, Guessing, Dropping, Writing, Left
  <2> QED BY <2>4, <2>5
<1>9. ASSUME Restart PROVE RaceOrder' /\ RaceBudget'
  <2>1. /\ \A q \in Requests : ~Guessing(q)' /\ ~Writing(q)' /\ ~Dropping(q)'
        /\ attempt' = attempt /\ served' = served
        /\ RaceOrder /\ RaceBudget
    BY <1>9, <1>b DEF Restart, Idle, Guessing, Writing, Dropping
  <2>2. RaceOrder'
    BY <2>1 DEF RaceOrder, Open
  <2>3. Open => Left(Room(attempt.count))
    <3> SUFFICES ASSUME Open, NEW q \in Requests, Dropping(q)
                 PROVE  Left(Room(attempt.count))
      BY <2>1 DEF RaceBudget
    <3>1. /\ Left(Room(0) + 2 * (MaxFailures - attempt.count))
          /\ attempt.count \in 0..(MaxFailures - 1)
      BY <1>0, <2>1, ThrottleAssumption DEF RaceBudget, RaceOrder
    <3>2. /\ Room(attempt.count) \in Nat /\ Room(attempt.count) <= Room(0)
          /\ 0 \in 0..(MaxFailures - 1)
      BY <3>1, RoomFacts, ThrottleAssumption
    <3>3. Room(0) \in Nat
      BY <3>2, RoomFacts
    <3> QED BY <1>0, <3>1, <3>2, <3>3, ThrottleAssumption DEF Left
  <2>4. RaceBudget'
    BY <2>1, <2>3 DEF RaceBudget, Open, Left
  <2> QED BY <2>2, <2>4
<1>10. ASSUME UNCHANGED vars PROVE RaceOrder' /\ RaceBudget'
  BY <1>10, <1>b DEF vars, RaceOrder, RaceBudget, Open, Guessing, Writing, Dropping, Left, Live, Ended
<1> QED
  BY <1>1, <1>2, <1>3, <1>4, <1>5, <1>6, <1>7, <1>8, <1>9, <1>10 DEF Next, Step

\* For any number of requests, a lock outlasts the guesses that were in flight
\* when it fell: nobody is answered after it ends without being checked anew
\* (login_throttle.py, locked_until).
THEOREM LocksOutliveGuesses == Spec => []LockOutlivesGuesses
<1>1. Init => LockOutlivesGuesses
  BY DEF Init, NoRow, LockOutlivesGuesses, Open
<1>2. TypeOK /\ TypeOK' /\ LockOutlivesGuesses /\ [Next]_vars => LockOutlivesGuesses'
  BY TimingStep
<1> QED BY <1>1, <1>2, TypeCorrect, PTL DEF Spec

\* However many requests there are: as long as no three of them were in flight
\* at once since the count began, it answers at most the triangular number of
\* the limit and three wrong guesses, for any limit, lock and number of deploys
\* (login_throttle.py:83).
THEOREM RacesAreBounded == ASSUME CeilingSuffices PROVE Spec => []RacingBudget
<1>1. Init => Race
  BY InitRace
<1>2. TypeOK /\ TypeOK' /\ Race /\ [Next]_vars => Race'
  <2> SUFFICES ASSUME TypeOK, TypeOK', Race, [Next]_vars PROVE Race'
    OBVIOUS
  <2>1. LockOutlivesGuesses' /\ CrowdKnown'
    BY TimingStep, CrowdStep DEF Race
  <2> QED BY <2>1, RaceStep DEF Race
<1>3. TypeOK /\ Race => RacingBudget
  BY ThrottleAssumption DEF Race, RaceBudget, Left, RacingBudget, TypeOK
<1> QED BY <1>1, <1>2, <1>3, TypeCorrect, PTL DEF Spec
==============================================================================
