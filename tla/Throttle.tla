------------------------------- MODULE Throttle -------------------------------
(***************************************************************************)
(* The passcode of one user id and the counter that throttles guesses at   *)
(* it: POST /auth/token (api/auth_router.py), PATCH /me/passcode           *)
(* (api/me_router.py) and the row of login_attempts they share             *)
(* (api/login_throttle.py).  Rows of different ids never meet, so one id   *)
(* stands for all; an id that names nobody has no passcode to match.       *)
(*                                                                         *)
(* Requests run in a thread pool.  A SELECT sees the latest commit and     *)
(* holds nothing; a request decides by what it read and commits later.     *)
(*                                                                         *)
(* Time is relative: `lock` is what remains of a lock, `age` how long ago  *)
(* a request read its clock, in ticks; a lock that is over is remembered   *)
(* for as long as a request may last, because an older clock still finds   *)
(* it.  A request ends within less than half a lock (a passcode takes a    *)
(* tenth of a second, a lock two minutes).                                 *)
(***************************************************************************)
EXTENDS Integers, FiniteSets

CONSTANTS Requests,      \* requests that may be in flight at once
          Codes,         \* passcodes a request may carry
          NoCode,        \* the passcode of an unknown user: nothing matches it
          MaxFailures,   \* MAX_CONSECUTIVE_FAILURES
          Window,        \* LOCKOUT_WINDOW, in ticks
          Slowest,       \* bound: ticks a request may last
          Ceiling,       \* wrong guesses served per count when two requests race
          MaxRestarts    \* bound: deploys in a behaviour

ASSUME ThrottleAssumption ==
  /\ NoCode \notin Codes
  /\ MaxFailures \in Nat \ {0}
  /\ Window \in Nat \ {0}
  /\ Slowest \in Nat /\ 2 * Slowest < Window
  /\ Ceiling \in Nat
  /\ MaxRestarts \in Nat

Unlocked == -Slowest - 1      \* locked_until is NULL; -Slowest..0 is a lock that is over

VARIABLES hash,         \* the passcode stored for the user (hashed)
          attempt,      \* the login_attempts row; count 0: there is no row
          req,          \* what each request in flight has read and where it is
          served,       \* history: wrong guesses answered since the count last ended
          crowd,        \* history: most requests in flight at once since then; 3 is any more
          restarts

vars == <<hash, attempt, req, served, crowd, restarts>>

NoRow == [count |-> 0, lock |-> Unlocked]
Idle  == [pc |-> "idle", change |-> FALSE, guess |-> NoCode,
          seen |-> NoCode, count |-> 0, age |-> 0]

Busy(r) == req[r].pc # "idle"

Init == /\ hash \in Codes \cup {NoCode}
        /\ attempt = NoRow
        /\ req = [r \in Requests |-> Idle]
        /\ served = 0
        /\ crowd = 1
        /\ restarts = 0

Goto(r, pc)  == req' = [req EXCEPT ![r] = [@ EXCEPT !.pc = pc]]
Finish(r)    == req' = [req EXCEPT ![r] = Idle]

Company(r) == {q \in Requests \ {r} : Busy(q)}

\* History: the count ends, so guesses are counted from zero.  The crowd is
\* forgotten only if no other request is left over from before.
CountEnds(r) == /\ served' = 0
                /\ crowd' = IF Company(r) = {} THEN 1 ELSE crowd

\* History: r arrives.
Joined(r) == CASE Company(r) = {}                              -> crowd
               [] \E p, q \in Company(r) : p # q               -> 3
               [] \E q \in Requests : Company(r) = {q}         -> IF crowd = 1 THEN 2 ELSE crowd

------------------------------------------------------------------------------
(* A request arrives.  change_passcode needs a user with a passcode, and   *)
(* reads it here; issue_token reads the user after the lock.               *)

Arrive(r, change, guess) ==
  /\ ~Busy(r)
  /\ change => hash # NoCode
  /\ req' = [req EXCEPT ![r] = [Idle EXCEPT !.pc = "checking", !.change = change,
                                            !.guess = guess,
                                            !.seen = IF change THEN hash ELSE NoCode]]
  /\ crowd' = Joined(r)
  /\ UNCHANGED <<hash, attempt, served, restarts>>

Login(r)  == \E guess \in Codes : Arrive(r, FALSE, guess)
Change(r) == \E guess \in Codes : Arrive(r, TRUE, guess)

------------------------------------------------------------------------------
(* locked_until compares the lock with the clock read when the request     *)
(* began.                                                                  *)

\* Wrong: locked_until is set, so the user is locked.
LiveForever(row, age) == row.lock # Unlocked

\* As a clock read `age` ticks ago finds it.
Live(row, age) == row.lock + age > 0

Check(r) ==
  /\ req[r].pc = "checking"
  /\ \/ /\ attempt.lock = Unlocked
        /\ Goto(r, "verifying")
     \/ /\ attempt.lock # Unlocked
        /\ ~Live(attempt, req[r].age)
        /\ Goto(r, "dropping")
     \/ /\ attempt.lock # Unlocked
        /\ Live(attempt, req[r].age)      \* 429, whatever the passcode
        /\ Finish(r)
  /\ UNCHANGED <<hash, attempt, served, crowd, restarts>>

\* The DELETE names the user id only: whatever row is there goes.  Its commit
\* expires the user that change_passcode had loaded: it is read anew.
Drop(r) ==
  /\ req[r].pc = "dropping"
  /\ attempt' = NoRow
  /\ req' = [req EXCEPT ![r] = [@ EXCEPT !.pc = "verifying",
                                         !.seen = NoCode]]
  /\ IF Live(attempt, 0) \/ attempt.lock = Unlocked
       THEN UNCHANGED <<served, crowd>>
       ELSE CountEnds(r)
  /\ UNCHANGED <<hash, restarts>>

------------------------------------------------------------------------------
(* verify_passcode, against the hash read now, or before if the user is    *)
(* still loaded.  A new passcode that is refused neither counts nor        *)
(* clears.                                                                 *)

Matches(r) == req[r].guess = IF req[r].seen = NoCode THEN hash ELSE req[r].seen

Verify(r) ==
  /\ req[r].pc = "verifying"
  /\ \/ ~Matches(r) /\ Goto(r, "counting")
     \/ Matches(r) /\ ~req[r].change /\ Goto(r, "clearing")
     \/ Matches(r) /\ req[r].change /\ Goto(r, "saving")
     \/ Matches(r) /\ req[r].change /\ Finish(r)     \* too short, or not new
  /\ UNCHANGED <<hash, attempt, served, crowd, restarts>>

Save(r) ==
  /\ req[r].pc = "saving"
  /\ hash' \in Codes \ {req[r].guess}
  /\ Goto(r, "clearing")
  /\ UNCHANGED <<attempt, served, crowd, restarts>>

------------------------------------------------------------------------------
(* record_failure: read the row, then commit count and lock.               *)

CountRead(r) ==
  /\ req[r].pc = "counting"
  /\ req' = [req EXCEPT ![r] = [@ EXCEPT !.pc = "writing", !.count = attempt.count]]
  /\ UNCHANGED <<hash, attempt, served, crowd, restarts>>

\* Wrong: the fifth failure does not lock, the sixth does.
CountedLate(row, seen, age) ==
  IF seen + 1 > MaxFailures THEN [count |-> seen + 1, lock |-> Window - age]
                            ELSE [row EXCEPT !.count = seen + 1]

\* Wrong: every column is written, the lock as NULL.
CountedWholeRow(row, seen, age) ==
  [count |-> seen + 1, lock |-> IF seen + 1 >= MaxFailures THEN Window - age ELSE Unlocked]

\* The row after the UPDATE or INSERT of a request that read the count `seen`
\* and its clock `age` ticks ago.  Only the columns it changed are written.
Counted(row, seen, age) ==
  IF seen + 1 >= MaxFailures THEN [count |-> seen + 1, lock |-> Window - age]
                             ELSE [row EXCEPT !.count = seen + 1]

\* 401; or 500 when the row had vanished, which tells the caller as much.
CountWrite(r) ==
  /\ req[r].pc = "writing"
  /\ attempt' = IF (req[r].count = 0) <=> (attempt.count = 0)
                  THEN Counted(attempt, req[r].count, req[r].age)
                  ELSE attempt       \* IntegrityError, StaleDataError: not counted
  /\ served' = served + 1
  /\ Finish(r)
  /\ UNCHANGED <<hash, crowd, restarts>>

------------------------------------------------------------------------------
(* record_success: read the row, then delete it.                           *)

ClearRead(r) ==
  /\ req[r].pc = "clearing"
  /\ Goto(r, IF attempt.count = 0 THEN "granting" ELSE "deleting")
  /\ UNCHANGED <<hash, attempt, served, crowd, restarts>>

Delete(r) ==
  /\ req[r].pc = "deleting"
  /\ attempt' = NoRow
  /\ Goto(r, "granting")
  /\ CountEnds(r)
  /\ UNCHANGED <<hash, restarts>>

\* A token, or the confirmation that the passcode changed.
Grant(r) ==
  /\ req[r].pc = "granting"
  /\ Finish(r)
  /\ UNCHANGED <<hash, attempt, served, crowd, restarts>>

------------------------------------------------------------------------------
\* Wrong: a missing lock ages too.
OlderNull(t) == IF t = -Slowest THEN t ELSE t - 1

Older(t) == IF t = Unlocked \/ t = -Slowest THEN t ELSE t - 1

Tick ==
  /\ \A r \in Requests : Busy(r) => req[r].age < Slowest
  /\ attempt' = [attempt EXCEPT !.lock = Older(@)]
  /\ req' = [r \in Requests |->
               IF Busy(r) THEN [req[r] EXCEPT !.age = @ + 1] ELSE req[r]]
  /\ UNCHANGED <<hash, served, crowd, restarts>>

\* A deploy drops the requests in flight; the table survives it.
Restart ==
  /\ restarts < MaxRestarts
  /\ restarts' = restarts + 1
  /\ req' = [r \in Requests |-> Idle]
  /\ UNCHANGED <<hash, attempt, served, crowd>>

Step(r) == \/ Check(r) \/ Drop(r) \/ Verify(r) \/ Save(r) \/ CountRead(r)
           \/ CountWrite(r) \/ ClearRead(r) \/ Delete(r) \/ Grant(r)

Next == Tick \/ Restart \/ \E r \in Requests : Login(r) \/ Change(r) \/ Step(r)

\* The pool runs every request to its end, and time passes.
Spec == /\ Init /\ [][Next]_vars
        /\ WF_vars(Tick)
        /\ \A r \in Requests : WF_vars(Step(r))

------------------------------------------------------------------------------
(* Properties.                                                             *)

Labels == {"idle", "checking", "dropping", "verifying", "counting", "writing",
           "saving", "clearing", "deleting", "granting"}

Request == [pc : Labels, change : BOOLEAN, guess : Codes \cup {NoCode},
            seen : Codes \cup {NoCode},
            count : Nat, age : 0..Slowest]

\* The columns keep their types, and a row has a count (database/schema.py:185,
\* "Rows exist only while a user has failures to their name").
TypeOK == /\ hash \in Codes \cup {NoCode}
          /\ attempt \in [count : Nat, lock : Unlocked..Window]
          /\ attempt.count = 0 => attempt.lock = Unlocked
          /\ req \in [Requests -> Request]
          /\ served \in Nat
          /\ crowd \in 1..3
          /\ restarts \in Nat

\* login_throttle.py, "Counts consecutive failures per user id and locks
\* briefly at the limit": while requests come one at a time, every wrong guess
\* at either endpoint is counted, also across deploys, the user is locked
\* exactly when the limit is reached since the last success, so no parent is
\* locked out early, and no guess is answered beyond the limit.
LockIsEarned ==
  crowd = 1 => /\ attempt.count = served
               /\ attempt.lock # Unlocked <=> served >= MaxFailures
               /\ served <= MaxFailures

\* login_throttle.py:83, "Losing one increment of a five-strike counter":
\* racing requests lose more than one, because a late UPDATE sets the count back
\* and a late DELETE drops a fresh lock.  The loss has this bound as long as no
\* three were in flight at once since the count began; a third costs more.
RacingBudget == crowd <= 2 => served <= Ceiling

\* A failure that was in flight when the lock fell does not undo it.
GuessesNeverUnlock ==
  [][\A r \in Requests : CountWrite(r) /\ attempt.lock # Unlocked =>
       attempt'.lock # Unlocked]_vars

\* login_throttle.py, "the lock clears itself": in-flight failures may renew a
\* lock but never keep it for ever, refused requests do not renew it at all.
LockClears == Live(attempt, 0) ~> ~Live(attempt, 0)
==============================================================================
