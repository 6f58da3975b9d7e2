---------------------------- MODULE MailboxProofs ----------------------------
(***************************************************************************)
(* The chain of archives and the verifier: what triggers, retries, crashes *)
(* and abandons leave in a mailbox passes verify_chain, and an archive     *)
(* taken out of it or edited does not.                                     *)
(***************************************************************************)
EXTENDS BackupProofs, FunctionTheorems

------------------------------------------------------------------------------
(* The chain: what an archive says of the archives before it is what came  *)
(* of them, and stays so.                                                  *)

EarlierSubmitted(d, r) == {e \in Dates : e < d /\ r[e].status = "submitted"}

(* The archive x of date d links to the newest archive submitted before d; *)
(* its history has every earlier record with the status it ended in, and   *)
(* no earlier record is still owed.                                        *)
Links(x, d, r) ==
  /\ EarlierSubmitted(d, r) = {} => x.prev = None
  /\ \A e \in EarlierSubmitted(d, r) :
       (\A g \in EarlierSubmitted(d, r) : g <= e) => x.prev = r[e].doc.sha
  /\ DOMAIN x.history = {r[e].doc.sha : e \in {g \in Dates : g < d /\ r[g].status # "absent"}}
  /\ \A e \in Dates : e < d /\ r[e].status # "absent" =>
       x.history[r[e].doc.sha] = r[e].status
  /\ \A e \in Dates : e < d => r[e].status \notin Owed

RecordsLinked == \A d \in Dates : Made(d) => d <= day /\ Links(rec[d].doc, d, rec)
ClaimsLinked  ==
  \A s \in Sessions : ses[s].pc = "claim" /\ ~Made(day) => Links(ses[s].doc, day, rec)

Linked == RecordsLinked /\ ClaimsLinked

LEMMA InitLinked == Init => Linked
BY DEF Init, NoRecord, Idle, Linked, RecordsLinked, ClaimsLinked, Made

LEMMA NextKept == ASSUME Integrity, [Next]_vars PROVE Kept
<1>0. /\ rec \in [Dates -> Records] /\ box \in [Parents -> SUBSET Docs]
      /\ \A s \in Sessions : GoodRequest(ses[s], rec, box)
  BY DEF Integrity, Shaped, GoodRequests
<1>1. ASSUME NEW d \in Dates, Made(d) PROVE Made(d)' /\ rec'[d].doc = rec[d].doc
  <2>0. rec[d] \in Records /\ rec[d].status # "absent"
    BY <1>0, <1>1 DEF Made
  <2> SUFFICES rec'[d].status # "absent" /\ rec'[d].doc = rec[d].doc
    BY DEF Made
  <2>1. ASSUME NEW s \in Sessions, TryAcquireLease(s), rec'[d] # rec[d]
        PROVE  rec'[d].status # "absent" /\ rec'[d].doc = rec[d].doc
    <3>1. rec'[d] = [rec[d] EXCEPT !.status = "pending", !.lease = Lease - ses[s].age]
      BY <1>0, <2>1 DEF TryAcquireLease
    <3> QED BY <2>0, <3>1 DEF Records
  <2>2. ASSUME NEW s \in Sessions, ClaimToday(s) PROVE rec'[d] = rec[d]
    BY <1>0, <2>0, <2>2 DEF ClaimToday, Unclaimed
  <2>3. ASSUME NEW s \in Sessions, Settle(s), rec'[d] # rec[d]
        PROVE  rec'[d].status # "absent" /\ rec'[d].doc = rec[d].doc
    <3>1. rec'[d] = IF AllSent(s)
                    THEN [rec[d] EXCEPT !.status = "submitted", !.held = FALSE, !.lease = Over]
                    ELSE [rec[d] EXCEPT !.status = "failed", !.lease = Over]
      BY <1>0, <2>3 DEF Settle
    <3> QED BY <2>0, <3>1 DEF Records
  <2>4. ASSUME NEW s \in Sessions, AbandonWrite(s), rec'[d] # rec[d]
        PROVE  rec'[d].status # "absent" /\ rec'[d].doc = rec[d].doc
    <3>1. rec'[d] = [rec[d] EXCEPT !.status = "abandoned", !.lease = Over]
      BY <1>0, <2>4 DEF AbandonWrite
    <3> QED BY <2>0, <3>1 DEF Records
  <2>5. CASE Tick
    <3>1. rec'[d] = [rec[d] EXCEPT !.lease = IF rec[d].lease > Over
                                              THEN rec[d].lease - 1 ELSE rec[d].lease]
      BY <2>5 DEF Tick
    <3> QED BY <2>0, <3>1 DEF Records
  <2>6. ASSUME NEW s \in Sessions,
               Trigger(s) \/ CheckToday(s) \/ Build(s) \/ LoadBytes(s) \/ LockTimeout(s)
                 \/ AbandonRead(s) \/ Send(s)
        PROVE  UNCHANGED rec
    BY <2>6 DEF Trigger, CheckToday, Build, LoadBytes, LockTimeout, AbandonRead, Send
  <2>7. Crash \/ Midnight \/ UNCHANGED vars => UNCHANGED rec
    BY DEF Crash, Midnight, vars
  <2> QED BY <2>0, <2>1, <2>2, <2>3, <2>4, <2>5, <2>6, <2>7 DEF Next, Work
<1>2. ASSUME NEW p \in Parents PROVE box[p] \subseteq box'[p]
  <2>1. ASSUME NEW s \in Sessions, Send(s) PROVE box[p] \subseteq box'[p]
    BY <1>0, <2>1 DEF Send
  <2>2. ASSUME NEW s \in Sessions,
               Trigger(s) \/ CheckToday(s) \/ Build(s) \/ LoadBytes(s) \/ LockTimeout(s)
                 \/ AbandonRead(s) \/ TryAcquireLease(s) \/ ClaimToday(s) \/ Settle(s)
                 \/ AbandonWrite(s)
        PROVE  UNCHANGED box
    BY <2>2 DEF Trigger, CheckToday, Build, LoadBytes, LockTimeout, AbandonRead,
                TryAcquireLease, ClaimToday, Settle, AbandonWrite
  <2>3. Crash \/ Tick \/ Midnight \/ UNCHANGED vars => UNCHANGED box
    BY DEF Crash, Tick, Midnight, vars
  <2> QED BY <2>1, <2>2, <2>3 DEF Next, Work
<1> QED BY <1>1, <1>2 DEF Kept

\* A record comes into being only as today's, with the archive of the request
\* that claims the date.
LEMMA OnlyClaims ==
  ASSUME Integrity, Exclusive, [Next]_vars, NEW d \in Dates, ~Made(d), Made(d)'
  PROVE  /\ d = day /\ day' = day
         /\ \E s \in Sessions : ses[s].pc = "claim" /\ rec'[d].doc = ses[s].doc
<1>0. /\ rec \in [Dates -> Records] /\ rec[d] \in Records
      /\ \A s \in Sessions : GoodRequest(ses[s], rec, box)
  BY DEF Integrity, Shaped, GoodRequests
<1>1. ASSUME NEW s \in Sessions, ClaimToday(s)
      PROVE  /\ d = day /\ day' = day
             /\ ses[s].pc = "claim" /\ rec'[d].doc = ses[s].doc
  <2>1. ses[s].date = d
    BY <1>0, <1>1 DEF ClaimToday, Made
  <2>2. ses[s].date = day
    BY <1>1 DEF ClaimToday, Exclusive, ClaimsAlone, Claiming
  <2>3. rec'[d] = [status |-> "pending", doc |-> ses[s].doc, held |-> TRUE,
                   lease |-> Lease - ses[s].age]
    BY <1>0, <1>1, <2>1 DEF ClaimToday, Made
  <2> QED BY <1>1, <2>1, <2>2, <2>3 DEF ClaimToday
<1>2. ASSUME NEW s \in Sessions, TryAcquireLease(s) \/ Settle(s) \/ AbandonWrite(s)
      PROVE  FALSE
  <2>1. rec[ses[s].date].status # "absent"
    BY <1>0, <1>2 DEF TryAcquireLease, Settle, AbandonWrite, GoodRequest
  <2> QED BY <1>0, <1>2, <2>1 DEF TryAcquireLease, Settle, AbandonWrite, Made
<1>3. rec' # rec
  BY DEF Made
<1>4. ~Tick
  <2> SUFFICES ASSUME Tick PROVE FALSE
    OBVIOUS
  <2>1. rec'[d] = [rec[d] EXCEPT !.lease = IF rec[d].lease > Over
                                            THEN rec[d].lease - 1 ELSE rec[d].lease]
    BY DEF Tick
  <2> QED BY <1>0, <2>1 DEF Records, Made
<1>5. ~Crash /\ ~Midnight /\ ~UNCHANGED vars
  BY <1>3 DEF Crash, Midnight, vars
<1>6. ASSUME NEW s \in Sessions
      PROVE  ~Trigger(s) /\ ~CheckToday(s) /\ ~Build(s) /\ ~LoadBytes(s) /\ ~Send(s)
             /\ ~LockTimeout(s) /\ ~AbandonRead(s)
  BY <1>3 DEF Trigger, CheckToday, Build, LoadBytes, Send, LockTimeout, AbandonRead
<1> QED BY <1>1, <1>2, <1>4, <1>5, <1>6 DEF Next, Work

\* Before a date from which nothing is owed any more, nothing moves any more.
LEMMA EarlierStable ==
  ASSUME LeaseOutlivesRequest, Integrity, Exclusive, [Next]_vars,
         NEW d \in Dates, d <= day, \A e \in Dates : e < d => rec[e].status \notin Owed
  PROVE  \A e \in Dates : e < d => /\ rec'[e].status = rec[e].status
                                   /\ Made(e) => rec'[e].doc = rec[e].doc
<1> SUFFICES ASSUME NEW e \in Dates, e < d
             PROVE  /\ rec'[e].status = rec[e].status
                    /\ Made(e) => rec'[e].doc = rec[e].doc
  OBVIOUS
<1>1. Made(e) => rec'[e].doc = rec[e].doc
  BY NextKept DEF Kept
<1>2. rec'[e].status = rec[e].status
  <2> SUFFICES ASSUME rec'[e].status # rec[e].status PROVE FALSE
    OBVIOUS
  <2>1. rec[e].status \notin {"submitted", "abandoned"}
    BY StatusStep
  <2>2. ~Made(e)
    BY <2>1 DEF Made, Owed, Integrity, Shaped, Records, Statuses
  <2>3. Made(e)'
    BY <2>2 DEF Made
  <2>4. e = day
    BY <2>2, <2>3, OnlyClaims
  <2> QED BY <2>4 DEF Integrity, Shaped, Dates
<1> QED BY <1>1, <1>2

LEMMA LinksKept ==
  ASSUME NEW x, NEW d \in Dates, Links(x, d, rec),
         \A e \in Dates : e < d => /\ rec'[e].status = rec[e].status
                                   /\ Made(e) => rec'[e].doc = rec[e].doc
  PROVE  Links(x, d, rec')
<1>1. EarlierSubmitted(d, rec') = EarlierSubmitted(d, rec)
  BY DEF EarlierSubmitted
<1>2. \A e \in EarlierSubmitted(d, rec) : rec'[e].doc = rec[e].doc
  BY DEF EarlierSubmitted, Made
<1>3. DOMAIN x.history = {rec'[e].doc.sha : e \in {g \in Dates : g < d /\ rec'[g].status # "absent"}}
  BY DEF Links, Made
<1>4. \A e \in Dates : e < d /\ rec'[e].status # "absent" =>
        x.history[rec'[e].doc.sha] = rec'[e].status
  BY DEF Links, Made
<1> QED BY <1>1, <1>2, <1>3, <1>4 DEF Links

\* The archive a request builds for a free day links to what is there.
LEMMA BuildLinks ==
  ASSUME LeaseOutlivesRequest, Integrity, Exclusive, Linked, NEW s \in Sessions, Build(s),
         ~Made(day)
  PROVE  Links(ses'[s].doc, day, rec)
<1> DEFINE x == ses'[s].doc
           submitted == {d \in Dates : rec[d].status = "submitted"}
           made == {d \in Dates : rec[d].status # "absent"}
<1>1. x.prev = LastSubmittedSha /\ x.history = History
  <2>1. ses'[s] = [ses[s] EXCEPT !.pc = "claim",
                     !.doc = [sha |-> [date |-> ses[s].date, by |-> s], date |-> ses[s].date,
                              prev |-> LastSubmittedSha, history |-> History]]
    BY DEF Build, Integrity, Shaped
  <2>2. ses[s] \in Requests
    BY DEF Integrity, Shaped
  <2> QED BY <2>1, <2>2 DEF Requests
<1> HIDE DEF x
<1>2. \A d \in Dates : rec[d].status # "absent" => d < day
  <2>1. day \in Dates
    BY DEF Integrity, Shaped
  <2> QED BY <2>1 DEF Linked, RecordsLinked, Made, Dates
<1>3. EarlierSubmitted(day, rec) = submitted
  BY <1>2 DEF EarlierSubmitted
<1>4. made = {g \in Dates : g < day /\ rec[g].status # "absent"}
  BY <1>2
<1>5. submitted = {} => x.prev = None
  BY <1>1 DEF LastSubmittedSha
<1>6. ASSUME NEW e \in submitted, \A g \in submitted : g <= e
      PROVE  x.prev = rec[e].doc.sha
  <2>1. x.prev = rec[Max(submitted)].doc.sha
    BY <1>1, <1>6 DEF LastSubmittedSha
  <2>2. Max(submitted) \in submitted /\ Max(submitted) >= e
    <3>1. submitted \subseteq Dates /\ submitted # {} /\ e \in submitted
      BY <1>6
    <3> HIDE DEF submitted
    <3> QED BY <3>1, LatestIs
  <2>3. Max(submitted) \in Int /\ e \in Int
    BY <2>2 DEF Dates
  <2>4. Max(submitted) = e
    <3> HIDE DEF submitted
    <3> QED BY <1>6, <2>2, <2>3
  <2> QED BY <2>1, <2>4
<1>7. DOMAIN x.history = {rec[e].doc.sha : e \in made}
  BY <1>1 DEF History
<1>8. ASSUME NEW e \in Dates, rec[e].status # "absent"
      PROVE  x.history[rec[e].doc.sha] = rec[e].status
  <2>1. rec[e].doc.sha.date = e
    BY <1>8, DocShape DEF Integrity, DatedRecords, Made
  <2>2. rec[e].doc.sha \in {rec[d].doc.sha : d \in made}
    BY <1>8
  <2> QED BY <1>1, <2>1, <2>2 DEF History
<1>9. \A e \in Dates : rec[e].status \notin Owed
  <2>1. Unresolved = {}
    BY DEF Build, Exclusive, ClaimsAlone, Claiming
  <2> QED BY <2>1 DEF Unresolved
<1> HIDE DEF submitted, made
<1> QED BY <1>3, <1>4, <1>5, <1>6, <1>7, <1>8, <1>9 DEF Links, x

LEMMA ClaimOrBuild ==
  ASSUME Integrity, OrderlyNext \/ UNCHANGED vars, NEW s \in Sessions, ses'[s].pc = "claim"
  PROVE  day' = day /\ (Build(s) \/ (ses[s].pc = "claim" /\ ses'[s].doc = ses[s].doc))
<1>0. ses \in [Sessions -> Requests] /\ \A t \in Sessions : ses[t] \in Requests
  BY DEF Integrity, Shaped
<1>1. ASSUME NEW t \in Sessions,
             Trigger(t) \/ CheckToday(t) \/ Build(t) \/ LoadBytes(t) \/ LockTimeout(t)
               \/ AbandonRead(t) \/ TryAcquireLease(t) \/ ClaimToday(t) \/ Settle(t)
               \/ AbandonWrite(t) \/ Send(t)
      PROVE  day' = day /\ (t # s => ses'[s] = ses[s])
  BY <1>0, <1>1 DEF Trigger, CheckToday, Build, LoadBytes, LockTimeout, AbandonRead,
                    TryAcquireLease, ClaimToday, Settle, AbandonWrite, Send, Done, Goto
<1>2. Done(s) => ses'[s].pc = "idle"
  BY <1>0 DEF Done, Idle
<1>3. ~LockTimeout(s) /\ ~Settle(s) /\ ~AbandonWrite(s)
  BY <1>2 DEF LockTimeout, Settle, AbandonWrite
<1>4. ~Trigger(s) /\ ~AbandonRead(s) /\ ~Send(s)
  BY <1>0 DEF Trigger, AbandonRead, Send, Requests
<1>5. ~CheckToday(s) /\ ~LoadBytes(s) /\ ~TryAcquireLease(s) /\ ~ClaimToday(s)
  BY <1>0, <1>2 DEF CheckToday, LoadBytes, TryAcquireLease, ClaimToday, Goto, Requests
<1>6. ~Crash
  BY DEF Crash, Idle
<1>7. CASE Tick
  <2>1. ses'[s] = [ses[s] EXCEPT !.age = @ + 1] \/ ses'[s] = ses[s]
    BY <1>7 DEF Tick
  <2> QED BY <1>0, <1>7, <2>1 DEF Tick, Requests
<1>8. CASE OrderlyNext /\ Midnight
  <2>1. ses' = ses /\ day' # day
    BY <1>8 DEF Midnight, Integrity, Shaped, Dates
  <2> QED BY <1>8, <2>1 DEF OrderlyNext, Orderly
<1>9. CASE UNCHANGED vars
  BY <1>9 DEF vars
<1> QED BY <1>1, <1>3, <1>4, <1>5, <1>6, <1>7, <1>8, <1>9 DEF OrderlyNext, Next, Work

LEMMA NextKeepsLinked ==
  ASSUME LeaseOutlivesRequest, Integrity, Exclusive, Linked, [OrderlyNext]_vars
  PROVE  Linked'
<1>0. [Next]_vars /\ (OrderlyNext \/ UNCHANGED vars)
  BY DEF OrderlyNext
<1>1. day \in Dates /\ day' \in Dates /\ day <= day'
  <2>1. day \in Dates /\ day' \in Dates
    BY <1>0, NextKeepsIntegrity DEF Integrity, Shaped
  <2>2. day' = day \/ day' = day + 1
    <3>1. ASSUME NEW s \in Sessions,
                 Trigger(s) \/ Work(s) \/ AbandonRead(s) \/ LockTimeout(s)
          PROVE  day' = day
      BY <3>1 DEF Trigger, Work, TryAcquireLease, CheckToday, Build, ClaimToday, LoadBytes,
                  Send, Settle, AbandonWrite, AbandonRead, LockTimeout
    <3> QED BY <1>0, <3>1 DEF Next, Crash, Tick, Midnight, vars
  <2> QED BY <2>1, <2>2 DEF Dates
<1>2. RecordsLinked'
  <2> SUFFICES ASSUME NEW d \in Dates, Made(d)'
               PROVE  d <= day' /\ Links(rec'[d].doc, d, rec')
    BY DEF RecordsLinked
  <2>1. CASE Made(d)
    <3>1. d <= day /\ Links(rec[d].doc, d, rec) /\ rec'[d].doc = rec[d].doc
      BY <1>0, <2>1, NextKept DEF Linked, RecordsLinked, Kept
    <3>2. \A e \in Dates : e < d => rec[e].status \notin Owed
      BY <3>1 DEF Links
    <3>3. Links(rec[d].doc, d, rec')
      BY <1>0, <3>1, <3>2, EarlierStable, LinksKept
    <3> QED BY <1>1, <3>1, <3>3 DEF Dates
  <2>2. CASE ~Made(d)
    <3>1. PICK s \in Sessions : ses[s].pc = "claim" /\ rec'[d].doc = ses[s].doc
      BY <1>0, <2>2, OnlyClaims
    <3>2. d = day /\ day' = day
      BY <1>0, <2>2, OnlyClaims
    <3>3. Links(ses[s].doc, d, rec)
      BY <2>2, <3>1, <3>2 DEF Linked, ClaimsLinked
    <3>4. \A e \in Dates : e < d => rec[e].status \notin Owed
      BY <3>3 DEF Links
    <3>5. d <= day
      BY <3>2 DEF Dates
    <3>6. Links(ses[s].doc, d, rec')
      BY <1>0, <3>3, <3>4, <3>5, EarlierStable, LinksKept
    <3> QED BY <3>1, <3>2, <3>5, <3>6
  <2> QED BY <2>1, <2>2
<1>3. ClaimsLinked'
  <2> SUFFICES ASSUME NEW s \in Sessions, ses'[s].pc = "claim", ~Made(day)'
               PROVE  Links(ses'[s].doc, day', rec')
    BY DEF ClaimsLinked
  <2>0. ses[s] \in Requests /\ ses \in [Sessions -> Requests]
    BY DEF Integrity, Shaped
  <2>1. day' = day /\ (Build(s) \/ (ses[s].pc = "claim" /\ ses'[s].doc = ses[s].doc))
    BY <1>0, ClaimOrBuild
  <2>2. ~Made(day)
    BY <1>0, <1>1, <2>1, NextKept DEF Kept, Made
  <2>3. Links(ses'[s].doc, day, rec)
    BY <2>1, <2>2, BuildLinks DEF Linked, ClaimsLinked
  <2>4. \A e \in Dates : e < day => rec[e].status \notin Owed
    BY <2>3 DEF Links
  <2>5. day <= day
    BY <1>1 DEF Dates
  <2> QED BY <1>0, <1>1, <2>1, <2>3, <2>4, <2>5, EarlierStable, LinksKept
<1> QED BY <1>2, <1>3 DEF Linked

\* Every archive links to the newest one submitted before its date, and its
\* history is how every earlier record ended (invariant 2: only submitted
\* records take part in the chain).
THEOREM LinkedHolds ==
  ASSUME LeaseOutlivesRequest PROVE OrderlySpec => [](Integrity /\ Exclusive /\ Linked)
<1>1. Init => Integrity /\ Exclusive /\ Linked
  BY InitIntegrity, InitExclusive, InitLinked
<1>2. Integrity /\ Exclusive /\ Linked /\ [OrderlyNext]_vars
        => (Integrity /\ Exclusive /\ Linked)'
  BY NextKeepsIntegrity, NextKeepsExclusive, NextKeepsLinked DEF OrderlyNext
<1> QED BY <1>1, <1>2, PTL DEF OrderlySpec

------------------------------------------------------------------------------
(* The walk of the verifier, for any finite set of files.                  *)

\* A set of numbers that has 0 and every successor up to n has them all.
LEMMA CountUp ==
  ASSUME NEW n \in Nat, NEW T, 0 \in T, \A k \in 0..(n - 1) : k \in T => k + 1 \in T
  PROVE  0..n \subseteq T
<1> DEFINE M == (0..n) \ T
<1> SUFFICES ASSUME M # {} PROVE FALSE
  OBVIOUS
<1>0. M \subseteq Nat
  OBVIOUS
<1>1. PICK x \in M : \A y \in M : ~(<<y, x>> \in OpToRel(<, Nat))
  <2> HIDE DEF M
  <2> QED BY <1>0, NatLessThanWellFounded, WFMin
<1>2. \A y \in M : ~(y < x)
  BY <1>0, <1>1 DEF OpToRel
<1>3. x \in 1..n /\ x - 1 \in 0..(n - 1) /\ (x - 1) + 1 = x
  OBVIOUS
<1>4. x - 1 \notin M
  BY <1>2, <1>3
<1> QED BY <1>3, <1>4

Step(files, S) == S \cup UNION {Onward(files, f) : f \in S}

IsWalk(files, r, n) ==
  r = [k \in 0..n |-> IF k = 0 THEN Genesis(files) ELSE Step(files, r[k - 1])]

LEMMA WalkExists ==
  ASSUME NEW files, NEW n \in Nat
  PROVE  \E r : IsWalk(files, r, n)
<1> DEFINE T == {k \in 0..n : \E r : IsWalk(files, r, k)}
<1>1. 0 \in T
  <2> DEFINE r == [k \in 0..0 |-> Genesis(files)]
  <2>1. IsWalk(files, r, 0)
    BY DEF IsWalk
  <2> QED BY <2>1
<1>2. ASSUME NEW k \in 0..(n - 1), k \in T PROVE k + 1 \in T
  <2>1. PICK r : IsWalk(files, r, k)
    BY <1>2
  <2> DEFINE q == [l \in 0..(k + 1) |-> IF l = k + 1 THEN Step(files, r[k]) ELSE r[l]]
             R(l) == IF l = 0 THEN Genesis(files) ELSE Step(files, q[l - 1])
  <2>2. ASSUME NEW l \in 0..(k + 1) PROVE q[l] = R(l)
    <3>1. CASE l = k + 1
      <4>1. l # 0 /\ l - 1 = k /\ k \in 0..(k + 1) /\ k # k + 1
        BY <3>1
      <4>2. q[l - 1] = r[k]
        BY <4>1
      <4>3. q[l] = Step(files, r[k])
        BY <3>1
      <4> HIDE DEF q
      <4> QED BY <4>1, <4>2, <4>3
    <3>2. CASE l # k + 1
      <4>1. l \in 0..k /\ q[l] = r[l]
        BY <3>2
      <4>2. r[l] = IF l = 0 THEN Genesis(files) ELSE Step(files, r[l - 1])
        BY <2>1, <4>1 DEF IsWalk
      <4>3. l # 0 => q[l - 1] = r[l - 1]
        BY <4>1
      <4> HIDE DEF q
      <4> QED BY <4>1, <4>2, <4>3
    <3> QED BY <3>1, <3>2
  <2>3. q = [l \in 0..(k + 1) |-> q[l]]
    OBVIOUS
  <2> HIDE DEF q
  <2>4. IsWalk(files, q, k + 1)
    BY <2>2, <2>3, Zenon DEF IsWalk
  <2> QED BY <1>2, <2>4
<1> HIDE DEF T
<1>3. 0..n \subseteq T
  BY <1>1, <1>2, CountUp
<1> QED BY <1>3 DEF T

LEMMA ChainIsWalk ==
  ASSUME NEW files, IsFiniteSet(files)
  PROVE  \E r : IsWalk(files, r, Cardinality(files)) /\ Chain(files) = r[Cardinality(files)]
<1> DEFINE n == Cardinality(files)
           r == CHOOSE r : IsWalk(files, r, n)
<1>1. n \in Nat
  BY FS_CardinalityType
<1>2. IsWalk(files, r, n)
  <2> HIDE DEF n
  <2> QED BY <1>1, WalkExists
<1>3. Chain(files) = r[n]
  BY DEF Chain, IsWalk, Step
<1> QED BY <1>2, <1>3

\* The walk stays in any set it starts in and that it cannot leave.
LEMMA ChainBounded ==
  ASSUME NEW files, IsFiniteSet(files), NEW S, Genesis(files) \subseteq S,
         \A f \in S : Onward(files, f) \subseteq S
  PROVE  Chain(files) \subseteq S
<1> DEFINE n == Cardinality(files)
<1>1. PICK r : IsWalk(files, r, n) /\ Chain(files) = r[n]
  BY ChainIsWalk
<1>2. n \in Nat
  BY FS_CardinalityType
<1> DEFINE T == {k \in 0..n : r[k] \subseteq S}
<1> HIDE DEF n
<1>3. 0 \in T
  BY <1>1, <1>2 DEF IsWalk
<1>4. ASSUME NEW k \in 0..(n - 1), k \in T PROVE k + 1 \in T
  <2>1. r[k + 1] = Step(files, r[k])
    BY <1>1, <1>2 DEF IsWalk
  <2>2. r[k + 1] \subseteq S
    BY <1>4, <2>1 DEF Step
  <2> QED BY <1>2, <2>2
<1>5. n \in T
  <2> HIDE DEF T
  <2> QED BY <1>2, <1>3, <1>4, CountUp
<1> QED BY <1>1, <1>5

\* It meets every file that it starts at, or that it goes to from a file it
\* meets of a lower rank.
LEMMA ChainReaches ==
  ASSUME NEW files, IsFiniteSet(files), NEW D, NEW rank \in [D -> 0..Cardinality(files)],
         \A f \in D : \/ f \in Genesis(files)
                       \/ \E g \in D : rank[g] < rank[f] /\ f \in Onward(files, g)
  PROVE  D \subseteq Chain(files)
<1> DEFINE n == Cardinality(files)
<1>1. PICK r : IsWalk(files, r, n) /\ Chain(files) = r[n]
  BY ChainIsWalk
<1>2. n \in Nat
  BY FS_CardinalityType
<1> DEFINE T == {k \in 0..n : Genesis(files) \subseteq r[k]
                              /\ \A f \in D : rank[f] <= k => f \in r[k]}
<1>0. rank \in [D -> 0..n]
  OBVIOUS
<1> HIDE DEF n
<1>3. 0 \in T
  <2>1. r[0] = Genesis(files)
    BY <1>1, <1>2 DEF IsWalk
  <2>2. \A f \in D : rank[f] <= 0 => f \in Genesis(files)
    BY <1>0
  <2> QED BY <1>2, <2>1, <2>2
<1>4. ASSUME NEW k \in 0..(n - 1), k \in T PROVE k + 1 \in T
  <2>1. r[k + 1] = Step(files, r[k])
    BY <1>1, <1>2 DEF IsWalk
  <2>2. Genesis(files) \subseteq r[k + 1]
    BY <1>4, <2>1 DEF Step
  <2>3. ASSUME NEW f \in D, rank[f] <= k + 1 PROVE f \in r[k + 1]
    <3>1. CASE f \in Genesis(files)
      BY <2>2, <3>1
    <3>2. CASE \E g \in D : rank[g] < rank[f] /\ f \in Onward(files, g)
      <4>1. PICK g \in D : rank[g] < rank[f] /\ f \in Onward(files, g)
        BY <3>2
      <4>2. rank[g] <= k
        BY <1>0, <2>3, <4>1
      <4>3. g \in r[k]
        BY <1>4, <4>2
      <4> QED BY <2>1, <4>1, <4>3 DEF Step
    <3> QED BY <3>1, <3>2
  <2> QED BY <1>2, <2>2, <2>3
<1>5. n \in T
  <2> HIDE DEF T
  <2> QED BY <1>2, <1>3, <1>4, CountUp
<1> QED BY <1>0, <1>1, <1>5

------------------------------------------------------------------------------
(* What a mailbox holds: archives of records, linked by their dates.       *)

LEMMA FileShape ==
  ASSUME Integrity, Linked, NEW p \in Parents, NEW f \in box[p]
  PROVE  /\ f \in Docs /\ f.date \in Dates /\ Made(f.date) /\ f = rec[f.date].doc
         /\ f.sha \in Shas /\ f.sha.date = f.date /\ f.prev \in Shas \cup {None}
         /\ f.sha # None /\ Links(f, f.date, rec)
         /\ \A g \in box[p] : g.date = f.date => g = f
<1>1. f \in Docs /\ Made(f.date) /\ f = rec[f.date].doc
  BY DEF Integrity, Shaped, Mailed
<1>2. f.date \in Dates /\ f.sha \in Shas /\ f.sha.date = f.date /\ f.prev \in Shas \cup {None}
  BY <1>1, DocShape DEF Docs
<1>3. f.sha # None
  BY <1>2, BackupAssumption DEF Shas, Dates
<1>4. Links(f, f.date, rec)
  BY <1>1, <1>2 DEF Linked, RecordsLinked
<1>5. \A g \in box[p] : g.date = f.date => g = f
  BY <1>1 DEF Integrity, Mailed
<1> QED BY <1>1, <1>2, <1>3, <1>4, <1>5

\* What was submitted is there.
LEMMA SubmittedFile ==
  ASSUME Integrity, NEW p \in Parents, NEW d \in Dates, rec[d].status = "submitted"
  PROVE  rec[d].doc \in box[p] /\ rec[d].doc.date = d
BY DEF Integrity, SubmittedReachedAll, DatedRecords, Made

LEMMA BoxFinite ==
  ASSUME Integrity, Linked, NEW p \in Parents
  PROVE  IsFiniteSet(box[p])
<1> DEFINE g == [f \in box[p] |-> f.date]
<1>1. g \in Injection(box[p], Dates)
  BY FileShape DEF Injection, IsInjective
<1>2. IsFiniteSet(Dates)
  BY FS_Interval, BackupAssumption DEF Dates
<1> HIDE DEF g
<1> QED BY <1>1, <1>2, FS_Injection

\* Of a set of files that is not empty, one is the latest.
LEMMA LatestFile ==
  ASSUME Integrity, Linked, NEW p \in Parents, NEW S, S \subseteq box[p], S # {}
  PROVE  \E f \in S : \A g \in S : g.date <= f.date
<1> DEFINE T == {f.date : f \in S}
<1>1. T \subseteq Dates /\ T # {}
  BY FileShape
<1>2. PICK d \in T : \A e \in T : d >= e
  <2> HIDE DEF T
  <2> QED BY <1>1, LatestExists
<1>3. PICK f \in S : d = f.date
  BY <1>2
<1>4. ASSUME NEW g \in S PROVE g.date <= f.date
  BY <1>1, <1>2, <1>3 DEF Dates
<1> QED BY <1>4

LEMMA SubmittedBefore ==
  ASSUME Integrity, NEW d \in Dates,
         NEW e \in Dates, e < d, rec[e].status = "submitted"
  PROVE  \E g \in EarlierSubmitted(d, rec) :
           e <= g /\ \A h \in EarlierSubmitted(d, rec) : h <= g
<1>1. EarlierSubmitted(d, rec) \subseteq Dates /\ e \in EarlierSubmitted(d, rec)
  BY DEF EarlierSubmitted
<1>2. PICK g \in EarlierSubmitted(d, rec) : \A h \in EarlierSubmitted(d, rec) : g >= h
  BY <1>1, LatestExists
<1> QED BY <1>1, <1>2 DEF Dates

\* A file has no predecessor if nothing had been submitted before its date,
\* and otherwise the one that had been submitted last.
LEMMA GenesisIs ==
  ASSUME Integrity, Linked, NEW p \in Parents, NEW f \in box[p]
  PROVE  f.prev = None <=> EarlierSubmitted(f.date, rec) = {}
<1>1. f.date \in Dates /\ Links(f, f.date, rec)
  BY FileShape
<1>2. ASSUME EarlierSubmitted(f.date, rec) # {} PROVE f.prev # None
  <2>1. PICK e \in EarlierSubmitted(f.date, rec) : TRUE
    BY <1>2
  <2>2. PICK g \in EarlierSubmitted(f.date, rec) :
          \A h \in EarlierSubmitted(f.date, rec) : h <= g
    BY <1>1, <2>1, SubmittedBefore DEF EarlierSubmitted
  <2>3. g \in Dates /\ rec[g].status = "submitted"
    BY <2>2 DEF EarlierSubmitted
  <2>4. f.prev = rec[g].doc.sha
    BY <1>1, <2>2 DEF Links
  <2>5. rec[g].doc \in box[p]
    BY <2>3, SubmittedFile
  <2> QED BY <2>4, <2>5, FileShape
<1> QED BY <1>1, <1>2 DEF Links

LEMMA PredecessorIs ==
  ASSUME Integrity, Linked, NEW p \in Parents, NEW f \in box[p], NEW g \in box[p]
  PROVE  g.prev = f.sha <=>
           /\ f.date \in EarlierSubmitted(g.date, rec)
           /\ \A e \in EarlierSubmitted(g.date, rec) : e <= f.date
<1>1. /\ g.date \in Dates /\ Links(g, g.date, rec)
      /\ f.date \in Dates /\ f = rec[f.date].doc /\ f.sha # None /\ f.sha.date = f.date
  BY FileShape
<1>2. ASSUME f.date \in EarlierSubmitted(g.date, rec),
             \A e \in EarlierSubmitted(g.date, rec) : e <= f.date
      PROVE  g.prev = f.sha
  BY <1>1, <1>2 DEF Links
<1>3. ASSUME g.prev = f.sha
      PROVE  /\ f.date \in EarlierSubmitted(g.date, rec)
             /\ \A e \in EarlierSubmitted(g.date, rec) : e <= f.date
  <2>1. EarlierSubmitted(g.date, rec) # {}
    BY <1>1, <1>3 DEF Links
  <2>2. PICK h \in EarlierSubmitted(g.date, rec) :
          \A e \in EarlierSubmitted(g.date, rec) : e <= h
    BY <1>1, <2>1, SubmittedBefore DEF EarlierSubmitted
  <2>3. h \in Dates /\ rec[h].status = "submitted"
    BY <2>2 DEF EarlierSubmitted
  <2>4. rec[h].doc.sha = f.sha
    BY <1>1, <1>3, <2>2 DEF Links
  <2>5. rec[h].doc \in box[p] /\ rec[h].doc.date = h
    BY <2>3, SubmittedFile
  <2>6. rec[h].doc.sha.date = h
    BY <2>5, FileShape
  <2> QED BY <1>1, <2>2, <2>4, <2>6
<1> QED BY <1>2, <1>3

\* The history in a file speaks of a file of the mailbox exactly if that is
\* of an earlier date.
LEMMA Mentions ==
  ASSUME Integrity, Linked, NEW p \in Parents, NEW f \in box[p], NEW h \in box[p]
  PROVE  /\ f.sha \in DOMAIN h.history <=> f.date < h.date
         /\ f.date < h.date => h.history[f.sha] = rec[f.date].status
         /\ f.date < h.date => rec[f.date].status \in {"submitted", "abandoned"}
<1>1. /\ f.date \in Dates /\ f = rec[f.date].doc /\ Made(f.date) /\ f.sha.date = f.date
      /\ h.date \in Dates /\ Links(h, h.date, rec)
  BY FileShape
<1>2. DOMAIN h.history =
        {rec[e].doc.sha : e \in {g \in Dates : g < h.date /\ rec[g].status # "absent"}}
  BY <1>1 DEF Links
<1>3. ASSUME f.sha \in DOMAIN h.history PROVE f.date < h.date
  <2>1. PICK e \in Dates : e < h.date /\ rec[e].status # "absent" /\ f.sha = rec[e].doc.sha
    BY <1>2, <1>3
  <2>2. rec[e].doc.sha.date = e
    BY <2>1, DocShape DEF Integrity, DatedRecords, Made
  <2> QED BY <1>1, <2>1, <2>2
<1>4. f.date < h.date => f.sha \in DOMAIN h.history
  BY <1>1, <1>2 DEF Made
<1>5. f.date < h.date => h.history[f.sha] = rec[f.date].status
  BY <1>1 DEF Links, Made
<1>6. f.date < h.date => rec[f.date].status \in {"submitted", "abandoned"}
  <2>1. rec[f.date].status \in Statuses
    BY <1>1 DEF Integrity, Shaped, Records
  <2> QED BY <1>1, <2>1 DEF Links, Made, Owed, Statuses
<1> QED BY <1>3, <1>4, <1>5, <1>6

\* A file is dead for the verifier if its archive was abandoned and a later
\* archive of the mailbox says so.
LEMMA DeadIs ==
  ASSUME Integrity, Linked, NEW p \in Parents, NEW f \in box[p]
  PROVE  Dead(box[p], f) <=>
           rec[f.date].status = "abandoned" /\ \E h \in box[p] : f.date < h.date
<1> DEFINE mentions == {h \in box[p] : f.sha \in DOMAIN h.history}
           latest   == CHOOSE h \in mentions : \A g \in mentions : g.date <= h.date
<1>1. mentions = {h \in box[p] : f.date < h.date}
  BY Mentions
<1>2. CASE mentions = {}
  <2>1. Corroborated(box[p], f.sha) = None
    BY <1>2 DEF Corroborated
  <2>2. ~Dead(box[p], f)
    BY <2>1 DEF Dead
  <2> QED BY <1>1, <1>2, <2>2
<1>3. CASE mentions # {}
  <2>1. latest \in mentions
    <3>1. \E h \in mentions : \A g \in mentions : g.date <= h.date
      <4>1. mentions \subseteq box[p]
        OBVIOUS
      <4> HIDE DEF mentions
      <4> QED BY <1>3, <4>1, LatestFile
    <3> HIDE DEF mentions
    <3> QED BY <3>1
  <2>2. Corroborated(box[p], f.sha) = latest.history[f.sha]
    BY <1>3 DEF Corroborated
  <2> HIDE DEF latest
  <2>3. latest \in box[p] /\ f.date < latest.date
    BY <1>1, <2>1
  <2>4. /\ latest.history[f.sha] = rec[f.date].status
        /\ rec[f.date].status \in {"submitted", "abandoned"}
    BY <2>3, Mentions
  <2>5. Dead(box[p], f) <=> rec[f.date].status = "abandoned"
    BY <2>2, <2>4, BackupAssumption DEF Dead
  <2> QED BY <2>3, <2>5
<1> QED BY <1>2, <1>3

------------------------------------------------------------------------------
(* No fork of a mailbox is left unexplained.                               *)

\* Two successors of a file: the earlier one is dead.
LEMMA EarlierSuccessorDead ==
  ASSUME Integrity, Linked, NEW p \in Parents, NEW f \in box[p],
         NEW g \in Successors(box[p], f), NEW h \in Successors(box[p], f), g.date < h.date
  PROVE  Dead(box[p], g)
<1>1. g \in box[p] /\ h \in box[p] /\ g.prev = f.sha /\ h.prev = f.sha
  BY DEF Successors
<1>2. f.date < g.date /\ \A e \in EarlierSubmitted(h.date, rec) : e <= f.date
  BY <1>1, PredecessorIs DEF EarlierSubmitted
<1>3. f.date \in Dates /\ g.date \in Dates
  BY <1>1, FileShape
<1>4. rec[g.date].status # "submitted"
  BY <1>2, <1>3 DEF EarlierSubmitted, Dates
<1>5. rec[g.date].status = "abandoned"
  BY <1>1, <1>4, Mentions
<1> QED BY <1>1, <1>5, DeadIs

\* One of the successors of a file is not dead.
LEMMA LiveSuccessor ==
  ASSUME Integrity, Linked, NEW p \in Parents, NEW f \in box[p],
         Successors(box[p], f) # {}
  PROVE  \E g \in Successors(box[p], f) : ~Dead(box[p], g)
<1>0. PICK x \in Successors(box[p], f) : TRUE
  OBVIOUS
<1>1. x \in box[p] /\ x.prev = f.sha
  BY DEF Successors
<1>2. f.date \in Dates /\ f.date < x.date /\ rec[f.date].status = "submitted"
  BY <1>1, PredecessorIs DEF EarlierSubmitted
<1> DEFINE after == {e \in Dates : f.date < e /\ rec[e].status = "submitted"}
<1>3. CASE after # {}
  <2>0. after \subseteq Nat
    BY DEF Dates
  <2>1. PICK d \in after : \A e \in after : ~(<<e, d>> \in OpToRel(<, Nat))
    <3> HIDE DEF after
    <3> QED BY <1>3, <2>0, NatLessThanWellFounded, WFMin
  <2>2. \A e \in after : ~(e < d)
    BY <2>0, <2>1 DEF OpToRel
  <2>3. d \in Dates /\ f.date < d /\ rec[d].status = "submitted"
    OBVIOUS
  <2>4. rec[d].doc \in box[p] /\ rec[d].doc.date = d
    BY <2>3, SubmittedFile
  <2>5. \A e \in EarlierSubmitted(d, rec) : e <= f.date
    BY <1>2, <2>2, <2>3 DEF EarlierSubmitted, Dates
  <2>6. f.date \in EarlierSubmitted(d, rec)
    BY <1>2, <2>3 DEF EarlierSubmitted
  <2>7. rec[d].doc.prev = f.sha
    BY <2>4, <2>5, <2>6, PredecessorIs
  <2>8. ~Dead(box[p], rec[d].doc)
    BY <2>3, <2>4, DeadIs
  <2> QED BY <2>4, <2>7, <2>8 DEF Successors
<1>4. CASE after = {}
  <2> DEFINE later == {g \in box[p] : f.date < g.date}
  <2>1. PICK g \in later : \A h \in later : h.date <= g.date
    <3>1. later \subseteq box[p] /\ later # {}
      BY <1>1, <1>2
    <3> HIDE DEF later
    <3> QED BY <3>1, LatestFile
  <2>2. g \in box[p] /\ f.date < g.date /\ g.date \in Dates
    BY FileShape
  <2>3. f.date \in EarlierSubmitted(g.date, rec)
    BY <1>2, <2>2 DEF EarlierSubmitted
  <2>4. \A e \in EarlierSubmitted(g.date, rec) : e <= f.date
    BY <1>2, <1>4 DEF EarlierSubmitted, Dates
  <2>5. g.prev = f.sha
    BY <2>2, <2>3, <2>4, PredecessorIs
  <2>6. \A h \in box[p] : ~(g.date < h.date)
    <3> SUFFICES ASSUME NEW h \in box[p], g.date < h.date PROVE FALSE
      OBVIOUS
    <3>1. h.date \in Dates
      BY FileShape
    <3>2. h \in later
      BY <1>2, <2>2, <3>1 DEF Dates
    <3> QED BY <2>1, <2>2, <3>1, <3>2 DEF Dates
  <2>7. ~Dead(box[p], g)
    BY <2>2, <2>6, DeadIs
  <2> QED BY <2>2, <2>5, <2>7 DEF Successors
<1> QED BY <1>3, <1>4

\* So the walk goes on from a file that has successors, and meets the one
\* that is not dead.
LEMMA WalkGoesOn ==
  ASSUME Integrity, Linked, NEW p \in Parents, NEW f \in box[p],
         NEW g \in Successors(box[p], f), ~Dead(box[p], g)
  PROVE  g \in Onward(box[p], f)
<1> DEFINE next  == Successors(box[p], f)
           alive == {h \in next : ~Dead(box[p], h)}
<1>1. \A h \in alive : h = g
  <2> SUFFICES ASSUME NEW h \in alive PROVE h = g
    OBVIOUS
  <2>1. ~(h.date < g.date) /\ ~(g.date < h.date)
    BY EarlierSuccessorDead
  <2>2. h \in box[p] /\ g \in box[p]
    BY DEF Successors
  <2>3. h.date \in Dates /\ g.date \in Dates
    BY <2>2, FileShape
  <2>4. h.date = g.date
    BY <2>1, <2>3 DEF Dates
  <2> QED BY <2>2, <2>4, FileShape
<1>2. alive = {g}
  BY <1>1
<1>3. Cardinality(alive) = 1
  <2> HIDE DEF alive
  <2> QED BY <1>2, FS_Singleton
<1>4. Onward(box[p], f) = IF Cardinality(next) = 1 THEN next ELSE alive
  BY <1>3 DEF Onward
<1> QED BY <1>2, <1>4

LEMMA NoFork ==
  ASSUME Integrity, Linked, NEW p \in Parents, NEW f \in box[p]
  PROVE  ~UnexplainedFork(box[p], f)
BY LiveSuccessor, WalkGoesOn DEF UnexplainedFork

LEMMA OnwardSuccessors == \A files, f : Onward(files, f) \subseteq Successors(files, f)
BY DEF Onward

LEMMA ChainInBox ==
  ASSUME Integrity, Linked, NEW p \in Parents
  PROVE  Chain(box[p]) \subseteq box[p]
<1>1. Genesis(box[p]) \subseteq box[p]
  BY DEF Genesis
<1>2. \A f \in box[p] : Onward(box[p], f) \subseteq box[p]
  BY OnwardSuccessors DEF Successors
<1> QED BY <1>1, <1>2, BoxFinite, ChainBounded

\* The walk meets every file that is not dead.
LEMMA ChainCovers ==
  ASSUME Integrity, Linked, NEW p \in Parents, NEW f \in box[p], ~Dead(box[p], f)
  PROVE  f \in Chain(box[p])
<1> DEFINE n     == Cardinality(box[p])
           D     == {g \in box[p] : ~Dead(box[p], g)}
           below(g) == {h \in box[p] : h.date < g.date}
           rank  == [g \in D |-> Cardinality(below(g))]
<1>0. IsFiniteSet(box[p])
  BY BoxFinite
<1>1. ASSUME NEW g \in box[p]
      PROVE  IsFiniteSet(below(g)) /\ Cardinality(below(g)) \in 0..n
  <2>1. below(g) \in SUBSET box[p]
    OBVIOUS
  <2> HIDE DEF below
  <2> QED BY <1>0, <2>1, FS_Subset, FS_CardinalityType
<1>2. ASSUME NEW g \in box[p], NEW h \in box[p], h.date < g.date
      PROVE  Cardinality(below(h)) < Cardinality(below(g))
  <2>1. below(h) \in SUBSET below(g) /\ h \in below(g) /\ h \notin below(h)
    BY <1>2, FileShape DEF Dates
  <2> HIDE DEF below
  <2>2. Cardinality(below(h)) <= Cardinality(below(g))
        /\ Cardinality(below(h)) # Cardinality(below(g))
    BY <1>1, <2>1, FS_Subset
  <2> QED BY <1>1, <2>2
<1> HIDE DEF below
<1>3. rank \in [D -> 0..n]
  BY <1>1
<1>4. ASSUME NEW g \in D
      PROVE  \/ g \in Genesis(box[p])
             \/ \E h \in D : rank[h] < rank[g] /\ g \in Onward(box[p], h)
  <2>0. g \in box[p] /\ ~Dead(box[p], g) /\ g.date \in Dates
    BY FileShape
  <2>1. CASE EarlierSubmitted(g.date, rec) = {}
    BY <2>0, <2>1, GenesisIs DEF Genesis
  <2>2. CASE EarlierSubmitted(g.date, rec) # {}
    <3>1. PICK e \in EarlierSubmitted(g.date, rec) :
            \A d \in EarlierSubmitted(g.date, rec) : d <= e
      BY <2>0, <2>2, SubmittedBefore DEF EarlierSubmitted
    <3>2. e \in Dates /\ e < g.date /\ rec[e].status = "submitted"
      BY DEF EarlierSubmitted
    <3> DEFINE h == rec[e].doc
    <3>3. h \in box[p] /\ h.date = e
      BY <3>2, SubmittedFile
    <3>4. ~Dead(box[p], h)
      BY <3>2, <3>3, DeadIs
    <3> HIDE DEF h
    <3>5. g.prev = h.sha
      BY <2>0, <3>1, <3>3, PredecessorIs
    <3>6. g \in Onward(box[p], h)
      BY <2>0, <3>3, <3>5, WalkGoesOn DEF Successors
    <3>7. h \in D
      BY <3>3, <3>4
    <3>8. rank[h] < rank[g]
      <4>1. Cardinality(below(h)) < Cardinality(below(g))
        BY <1>2, <2>0, <3>2, <3>3
      <4> HIDE DEF D
      <4> QED BY <3>7, <4>1
    <3> HIDE DEF rank
    <3> QED BY <3>6, <3>7, <3>8
  <2> QED BY <2>1, <2>2
<1>5. f \in D
  OBVIOUS
<1> HIDE DEF D, rank
<1> QED BY <1>0, <1>3, <1>4, <1>5, ChainReaches

LEMMA BoxVerifies ==
  ASSUME Integrity, Linked, NEW p \in Parents, Cardinality(Genesis(box[p])) = 1
  PROVE  Verifies(box[p])
BY ChainInBox, ChainCovers, NoFork DEF Verifies, NoUnexplainedFile

\* Whatever failed, was retried, crashed or was abandoned halfway, a parent's
\* mailbox passes the verifier as long as it holds one first archive.
THEOREM MailboxesVerify ==
  ASSUME LeaseOutlivesRequest PROVE OrderlySpec => []MailboxVerifiesFromGenesis
<1>1. Integrity /\ Linked => MailboxVerifiesFromGenesis
  BY BoxVerifies DEF MailboxVerifiesFromGenesis
<1> QED BY <1>1, LinkedHolds, PTL

------------------------------------------------------------------------------
(* Tampering.                                                              *)

\* Of the files but one that has successors: a file that may start a chain or
\* follow an earlier file is itself earlier than the missing one.
LEMMA BehindTheGap ==
  ASSUME Integrity, Linked, NEW p \in Parents, NEW f \in box[p],
         Successors(box[p], f) # {}, NEW g \in box[p], g # f,
         \/ g.prev = None
         \/ \E h \in box[p] : h.date < f.date /\ g.prev = h.sha
  PROVE  g.date < f.date
<1>1. PICK x \in box[p] : x.prev = f.sha
  BY DEF Successors
<1>2. f.date \in Dates /\ rec[f.date].status = "submitted" /\ g.date \in Dates
  BY <1>1, PredecessorIs, FileShape DEF EarlierSubmitted
<1>3. g.date # f.date
  BY FileShape
<1>4. ~(f.date < g.date)
  <2> SUFFICES ASSUME f.date < g.date PROVE FALSE
    OBVIOUS
  <2>1. f.date \in EarlierSubmitted(g.date, rec)
    BY <1>2 DEF EarlierSubmitted
  <2>2. g.prev # None
    BY <2>1, GenesisIs
  <2>3. PICK h \in box[p] : h.date < f.date /\ g.prev = h.sha
    BY <2>2
  <2>4. f.date <= h.date /\ h.date \in Dates
    BY <2>1, <2>3, PredecessorIs, FileShape
  <2> QED BY <1>2, <2>3, <2>4 DEF Dates
<1> QED BY <1>2, <1>3, <1>4 DEF Dates

\* A set of files fails the verifier if it holds the last file of the mailbox,
\* nobody in it mentions that file, and the walk stays short of it.
LEMMA LastFileUnexplained ==
  ASSUME NEW files, NEW m \in files, \A h \in files : m.sha \notin DOMAIN h.history,
         m \notin Chain(files)
  PROVE  ~Verifies(files)
<1>1. {h \in files : m.sha \in DOMAIN h.history} = {}
  OBVIOUS
<1>2. Corroborated(files, m.sha) = None
  BY <1>1 DEF Corroborated
<1> QED BY <1>2 DEF Verifies, NoUnexplainedFile, Dead

LEMMA TamperedFails ==
  ASSUME Integrity, Linked, NEW p \in Parents, NEW f \in box[p],
         Successors(box[p], f) # {}
  PROVE  LET rest   == box[p] \ {f}
             edited == [f EXCEPT !.sha = [date |-> f.date, by |-> None]]
         IN  ~Verifies(rest) /\ ~Verifies(rest \cup {edited})
<1> DEFINE rest   == box[p] \ {f}
           edited == [f EXCEPT !.sha = [date |-> f.date, by |-> None]]
           behind == {h \in rest : h.date < f.date}
<1>1. PICK m \in box[p] : \A h \in box[p] : h.date <= m.date
  <2>1. \E m \in box[p] : \A h \in box[p] : h.date <= m.date
    BY LatestFile
  <2> QED BY <2>1
<1>2. PICK x \in box[p] : x.prev = f.sha
  BY DEF Successors
<1>3. /\ f.date \in Dates /\ f.date < m.date /\ m \in rest
      /\ \A h \in box[p] : m.sha \notin DOMAIN h.history
  <2>1. f.date \in Dates /\ m.date \in Dates /\ \A h \in box[p] : h.date \in Dates
    BY FileShape
  <2>2. f.date < x.date /\ x.date <= m.date
    BY <1>1, <1>2, PredecessorIs DEF EarlierSubmitted
  <2>3. f.date < m.date
    BY <2>1, <2>2 DEF Dates
  <2>4. ASSUME NEW h \in box[p] PROVE ~(m.date < h.date)
    BY <1>1, <2>1 DEF Dates
  <2>5. m # f
    BY <2>1, <2>3 DEF Dates
  <2> QED BY <2>1, <2>3, <2>4, <2>5, Mentions
<1>4. IsFiniteSet(rest) /\ IsFiniteSet(rest \cup {edited})
  BY BoxFinite, FS_RemoveElement, FS_AddElement
<1>5. ASSUME NEW g \in rest,
             g.prev = None \/ \E h \in behind : g.prev = h.sha
      PROVE  g \in behind
  BY <1>5, BehindTheGap
<1>6. m \notin behind
  BY <1>3, FileShape DEF Dates
<1>7. ~Verifies(rest)
  <2>1. Genesis(rest) \subseteq behind
    BY <1>5 DEF Genesis
  <2>2. \A h \in behind : Onward(rest, h) \subseteq behind
    BY <1>5, OnwardSuccessors DEF Successors
  <2>3. Chain(rest) \subseteq behind
    <3> HIDE DEF rest, behind
    <3> QED BY <1>4, <2>1, <2>2, ChainBounded
  <2> QED BY <1>3, <1>6, <2>3, LastFileUnexplained
<1>8. /\ edited.sha = [date |-> f.date, by |-> None] /\ edited.date = f.date
      /\ edited.history = f.history /\ edited.sha \notin Shas
  <2>1. f \in [sha : Shas, date : Dates, prev : Shas \cup {None}, history : Histories]
    BY FileShape DEF Docs
  <2>2. /\ edited.sha = [date |-> f.date, by |-> None] /\ edited.date = f.date
        /\ edited.history = f.history
    BY <2>1
  <2>3. edited.sha \notin Shas
    <3> HIDE DEF edited
    <3> QED BY <2>2, BackupAssumption DEF Shas
  <2> QED BY <2>2, <2>3
<1>9. ~Verifies(rest \cup {edited})
  <2> DEFINE S == behind \cup {edited}
  <2>1. Genesis(rest \cup {edited}) \subseteq S
    BY <1>5 DEF Genesis
  <2>2. ASSUME NEW h \in S, NEW g \in Onward(rest \cup {edited}, h) PROVE g \in S
    <3>1. g \in rest \cup {edited} /\ g.prev = h.sha
      BY OnwardSuccessors DEF Successors
    <3>2. CASE g \in rest /\ h = edited
      <4>1. g.prev \in Shas \cup {None}
        BY <3>2, FileShape
      <4>2. g.prev = None
        BY <1>8, <3>1, <3>2, <4>1
      <4> QED BY <1>5, <3>2, <4>2
    <3>3. CASE g \in rest /\ h # edited
      BY <1>5, <3>1, <3>3
    <3> QED BY <3>1, <3>2, <3>3
  <2>3. Chain(rest \cup {edited}) \subseteq S
    <3> HIDE DEF rest, S, edited
    <3> QED BY <1>4, <2>1, <2>2, ChainBounded
  <2>4. m # edited
    <3> HIDE DEF edited, rest
    <3> QED BY <1>3, <1>8 DEF Dates
  <2>5. \A h \in rest \cup {edited} : m.sha \notin DOMAIN h.history
    BY <1>3, <1>8
  <2> HIDE DEF edited, behind
  <2> QED BY <1>3, <1>6, <2>3, <2>4, <2>5, LastFileUnexplained
<1> QED BY <1>7, <1>9

\* In a mailbox that verifies, no archive with a successor on the chain can be
\* taken out unnoticed, nor replaced by an edited one (README: "editing,
\* deleting ... is detectable").
THEOREM TamperingIsSeen ==
  ASSUME LeaseOutlivesRequest PROVE OrderlySpec => []TamperingShows
<1>1. ASSUME Integrity, Linked PROVE TamperingShows
  BY <1>1, ChainInBox, TamperedFails DEF TamperingShows
<1> QED BY <1>1, LinkedHolds, PTL
=============================================================================
