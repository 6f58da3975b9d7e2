---------------------------- MODULE AccountsProofs ----------------------------
(***************************************************************************)
(* Proofs about the users table, for any parents, numbers and addresses,   *)
(* any number of requests at once and any number of kills.                 *)
(***************************************************************************)
EXTENDS Accounts, TLAPS

SchemaColumns == {Steps[i] : i \in 1..(Seed - 1)}

\* What was added before the step the boot is at is there; the index, too,
\* unless this boot is about to make it or a killed one was.
SchemaInv ==
  /\ \A i \in 1..(Seed - 1) : i < boot /\ Steps[i] # FeedIndex => Steps[i] \in schema
  /\ FeedToken \in schema => FeedIndex \in schema \/ torn \/ boot = 4

\* The users come all at once, and before anything is served.
RosterInv ==
  /\ roster \in {{}, Users}
  /\ boot = Serving => roster = Users
  /\ \A u \in Users : DOMAIN chosen[u] # {} => roster = Users

\* A request runs while the host serves, for one of the parents, and writes
\* columns of the row, each with a value of its kind.
RequestInv ==
  \A r \in Requests :
    req[r].pc \in {"checking", "writing"} =>
      /\ boot = Serving
      /\ req[r].user \in Users
      /\ DOMAIN req[r].set \subseteq Columns
      /\ \A c \in DOMAIN req[r].set :
           req[r].set[c] \in Value(c) \cup (IF c = "email" THEN {None} ELSE {})
      /\ req[r].pc = "checking" => "phone" \in DOMAIN req[r].set

\* While nobody has asked for a number that another was asking for, what the
\* check for a conflict found is still true when the number is written.
PhonesInv ==
  ~crossed =>
    /\ \A n \in Phones : \A q, r \in Asking(n) : req[q].user = req[r].user
    /\ \A n \in Phones : \A r \in Asking(n) :
         \A v \in Users \ {req[r].user} : user[v]["phone"] # n

\* What was chosen is of its kind, and there.
ChosenInv ==
  \A u \in Users :
    /\ DOMAIN chosen[u] \subseteq Columns
    /\ "hash" \in DOMAIN chosen[u] => chosen[u]["hash"] \in Codes

Shape == DOMAIN user = Users /\ DOMAIN req = Requests /\ DOMAIN chosen = Users

IInv ==
  /\ TypeOK /\ Shape
  /\ SchemaInv /\ RosterInv /\ RequestInv /\ PhonesInv /\ ChosenInv
  /\ TextsHaveOneAuthor /\ ChoicesStand

\* The steps in their order, as far as the proofs look.
LEMMA StepFacts ==
  /\ Seed = 7 /\ Serving = 8
  /\ Steps[3] = FeedToken /\ Steps[4] = FeedIndex
  /\ \A i \in 1..6 : Steps[i] = FeedToken <=> i = 3
  /\ \A i \in 1..6 : Steps[i] = FeedIndex <=> i = 4
<1>1. Seed = 7 /\ Serving = 8
  BY DEF Seed, Serving, Steps
<1>2. /\ Steps[1] = "users.email" /\ Steps[2] = "overrides.end_date"
      /\ Steps[3] = FeedToken /\ Steps[4] = FeedIndex
      /\ Steps[5] = "overrides.email_notify_status"
      /\ Steps[6] = "overrides.sms_notify_status"
  BY DEF Steps
<1>3. \A i \in 1..6 : i = 1 \/ i = 2 \/ i = 3 \/ i = 4 \/ i = 5 \/ i = 6
  BY SMT
<1> QED BY <1>1, <1>2, <1>3 DEF FeedToken, FeedIndex

\* No token is drawn, so none becomes possible.
LEMMA ValuesStand == ASSUME minted' = minted PROVE \A c : Value(c)' = Value(c)
BY DEF Value, Tokens

------------------------------------------------------------------------------
LEMMA InitIInv == Init => IInv
<1> SUFFICES ASSUME Init PROVE IInv
  OBVIOUS
<1>0. PICK version \in {0, 1, 2, 4, 6}, old \in BOOLEAN, code \in {SeedCode, None} :
        /\ torn \in BOOLEAN
        /\ schema = {Steps[i] : i \in 1..version} \ (IF torn THEN {FeedIndex} ELSE {})
        /\ roster = IF old THEN Users ELSE {}
        /\ user = [u \in Users |-> IF old THEN [NoUser EXCEPT !["phone"] = SeedPhone[u],
                                                            !["hash"] = code]
                                          ELSE NoUser]
  BY DEF Init
<1>1. /\ boot = 1 /\ minted = 0 /\ req = [r \in Requests |-> Idle]
      /\ chosen = [u \in Users |-> Nothing] /\ crossed = FALSE
  BY DEF Init
<1>2. \A r \in Requests : req[r].pc = "idle"
  BY <1>1 DEF Idle
<1>3. \A u \in Users : DOMAIN chosen[u] = {}
  BY <1>1 DEF Nothing
<1>4. ASSUME NEW u \in Users
      PROVE  /\ user[u]["phone"] = IF old THEN SeedPhone[u] ELSE None
             /\ user[u]["hash"] \in {SeedCode, None}
             /\ user[u]["email"] = None /\ user[u]["feed"] = None
  BY <1>0 DEF NoUser, Columns
<1>5. TypeOK
  <2>0. roster \subseteq Users
    BY <1>0
  <2>1. schema \subseteq SchemaColumns
    BY <1>0, StepFacts DEF SchemaColumns
  <2>2. \A u \in Users, c \in Columns : user[u][c] \in Value(c) \cup {None}
    BY <1>4, AccountsAssumption DEF Columns, Value
  <2>3. \A u \in roster : user[u]["phone"] # None
    <3>1. CASE old
      <4> SUFFICES ASSUME NEW u \in Users PROVE user[u]["phone"] # None
        BY <2>0
      <4>1. user[u]["phone"] = SeedPhone[u]
        BY <1>4, <3>1
      <4>2. SeedPhone[u] \in Phones /\ None \notin Phones
        BY AccountsAssumption
      <4> QED BY <4>1, <4>2
    <3>2. CASE ~old
      BY <1>0, <3>2
    <3> QED BY <3>1, <3>2
  <2> QED BY <1>1, <1>2, <2>0, <2>1, <2>2, <2>3, StepFacts DEF TypeOK, SchemaColumns
<1>6. SchemaInv
  <2>1. FeedToken \in schema => FeedIndex \in schema \/ torn
    BY <1>0, StepFacts
  <2> QED BY <1>1, <2>1 DEF SchemaInv
<1>7. RosterInv
  BY <1>0, <1>1, <1>3, StepFacts DEF RosterInv
<1>8. RequestInv /\ PhonesInv /\ ChosenInv /\ ChoicesStand /\ Shape
  BY <1>0, <1>1, <1>2, <1>3 DEF RequestInv, PhonesInv, Asking, ChosenInv, ChoicesStand, Shape
<1>9. TextsHaveOneAuthor
  <2> SUFFICES ASSUME NEW n \in Phones, NEW u \in Resolve(n), NEW v \in Resolve(n)
               PROVE  u = v
    BY DEF TextsHaveOneAuthor
  <2> QED BY <1>0, <1>4, AccountsAssumption DEF Resolve
<1> QED BY <1>5, <1>6, <1>7, <1>8, <1>9 DEF IInv

------------------------------------------------------------------------------
(* The boot.                                                               *)

LEMMA MigrateIInv == ASSUME IInv, Migrate PROVE IInv'
<1>0. boot \in 1..6 /\ UNCHANGED <<roster, user, minted, req, chosen, crossed, torn>>
  BY StepFacts DEF IInv, TypeOK, Migrate, data
<1> DEFINE step == Steps[boot]
<1>1. \/ step \notin schema /\ schema' = schema \cup {step} /\ boot' = boot + 1
      \/ /\ step \in schema /\ schema' = schema
         /\ boot' = boot + (IF step = FeedToken THEN 2 ELSE 1)
  BY DEF Migrate, Lacks
<1> HIDE DEF step
<1>2. boot' \in 1..7 /\ step \in SchemaColumns /\ boot # 8
  BY <1>0, <1>1, StepFacts DEF step, SchemaColumns
<1>3. TypeOK'
  <2>1. schema' \subseteq SchemaColumns /\ boot' \in 1..Serving
    BY <1>1, <1>2, StepFacts DEF IInv, TypeOK, SchemaColumns
  <2>2. \A u \in Users, c \in Columns : user'[u][c] \in Value(c)' \cup {None}
    BY <1>0, ValuesStand DEF IInv, TypeOK
  <2> QED BY <1>0, <2>1, <2>2 DEF IInv, TypeOK, SchemaColumns
<1>4. SchemaInv'
  <2> USE DEF SchemaInv
  <2>0. SchemaInv /\ (step = FeedToken <=> boot = 3) /\ (step = FeedIndex <=> boot = 4)
    BY <1>0, StepFacts DEF IInv, step
  <2>1. ASSUME NEW i \in 1..(Seed - 1), i < boot', Steps[i] # FeedIndex
        PROVE  Steps[i] \in schema'
    <3>1. CASE i < boot
      BY <2>0, <2>1, <3>1, <1>1
    <3>2. CASE i = boot
      BY <1>1, <3>2 DEF step
    <3>3. CASE i > boot
      BY <2>0, <2>1, <3>3, <1>0, <1>1, StepFacts
    <3> QED BY <3>1, <3>2, <3>3, <1>0, StepFacts
  <2>2. FeedToken \in schema' => FeedIndex \in schema' \/ torn' \/ boot' = 4
    BY <1>0, <1>1, <2>0, StepFacts
  <2> QED BY <2>1, <2>2
<1>5. RosterInv' /\ RequestInv' /\ PhonesInv' /\ ChosenInv' /\ Shape'
  BY <1>0, <1>2, StepFacts
  DEF IInv, RosterInv, RequestInv, PhonesInv, Asking, Taken, ChosenInv, Value, Tokens, Shape
<1>6. TextsHaveOneAuthor' /\ ChoicesStand'
  BY <1>0 DEF IInv, TextsHaveOneAuthor, Resolve, ChoicesStand
<1> QED BY <1>3, <1>4, <1>5, <1>6 DEF IInv

\* A boot gives a user who is there nothing but a missing email or passcode.
LEMMA BackfillKeeps ==
  ASSUME NEW u \in Users, NEW secrets \in SUBSET {"email", "hash"}
  PROVE  /\ Backfilled(u, secrets)["phone"] = user[u]["phone"]
         /\ Backfilled(u, secrets)["feed"] = user[u]["feed"]
         /\ Backfilled(u, secrets)["email"] \in
              {user[u]["email"]} \cup (IF user[u]["email"] = None THEN {SeedEmail} ELSE {})
         /\ Backfilled(u, secrets)["hash"] \in
              {user[u]["hash"]} \cup (IF user[u]["hash"] = None THEN {SeedCode} ELSE {})
BY DEF Backfilled, Seeded, Columns

LEMMA ReconcileIInv == ASSUME IInv, Reconcile PROVE IInv'
<1>0. /\ boot = Seed /\ roster' = Users /\ boot' = Serving
      /\ UNCHANGED <<schema, minted, req, chosen, crossed, torn>>
  BY DEF Reconcile
<1>1. PICK secrets \in SUBSET {"email", "hash"} :
        user' = [u \in Users |-> IF u \in roster THEN Backfilled(u, secrets)
                                                 ELSE Seeded(u, secrets)]
  BY DEF Reconcile
<1>2. TypeOK /\ RosterInv /\ ChosenInv /\ ChoicesStand /\ TextsHaveOneAuthor
  BY DEF IInv
<1>3. \A r \in Requests : req[r].pc \notin {"checking", "writing"}
  BY <1>0, StepFacts DEF IInv, RequestInv
<1>4. ASSUME NEW u \in Users
      PROVE  \/ u \in roster /\ user'[u] = Backfilled(u, secrets)
             \/ u \notin roster /\ user'[u] = Seeded(u, secrets)
  BY <1>1
<1>5. ASSUME NEW u \in Users
      PROVE  /\ Seeded(u, secrets)["phone"] = SeedPhone[u]
             /\ Seeded(u, secrets)["feed"] = None
             /\ Seeded(u, secrets)["email"] \in {None, SeedEmail}
             /\ Seeded(u, secrets)["hash"] \in {None, SeedCode}
  BY DEF Seeded, Columns
<1>6. TypeOK'
  <2>1. ASSUME NEW u \in Users
        PROVE  /\ user'[u]["phone"] \in Phones /\ user'[u]["feed"] \in Tokens \cup {None}
               /\ user'[u]["email"] \in Emails \cup {None}
               /\ user'[u]["hash"] \in Codes \cup {None}
    <3>1. /\ user[u]["phone"] \in Phones \cup {None} /\ user[u]["feed"] \in Tokens \cup {None}
          /\ user[u]["email"] \in Emails \cup {None}
          /\ user[u]["hash"] \in Codes \cup {None}
      BY <1>2 DEF TypeOK, Columns, Value
    <3>2. CASE u \in roster
      BY <1>2, <1>4, <3>1, <3>2, BackfillKeeps, AccountsAssumption DEF TypeOK
    <3>3. CASE u \notin roster
      BY <1>4, <1>5, <3>3, AccountsAssumption
    <3> QED BY <3>2, <3>3
  <2>2. \A u \in Users, c \in Columns : user'[u][c] \in Value(c)' \cup {None}
    BY <1>0, <2>1 DEF Columns, Value, Tokens
  <2>3. \A u \in roster' : user'[u]["phone"] # None
    BY <1>0, <2>1, AccountsAssumption
  <2> QED BY <1>0, <1>2, <2>2, <2>3, StepFacts DEF TypeOK
<1>7. SchemaInv'
  BY <1>0, StepFacts DEF IInv, SchemaInv
<1>8. RosterInv' /\ RequestInv' /\ ChosenInv' /\ Shape'
  BY <1>0, <1>1, <1>2, <1>3 DEF IInv, RosterInv, RequestInv, ChosenInv, Shape
<1>9. PhonesInv'
  BY <1>0, <1>3 DEF PhonesInv, Asking
<1>10. TextsHaveOneAuthor'
  <2> SUFFICES ASSUME ~crossed, NEW n \in Phones, NEW u \in Users, NEW v \in Users,
                      user'[u]["phone"] = n, user'[v]["phone"] = n
               PROVE  u = v
    BY <1>0 DEF TextsHaveOneAuthor, Resolve
  <2>1. CASE roster = Users
    <3>1. user[u]["phone"] = n /\ user[v]["phone"] = n
      BY <1>4, <2>1, BackfillKeeps
    <3> QED BY <1>2, <2>1, <3>1 DEF TextsHaveOneAuthor, Resolve
  <2>2. CASE roster = {}
    BY <1>4, <1>5, <2>2, AccountsAssumption
  <2> QED BY <1>2, <2>1, <2>2 DEF RosterInv
<1>11. ChoicesStand'
  <2> SUFFICES ASSUME NEW u \in Users, NEW c \in DOMAIN chosen[u]
               PROVE  \/ user'[u][c] = chosen[u][c]
                      \/ c = "email" /\ chosen[u][c] = None /\ user'[u][c] = SeedEmail
    BY <1>0 DEF ChoicesStand
  <2>1. user'[u] = Backfilled(u, secrets)
    BY <1>2, <1>4 DEF RosterInv
  <2>2. \/ user[u][c] = chosen[u][c]
        \/ c = "email" /\ chosen[u][c] = None /\ user[u][c] = SeedEmail
    BY <1>2 DEF ChoicesStand
  <2>3. c \in Columns /\ (c = "hash" => chosen[u][c] # None)
    BY <1>2, AccountsAssumption DEF ChosenInv
  <2>4. SeedEmail # None
    BY AccountsAssumption
  <2> QED BY <2>1, <2>2, <2>3, <2>4, BackfillKeeps DEF Columns
<1> QED BY <1>6, <1>7, <1>8, <1>9, <1>10, <1>11 DEF IInv

LEMMA KillIInv == ASSUME IInv, Kill PROVE IInv'
<1>0. /\ boot' = 1 /\ UNCHANGED <<schema, roster, user, minted, chosen, crossed>>
      /\ torn' = (torn \/ (boot < Seed /\ Steps[boot] = FeedIndex))
      /\ req' = [r \in Requests |-> IF req[r].pc = "idle" THEN Idle ELSE Done]
  BY DEF Kill, data
<1>1. \A r \in Requests : req'[r].pc \in {"idle", "done"}
  BY <1>0 DEF Idle, Done
<1>2. TypeOK'
  <2>1. \A u \in Users, c \in Columns : user'[u][c] \in Value(c)' \cup {None}
    BY <1>0, ValuesStand DEF IInv, TypeOK
  <2>2. boot' \in 1..Serving
    BY <1>0, StepFacts
  <2> QED BY <1>0, <1>1, <2>1, <2>2 DEF IInv, TypeOK
<1>3. SchemaInv'
  <2>1. boot = 4 => torn'
    <3>1. boot < Seed /\ Steps[boot] = FeedIndex => torn'
      BY <1>0
    <3> QED BY <3>1, StepFacts
  <2>2. torn => torn'
    BY <1>0
  <2> QED BY <1>0, <2>1, <2>2, StepFacts DEF IInv, SchemaInv
<1>4. RosterInv' /\ RequestInv' /\ PhonesInv' /\ ChosenInv' /\ Shape'
  BY <1>0, <1>1, StepFacts DEF IInv, RosterInv, RequestInv, PhonesInv, Asking, ChosenInv, Shape
<1>5. TextsHaveOneAuthor' /\ ChoicesStand'
  BY <1>0 DEF IInv, TextsHaveOneAuthor, Resolve, ChoicesStand
<1> QED BY <1>2, <1>3, <1>4, <1>5 DEF IInv

------------------------------------------------------------------------------
(* The requests.                                                           *)

\* A set of columns to write, each with a value of its kind.
Writable(set) ==
  /\ DOMAIN set \subseteq Columns
  /\ \A c \in DOMAIN set : set[c] \in Value(c)' \cup (IF c = "email" THEN {None} ELSE {})

\* A request that loads a row disturbs nothing.
LEMMA LoadIInv ==
  ASSUME IInv, NEW r \in Requests, NEW u \in Users, NEW set, Load(r, u, set), Writable(set),
         minted' \in Nat, minted' >= minted, crossed' = crossed
  PROVE  IInv'
<1>0. /\ boot = Serving /\ UNCHANGED <<schema, boot, roster, user, chosen, torn>>
      /\ req' = [req EXCEPT ![r] = [pc |-> IF "phone" \in DOMAIN set THEN "checking"
                                                                     ELSE "writing",
                                    user |-> u, seen |-> user[u], set |-> set]]
  BY DEF Load
<1>1. /\ req'[r].pc \in {"checking", "writing"}
      /\ req'[r].pc = "checking" <=> "phone" \in DOMAIN set
      /\ req'[r].user = u /\ req'[r].set = set
      /\ \A q \in Requests \ {r} : req'[q] = req[q]
      /\ DOMAIN req' = Requests
  BY <1>0 DEF IInv, Shape
<1>2. \A c \in Columns : Value(c) \subseteq Value(c)'
  BY DEF Value, Tokens, IInv, TypeOK, Columns
<1>3. TypeOK'
  <2>1. \A v \in Users, c \in Columns : user'[v][c] \in Value(c)' \cup {None}
    BY <1>0, <1>2 DEF IInv, TypeOK
  <2> QED BY <1>0, <1>1, <2>1 DEF IInv, TypeOK
<1>4. RequestInv'
  <2> SUFFICES ASSUME NEW q \in Requests, req'[q].pc \in {"checking", "writing"}
               PROVE  /\ boot' = Serving /\ req'[q].user \in Users
                      /\ Writable(req'[q].set)
                      /\ req'[q].pc = "checking" => "phone" \in DOMAIN req'[q].set
    BY DEF RequestInv, Writable
  <2>1. CASE q = r
    BY <1>0, <1>1, <2>1
  <2>2. CASE q # r
    BY <1>0, <1>1, <1>2, <2>2 DEF IInv, RequestInv, Writable
  <2> QED BY <2>1, <2>2
<1>5. PhonesInv'
  <2>1. \A n : Asking(n)' \subseteq Asking(n)
    BY <1>1 DEF Asking
  <2>2. \A n : \A q \in Asking(n)' : req'[q] = req[q]
    BY <1>1 DEF Asking
  <2> QED BY <1>0, <2>1, <2>2 DEF IInv, PhonesInv
<1>6. SchemaInv' /\ RosterInv' /\ ChosenInv' /\ Shape'
  BY <1>0, <1>1 DEF IInv, SchemaInv, RosterInv, ChosenInv, Shape
<1>7. TextsHaveOneAuthor' /\ ChoicesStand'
  BY <1>0 DEF IInv, TextsHaveOneAuthor, Resolve, ChoicesStand
<1> QED BY <1>3, <1>4, <1>5, <1>6, <1>7 DEF IInv

LEMMA PatchMeIInv ==
  ASSUME IInv, NEW r \in Requests, NEW u \in Users, PatchMe(r, u)
  PROVE  IInv'
<1>1. PICK set \in Updates : Load(r, u, set) /\ UNCHANGED <<minted, crossed>>
  BY DEF PatchMe
<1>2. Writable(set)
  BY DEF Updates, PhonesOrEmails, Writable, Columns, Value
<1>3. minted' \in Nat /\ minted' >= minted
  BY <1>1 DEF IInv, TypeOK
<1> QED BY <1>1, <1>2, <1>3, LoadIInv

\* The number is free and nobody else asks for it, or the request is refused.
LEMMA CheckPhoneIInv == ASSUME IInv, NEW r \in Requests, CheckPhone(r) PROVE IInv'
<1> DEFINE u == req[r].user
           n == req[r].set["phone"]
<1>0. /\ req[r].pc = "checking"
      /\ UNCHANGED <<schema, boot, roster, user, minted, chosen, torn>>
      /\ \/ req' = [req EXCEPT ![r] = Done] /\ crossed' = crossed
         \/ /\ ~Taken(u, n)
            /\ req' = [req EXCEPT ![r].pc = "writing"]
            /\ crossed' = (crossed \/ \E q \in Asking(n) : req[q].user # u)
  BY DEF CheckPhone, data
<1>1. /\ \A q \in Requests \ {r} : req'[q] = req[q]
      /\ DOMAIN req' = Requests
      /\ req'[r].pc \in {"writing", "done"}
      /\ req'[r].pc = "writing" =>
           /\ req'[r].user = u /\ req'[r].set = req[r].set
           /\ ~Taken(u, n)
           /\ crossed' = (crossed \/ \E q \in Asking(n) : req[q].user # u)
  <2>0. DOMAIN req = Requests
    BY DEF IInv, Shape
  <2>1. CASE req' = [req EXCEPT ![r] = Done]
    BY <2>0, <2>1 DEF Done, Idle
  <2>2. CASE /\ ~Taken(u, n) /\ req' = [req EXCEPT ![r].pc = "writing"]
             /\ crossed' = (crossed \/ \E q \in Asking(n) : req[q].user # u)
    <3>1. /\ \A q \in Requests \ {r} : req'[q] = req[q]
          /\ DOMAIN req' = Requests
          /\ req'[r] = [req[r] EXCEPT !.pc = "writing"]
      BY <2>0, <2>2
    <3>2. /\ req'[r].pc = "writing" /\ req'[r].user = req[r].user
          /\ req'[r].set = req[r].set
      BY <3>1
    <3> QED BY <2>2, <3>1, <3>2
  <2> QED BY <1>0, <2>1, <2>2
<1>2. TypeOK'
  <2>1. \A v \in Users, c \in Columns : user'[v][c] \in Value(c)' \cup {None}
    BY <1>0, ValuesStand DEF IInv, TypeOK
  <2>2. \A q \in Requests : req'[q].pc \in {"idle", "checking", "writing", "done"}
    BY <1>1 DEF IInv, TypeOK
  <2> QED BY <1>0, <2>1, <2>2 DEF IInv, TypeOK
<1>3. RequestInv'
  <2>1. \A c : Value(c)' = Value(c)
    BY <1>0, ValuesStand
  <2>2. RequestInv
    BY DEF IInv
  <2> QED BY <1>0, <1>1, <2>1, <2>2 DEF RequestInv
<1>4. PhonesInv'
  <2> SUFFICES ASSUME ~crossed', NEW m \in Phones
               PROVE  /\ \A p, q \in Asking(m)' : req'[p].user = req'[q].user
                      /\ \A q \in Asking(m)' :
                           \A v \in Users \ {req'[q].user} : user[v]["phone"] # m
    BY <1>0 DEF PhonesInv
  <2>1. ~crossed /\ PhonesInv
    <3>1. crossed => crossed'
      BY <1>0
    <3> QED BY <3>1 DEF IInv
  <2>2. ASSUME NEW q \in Asking(m)'
        PROVE  \/ /\ q = r /\ n = m /\ req'[q].user = u /\ ~Taken(u, m)
                  /\ \A p \in Asking(m) : req[p].user = u
               \/ q # r /\ q \in Asking(m) /\ req'[q] = req[q]
    BY <1>1 DEF Asking
  <2> HIDE DEF u, n
  <2>3. \A p, q \in Asking(m)' : req'[p].user = req'[q].user
    BY <2>1, <2>2 DEF PhonesInv
  <2>4. ASSUME NEW q \in Asking(m)', NEW v \in Users \ {req'[q].user}
        PROVE  user[v]["phone"] # m
    BY <2>1, <2>2 DEF PhonesInv, Taken
  <2> QED BY <2>3, <2>4
<1>5. SchemaInv' /\ RosterInv' /\ ChosenInv' /\ Shape'
  BY <1>0, <1>1 DEF IInv, SchemaInv, RosterInv, ChosenInv, Shape
<1>6. TextsHaveOneAuthor' /\ ChoicesStand'
  <2>1. crossed => crossed'
    BY <1>0
  <2> QED BY <1>0, <2>1 DEF IInv, TextsHaveOneAuthor, Resolve, ChoicesStand
<1> QED BY <1>2, <1>3, <1>4, <1>5, <1>6 DEF IInv

LEMMA ChangePasscodeIInv ==
  ASSUME IInv, NEW r \in Requests, NEW u \in Users, ChangePasscode(r, u)
  PROVE  IInv'
<1>1. PICK code \in Codes : Load(r, u, Only("hash", code)) /\ UNCHANGED <<minted, crossed>>
  BY DEF ChangePasscode
<1>2. Writable(Only("hash", code)) /\ "phone" \notin DOMAIN Only("hash", code)
  BY DEF Writable, Only, Columns, Value
<1>3. minted' \in Nat /\ minted' >= minted
  BY <1>1 DEF IInv, TypeOK
<1> QED BY <1>1, <1>2, <1>3, LoadIInv

LEMMA MintFeedIInv ==
  ASSUME IInv, NEW r \in Requests, NEW u \in Users, MintFeed(r, u)
  PROVE  IInv'
<1>1. Load(r, u, Only("feed", minted + 1)) /\ minted' = minted + 1 /\ UNCHANGED crossed
  BY DEF MintFeed
<1>2. minted \in Nat /\ minted' \in Nat /\ minted' >= minted /\ minted + 1 \in 1..minted'
  BY <1>1 DEF IInv, TypeOK
<1>3. Writable(Only("feed", minted + 1)) /\ "phone" \notin DOMAIN Only("feed", minted + 1)
  BY <1>2 DEF Writable, Only, Columns, Value, Tokens
<1> QED BY <1>1, <1>2, <1>3, LoadIInv

LEMMA CommitIInv == ASSUME IInv, NEW r \in Requests, Commit(r) PROVE IInv'
<1> DEFINE u == req[r].user
           set == req[r].set
           seen == req[r].seen
<1>0. /\ req[r].pc = "writing" /\ u \in Users /\ boot = Serving /\ roster = Users
      /\ UNCHANGED <<schema, boot, roster, minted, crossed, torn>>
      /\ DOMAIN set \subseteq Columns
      /\ \A c \in DOMAIN set : set[c] \in Value(c) \cup (IF c = "email" THEN {None} ELSE {})
  BY DEF IInv, RequestInv, RosterInv, Commit
<1>1. /\ user' = [user EXCEPT ![u] = Saved(user[u], seen, set)]
      /\ chosen' = [chosen EXCEPT ![u] = Chosen(u, seen, set)]
      /\ req' = [req EXCEPT ![r] = Done]
  BY DEF Commit
<1> HIDE DEF u, set, seen
<1> DEFINE changed == {c \in DOMAIN set : set[c] # seen[c]}
<1>2. /\ \A v \in Users \ {u} : user'[v] = user[v] /\ chosen'[v] = chosen[v]
      /\ user'[u] = Saved(user[u], seen, set)
      /\ chosen'[u] = Chosen(u, seen, set)
      /\ req'[r].pc = "done" /\ \A q \in Requests \ {r} : req'[q] = req[q]
      /\ DOMAIN user' = Users /\ DOMAIN chosen' = Users /\ DOMAIN req' = Requests
  BY <1>0, <1>1 DEF IInv, Shape, Done, Idle
<1>3. \A c \in Columns : user'[u][c] = IF c \in changed THEN set[c] ELSE user[u][c]
  BY <1>2 DEF Saved
<1>4. /\ DOMAIN chosen'[u] = changed \cup DOMAIN chosen[u]
      /\ \A c \in DOMAIN chosen'[u] :
           chosen'[u][c] = IF c \in changed THEN set[c] ELSE chosen[u][c]
  BY <1>2 DEF Chosen
<1>5. changed \subseteq DOMAIN set
  OBVIOUS
<1> HIDE DEF changed
<1>6. TypeOK'
  <2>1. \A v \in Users, c \in Columns : user'[v][c] \in Value(c) \cup {None}
    BY <1>0, <1>2, <1>3, <1>5 DEF IInv, TypeOK
  <2>2. \A v \in Users : user'[v]["phone"] # None
    <3>1. "phone" \in Columns /\ ("phone" \in DOMAIN set => set["phone"] \in Phones)
      BY <1>0 DEF Columns, Value
    <3> QED BY <1>0, <1>2, <1>3, <1>5, <3>1, AccountsAssumption DEF IInv, TypeOK
  <2>3. \A q \in Requests : req'[q].pc \in {"idle", "checking", "writing", "done"}
    BY <1>2 DEF IInv, TypeOK
  <2>4. \A c : Value(c)' = Value(c)
    BY <1>0 DEF Value, Tokens
  <2> QED BY <1>0, <2>1, <2>2, <2>3, <2>4 DEF IInv, TypeOK
<1>7. SchemaInv' /\ RosterInv' /\ Shape'
  BY <1>0, <1>2 DEF IInv, SchemaInv, RosterInv, Shape
<1>8. RequestInv'
  BY <1>0, <1>2, ValuesStand DEF IInv, RequestInv
<1>9. ChosenInv'
  <2>1. "hash" \in changed => set["hash"] \in Codes
    BY <1>0, <1>5 DEF Value
  <2> QED BY <1>0, <1>2, <1>4, <1>5, <2>1 DEF IInv, ChosenInv
<1>10. ASSUME "phone" \in changed
       PROVE  set["phone"] \in Phones /\ r \in Asking(set["phone"])
  BY <1>0, <1>5, <1>10 DEF Value, Asking, set
<1>11. "phone" \in Columns
  BY DEF Columns
<1>12. PhonesInv'
  <2> SUFFICES ASSUME ~crossed
               PROVE  \A n \in Phones : /\ \A p, q \in Asking(n)' : req'[p].user = req'[q].user
                                        /\ \A q \in Asking(n)' :
                                             \A v \in Users \ {req'[q].user} :
                                               user'[v]["phone"] # n
    BY <1>0 DEF PhonesInv
  <2>1. \A n \in Phones : \A q \in Asking(n)' : q \in Asking(n) /\ req'[q] = req[q]
    BY <1>2 DEF Asking
  <2>2. PhonesInv
    BY DEF IInv
  <2>3. ASSUME NEW n \in Phones, NEW q \in Asking(n)', NEW v \in Users \ {req[q].user}
        PROVE  user'[v]["phone"] # n
    <3>1. q \in Asking(n)
      BY <2>1
    <3>2. user[v]["phone"] # n
      BY <2>2, <3>1 DEF PhonesInv
    <3>3. CASE v = u /\ "phone" \in changed
      <4>1. set["phone"] = n => req[q].user = u
        BY <1>10, <2>2, <3>1, <3>3 DEF PhonesInv, u
      <4> QED BY <1>3, <1>11, <3>3, <4>1
    <3>4. CASE ~(v = u /\ "phone" \in changed)
      BY <1>2, <1>3, <1>11, <3>2, <3>4
    <3> QED BY <3>3, <3>4
  <2> QED BY <2>1, <2>2, <2>3 DEF PhonesInv
<1>13. TextsHaveOneAuthor'
  <2> SUFFICES ASSUME ~crossed, NEW n \in Phones, NEW v \in Users, NEW w \in Users,
                      user'[v]["phone"] = n, user'[w]["phone"] = n
               PROVE  v = w
    BY <1>0 DEF TextsHaveOneAuthor, Resolve
  <2>1. CASE "phone" \in changed
    <3>1. \A x \in Users \ {u} : user[x]["phone"] # set["phone"]
      BY <1>10, <2>1 DEF IInv, PhonesInv, u
    <3>2. user'[u]["phone"] = set["phone"]
      BY <1>3, <1>11, <2>1
    <3>3. \A x \in Users \ {u} : user'[x]["phone"] # set["phone"]
      BY <1>2, <3>1
    <3>4. \A x, y \in Users \ {u} : user[x]["phone"] = n /\ user[y]["phone"] = n => x = y
      BY <1>0 DEF IInv, TextsHaveOneAuthor, Resolve
    <3> QED BY <1>2, <3>2, <3>3, <3>4
  <2>2. CASE "phone" \notin changed
    <3>1. \A x \in Users : user'[x]["phone"] = user[x]["phone"]
      BY <1>2, <1>3, <1>11, <2>2
    <3> QED BY <1>0, <3>1 DEF IInv, TextsHaveOneAuthor, Resolve
  <2> QED BY <2>1, <2>2
<1>14. ChoicesStand'
  <2> SUFFICES ASSUME NEW v \in Users, NEW c \in DOMAIN chosen'[v]
               PROVE  \/ user'[v][c] = chosen'[v][c]
                      \/ c = "email" /\ chosen'[v][c] = None /\ user'[v][c] = SeedEmail
    BY DEF ChoicesStand
  <2>0. ChoicesStand /\ ChosenInv
    BY DEF IInv
  <2>1. CASE v # u
    BY <1>2, <2>0, <2>1 DEF ChoicesStand
  <2>2. CASE v = u /\ c \in changed
    BY <1>0, <1>3, <1>4, <1>5, <2>2
  <2>3. CASE v = u /\ c \notin changed
    <3>1. c \in DOMAIN chosen[u] /\ c \in Columns
      BY <1>0, <1>4, <2>0, <2>3 DEF ChosenInv
    <3>2. user'[u][c] = user[u][c] /\ chosen'[u][c] = chosen[u][c]
      BY <1>3, <1>4, <2>3, <3>1
    <3> QED BY <1>0, <2>0, <2>3, <3>1, <3>2 DEF ChoicesStand
  <2> QED BY <2>1, <2>2, <2>3
<1> QED BY <1>6, <1>7, <1>8, <1>9, <1>12, <1>13, <1>14 DEF IInv

------------------------------------------------------------------------------
LEMMA NextIInv == IInv /\ [Next]_vars => IInv'
<1> SUFFICES ASSUME IInv, [Next]_vars PROVE IInv'
  OBVIOUS
<1>1. CASE Migrate
  BY <1>1, MigrateIInv
<1>2. CASE Reconcile
  BY <1>2, ReconcileIInv
<1>3. CASE Kill
  BY <1>3, KillIInv
<1>4. ASSUME NEW r \in Requests, Request(r) PROVE IInv'
  BY <1>4, PatchMeIInv, ChangePasscodeIInv, MintFeedIInv DEF Request
<1>5. ASSUME NEW r \in Requests, CheckPhone(r) PROVE IInv'
  BY <1>5, CheckPhoneIInv
<1>6. ASSUME NEW r \in Requests, Commit(r) PROVE IInv'
  BY <1>6, CommitIInv
<1>7. CASE UNCHANGED vars
  <2>0. /\ UNCHANGED <<schema, boot, roster, user, minted, req, chosen, crossed, torn>>
        /\ \A c : Value(c)' = Value(c)
    BY <1>7, ValuesStand DEF vars
  <2>1. TypeOK' /\ RequestInv'
    BY <2>0 DEF IInv, TypeOK, RequestInv
  <2>2. SchemaInv' /\ RosterInv' /\ PhonesInv' /\ ChosenInv' /\ Shape'
    BY <2>0 DEF IInv, SchemaInv, RosterInv, PhonesInv, Asking, ChosenInv, Shape
  <2>3. TextsHaveOneAuthor' /\ ChoicesStand'
    BY <2>0 DEF IInv, TextsHaveOneAuthor, Resolve, ChoicesStand
  <2> QED BY <2>1, <2>2, <2>3 DEF IInv
<1> QED BY <1>1, <1>2, <1>3, <1>4, <1>5, <1>6, <1>7 DEF Next

THEOREM Invariance == Spec => []IInv
BY InitIInv, NextIInv, PTL DEF Spec

------------------------------------------------------------------------------
\* Columns hold values of their kind, and a user who is there has a phone.
THEOREM TypeCorrect == Spec => []TypeOK
<1>1. IInv => TypeOK
  BY DEF IInv
<1> QED BY <1>1, Invariance, PTL

\* Whatever version a database comes from and wherever boots are killed, what
\* serves finds every column, and the index unless a boot was killed between them.
THEOREM SchemaWhole == Spec => []ServedSchemaIsWhole
<1>1. IInv => ServedSchemaIsWhole
  <2> SUFFICES ASSUME IInv, boot >= Seed
               PROVE  /\ {Steps[i] : i \in 1..(Seed - 1)} \ {FeedIndex} \subseteq schema
                      /\ torn \/ FeedIndex \in schema
    BY DEF ServedSchemaIsWhole
  <2>1. boot >= 7 /\ SchemaInv
    BY StepFacts DEF IInv
  <2>2. {Steps[i] : i \in 1..(Seed - 1)} \ {FeedIndex} \subseteq schema
    BY <2>1, StepFacts DEF SchemaInv, IInv, TypeOK
  <2>3. FeedToken \in schema
    BY <2>1, <2>2, StepFacts DEF SchemaInv
  <2> QED BY <2>1, <2>2, <2>3 DEF SchemaInv
<1> QED BY <1>1, Invariance, PTL

\* A number has one owner, unless two parents looked for it before either had it.
THEOREM OneAuthor == Spec => []TextsHaveOneAuthor
<1>1. IInv => TextsHaveOneAuthor
  BY DEF IInv
<1> QED BY <1>1, Invariance, PTL

\* What a parent set stands until the parent sets it anew.
THEOREM ChoicesKept == Spec => []ChoicesStand
<1>1. IInv => ChoicesStand
  BY DEF IInv
<1> QED BY <1>1, Invariance, PTL
===============================================================================
