------------------------------- MODULE Accounts -------------------------------
(***************************************************************************)
(* The users table: how a boot brings an old database up to date and seeds *)
(* it (main.py), how the parents change their own rows while it serves     *)
(* (api/me_router.py), and who a phone number belongs to                   *)
(* (concierge/adapters.py).                                                *)
(*                                                                         *)
(* A boot is a sequence of commits, and the host may be killed between any *)
(* two of them.  Requests run in a thread pool: each loads its user, may   *)
(* look for another owner of a number, and commits the columns it changed. *)
(* A passcode stands for its hash and a number for all ways of writing it. *)
(***************************************************************************)
EXTENDS Integers, Sequences

CONSTANTS Users,        \* the parents of _SEED_USERS
          Phones,       \* numbers: those they are seeded with, and others
          Emails,
          Codes,
          SeedPhone,    \* the number of each of them in _SEED_USERS
          SeedEmail,    \* SEED_PARENT_*_EMAIL
          SeedCode,     \* SEED_PARENT_*_PASSCODE
          Requests,     \* bound: requests in a behaviour
          MaxKills,     \* bound: times the host is killed
          None

ASSUME AccountsAssumption ==
  /\ SeedPhone \in [Users -> Phones]
  /\ \A u, v \in Users : SeedPhone[u] = SeedPhone[v] => u = v
  /\ SeedEmail \in Emails /\ SeedCode \in Codes
  /\ None \notin Phones \cup Emails \cup Codes
  /\ MaxKills \in Nat

Columns == {"phone", "email", "hash", "feed"}

FeedToken == "users.calendar_feed_token"
FeedIndex == "ix_users_calendar_feed_token"

\* What old databases lack, in the order a boot adds it.  The last step seeds.
Steps == <<"users.email", "overrides.end_date", FeedToken, FeedIndex,
           "overrides.email_notify_status", "overrides.sms_notify_status", "seed">>
Seed    == Len(Steps)
Serving == Seed + 1

VARIABLES schema,       \* the columns and the index of Steps that are there
          boot,         \* the step the boot is at
          roster,       \* the users that are there
          user,         \* their rows
          minted,       \* feed tokens drawn so far; each is the next number
          req,          \* what each request has loaded and is about to write
          chosen,       \* history: what requests wrote last, by user and column
          crossed,      \* history: two parents asked for one number at once
          torn,         \* history: a boot was killed between column and index
          kills

data == <<roster, user, minted>>
vars == <<schema, boot, roster, user, minted, req, chosen, crossed, torn, kills>>

NoUser  == [c \in Columns |-> None]
Nothing == [c \in {} |-> None]
Idle    == [pc |-> "idle", user |-> None, seen |-> NoUser, set |-> Nothing]
Done    == [Idle EXCEPT !.pc = "done"]

\* A new database, whose tables create_all has made, or one that some earlier
\* version of the program served: it has what came until then.  create_all may
\* have been killed before it made the index, and does not look at a table that
\* is there.
Init ==
  /\ \E version \in {0, 1, 2, 4, 6}, old \in BOOLEAN, code \in {SeedCode, None} :
       /\ old \/ (version = 6 /\ code = None)
       /\ torn \in BOOLEAN /\ (torn => ~old)
       /\ schema = {Steps[i] : i \in 1..version} \ (IF torn THEN {FeedIndex} ELSE {})
       /\ roster = IF old THEN Users ELSE {}
       /\ user = [u \in Users |-> IF old THEN [NoUser EXCEPT !["phone"] = SeedPhone[u],
                                                           !["hash"] = code]
                                         ELSE NoUser]
  /\ boot = 1
  /\ minted = 0
  /\ req = [r \in Requests |-> Idle]
  /\ chosen = [u \in Users |-> Nothing]
  /\ crossed = FALSE
  /\ kills = 0

------------------------------------------------------------------------------
(* The boot.                                                               *)

\* Wrong: the second notify column is taken to have come with the first.
LacksFirst(step) ==
  (IF step = "overrides.sms_notify_status" THEN "overrides.email_notify_status" ELSE step)
    \notin schema

Lacks(step) == step \notin schema

\* The index is made only by the boot that adds its column.
Migrate ==
  /\ boot < Seed
  /\ LET step == Steps[boot] IN
     \/ /\ Lacks(step)
        /\ schema' = schema \cup {step}
        /\ boot' = boot + 1
     \/ /\ ~Lacks(step)
        /\ boot' = boot + (IF step = FeedToken THEN 2 ELSE 1)
        /\ UNCHANGED schema
  /\ UNCHANGED <<data, req, chosen, crossed, torn, kills>>

Seeded(u, secrets) ==
  [c \in Columns |-> CASE c = "phone" -> SeedPhone[u]
                       [] c = "email" /\ c \in secrets -> SeedEmail
                       [] c = "hash" /\ c \in secrets -> SeedCode
                       [] OTHER -> None]

\* A user who is there gets what is missing and the host has a secret for.
Backfilled(u, secrets) ==
  [c \in Columns |-> IF c \in secrets /\ user[u][c] = None THEN Seeded(u, secrets)[c]
                                                          ELSE user[u][c]]

\* The secrets may differ from one boot to the next.
Reconcile ==
  /\ boot = Seed
  /\ \E secrets \in SUBSET {"email", "hash"} :
       user' = [u \in Users |-> IF u \in roster THEN Backfilled(u, secrets)
                                                ELSE Seeded(u, secrets)]
  /\ roster' = Users
  /\ boot' = Serving
  /\ UNCHANGED <<schema, minted, req, chosen, crossed, torn, kills>>

\* A deploy, a crash: requests in flight are gone, the next boot starts over.
Kill ==
  /\ kills < MaxKills /\ kills' = kills + 1
  /\ torn' = (torn \/ (boot < Seed /\ Steps[boot] = FeedIndex))
  /\ boot' = 1
  /\ req' = [r \in Requests |-> IF req[r].pc = "idle" THEN Idle ELSE Done]
  /\ UNCHANGED <<schema, data, chosen, crossed>>

------------------------------------------------------------------------------
(* Requests.  One that sets a phone has loaded its user when it is about   *)
(* to look for another owner; all others are about to write `set`.         *)

Asking(n) == {r \in Requests : /\ req[r].pc = "writing"
                               /\ "phone" \in DOMAIN req[r].set /\ req[r].set["phone"] = n}

Load(r, u, set) ==
  /\ boot = Serving
  /\ req[r].pc = "idle"
  /\ req' = [req EXCEPT ![r] = [pc |-> IF "phone" \in DOMAIN set THEN "checking" ELSE "writing",
                                user |-> u, seen |-> user[u], set |-> set]]
  /\ UNCHANGED <<schema, boot, roster, user, chosen, torn, kills>>

\* Wrong: the parent's own row is asked.
TakenBySelf(u, n) == user[u]["phone"] = n

Taken(u, n) == \E v \in Users \ {u} : user[v]["phone"] = n

Only(c, value) == [column \in {c} |-> value]

PhonesOrEmails(phones, emails) ==
  [{"phone"} -> phones] \cup [{"email"} -> emails]
    \cup {set \in [{"phone", "email"} -> phones \cup emails] :
            set["phone"] \in phones /\ set["email"] \in emails}

\* Wrong: the phone may be cleared like the email.
Clearable == PhonesOrEmails(Phones \cup {None}, Emails \cup {None})

\* What a PATCH may carry: a phone, which cannot be cleared, an email or both.
Updates == PhonesOrEmails(Phones, Emails \cup {None})

PatchMe(r, u) == \E set \in Updates : Load(r, u, set) /\ UNCHANGED <<minted, crossed>>

\* A number that is another parent's is refused.
CheckPhone(r) ==
  /\ req[r].pc = "checking"
  /\ LET u == req[r].user
         n == req[r].set["phone"]
     IN  \/ /\ Taken(u, n)
            /\ req' = [req EXCEPT ![r] = Done]
            /\ UNCHANGED crossed
         \/ /\ ~Taken(u, n)
            /\ req' = [req EXCEPT ![r].pc = "writing"]
            /\ crossed' = (crossed \/ \E q \in Asking(n) : req[q].user # u)
  /\ UNCHANGED <<schema, boot, data, chosen, torn, kills>>

\* The caller knew the passcode (module Throttle) and chose another.
ChangePasscode(r, u) ==
  /\ user[u]["hash"] # None
  /\ \E code \in Codes \ {user[u]["hash"]} :
       Load(r, u, Only("hash", code)) /\ UNCHANGED <<minted, crossed>>

\* A request that neither rotates nor finds no token writes nothing.
MintFeed(r, u) ==
  \E rotate \in BOOLEAN :
    /\ rotate \/ user[u]["feed"] = None
    /\ minted' = minted + 1
    /\ Load(r, u, Only("feed", minted + 1))
    /\ UNCHANGED crossed

\* Wrong: the row is saved as it was loaded, with the changes in it.
SavedWhole(row, seen, set) == [c \in Columns |-> IF c \in DOMAIN set THEN set[c] ELSE seen[c]]

\* Only columns whose value differs from the one loaded are written.
Saved(row, seen, set) ==
  [c \in Columns |-> IF c \in DOMAIN set /\ set[c] # seen[c] THEN set[c] ELSE row[c]]

\* What is written becomes what the parent wants.
Chosen(u, seen, set) ==
  LET changed == {c \in DOMAIN set : set[c] # seen[c]}
  IN  [c \in changed \cup DOMAIN chosen[u] |-> IF c \in changed THEN set[c] ELSE chosen[u][c]]

Commit(r) ==
  /\ req[r].pc = "writing"
  /\ LET u == req[r].user
     IN  /\ user' = [user EXCEPT ![u] = Saved(@, req[r].seen, req[r].set)]
         /\ chosen' = [chosen EXCEPT ![u] = Chosen(u, req[r].seen, req[r].set)]
  /\ req' = [req EXCEPT ![r] = Done]
  /\ UNCHANGED <<schema, boot, roster, minted, crossed, torn, kills>>

------------------------------------------------------------------------------
Request(r) == \E u \in Users : PatchMe(r, u) \/ ChangePasscode(r, u) \/ MintFeed(r, u)

Next == \/ Migrate \/ Reconcile \/ Kill
        \/ \E r \in Requests : Request(r) \/ CheckPhone(r) \/ Commit(r)

Spec == Init /\ [][Next]_vars

------------------------------------------------------------------------------
(* Properties.                                                             *)

Tokens == 1..minted
Value(c) == CASE c = "phone" -> Phones [] c = "email" -> Emails
              [] c = "hash" -> Codes [] c = "feed" -> Tokens

\* Columns hold values of their kind, and a user who is there has a phone.
TypeOK ==
  /\ schema \subseteq {Steps[i] : i \in 1..(Seed - 1)}
  /\ boot \in 1..Serving
  /\ roster \subseteq Users
  /\ minted \in Nat
  /\ \A u \in Users, c \in Columns : user[u][c] \in Value(c) \cup {None}
  /\ \A u \in roster : user[u]["phone"] # None
  /\ \A r \in Requests : req[r].pc \in {"idle", "checking", "writing", "done"}

\* schema.py and main.py, "a no-op once the column is present": whatever
\* version the database comes from and however often boots are killed, the
\* first query over users and all that is served find every column, and the
\* index too unless a boot was killed after the column and before the index.
ServedSchemaIsWhole ==
  boot >= Seed =>
    /\ {Steps[i] : i \in 1..(Seed - 1)} \ {FeedIndex} \subseteq schema
    /\ torn \/ FeedIndex \in schema

\* SqlSenderResolver takes the first user with the number: a text has one
\* possible author, unless two parents looked for an owner of one free number
\* before either had it.
Resolve(n) == {u \in roster : user[u]["phone"] = n}
TextsHaveOneAuthor == crossed \/ \A n \in Phones : \A u, v \in Resolve(n) : u = v

\* What a parent set stands until the parent sets it anew: no concurrent
\* request for another column writes back an older value (a rotated calendar
\* link would work again, a changed passcode fail) and no boot puts a seed over
\* it ("Never overwrite an already-set value").  Only an email that was cleared
\* may be seeded again.
ChoicesStand ==
  \A u \in Users : \A c \in DOMAIN chosen[u] :
    \/ user[u][c] = chosen[u][c]
    \/ c = "email" /\ chosen[u][c] = None /\ user[u][c] = SeedEmail
=============================================================================
