-------------------------------- MODULE Intents --------------------------------
(***************************************************************************)
(* How a text message becomes an intent: the deterministic parser          *)
(* (concierge/adapters.py), the model-backed parser (concierge/            *)
(* llm_parser.py) whose answer may be anything its schema admits, and      *)
(* their combination, the first that does not decline.  Also the date      *)
(* range helpers of core/ranges.py that both parsers share.                *)
(***************************************************************************)
EXTENDS Integers, Sequences

CONSTANTS
  ParentA, ParentB,   \* the two values of ParentRole
  MaxRangeDays,       \* MAX_RANGE_DAYS: largest end - start of a range
  None,               \* a field that is absent
  Malformed           \* a field that is present and is not an ISO date

ASSUME IntentsAssumption ==
  /\ ParentA # ParentB
  /\ MaxRangeDays \in Nat
  /\ None \notin Int \cup {ParentA, ParentB}
  /\ Malformed \notin Int \cup {None}

Parents == {ParentA, ParentB}

------------------------------------------------------------------------------
(* core/ranges.py: ends are inclusive, and absent for a single day.        *)

IsValidRange(start, end) ==
  \/ end = None
  \/ start <= end /\ end - start <= MaxRangeDays

EffectiveEnd(start, end) == IF end = None THEN start ELSE end

Covers(start, end, day) == start <= day /\ day <= EffectiveEnd(start, end)

------------------------------------------------------------------------------
(* Intents.                                                                *)

NoIntent == [kind |-> "none", start |-> None, end |-> None, parent |-> None]

ScheduleQuery(start, end) ==
  [kind |-> "query", start |-> start, end |-> end, parent |-> None]

ParsedIntent(start, end, parent) ==
  [kind |-> "swap", start |-> start, end |-> end, parent |-> parent]

\* What the parser makes of a parent's words: "Parent B" is looked for first.
Assigned(text) ==
  IF ParentB \in text.names THEN ParentB
  ELSE IF ParentA \in text.names THEN ParentA ELSE None

Earliest(dates) == IF Len(dates) = 2 /\ dates[2] < dates[1] THEN dates[2] ELSE dates[1]
Latest(dates) == IF Len(dates) = 1 \/ dates[2] < dates[1] THEN dates[1] ELSE dates[2]

\* Wrong: a question that names a parent is taken for a request.
HeuristicNamedFirst(text) ==
  LET start == Earliest(text.dates)
      end == IF Len(text.dates) = 2 THEN Latest(text.dates) ELSE None
  IN  IF Len(text.dates) \notin {1, 2} \/ ~IsValidRange(start, end) THEN NoIntent
      ELSE IF Assigned(text) # None THEN ParsedIntent(start, end, Assigned(text))
      ELSE IF text.question THEN ScheduleQuery(start, end) ELSE NoIntent

\* HeuristicIntentParser.parse: one or two dates in a sane range, or nothing;
\* a question is a query whoever it names, anything else needs a parent.
Heuristic(text) ==
  LET start == Earliest(text.dates)
      end == IF Len(text.dates) = 2 THEN Latest(text.dates) ELSE None
  IN  IF Len(text.dates) \notin {1, 2} \/ ~IsValidRange(start, end) THEN NoIntent
      ELSE IF text.question THEN ScheduleQuery(start, end)
      ELSE IF Assigned(text) # None THEN ParsedIntent(start, end, Assigned(text))
      ELSE NoIntent

\* Wrong: an unreadable end falls back to a single day.
LLMTruncates(answer) ==
  LET end == IF answer.end = Malformed THEN None ELSE answer.end
  IN  IF \/ answer.intent = "unclear"
         \/ answer.start \in {None, Malformed}
         \/ ~IsValidRange(answer.start, end) THEN NoIntent
      ELSE IF answer.intent = "query" THEN ScheduleQuery(answer.start, end)
      ELSE IF answer.parent # None THEN ParsedIntent(answer.start, end, answer.parent)
      ELSE NoIntent

\* LLMIntentParser.parse; API errors and refusals come as "unclear".
LLM(answer) ==
  IF \/ answer.intent = "unclear"
     \/ answer.start \in {None, Malformed}
     \/ answer.end = Malformed
     \/ ~IsValidRange(answer.start, answer.end) THEN NoIntent
  ELSE IF answer.intent = "query" THEN ScheduleQuery(answer.start, answer.end)
  ELSE IF answer.parent # None THEN ParsedIntent(answer.start, answer.end, answer.parent)
  ELSE NoIntent

\* CompositeIntentParser.parse.
Composite(text, answer) ==
  IF Heuristic(text) # NoIntent THEN Heuristic(text) ELSE LLM(answer)
================================================================================
