-------------------------------- MODULE Schedule --------------------------------
(***************************************************************************)
(* Who has the children: one request for a stretch of the calendar, from   *)
(* the web (GET /schedule), from a subscribed calendar (GET feed.ics) or   *)
(* from a parent's text, until its answer.  A text is parsed first         *)
(* (Intents); a query loads the baseline and the active overrides          *)
(* (database/schedule_reads.py), the engine walks the days one by one      *)
(* (core/engine.py), and the reply by text groups them                     *)
(* (core/schedule_summary.py).                                             *)
(*                                                                         *)
(* A reader sees what the writers of Overrides have left: any baseline and *)
(* any set of rows, overlapping and undecided ones included.  Days are     *)
(* integers; one request is served, since readers share nothing.           *)
(***************************************************************************)
EXTENDS Intents, FiniteSets

CONSTANTS
  Epochs,         \* values of epoch_start_date, any integers
  MaxOverrides,   \* bound: override ids are 1..MaxOverrides
  Spans,          \* bound: the (start, end) pairs of the overrides in the store
  Windows,        \* bound: the (start, end) pairs asked for on the web
  Todays,         \* bound: the household's today when a feed is fetched
  FeedPast,       \* FEED_PAST_DAYS
  FeedFuture,     \* FEED_FUTURE_DAYS
  TextDates,      \* bound: the dates a text or a model's answer can contain
  MaxQueryDays    \* MAX_QUERY_DAYS: the days a text message answers at most

ASSUME ScheduleAssumption ==
  /\ Epochs \subseteq Int
  /\ MaxOverrides \in Nat
  /\ Spans \subseteq Int \X (Int \cup {None})
  /\ Windows \subseteq Int \X Int
  /\ Todays \subseteq Int
  /\ FeedPast \in Nat
  /\ FeedFuture \in Nat
  /\ TextDates \subseteq Int
  /\ MaxQueryDays \in Nat \ {0}

Ids == 1..MaxOverrides

VARIABLES
  pc,         \* where the request is
  surface,    \* who asked: "web", "feed" or "sms"
  text,       \* the text being parsed
  answer,     \* what the model answered about it, if it was consulted
  intent,     \* what the parsers made of it
  window,     \* the first and the last day asked for
  loaded,     \* the baseline and the override rows the request has read
  current,    \* the day the engine is at
  schedule,   \* the days calculated so far
  taken,      \* how many of them the summary has grouped
  runs        \* the groups, as pairs (first day, last day)

vars == <<pc, surface, text, answer, intent, window, loaded, current, schedule, taken, runs>>

------------------------------------------------------------------------------
(* Texts, answers and rows.                                                *)

Texts == [question : BOOLEAN, names : SUBSET Parents,
          dates : UNION {[1..n -> TextDates] : n \in 0..3}]

NoText == [question |-> FALSE, names |-> {}, dates |-> <<>>]

Fields == TextDates \cup {None, Malformed}

Answers == [intent : {"swap", "query"}, start : Fields, end : Fields,
            parent : Parents \cup {None}]

\* API errors, refusals and "unclear" alike.
NoAnswer == [intent |-> "unclear", start |-> None, end |-> None, parent |-> None]

Rows == [span : Spans, parent : Parents, active : BOOLEAN, approved : BOOLEAN]

Baselines == [epoch : Epochs, starting : Parents]

NotLoaded == [baseline |-> None, rows |-> <<>>]

------------------------------------------------------------------------------
(* core/engine.py.                                                         *)

Other(parent) == IF parent = ParentA THEN ParentB ELSE ParentA

\* Where the segments of the 14-day cycle end: _SEGMENT_LENGTHS cumulated.
SegmentEnds == <<2, 4, 7, 9, 11, 14>>

Segment(offset) ==
  CHOOSE k \in 1..6 : offset < SegmentEnds[k] /\ (k > 1 => SegmentEnds[k - 1] <= offset)

\* _baseline_parent_for_date; % is Python's, so days before the epoch count
\* backwards through the cycle.
BaselineParent(baseline, day) ==
  IF Segment((day - baseline.epoch) % 14) % 2 = 1
  THEN baseline.starting ELSE Other(baseline.starting)

Matching(rows, day) ==
  {i \in DOMAIN rows : /\ rows[i].active
                       /\ rows[i].approved
                       /\ Covers(rows[i].span[1], rows[i].span[2], day)}

\* Wrong: the oldest of several overrides decides.
Oldest(rows, day) == CHOOSE i \in Matching(rows, day) : \A j \in Matching(rows, day) : i <= j

\* The highest id wins, should two active overrides ever cover one day.
Winner(rows, day) == CHOOSE i \in Matching(rows, day) : \A j \in Matching(rows, day) : j <= i

DayState(day) ==
  LET base == BaselineParent(loaded.baseline, day)
      overridden == Matching(loaded.rows, day) # {}
  IN  [day |-> day, baseline |-> base, overridden |-> overridden,
       final |-> IF overridden THEN loaded.rows[Winner(loaded.rows, day)].parent ELSE base]

------------------------------------------------------------------------------
(* Asking.                                                                 *)

Fresh == /\ pc = "idle"
         /\ surface = "web"
         /\ text = NoText
         /\ answer = NoAnswer
         /\ intent = NoIntent
         /\ window = <<0, 0>>
         /\ loaded = NotLoaded
         /\ current = 0
         /\ schedule = <<>>
         /\ taken = 0
         /\ runs = <<>>

Init == Fresh

AskFor(from, first, last) ==
  /\ surface' = from
  /\ window' = <<first, last>>
  /\ pc' = "loading"

AskWeb ==
  /\ pc = "idle"
  /\ \E w \in Windows : AskFor("web", w[1], w[2])
  /\ UNCHANGED <<text, answer, intent, loaded, current, schedule, taken, runs>>

\* The feed's window is anchored at the household's today.
AskFeed ==
  /\ pc = "idle"
  /\ \E today \in Todays : AskFor("feed", today - FeedPast, today + FeedFuture)
  /\ UNCHANGED <<text, answer, intent, loaded, current, schedule, taken, runs>>

\* A new text of a parent.  The model is consulted only when one is
\* configured and the deterministic parser declines.
ParseText ==
  /\ pc = "idle"
  /\ text' \in Texts
  /\ answer' \in IF Heuristic(text') = NoIntent THEN Answers \cup {NoAnswer} ELSE {NoAnswer}
  /\ intent' = Composite(text', answer')
  /\ pc' = "parsed"
  /\ UNCHANGED <<surface, window, loaded, current, schedule, taken, runs>>

\* answer_schedule_query: a query without an end asks for one day.  It loads
\* no draft and writes none.
AnswerQuery ==
  /\ pc = "parsed"
  /\ intent.kind = "query"
  /\ AskFor("sms", intent.start, EffectiveEnd(intent.start, intent.end))
  /\ text' = NoText
  /\ answer' = NoAnswer
  /\ intent' = NoIntent
  /\ UNCHANGED <<loaded, current, schedule, taken, runs>>

------------------------------------------------------------------------------
(* The engine.                                                             *)

\* load_baseline and load_overrides, then calculate_schedule's early return.
Load ==
  /\ pc = "loading"
  /\ \E baseline \in Baselines, rows \in [Ids -> Rows] :
       loaded' = [baseline |-> baseline, rows |-> rows]
  /\ current' = window[1]
  /\ pc' = IF window[2] < window[1] THEN "calculated" ELSE "calculating"
  /\ UNCHANGED <<surface, text, answer, intent, window, schedule, taken, runs>>

NextDay(day) == day + 1

\* One iteration of the loop.
CalculateDay ==
  /\ pc = "calculating"
  /\ current <= window[2]
  /\ schedule' = Append(schedule, DayState(current))
  /\ current' = NextDay(current)
  /\ UNCHANGED <<pc, surface, text, answer, intent, window, loaded, taken, runs>>

Calculated ==
  /\ pc = "calculating"
  /\ current > window[2]
  /\ pc' = "calculated"
  /\ UNCHANGED <<surface, text, answer, intent, window, loaded, current, schedule, taken, runs>>

------------------------------------------------------------------------------
(* Answers.                                                                *)

\* _vevent_lines: DTEND is exclusive.
Event(d) == [start |-> d.day, end |-> d.day + 1]

Feed == [k \in DOMAIN schedule |-> Event(schedule[k])]

Capped == IF Len(schedule) > MaxQueryDays THEN MaxQueryDays ELSE Len(schedule)

LastRun == runs[Len(runs)]

\* Wrong: the first day of every group is compared, by its baseline parent.
SameBaseline(d) == schedule[taken].baseline = d.baseline

SameParent(d) == schedule[taken].final = d.final

\* One iteration of _runs: a day joins the last run or starts one.
GroupDay ==
  LET d == schedule[taken + 1]
  IN  /\ pc = "calculated"
      /\ surface = "sms"
      /\ taken < Capped
      /\ runs' = IF runs # <<>> /\ SameParent(d)
                 THEN [runs EXCEPT ![Len(runs)] = <<@[1], d.day>>]
                 ELSE Append(runs, <<d.day, d.day>>)
      /\ taken' = taken + 1
      /\ UNCHANGED <<pc, surface, text, answer, intent, window, loaded, current, schedule>>

Reset == /\ pc' = "idle"
         /\ surface' = "web"
         /\ text' = NoText
         /\ answer' = NoAnswer
         /\ intent' = NoIntent
         /\ window' = <<0, 0>>
         /\ loaded' = NotLoaded
         /\ current' = 0
         /\ schedule' = <<>>
         /\ taken' = 0
         /\ runs' = <<>>

Reply == /\ pc = "calculated"
         /\ surface = "sms" => taken = Capped
         /\ Reset

\* A swap becomes a draft (Concierge, Overrides), an unclear text is answered
\* with a request to clarify; neither reads the calendar.
Handled == /\ pc = "parsed"
           /\ intent.kind # "query"
           /\ Reset

Next == \/ AskWeb \/ AskFeed \/ ParseText \/ AnswerQuery \/ Load \/ CalculateDay
        \/ Calculated \/ GroupDay \/ Reply \/ Handled

Spec == Init /\ [][Next]_vars

------------------------------------------------------------------------------
(* Properties.                                                             *)

DayStates == [day : Int, baseline : Parents, overridden : BOOLEAN, final : Parents]

\* Every variable keeps its type.
TypeOK ==
  /\ pc \in {"idle", "parsed", "loading", "calculating", "calculated"}
  /\ surface \in {"web", "feed", "sms"}
  /\ text \in Texts
  /\ answer \in Answers \cup {NoAnswer}
  /\ intent.kind \in {"none", "query", "swap"}
  /\ window \in Int \X Int
  /\ loaded = NotLoaded \/ loaded \in [baseline : Baselines, rows : [Ids -> Rows]]
  /\ current \in Int
  /\ schedule \in Seq(DayStates)
  /\ taken \in Nat
  /\ runs \in Seq(Int \X Int)

DatesOf(t) == {t.dates[k] : k \in DOMAIN t.dates}

Readable(t) == /\ Len(t.dates) \in {1, 2}
               /\ \A d, e \in DatesOf(t) : d - e <= MaxRangeDays

\* concierge/adapters.py:143, "A question is answered, never acted on": a text
\* that reads as a question with one or two usable dates is a query, whoever
\* it names and whatever the model would have said.
QuestionsAreOnlyAnswered ==
  pc = "parsed" /\ text.question /\ Readable(text) => intent.kind = "query"

\* What is drafted or answered is the span that was written, from its first to
\* its last date, both included: never truncated to a day, never invented,
\* never reversed and never longer than the store will activate.  The dates are
\* those of the text or, when it was left to the model, those of its answer.
SpansAreAsWritten ==
  pc = "parsed" /\ intent.kind # "none" =>
    LET last == EffectiveEnd(intent.start, intent.end)
        written == IF answer = NoAnswer THEN DatesOf(text)
                   ELSE {answer.start, answer.end} \ {None}
    IN  /\ written = {intent.start, last}
        /\ intent.start <= last
        /\ Cardinality({d \in intent.start..last : Covers(intent.start, intent.end, d)})
             <= MaxRangeDays + 1
        /\ intent.kind = "swap" => intent.parent \in Parents

\* The engine lists every day asked for once, in order, and nothing else; a
\* reversed window is empty.
EveryDayOnce ==
  /\ \A k \in DOMAIN schedule : schedule[k].day = window[1] + k - 1
  /\ pc = "calculated" =>
       Len(schedule) = IF window[2] < window[1] THEN 0 ELSE window[2] - window[1] + 1

\* The 2-2-3 rotation, said another way: the starting parent has the days of
\* an even week except its third and fourth, and those two in an odd week.
Rotation(baseline, day) ==
  LET week == (day - baseline.epoch) \div 7
      midweek == (day - baseline.epoch) % 7 \in {2, 3}
  IN  IF midweek <=> (week % 2 = 0) THEN Other(baseline.starting) ELSE baseline.starting

Deciding(day) == {i \in Ids : /\ loaded.rows[i].active
                              /\ loaded.rows[i].approved
                              /\ day \in loaded.rows[i].span[1] ..
                                   EffectiveEnd(loaded.rows[i].span[1], loaded.rows[i].span[2])}

RightlyShown(d) ==
  /\ d.baseline = Rotation(loaded.baseline, d.day)
  /\ d.overridden <=> Deciding(d.day) # {}
  /\ IF d.overridden
     THEN \E i \in Deciding(d.day) : /\ \A j \in Deciding(d.day) : j <= i
                                     /\ d.final = loaded.rows[i].parent
     ELSE d.final = d.baseline

\* Whoever asks sees the same calendar: the rotation, before the epoch too,
\* with each day that approved active overrides cover given to the newest.
ShownIsRight == \A k \in DOMAIN schedule : RightlyShown(schedule[k])

\* A subscribed calendar has neither a gap nor a day shown twice: each event
\* ends where the next one starts, though DTEND is exclusive and the engine's
\* days are not.
FeedIsContiguous ==
  pc = "calculated" /\ surface = "feed" =>
    /\ Feed[1].start = window[1]
    /\ Feed[Len(Feed)].end = window[2] + 1
    /\ \A k \in 1..(Len(Feed) - 1) : Feed[k].end = Feed[k + 1].start

\* The reply by text says of the first days of the answer what the calendar
\* says of them: the groups follow one another without a gap, every day has
\* the parent its group is given, and a group ends only where the children
\* change hands.
RunOf(r) == {k \in DOMAIN schedule : runs[r][1] <= schedule[k].day /\ schedule[k].day <= runs[r][2]}

SummaryIsTrue ==
  /\ taken <= Capped
  /\ (taken > 0) <=> (runs # <<>>)
  /\ runs # <<>> => runs[1][1] = window[1] /\ LastRun[2] = window[1] + taken - 1
  /\ \A r \in DOMAIN runs :
       /\ runs[r][1] <= runs[r][2]
       /\ \A k, l \in RunOf(r) : schedule[k].final = schedule[l].final
       /\ r < Len(runs) =>
            /\ runs[r + 1][1] = runs[r][2] + 1
            /\ \A k \in RunOf(r), l \in RunOf(r + 1) : schedule[k].final # schedule[l].final
================================================================================
