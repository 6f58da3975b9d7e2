---------------------------- MODULE ScheduleProofs ----------------------------
(***************************************************************************)
(* Proofs about the engine and its answers, for every baseline, every set  *)
(* of overrides, every window and every limit on a reply by text.          *)
(***************************************************************************)
EXTENDS Schedule, WellFoundedInduction, FiniteSetTheorems, TLAPS

------------------------------------------------------------------------------
(* The rotation.                                                           *)

\* The day a 14-day cycle is at falls in exactly one of its six segments.
LEMMA SegmentIs ==
  ASSUME NEW offset \in 0..13
  PROVE  /\ Segment(offset) \in 1..6
         /\ Segment(offset) % 2 = 1 <=> offset \in {0, 1, 4, 5, 6, 9, 10}
<1> DEFINE P(k) == offset < SegmentEnds[k] /\ (k > 1 => SegmentEnds[k - 1] <= offset)
<1>1. ASSUME NEW k \in 1..6, P(k), NEW l \in 1..6, P(l) PROVE k = l
  BY <1>1 DEF SegmentEnds
<1>2. ASSUME NEW k \in 1..6, P(k) PROVE Segment(offset) = k
  BY <1>1, <1>2 DEF Segment
<1>3. /\ offset \in {0, 1} => P(1)
      /\ offset \in {2, 3} => P(2)
      /\ offset \in {4, 5, 6} => P(3)
      /\ offset \in {7, 8} => P(4)
      /\ offset \in {9, 10} => P(5)
      /\ offset \in {11, 12, 13} => P(6)
  BY DEF SegmentEnds
<1> HIDE DEF P
<1> QED BY <1>2, <1>3

LEMMA EpochIsDay == \A baseline \in Baselines : baseline.epoch \in Int
<1> SUFFICES ASSUME NEW baseline \in Baselines PROVE baseline.epoch \in Int
  OBVIOUS
<1>1. baseline.epoch \in Epochs
  BY DEF Baselines
<1>2. Epochs \subseteq Int
  BY ScheduleAssumption, Zenon
<1> QED BY <1>1, <1>2, Zenon

\* The engine's cycle of six segments is the rotation by weeks, for every day
\* before and after the epoch (core/engine.py:25, README "2-2-3").
THEOREM BaselineIsRotation ==
  ASSUME NEW baseline \in Baselines, NEW day \in Int
  PROVE  BaselineParent(baseline, day) = Rotation(baseline, day)
<1> DEFINE n == day - baseline.epoch
<1>1. n \in Int
  BY EpochIsDay
<1> HIDE DEF n
<1>2. /\ n % 14 \in 0..13
      /\ n % 14 \in {0, 1, 4, 5, 6, 9, 10} <=> ~(n % 7 \in {2, 3} <=> (n \div 7) % 2 = 0)
  BY <1>1, SMTT(30)
<1>3. Segment(n % 14) % 2 = 1 <=> ~(n % 7 \in {2, 3} <=> (n \div 7) % 2 = 0)
  BY <1>2, SegmentIs
<1>4. BaselineParent(baseline, day) =
        IF Segment(n % 14) % 2 = 1 THEN baseline.starting ELSE Other(baseline.starting)
  BY Zenon DEF BaselineParent, n
<1>5. Rotation(baseline, day) =
        IF n % 7 \in {2, 3} <=> (n \div 7) % 2 = 0
        THEN Other(baseline.starting) ELSE baseline.starting
  BY Zenon DEF Rotation, n
<1>6. CASE Segment(n % 14) % 2 = 1
  BY <1>3, <1>4, <1>5, <1>6
<1>7. CASE ~(Segment(n % 14) % 2 = 1)
  BY <1>3, <1>4, <1>5, <1>7
<1> QED BY <1>6, <1>7

\* Every weekend and every weekday pair changes hands from one week to the
\* next: the day a week later belongs to the other parent.
THEOREM NextWeekIsTheOthers ==
  ASSUME NEW baseline \in Baselines, NEW day \in Int
  PROVE  BaselineParent(baseline, day + 7) = Other(BaselineParent(baseline, day))
<1> DEFINE n == day - baseline.epoch
<1>1. n \in Int /\ (day + 7) - baseline.epoch = n + 7
  BY EpochIsDay
<1> HIDE DEF n
<1>2. n % 14 \in 0..13 /\ (n + 7) % 14 \in 0..13
  BY <1>1
<1>3. n % 14 \in {0, 1, 4, 5, 6, 9, 10} <=> (n + 7) % 14 \notin {0, 1, 4, 5, 6, 9, 10}
  BY <1>1, SMTT(30)
<1>4. Segment(n % 14) % 2 = 1 <=> Segment((n + 7) % 14) % 2 # 1
  BY <1>2, <1>3, SegmentIs
<1>5. Other(Other(baseline.starting)) = baseline.starting
  BY IntentsAssumption DEF Baselines, Parents, Other
<1>6. BaselineParent(baseline, day) =
        IF Segment(n % 14) % 2 = 1 THEN baseline.starting ELSE Other(baseline.starting)
  BY Zenon DEF BaselineParent, n
<1>7. BaselineParent(baseline, day + 7) =
        IF Segment((n + 7) % 14) % 2 = 1 THEN baseline.starting ELSE Other(baseline.starting)
  BY <1>1, Zenon DEF BaselineParent, n
<1> QED BY <1>4, <1>5, <1>6, <1>7, Zenon

------------------------------------------------------------------------------
(* The winner of a day.                                                    *)

\* A set of override ids that is not empty has a largest element.
LEMMA LargestId ==
  ASSUME NEW S, S \subseteq Ids, S # {}
  PROVE  \E i \in S : \A j \in S : j <= i
<1> DEFINE T == {MaxOverrides - i : i \in S}
<1>1. T \subseteq Nat /\ T # {}
  <2>1. \A i \in S : MaxOverrides - i \in Nat
    BY ScheduleAssumption DEF Ids
  <2>2. PICK i \in S : TRUE
    OBVIOUS
  <2>3. T # {}
    BY <2>2
  <2> QED BY <2>1, <2>3
<1>2. PICK x \in T : \A y \in T : ~(<<y, x>> \in OpToRel(<, Nat))
  <2> HIDE DEF T
  <2> QED BY <1>1, NatLessThanWellFounded, WFMin
<1>3. \A y \in T : ~(y < x)
  BY <1>1, <1>2 DEF OpToRel
<1>4. PICK i \in S : x = MaxOverrides - i
  BY <1>2
<1>5. ASSUME NEW j \in S PROVE j <= i
  <2>1. MaxOverrides - j \in T
    OBVIOUS
  <2>2. ~(MaxOverrides - j < MaxOverrides - i)
    BY <2>1, <1>3, <1>4
  <2> QED BY <2>2, ScheduleAssumption DEF Ids
<1> QED BY <1>5

\* What the reader has loaded.
Snapshot == [baseline : Baselines, rows : [Ids -> Rows]]

LEMMA RowType ==
  ASSUME loaded \in Snapshot, NEW i \in Ids
  PROVE  /\ loaded.rows[i].parent \in Parents
         /\ loaded.rows[i].span[1] \in Int
         /\ loaded.rows[i].span[2] \in Int \cup {None}
         /\ EffectiveEnd(loaded.rows[i].span[1], loaded.rows[i].span[2]) \in Int
<1>1. loaded.rows[i] \in Rows
  BY DEF Snapshot
<1> DEFINE row == loaded.rows[i]
<1> HIDE DEF row
<1>2. row.parent \in Parents /\ row.span \in Spans
  BY <1>1 DEF Rows, row
<1>3. row.span \in Int \X (Int \cup {None})
  BY <1>2, ScheduleAssumption, Zenon
<1>4. row.span[1] \in Int /\ row.span[2] \in Int \cup {None}
  BY <1>3
<1>5. EffectiveEnd(row.span[1], row.span[2]) \in Int
  BY <1>4 DEF EffectiveEnd
<1> QED BY <1>2, <1>4, <1>5 DEF row

\* The overrides the engine matches are those the property speaks of.
LEMMA MatchingIsDeciding ==
  ASSUME loaded \in Snapshot, NEW day \in Int
  PROVE  Matching(loaded.rows, day) = Deciding(day)
<1>1. DOMAIN loaded.rows = Ids
  BY DEF Snapshot
<1>2. ASSUME NEW i \in Ids
      PROVE  Covers(loaded.rows[i].span[1], loaded.rows[i].span[2], day)
               <=> day \in loaded.rows[i].span[1] ..
                     EffectiveEnd(loaded.rows[i].span[1], loaded.rows[i].span[2])
  <2> DEFINE first == loaded.rows[i].span[1]
             last == EffectiveEnd(loaded.rows[i].span[1], loaded.rows[i].span[2])
  <2>1. first \in Int /\ last \in Int
    BY RowType
  <2>2. Covers(loaded.rows[i].span[1], loaded.rows[i].span[2], day)
          <=> first <= day /\ day <= last
    BY DEF Covers
  <2> HIDE DEF first, last
  <2>3. day \in first..last <=> first <= day /\ day <= last
    BY <2>1
  <2> QED BY <2>2, <2>3 DEF first, last
<1> QED BY <1>1, <1>2, Zenon DEF Matching, Deciding

LEMMA BaselineType ==
  ASSUME NEW baseline \in Baselines, NEW day \in Int
  PROVE  BaselineParent(baseline, day) \in Parents
<1>1. baseline.starting \in Parents
  BY DEF Baselines
<1>2. Other(baseline.starting) \in Parents
  BY <1>1 DEF Parents, Other
<1> QED BY <1>1, <1>2, Zenon DEF BaselineParent

\* One day of the engine is that day, well typed and rightly shown.
LEMMA DayStateRight ==
  ASSUME loaded \in Snapshot, NEW day \in Int
  PROVE  /\ DayState(day) \in DayStates
         /\ DayState(day).day = day
         /\ RightlyShown(DayState(day))
<1> DEFINE base == BaselineParent(loaded.baseline, day)
           match == Matching(loaded.rows, day)
           win == Winner(loaded.rows, day)
           final == IF match # {} THEN loaded.rows[win].parent ELSE base
<1>1. loaded.baseline \in Baselines
  BY DEF Snapshot
<1>2. base \in Parents /\ base = Rotation(loaded.baseline, day)
  BY <1>1, BaselineType, BaselineIsRotation, Zenon
<1>3. match = Deciding(day) /\ match \subseteq Ids
  BY MatchingIsDeciding DEF Deciding
<1>4. ASSUME match # {}
      PROVE  win \in match /\ \A j \in match : j <= win
  <2> HIDE DEF match
  <2>1. \E i \in match : \A j \in match : j <= i
    BY <1>3, <1>4, LargestId
  <2> QED BY <2>1 DEF Winner, match
<1>5. final \in Parents
  <2>1. CASE match # {}
    BY <2>1, <1>3, <1>4, RowType
  <2>2. CASE match = {}
    BY <2>2, <1>2
  <2> QED BY <2>1, <2>2
<1>6. DayState(day) = [day |-> day, baseline |-> base, overridden |-> match # {}, final |-> final]
  BY DEF DayState
<1> HIDE DEF base, final
<1>7. DayState(day) \in DayStates
  BY <1>2, <1>5, <1>6 DEF DayStates
<1>8. /\ DayState(day).day = day
      /\ DayState(day).baseline = base
      /\ DayState(day).overridden = (match # {})
      /\ DayState(day).final = final
  BY <1>6
<1>9. RightlyShown(DayState(day))
  <2>1. CASE match # {}
    <3>1. final = loaded.rows[win].parent
      BY <2>1 DEF final
    <3>2. \E i \in Deciding(day) : /\ \A j \in Deciding(day) : j <= i
                                   /\ final = loaded.rows[i].parent
      BY <2>1, <3>1, <1>3, <1>4
    <3> QED BY <2>1, <3>2, <1>2, <1>3, <1>8, Zenon DEF RightlyShown
  <2>2. CASE match = {}
    <3>1. final = base
      BY <2>2 DEF final
    <3> QED BY <2>2, <3>1, <1>2, <1>3, <1>8, Zenon DEF RightlyShown
  <2> QED BY <2>1, <2>2
<1> QED BY <1>7, <1>8, <1>9

------------------------------------------------------------------------------
(* Intents.                                                                *)

LEMMA DatesType ==
  ASSUME NEW t \in Texts
  PROVE  /\ Len(t.dates) \in Nat
         /\ DOMAIN t.dates = 1..Len(t.dates)
         /\ \A k \in 1..Len(t.dates) : t.dates[k] \in TextDates /\ t.dates[k] \in Int
<1>1. PICK n \in 0..3 : t.dates \in [1..n -> TextDates]
  BY DEF Texts
<1>2. t.dates \in Seq(TextDates)
  BY <1>1
<1>3. TextDates \subseteq Int
  BY ScheduleAssumption, Zenon
<1>4. /\ Len(t.dates) \in Nat
      /\ DOMAIN t.dates = 1..Len(t.dates)
      /\ \A k \in 1..Len(t.dates) : t.dates[k] \in TextDates
  BY <1>2
<1> QED BY <1>3, <1>4, Zenon

\* A readable text has a first and a last date, and no others.
LEMMA EndsOfText ==
  ASSUME NEW t \in Texts, Len(t.dates) \in {1, 2}
  PROVE  /\ Earliest(t.dates) \in TextDates /\ Earliest(t.dates) \in Int
         /\ Latest(t.dates) \in TextDates /\ Latest(t.dates) \in Int
         /\ Earliest(t.dates) <= Latest(t.dates)
         /\ DatesOf(t) = {Earliest(t.dates), Latest(t.dates)}
         /\ Len(t.dates) = 1 => Latest(t.dates) = Earliest(t.dates)
<1>1. CASE Len(t.dates) = 1
  <2>1. Earliest(t.dates) = t.dates[1] /\ Latest(t.dates) = t.dates[1]
    BY <1>1 DEF Earliest, Latest
  <2>2. DatesOf(t) = {t.dates[1]}
    BY <1>1, DatesType DEF DatesOf
  <2> QED BY <1>1, <2>1, <2>2, DatesType
<1>2. CASE Len(t.dates) = 2
  <2>1. /\ t.dates[1] \in Int /\ t.dates[1] \in TextDates
        /\ t.dates[2] \in Int /\ t.dates[2] \in TextDates
    BY <1>2, DatesType
  <2>2. DatesOf(t) = {t.dates[1], t.dates[2]}
    BY <1>2, DatesType DEF DatesOf
  <2>3. CASE t.dates[2] < t.dates[1]
    BY <1>2, <2>1, <2>2, <2>3 DEF Earliest, Latest
  <2>4. CASE ~(t.dates[2] < t.dates[1])
    BY <1>2, <2>1, <2>2, <2>4 DEF Earliest, Latest
  <2> QED BY <2>3, <2>4
<1> QED BY <1>1, <1>2

LEMMA IntentFields ==
  /\ \A s, e : /\ ScheduleQuery(s, e).kind = "query"
               /\ ScheduleQuery(s, e).start = s
               /\ ScheduleQuery(s, e).end = e
  /\ \A s, e, p : /\ ParsedIntent(s, e, p).kind = "swap"
                  /\ ParsedIntent(s, e, p).start = s
                  /\ ParsedIntent(s, e, p).end = e
                  /\ ParsedIntent(s, e, p).parent = p
  /\ NoIntent.kind = "none"
BY DEF ScheduleQuery, ParsedIntent, NoIntent

\* What an intent is when it spans the days first to last.
Spanning(i, first, last) ==
  /\ i.kind \in {"query", "swap"}
  /\ i.kind = "swap" => i.parent \in Parents
  /\ i.start = first
  /\ i.start \in TextDates
  /\ i.end \in TextDates \cup {None}
  /\ EffectiveEnd(i.start, i.end) = last
  /\ first <= last
  /\ last - first <= MaxRangeDays

LEMMA HeuristicSpans ==
  ASSUME NEW t \in Texts
  PROVE  \/ Heuristic(t) = NoIntent
         \/ /\ Len(t.dates) \in {1, 2}
            /\ Spanning(Heuristic(t), Earliest(t.dates), Latest(t.dates))
            /\ t.question => Heuristic(t).kind = "query"
<1> DEFINE start == Earliest(t.dates)
           end == IF Len(t.dates) = 2 THEN Latest(t.dates) ELSE None
<1>1. CASE Len(t.dates) \notin {1, 2} \/ ~IsValidRange(start, end)
  BY <1>1 DEF Heuristic
<1>2. CASE Len(t.dates) \in {1, 2} /\ IsValidRange(start, end)
  <2>1. /\ start \in TextDates /\ start \in Int
        /\ end \in TextDates \cup {None}
        /\ EffectiveEnd(start, end) = Latest(t.dates)
        /\ start <= Latest(t.dates)
        /\ Latest(t.dates) - start <= MaxRangeDays
    <3> USE EndsOfText, <1>2
    <3>1. None \notin Int /\ MaxRangeDays \in Nat
      BY IntentsAssumption
    <3>2. CASE Len(t.dates) = 2
      <4>1. end = Latest(t.dates)
        BY <3>2
      <4>2. end \in Int /\ end # None
        BY <4>1, <3>1
      <4> HIDE DEF end
      <4> QED BY <4>1, <4>2, <3>2 DEF IsValidRange, EffectiveEnd
    <3>3. CASE Len(t.dates) = 1
      BY <3>1, <3>3 DEF EffectiveEnd
    <3> QED BY <3>2, <3>3
  <2> HIDE DEF start, end
  <2>2. Heuristic(t) =
          IF t.question THEN ScheduleQuery(start, end)
          ELSE IF Assigned(t) # None THEN ParsedIntent(start, end, Assigned(t))
          ELSE NoIntent
    BY <1>2, Zenon DEF Heuristic, start, end
  <2>3. Assigned(t) \in Parents \cup {None}
    BY DEF Assigned, Parents
  <2>4. CASE t.question
    <3>1. Heuristic(t) = ScheduleQuery(start, end)
      BY <2>2, <2>4
    <3> QED BY <1>2, <2>1, <3>1, IntentFields DEF Spanning, start
  <2>5. CASE ~t.question /\ Assigned(t) # None
    <3>1. Heuristic(t) = ParsedIntent(start, end, Assigned(t))
      BY <2>2, <2>5
    <3> QED BY <1>2, <2>1, <2>3, <2>5, <3>1, IntentFields DEF Spanning, start
  <2>6. CASE ~t.question /\ Assigned(t) = None
    BY <2>2, <2>6
  <2> QED BY <2>4, <2>5, <2>6
<1> QED BY <1>1, <1>2

LEMMA LLMSpans ==
  ASSUME NEW a \in Answers \cup {NoAnswer}
  PROVE  \/ LLM(a) = NoIntent
         \/ /\ a # NoAnswer
            /\ a.start # None
            /\ Spanning(LLM(a), a.start, EffectiveEnd(a.start, a.end))
            /\ LLM(a).end = a.end
<1>1. CASE \/ a.intent = "unclear"
           \/ a.start \in {None, Malformed}
           \/ a.end = Malformed
           \/ ~IsValidRange(a.start, a.end)
  BY <1>1 DEF LLM
<1>2. CASE /\ a.intent # "unclear"
           /\ a.start \notin {None, Malformed}
           /\ a.end # Malformed
           /\ IsValidRange(a.start, a.end)
  <2>1. a # NoAnswer /\ a \in Answers
    BY <1>2 DEF NoAnswer
  <2>2. /\ a.start \in TextDates
        /\ a.end \in TextDates \cup {None}
        /\ a.parent \in Parents \cup {None}
    BY <1>2, <2>1 DEF Answers, Fields
  <2>3. a.start \in Int
    <3>1. TextDates \subseteq Int
      BY ScheduleAssumption, Zenon
    <3> QED BY <2>2, <3>1, Zenon
  <2>4. /\ a.start <= EffectiveEnd(a.start, a.end)
        /\ EffectiveEnd(a.start, a.end) - a.start <= MaxRangeDays
    <3>1. CASE a.end = None
      BY <3>1, <2>3, IntentsAssumption DEF EffectiveEnd
    <3>2. CASE a.end # None
      BY <3>2, <1>2 DEF EffectiveEnd, IsValidRange
    <3> QED BY <3>1, <3>2
  <2>5. LLM(a) = IF a.intent = "query" THEN ScheduleQuery(a.start, a.end)
                 ELSE IF a.parent # None THEN ParsedIntent(a.start, a.end, a.parent)
                 ELSE NoIntent
    BY <1>2, Zenon DEF LLM
  <2>6. CASE a.intent = "query"
    <3>1. LLM(a) = ScheduleQuery(a.start, a.end)
      BY <2>5, <2>6
    <3> QED BY <1>2, <2>1, <2>2, <2>4, <3>1, IntentFields DEF Spanning
  <2>7. CASE a.intent # "query" /\ a.parent # None
    <3>1. LLM(a) = ParsedIntent(a.start, a.end, a.parent)
      BY <2>5, <2>7
    <3> QED BY <1>2, <2>1, <2>2, <2>4, <2>7, <3>1, IntentFields DEF Spanning
  <2>8. CASE a.intent # "query" /\ a.parent = None
    BY <2>5, <2>8
  <2> QED BY <2>6, <2>7, <2>8
<1> QED BY <1>1, <1>2

\* Parsing, in one place: what a parsed request keeps of its text.
ParsedOK ==
  pc = "parsed" =>
    /\ text \in Texts
    /\ answer \in Answers \cup {NoAnswer}
    /\ answer # NoAnswer => Heuristic(text) = NoIntent
    /\ intent = Composite(text, answer)

LEMMA DaysOfSpan ==
  ASSUME NEW start \in Int, NEW end \in Int \cup {None}, start <= EffectiveEnd(start, end),
         EffectiveEnd(start, end) - start <= MaxRangeDays
  PROVE  LET last == EffectiveEnd(start, end)
         IN  Cardinality({d \in start..last : Covers(start, end, d)}) <= MaxRangeDays + 1
<1> DEFINE last == EffectiveEnd(start, end)
<1>1. last \in Int
  BY DEF EffectiveEnd
<1>2. {d \in start..last : Covers(start, end, d)} = start..last
  BY <1>1 DEF Covers
<1>3. Cardinality(start..last) = last - start + 1
  BY <1>1, FS_Interval
<1>4. last - start + 1 <= MaxRangeDays + 1
  BY <1>1, IntentsAssumption
<1> HIDE DEF last
<1>5. Cardinality({d \in start..last : Covers(start, end, d)}) <= MaxRangeDays + 1
  BY <1>2, <1>3, <1>4, Zenon
<1> QED BY <1>5 DEF last

\* Both parsers keep the span that was written (concierge/adapters.py and
\* concierge/llm_parser.py), whatever the text and whatever the model answers.
LEMMA ParsedSpans == ParsedOK => SpansAreAsWritten
<1> SUFFICES ASSUME ParsedOK, pc = "parsed", intent.kind # "none"
             PROVE  LET last == EffectiveEnd(intent.start, intent.end)
                        written == IF answer = NoAnswer THEN DatesOf(text)
                                   ELSE {answer.start, answer.end} \ {None}
                    IN  /\ written = {intent.start, last}
                        /\ intent.start <= last
                        /\ Cardinality({d \in intent.start..last :
                                          Covers(intent.start, intent.end, d)})
                             <= MaxRangeDays + 1
                        /\ intent.kind = "swap" => intent.parent \in Parents
  BY DEF SpansAreAsWritten
<1> DEFINE last == EffectiveEnd(intent.start, intent.end)
           written == IF answer = NoAnswer THEN DatesOf(text)
                      ELSE {answer.start, answer.end} \ {None}
<1>1. intent # NoIntent
  BY IntentFields
<1>2. PICK first \in Int : Spanning(intent, first, last) /\ written = {first, last}
  <2>1. CASE Heuristic(text) # NoIntent
    <3>1. intent = Heuristic(text) /\ answer = NoAnswer /\ text \in Texts
      BY <2>1 DEF ParsedOK, Composite
    <3>2. /\ Len(text.dates) \in {1, 2}
          /\ Spanning(intent, Earliest(text.dates), Latest(text.dates))
      BY <2>1, <3>1, HeuristicSpans
    <3>3. last = Latest(text.dates)
      BY <3>2 DEF Spanning
    <3>4. Earliest(text.dates) \in Int /\ DatesOf(text) = {Earliest(text.dates), last}
      BY <3>1, <3>2, <3>3, EndsOfText
    <3> QED BY <3>1, <3>2, <3>3, <3>4
  <2>2. CASE Heuristic(text) = NoIntent
    <3>1. intent = LLM(answer) /\ answer \in Answers \cup {NoAnswer}
      BY <2>2 DEF ParsedOK, Composite
    <3>2. /\ answer # NoAnswer
          /\ answer.start # None
          /\ Spanning(intent, answer.start, EffectiveEnd(answer.start, answer.end))
          /\ intent.end = answer.end
      BY <3>1, <1>1, LLMSpans
    <3>3. intent.start = answer.start /\ answer.start \in TextDates
      BY <3>2 DEF Spanning
    <3>4. last = EffectiveEnd(answer.start, answer.end)
      BY <3>2, <3>3
    <3>5. {answer.start, answer.end} \ {None} = {answer.start, last}
      BY <3>2, <3>4 DEF EffectiveEnd
    <3>6. answer.start \in Int
      <4>1. TextDates \subseteq Int
        BY ScheduleAssumption, Zenon
      <4> QED BY <3>3, <4>1, Zenon
    <3> QED BY <3>2, <3>4, <3>5, <3>6
  <2> QED BY <2>1, <2>2
<1>3. /\ intent.start = first
      /\ intent.end \in Int \cup {None}
      /\ first <= last
      /\ last - first <= MaxRangeDays
      /\ intent.kind = "swap" => intent.parent \in Parents
  <2>1. TextDates \subseteq Int
    BY ScheduleAssumption, Zenon
  <2> QED BY <1>2, <2>1 DEF Spanning
<1>4. Cardinality({d \in intent.start..last : Covers(intent.start, intent.end, d)})
        <= MaxRangeDays + 1
  BY <1>3, DaysOfSpan
<1> QED BY <1>2, <1>3, <1>4

LEMMA ParsedQuestions == ParsedOK => QuestionsAreOnlyAnswered
<1> SUFFICES ASSUME ParsedOK, pc = "parsed", text.question, Readable(text)
             PROVE  intent.kind = "query"
  BY DEF QuestionsAreOnlyAnswered
<1>1. text \in Texts /\ Len(text.dates) \in {1, 2}
  BY DEF ParsedOK, Readable
<1> DEFINE start == Earliest(text.dates)
           end == IF Len(text.dates) = 2 THEN Latest(text.dates) ELSE None
<1>2. IsValidRange(start, end)
  <2>1. /\ start \in Int /\ Latest(text.dates) \in Int
        /\ start <= Latest(text.dates)
        /\ start \in DatesOf(text) /\ Latest(text.dates) \in DatesOf(text)
    BY <1>1, EndsOfText
  <2>2. Latest(text.dates) - start <= MaxRangeDays
    BY <2>1 DEF Readable
  <2> QED BY <2>1, <2>2 DEF IsValidRange
<1>3. Heuristic(text) = ScheduleQuery(start, end)
  BY <1>1, <1>2 DEF Heuristic
<1>4. Heuristic(text) # NoIntent
  BY <1>3, IntentFields
<1> QED BY <1>3, <1>4, IntentFields DEF ParsedOK, Composite

------------------------------------------------------------------------------
(* The inductive invariant.                                                *)

\* Between the loads and the reply, what has been built so far belongs to the
\* request, and the loop is at the day after the last one it listed.
Progress ==
  /\ pc \in {"idle", "parsed", "loading"} => schedule = <<>>
  /\ pc # "calculated" => taken = 0 /\ runs = <<>>
  /\ pc \in {"calculating", "calculated"} => loaded \in Snapshot
  /\ pc = "calculating" => current = window[1] + Len(schedule) /\ current <= window[2] + 1
  /\ surface = "feed" => window[1] <= window[2]

IInv == /\ TypeOK
        /\ ParsedOK
        /\ Progress
        /\ EveryDayOnce
        /\ ShownIsRight
        /\ SummaryIsTrue

LEMMA BlankTypes ==
  /\ NoText \in Texts
  /\ NoIntent.kind = "none"
  /\ <<0, 0>> \in Int \X Int
  /\ <<>> \in Seq(DayStates)
  /\ <<>> \in Seq(Int \X Int)
<1>1. <<>> \in [1..0 -> TextDates]
  OBVIOUS
<1>2. NoText \in Texts
  BY <1>1 DEF NoText, Texts
<1> QED BY <1>2 DEF NoIntent

\* The state between two requests is well typed and says nothing.
LEMMA IdleIInv == Fresh => IInv
<1> SUFFICES ASSUME Fresh PROVE IInv
  OBVIOUS
<1> USE DEF Fresh
<1>1. TypeOK
  BY BlankTypes DEF TypeOK
<1>2. ParsedOK /\ Progress
  BY DEF ParsedOK, Progress
<1>3. EveryDayOnce /\ ShownIsRight
  BY DEF EveryDayOnce, ShownIsRight
<1>4. SummaryIsTrue
  <2>1. taken <= Capped
    BY ScheduleAssumption DEF Capped
  <2> QED BY <2>1 DEF SummaryIsTrue
<1> QED BY <1>1, <1>2, <1>3, <1>4 DEF IInv

LEMMA ResetIInv == Reset => IInv'
<1> SUFFICES ASSUME Reset PROVE IInv'
  OBVIOUS
<1> USE DEF Reset
<1>1. TypeOK'
  BY BlankTypes DEF TypeOK
<1>2. ParsedOK' /\ Progress'
  BY DEF ParsedOK, Progress
<1>3. EveryDayOnce' /\ ShownIsRight'
  BY DEF EveryDayOnce, ShownIsRight
<1>4. SummaryIsTrue'
  <2>1. (taken <= Capped)'
    BY ScheduleAssumption DEF Capped
  <2> QED BY <2>1 DEF SummaryIsTrue
<1> QED BY <1>1, <1>2, <1>3, <1>4 DEF IInv

\* While nothing is listed and nothing is grouped, the three properties of the
\* lists hold.
LEMMA NothingListed ==
  ASSUME (schedule = <<>>)', (runs = <<>>)', (taken = 0)', (pc # "calculated")'
  PROVE  (EveryDayOnce /\ ShownIsRight /\ SummaryIsTrue)'
<1>1. (taken <= Capped)'
  BY ScheduleAssumption DEF Capped
<1> QED BY <1>1 DEF EveryDayOnce, ShownIsRight, SummaryIsTrue

LEMMA AskIInv ==
  ASSUME IInv, AskWeb \/ AskFeed PROVE IInv'
<1>1. PICK from \in {"web", "feed"}, first \in Int, last \in Int :
         /\ AskFor(from, first, last)
         /\ from = "feed" => first <= last
  <2>1. CASE AskWeb
    <3>1. PICK w \in Windows : AskFor("web", w[1], w[2])
      BY <2>1 DEF AskWeb
    <3>2. w \in Int \X Int
      BY <3>1, ScheduleAssumption, Zenon
    <3> QED BY <3>1, <3>2
  <2>2. CASE AskFeed
    <3>1. PICK today \in Todays : AskFor("feed", today - FeedPast, today + FeedFuture)
      BY <2>2 DEF AskFeed
    <3>2. today \in Int
      BY <3>1, ScheduleAssumption, Zenon
    <3>3. FeedPast \in Nat /\ FeedFuture \in Nat
      BY ScheduleAssumption
    <3>4. today - FeedPast \in Int /\ today + FeedFuture \in Int
          /\ today - FeedPast <= today + FeedFuture
      BY <3>2, <3>3
    <3> QED BY <3>1, <3>4
  <2> QED BY <2>1, <2>2
<1>2. /\ pc = "idle" /\ pc' = "loading"
      /\ UNCHANGED <<text, answer, intent, loaded, current, schedule, taken, runs>>
  BY <1>1 DEF AskWeb, AskFeed, AskFor
<1>3. TypeOK'
  BY <1>1, <1>2 DEF IInv, TypeOK, AskFor
<1>4. ParsedOK' /\ Progress'
  BY <1>1, <1>2 DEF IInv, Progress, ParsedOK, AskFor
<1>5. (EveryDayOnce /\ ShownIsRight /\ SummaryIsTrue)'
  BY <1>2, NothingListed DEF IInv, Progress
<1> QED BY <1>3, <1>4, <1>5 DEF IInv

LEMMA CompositeSpans ==
  ASSUME NEW t \in Texts, NEW a \in Answers \cup {NoAnswer}
  PROVE  /\ Composite(t, a).kind \in {"none", "query", "swap"}
         /\ Composite(t, a).kind # "none" =>
              /\ Composite(t, a).start \in TextDates
              /\ Composite(t, a).end \in TextDates \cup {None}
BY HeuristicSpans, LLMSpans, IntentFields DEF Composite, Spanning

LEMMA ParseIInv ==
  ASSUME IInv, ParseText PROVE IInv'
<1>1. /\ pc = "idle" /\ pc' = "parsed"
      /\ text' \in Texts
      /\ answer' \in Answers \cup {NoAnswer}
      /\ answer' # NoAnswer => Heuristic(text') = NoIntent
      /\ intent' = Composite(text', answer')
      /\ UNCHANGED <<surface, window, loaded, current, schedule, taken, runs>>
  BY DEF ParseText
<1>2. intent'.kind \in {"none", "query", "swap"}
  BY <1>1, CompositeSpans
<1>3. TypeOK'
  BY <1>1, <1>2 DEF IInv, TypeOK
<1>4. ParsedOK' /\ Progress'
  BY <1>1 DEF IInv, ParsedOK, Progress
<1>5. (EveryDayOnce /\ ShownIsRight /\ SummaryIsTrue)'
  BY <1>1, NothingListed DEF IInv, Progress
<1> QED BY <1>3, <1>4, <1>5 DEF IInv

LEMMA QueryIInv ==
  ASSUME IInv, AnswerQuery PROVE IInv'
<1> DEFINE last == EffectiveEnd(intent.start, intent.end)
<1>1. /\ pc = "parsed" /\ pc' = "loading"
      /\ surface' = "sms"
      /\ window' = <<intent.start, last>>
      /\ text' = NoText /\ answer' = NoAnswer /\ intent' = NoIntent
      /\ UNCHANGED <<loaded, current, schedule, taken, runs>>
  BY DEF AnswerQuery, AskFor
<1>2. intent.start \in Int /\ last \in Int
  <2>1. intent.start \in TextDates /\ intent.end \in TextDates \cup {None}
    BY CompositeSpans DEF IInv, ParsedOK, AnswerQuery
  <2>2. TextDates \subseteq Int
    BY ScheduleAssumption, Zenon
  <2> QED BY <2>1, <2>2 DEF EffectiveEnd
<1>3. TypeOK'
  BY <1>1, <1>2, BlankTypes DEF IInv, TypeOK
<1>4. ParsedOK' /\ Progress'
  BY <1>1 DEF IInv, ParsedOK, Progress
<1>5. (EveryDayOnce /\ ShownIsRight /\ SummaryIsTrue)'
  BY <1>1, NothingListed DEF IInv, Progress
<1> QED BY <1>3, <1>4, <1>5 DEF IInv

LEMMA LoadIInv ==
  ASSUME IInv, Load PROVE IInv'
<1>1. /\ pc = "loading"
      /\ loaded' \in Snapshot
      /\ current' = window[1]
      /\ pc' = IF window[2] < window[1] THEN "calculated" ELSE "calculating"
      /\ UNCHANGED <<surface, text, answer, intent, window, schedule, taken, runs>>
      /\ schedule = <<>> /\ taken = 0 /\ runs = <<>>
  BY DEF Load, Snapshot, IInv, Progress
<1>2. window[1] \in Int /\ window[2] \in Int
  BY DEF IInv, TypeOK
<1>3. TypeOK'
  BY <1>1, <1>2 DEF IInv, TypeOK, Snapshot
<1>4. ParsedOK'
  BY <1>1 DEF ParsedOK
<1>5. Progress'
  BY <1>1, <1>2 DEF IInv, Progress
<1>6. EveryDayOnce' /\ ShownIsRight'
  BY <1>1, <1>2 DEF EveryDayOnce, ShownIsRight
<1>7. SummaryIsTrue'
  <2>1. (taken <= Capped)'
    BY <1>1, ScheduleAssumption DEF Capped
  <2> QED BY <2>1, <1>1 DEF SummaryIsTrue
<1> QED BY <1>3, <1>4, <1>5, <1>6, <1>7 DEF IInv

LEMMA CalculateIInv ==
  ASSUME IInv, CalculateDay PROVE IInv'
<1> DEFINE d == DayState(current)
<1>1. /\ pc = "calculating" /\ pc' = pc
      /\ current <= window[2]
      /\ schedule' = Append(schedule, d)
      /\ current' = current + 1
      /\ UNCHANGED <<surface, text, answer, intent, window, loaded, taken, runs>>
  BY DEF CalculateDay, NextDay
<1>2. /\ window[1] \in Int /\ window[2] \in Int /\ current \in Int
      /\ loaded \in Snapshot
      /\ current = window[1] + Len(schedule)
      /\ schedule \in Seq(DayStates)
      /\ taken = 0 /\ runs = <<>>
  BY <1>1 DEF IInv, TypeOK, Progress
<1>3. d \in DayStates /\ d.day = current /\ RightlyShown(d)
  BY <1>2, DayStateRight
<1> HIDE DEF d
<1>4. /\ schedule' \in Seq(DayStates)
      /\ Len(schedule') = Len(schedule) + 1
      /\ DOMAIN schedule' = 1..(Len(schedule) + 1)
      /\ schedule'[Len(schedule) + 1] = d
      /\ \A k \in 1..Len(schedule) : schedule'[k] = schedule[k]
      /\ DOMAIN schedule = 1..Len(schedule)
      /\ Len(schedule) \in Nat
  BY <1>1, <1>2, <1>3
<1>5. TypeOK'
  BY <1>1, <1>2, <1>4 DEF IInv, TypeOK
<1>6. ParsedOK'
  BY <1>1 DEF ParsedOK
<1>7. Progress'
  BY <1>1, <1>2, <1>4 DEF IInv, Progress
<1>8. EveryDayOnce'
  BY <1>1, <1>2, <1>3, <1>4 DEF IInv, EveryDayOnce
<1>9. ShownIsRight'
  <2>1. ASSUME NEW k \in DOMAIN schedule' PROVE RightlyShown(schedule'[k])
    BY <1>3, <1>4 DEF IInv, ShownIsRight
  <2>2. \A e : RightlyShown(e)' <=> RightlyShown(e)
    BY <1>1 DEF RightlyShown, Deciding
  <2> QED BY <2>1, <1>1 DEF ShownIsRight, RightlyShown, Deciding
<1>10. SummaryIsTrue'
  <2>1. (taken <= Capped)'
    BY <1>1, <1>2, <1>4, ScheduleAssumption DEF Capped
  <2> QED BY <2>1, <1>1, <1>2 DEF SummaryIsTrue
<1> QED BY <1>5, <1>6, <1>7, <1>8, <1>9, <1>10 DEF IInv

LEMMA CalculatedIInv ==
  ASSUME IInv, Calculated PROVE IInv'
<1>1. /\ pc = "calculating" /\ pc' = "calculated"
      /\ current > window[2]
      /\ UNCHANGED <<surface, text, answer, intent, window, loaded, current, schedule,
                     taken, runs>>
  BY DEF Calculated
<1>2. /\ window[1] \in Int /\ window[2] \in Int /\ current \in Int
      /\ schedule \in Seq(DayStates)
      /\ current = window[1] + Len(schedule)
      /\ current <= window[2] + 1
  BY <1>1 DEF IInv, TypeOK, Progress
<1>3. TypeOK'
  BY <1>1 DEF IInv, TypeOK
<1>4. ParsedOK' /\ Progress'
  BY <1>1 DEF IInv, ParsedOK, Progress
<1>5. EveryDayOnce'
  <2>1. Len(schedule) = window[2] - window[1] + 1 /\ Len(schedule) \in Nat
    BY <1>1, <1>2
  <2>2. Len(schedule) = IF window[2] < window[1] THEN 0 ELSE window[2] - window[1] + 1
    BY <1>2, <2>1
  <2> QED BY <1>1, <2>2 DEF IInv, EveryDayOnce
<1>6. ShownIsRight'
  BY <1>1 DEF IInv, ShownIsRight, RightlyShown, Deciding
<1>7. SummaryIsTrue'
  BY <1>1 DEF IInv, SummaryIsTrue, RunOf, Capped, LastRun
<1> QED BY <1>3, <1>4, <1>5, <1>6, <1>7 DEF IInv

\* The summary of the first n days of an answer whose k-th day goes to f[k],
\* as l groups that begin on the days a[r] and end on the days b[r].
Within(a, b, r, day) == a[r] <= day /\ day <= b[r]

Grouped(l, a, b, f, first, n) ==
  /\ (n > 0) <=> (l > 0)
  /\ l > 0 => a[1] = first /\ b[l] = first + n - 1
  /\ \A r \in 1..l :
       /\ a[r] <= b[r]
       /\ \A j, k \in DOMAIN f :
            Within(a, b, r, first + j - 1) /\ Within(a, b, r, first + k - 1) => f[j] = f[k]
       /\ r < l =>
            /\ a[r + 1] = b[r] + 1
            /\ \A j, k \in DOMAIN f :
                 Within(a, b, r, first + j - 1) /\ Within(a, b, r + 1, first + k - 1)
                   => f[j] # f[k]

\* A day that goes to the parent of the last group joins it.
LEMMA JoinGroup ==
  ASSUME NEW l \in Nat, NEW a, NEW b, NEW a2, NEW b2, NEW f, NEW first \in Int, NEW n \in Nat,
         NEW N \in Nat, DOMAIN f = 1..N, n + 1 <= N,
         \A r \in 1..l : a[r] \in Int /\ b[r] \in Int,
         Grouped(l, a, b, f, first, n),
         l > 0, f[n] = f[n + 1],
         \A r \in 1..l : a2[r] = a[r],
         \A r \in 1..(l - 1) : b2[r] = b[r],
         b2[l] = first + n
  PROVE  Grouped(l, a2, b2, f, first, n + 1)
<1>1. /\ n > 0 /\ n \in DOMAIN f /\ n + 1 \in DOMAIN f
      /\ b[l] = first + n - 1 /\ a[l] <= b[l] /\ l \in 1..l
  BY DEF Grouped
<1>2. Within(a, b, l, first + n - 1)
  BY <1>1 DEF Within
<1>3. ASSUME NEW j \in DOMAIN f, Within(a2, b2, l, first + j - 1) PROVE f[j] = f[n]
  <2>1. CASE j = n + 1
    BY <2>1
  <2>2. CASE j # n + 1
    <3>1. Within(a, b, l, first + j - 1)
      BY <1>1, <1>3, <2>2 DEF Within
    <3> QED BY <3>1, <1>1, <1>2 DEF Grouped
  <2> QED BY <2>1, <2>2
<1>4. \A r \in 1..(l - 1) : \A day : Within(a2, b2, r, day) <=> Within(a, b, r, day)
  BY DEF Within
<1>5. ASSUME NEW r \in 1..l
      PROVE  /\ a2[r] <= b2[r]
             /\ \A j, k \in DOMAIN f :
                  Within(a2, b2, r, first + j - 1) /\ Within(a2, b2, r, first + k - 1)
                    => f[j] = f[k]
             /\ r < l =>
                  /\ a2[r + 1] = b2[r] + 1
                  /\ \A j, k \in DOMAIN f :
                       Within(a2, b2, r, first + j - 1) /\ Within(a2, b2, r + 1, first + k - 1)
                         => f[j] # f[k]
  <2>1. CASE r = l
    <3>1. a2[l] <= b2[l]
      BY <1>1
    <3> QED BY <2>1, <3>1, <1>3
  <2>2. CASE r < l
    <3>1. r \in 1..(l - 1) /\ r + 1 \in 1..l
      BY <2>2
    <3>2. a2[r] <= b2[r] /\ a2[r + 1] = b2[r] + 1
      BY <3>1, <2>2 DEF Grouped
    <3>3. \A j, k \in DOMAIN f :
            Within(a2, b2, r, first + j - 1) /\ Within(a2, b2, r, first + k - 1) => f[j] = f[k]
      BY <3>1, <1>4 DEF Grouped
    <3>4. ASSUME NEW j \in DOMAIN f, NEW k \in DOMAIN f,
                 Within(a2, b2, r, first + j - 1), Within(a2, b2, r + 1, first + k - 1)
          PROVE  f[j] # f[k]
      <4>1. Within(a, b, r, first + j - 1)
        BY <3>1, <3>4, <1>4
      <4>2. CASE r + 1 = l
        <5>1. f[k] = f[n]
          BY <3>4, <4>2, <1>3
        <5>2. Within(a, b, r + 1, first + n - 1)
          BY <4>2, <1>2
        <5>3. \A i, m \in DOMAIN f :
                Within(a, b, r, first + i - 1) /\ Within(a, b, r + 1, first + m - 1) => f[i] # f[m]
          BY <2>2, <3>1, <1>1 DEF Grouped
        <5>4. f[j] # f[n]
          BY <4>1, <5>2, <5>3, <1>1
        <5> QED BY <5>1, <5>4
      <4>3. CASE r + 1 # l
        <5>1. r + 1 \in 1..(l - 1)
          BY <4>3, <3>1
        <5>2. Within(a, b, r + 1, first + k - 1)
          BY <5>1, <3>4, <1>4
        <5> QED BY <4>1, <5>2, <2>2 DEF Grouped
      <4> QED BY <4>2, <4>3
    <3> QED BY <3>2, <3>3, <3>4
  <2> QED BY <2>1, <2>2
<1>6. a2[1] = first /\ b2[l] = first + (n + 1) - 1
  BY DEF Grouped
<1> QED BY <1>1, <1>5, <1>6 DEF Grouped

\* A day that goes to the other parent, or the first day, starts a group.
LEMMA NewGroup ==
  ASSUME NEW l \in Nat, NEW a, NEW b, NEW a2, NEW b2, NEW f, NEW first \in Int, NEW n \in Nat,
         NEW N \in Nat, DOMAIN f = 1..N, n + 1 <= N,
         \A r \in 1..l : a[r] \in Int /\ b[r] \in Int,
         Grouped(l, a, b, f, first, n),
         l > 0 => f[n] # f[n + 1],
         \A r \in 1..l : a2[r] = a[r] /\ b2[r] = b[r],
         a2[l + 1] = first + n,
         b2[l + 1] = first + n
  PROVE  Grouped(l + 1, a2, b2, f, first, n + 1)
<1>1. n + 1 \in DOMAIN f
  OBVIOUS
<1>2. ASSUME NEW j \in DOMAIN f, Within(a2, b2, l + 1, first + j - 1) PROVE j = n + 1
  BY <1>2 DEF Within
<1>3. \A r \in 1..l : \A day : Within(a2, b2, r, day) <=> Within(a, b, r, day)
  BY DEF Within
<1>4. ASSUME l > 0, NEW j \in DOMAIN f, Within(a, b, l, first + j - 1) PROVE f[j] # f[n + 1]
  <2>1. n > 0 /\ n \in DOMAIN f /\ Within(a, b, l, first + n - 1) /\ l \in 1..l
    BY <1>4 DEF Grouped, Within
  <2>2. f[j] = f[n]
    BY <2>1, <1>4 DEF Grouped
  <2> QED BY <2>2, <1>4
<1>5. ASSUME NEW r \in 1..(l + 1)
      PROVE  /\ a2[r] <= b2[r]
             /\ \A j, k \in DOMAIN f :
                  Within(a2, b2, r, first + j - 1) /\ Within(a2, b2, r, first + k - 1)
                    => f[j] = f[k]
             /\ r < l + 1 =>
                  /\ a2[r + 1] = b2[r] + 1
                  /\ \A j, k \in DOMAIN f :
                       Within(a2, b2, r, first + j - 1) /\ Within(a2, b2, r + 1, first + k - 1)
                         => f[j] # f[k]
  <2>1. CASE r = l + 1
    BY <2>1, <1>2
  <2>2. CASE r = l
    <3>1. l > 0 /\ l \in 1..l
      BY <2>2
    <3>2. a2[l] <= b2[l] /\ a2[l + 1] = b2[l] + 1
      BY <3>1 DEF Grouped
    <3>3. \A j, k \in DOMAIN f :
            Within(a2, b2, l, first + j - 1) /\ Within(a2, b2, l, first + k - 1) => f[j] = f[k]
      BY <3>1, <1>3 DEF Grouped
    <3>4. ASSUME NEW j \in DOMAIN f, NEW k \in DOMAIN f,
                 Within(a2, b2, l, first + j - 1), Within(a2, b2, l + 1, first + k - 1)
          PROVE  f[j] # f[k]
      <4>1. Within(a, b, l, first + j - 1) /\ k = n + 1
        BY <3>1, <3>4, <1>2, <1>3
      <4> QED BY <3>1, <4>1, <1>4
    <3> QED BY <2>2, <3>2, <3>3, <3>4
  <2>3. CASE r < l
    <3>1. r \in 1..l /\ r + 1 \in 1..l
      BY <2>3
    <3>2. a2[r] <= b2[r] /\ a2[r + 1] = b2[r] + 1
      BY <3>1, <2>3 DEF Grouped
    <3>3. \A j, k \in DOMAIN f :
            Within(a2, b2, r, first + j - 1) /\ Within(a2, b2, r, first + k - 1) => f[j] = f[k]
      BY <3>1, <1>3 DEF Grouped
    <3>4. \A j, k \in DOMAIN f :
            Within(a2, b2, r, first + j - 1) /\ Within(a2, b2, r + 1, first + k - 1)
              => f[j] # f[k]
      BY <3>1, <2>3, <1>3 DEF Grouped
    <3> QED BY <3>2, <3>3, <3>4
  <2> QED BY <2>1, <2>2, <2>3
<1>6. a2[1] = first /\ b2[l + 1] = first + (n + 1) - 1
  BY DEF Grouped
<1> QED BY <1>5, <1>6 DEF Grouped

\* The runs of the reply, taken apart.
Starts == [r \in DOMAIN runs |-> runs[r][1]]
Stops == [r \in DOMAIN runs |-> runs[r][2]]
Finals == [k \in DOMAIN schedule |-> schedule[k].final]

LEMMA RunIsWithin ==
  ASSUME EveryDayOnce, NEW r \in DOMAIN runs, NEW k
  PROVE  k \in RunOf(r) <=>
           k \in DOMAIN schedule /\ Within(Starts, Stops, r, window[1] + k - 1)
BY DEF RunOf, Within, Starts, Stops, EveryDayOnce

LEMMA SummaryIsGrouped ==
  TypeOK /\ EveryDayOnce =>
    (SummaryIsTrue <=>
       taken <= Capped /\ Grouped(Len(runs), Starts, Stops, Finals, window[1], taken))
<1> SUFFICES ASSUME TypeOK, EveryDayOnce
             PROVE  SummaryIsTrue <=>
                      taken <= Capped /\ Grouped(Len(runs), Starts, Stops, Finals, window[1], taken)
  OBVIOUS
<1>1. /\ runs \in Seq(Int \X Int)
      /\ DOMAIN runs = 1..Len(runs)
      /\ Len(runs) \in Nat
      /\ (runs # <<>>) <=> (Len(runs) > 0)
  BY DEF TypeOK
<1>2. /\ DOMAIN Finals = DOMAIN schedule
      /\ \A k \in DOMAIN schedule : Finals[k] = schedule[k].final
      /\ \A r \in DOMAIN runs : Starts[r] = runs[r][1] /\ Stops[r] = runs[r][2]
  BY DEF Finals, Starts, Stops
<1>3. ASSUME NEW r \in DOMAIN runs
      PROVE  (\A j, k \in RunOf(r) : schedule[j].final = schedule[k].final) <=>
             (\A j, k \in DOMAIN Finals :
                Within(Starts, Stops, r, window[1] + j - 1) /\
                Within(Starts, Stops, r, window[1] + k - 1) => Finals[j] = Finals[k])
  BY <1>2, RunIsWithin
<1>4. ASSUME NEW r \in DOMAIN runs, r + 1 \in DOMAIN runs
      PROVE  (\A j \in RunOf(r), k \in RunOf(r + 1) : schedule[j].final # schedule[k].final) <=>
             (\A j, k \in DOMAIN Finals :
                Within(Starts, Stops, r, window[1] + j - 1) /\
                Within(Starts, Stops, r + 1, window[1] + k - 1) => Finals[j] # Finals[k])
  BY <1>2, <1>4, RunIsWithin
<1>5. \A r \in 1..Len(runs) : r < Len(runs) => r + 1 \in DOMAIN runs
  BY <1>1
<1>6. (taken > 0 <=> runs # <<>>) <=> (taken > 0 <=> Len(runs) > 0)
  BY <1>1
<1>7. (runs # <<>> => runs[1][1] = window[1] /\ LastRun[2] = window[1] + taken - 1) <=>
      (Len(runs) > 0 => Starts[1] = window[1] /\ Stops[Len(runs)] = window[1] + taken - 1)
  <2>1. Len(runs) > 0 => 1 \in DOMAIN runs /\ Len(runs) \in DOMAIN runs
    BY <1>1
  <2>2. Len(runs) > 0 => Starts[1] = runs[1][1] /\ Stops[Len(runs)] = LastRun[2]
    BY <2>1, <1>2 DEF LastRun
  <2> QED BY <2>2, <1>1
<1> DEFINE A(r) == /\ runs[r][1] <= runs[r][2]
                   /\ \A k, l \in RunOf(r) : schedule[k].final = schedule[l].final
                   /\ r < Len(runs) =>
                        /\ runs[r + 1][1] = runs[r][2] + 1
                        /\ \A k \in RunOf(r), l \in RunOf(r + 1) :
                             schedule[k].final # schedule[l].final
           B(r) == /\ Starts[r] <= Stops[r]
                   /\ \A j, k \in DOMAIN Finals :
                        Within(Starts, Stops, r, window[1] + j - 1) /\
                        Within(Starts, Stops, r, window[1] + k - 1) => Finals[j] = Finals[k]
                   /\ r < Len(runs) =>
                        /\ Starts[r + 1] = Stops[r] + 1
                        /\ \A j, k \in DOMAIN Finals :
                             Within(Starts, Stops, r, window[1] + j - 1) /\
                             Within(Starts, Stops, r + 1, window[1] + k - 1)
                               => Finals[j] # Finals[k]
<1>8. ASSUME NEW r \in 1..Len(runs) PROVE A(r) <=> B(r)
  <2>1. r \in DOMAIN runs
    BY <1>1
  <2>2. CASE r < Len(runs)
    <3>1. r + 1 \in DOMAIN runs
      BY <2>2, <1>5
    <3> QED BY <2>1, <3>1, <1>2, <1>3, <1>4, Zenon
  <2>3. CASE ~(r < Len(runs))
    BY <2>1, <2>3, <1>2, <1>3, Zenon
  <2> QED BY <2>2, <2>3
<1> HIDE DEF A, B
<1>9. (\A r \in DOMAIN runs : A(r)) <=> (\A r \in 1..Len(runs) : B(r))
  BY <1>1, <1>8
<1>10. SummaryIsTrue <=>
         /\ taken <= Capped
         /\ (taken > 0) <=> (runs # <<>>)
         /\ runs # <<>> => runs[1][1] = window[1] /\ LastRun[2] = window[1] + taken - 1
         /\ \A r \in DOMAIN runs : A(r)
  BY Zenon DEF SummaryIsTrue, A
<1>11. Grouped(Len(runs), Starts, Stops, Finals, window[1], taken) <=>
         /\ (taken > 0) <=> (Len(runs) > 0)
         /\ Len(runs) > 0 => Starts[1] = window[1] /\ Stops[Len(runs)] = window[1] + taken - 1
         /\ \A r \in 1..Len(runs) : B(r)
  BY Zenon DEF Grouped, B
<1> QED BY <1>6, <1>7, <1>9, <1>10, <1>11, Zenon

\* One more day grouped leaves a true summary of one more day.
LEMMA GroupIInv ==
  ASSUME IInv, GroupDay PROVE IInv'
<1> DEFINE n == taken
           l == Len(runs)
           d == schedule[n + 1]
           first == window[1]
<1>1. /\ pc = "calculated"
      /\ n < Capped /\ taken' = n + 1
      /\ runs' = IF runs # <<>> /\ schedule[n].final = d.final
                 THEN [runs EXCEPT ![l] = <<@[1], d.day>>]
                 ELSE Append(runs, <<d.day, d.day>>)
      /\ UNCHANGED <<pc, surface, text, answer, intent, window, loaded, current, schedule>>
  BY DEF GroupDay, SameParent
<1>2. /\ runs \in Seq(Int \X Int)
      /\ l \in Nat
      /\ DOMAIN runs = 1..l
      /\ \A r \in 1..l : runs[r] \in Int \X Int /\ runs[r][1] \in Int /\ runs[r][2] \in Int
      /\ (runs = <<>>) <=> (l = 0)
      /\ n \in Nat /\ first \in Int
      /\ schedule \in Seq(DayStates)
  BY DEF IInv, TypeOK
<1>3. /\ DOMAIN schedule = 1..Len(schedule)
      /\ Len(schedule) \in Nat
      /\ n + 1 \in DOMAIN schedule
      /\ n + 1 <= Len(schedule)
      /\ n + 1 <= Capped
  BY <1>1, <1>2, ScheduleAssumption DEF Capped
<1>4. d.day = first + n /\ d.day \in Int
  BY <1>2, <1>3 DEF IInv, EveryDayOnce
<1>5. Grouped(l, Starts, Stops, Finals, first, n)
  BY SummaryIsGrouped DEF IInv
<1>6. n > 0 <=> l > 0
  BY <1>5 DEF Grouped
<1>7. /\ DOMAIN Finals = 1..Len(schedule)
      /\ \A r \in 1..l : Starts[r] = runs[r][1] /\ Stops[r] = runs[r][2]
      /\ Finals[n + 1] = d.final
      /\ n > 0 => Finals[n] = schedule[n].final
      /\ \A r \in 1..l : Starts[r] \in Int /\ Stops[r] \in Int
  BY <1>2, <1>3 DEF Finals, Starts, Stops
<1> HIDE DEF n, l, d, first
<1>8. /\ runs' \in Seq(Int \X Int)
      /\ Grouped(Len(runs'), Starts', Stops', Finals', first, n + 1)
  <2>1. CASE l > 0 /\ schedule[n].final = d.final
    <3>1. /\ runs' = [runs EXCEPT ![l] = <<runs[l][1], first + n>>]
          /\ runs' \in Seq(Int \X Int)
          /\ Len(runs') = l /\ DOMAIN runs' = 1..l
      <4>0. runs # <<>>
        BY <1>2, <2>1
      <4>1. runs' = [runs EXCEPT ![l] = <<runs[l][1], d.day>>]
        BY <1>1, <4>0, <2>1, Zenon
      <4>2. runs' = [runs EXCEPT ![l] = <<runs[l][1], first + n>>]
        BY <4>1, <1>4
      <4>3. <<runs[l][1], first + n>> \in Int \X Int
        BY <1>2, <1>4, <2>1
      <4> DEFINE e == <<runs[l][1], first + n>>
      <4> HIDE DEF e
      <4>4. runs' = [runs EXCEPT ![l] = e] /\ e \in Int \X Int
        BY <4>2, <4>3 DEF e
      <4>5. runs' \in Seq(Int \X Int) /\ Len(runs') = l /\ DOMAIN runs' = 1..l
        BY <4>4, <1>2, <2>1 DEF l
      <4> QED BY <4>2, <4>5
    <3>2. /\ runs'[l][1] = runs[l][1] /\ runs'[l][2] = first + n
          /\ \A r \in 1..(l - 1) : runs'[r] = runs[r]
      BY <1>2, <2>1, <3>1
    <3>3. /\ \A r \in 1..l : Starts'[r] = runs'[r][1] /\ Stops'[r] = runs'[r][2]
          /\ Finals' = Finals
      BY <3>1, <1>1 DEF Starts, Stops, Finals
    <3>4. /\ \A r \in 1..l : Starts'[r] = Starts[r]
          /\ \A r \in 1..(l - 1) : Stops'[r] = Stops[r]
          /\ Stops'[l] = first + n
      <4>1. ASSUME NEW r \in 1..l PROVE Starts'[r] = Starts[r]
        <5>1. CASE r = l
          BY <5>1, <3>2, <3>3, <1>7
        <5>2. CASE r # l
          <6>1. r \in 1..(l - 1)
            BY <5>2, <1>2
          <6> QED BY <6>1, <3>2, <3>3, <1>7
        <5> QED BY <5>1, <5>2
      <4>2. ASSUME NEW r \in 1..(l - 1) PROVE Stops'[r] = Stops[r]
        <5>1. r \in 1..l
          BY <1>2
        <5> QED BY <5>1, <3>2, <3>3, <1>7
      <4>3. l \in 1..l
        BY <1>2, <2>1
      <4> QED BY <4>1, <4>2, <4>3, <3>2, <3>3
    <3>5. Finals[n] = Finals[n + 1]
      BY <1>6, <1>7, <2>1
    <3>6. Grouped(l, Starts', Stops', Finals, first, n + 1)
      <4>1. /\ DOMAIN Finals = 1..Len(schedule) /\ Len(schedule) \in Nat
            /\ n + 1 <= Len(schedule)
            /\ l \in Nat /\ n \in Nat /\ first \in Int /\ l > 0
            /\ \A r \in 1..l : Starts[r] \in Int /\ Stops[r] \in Int
        BY <1>2, <1>3, <1>7, <2>1
      <4> QED BY <4>1, <1>5, <3>4, <3>5, JoinGroup
    <3> QED BY <3>1, <3>3, <3>6
  <2>2. CASE ~(l > 0 /\ schedule[n].final = d.final)
    <3>1. runs' = Append(runs, <<first + n, first + n>>)
      <4>1. ~(runs # <<>> /\ schedule[n].final = d.final)
        BY <1>2, <2>2
      <4>2. runs' = Append(runs, <<d.day, d.day>>)
        BY <1>1, <4>1, Zenon
      <4> QED BY <4>2, <1>4
    <3>2. /\ runs' \in Seq(Int \X Int)
          /\ Len(runs') = l + 1 /\ DOMAIN runs' = 1..(l + 1)
          /\ runs'[l + 1] = <<first + n, first + n>>
          /\ \A r \in 1..l : runs'[r] = runs[r]
      BY <3>1, <1>2 DEF l
    <3>3. /\ \A r \in 1..(l + 1) : Starts'[r] = runs'[r][1] /\ Stops'[r] = runs'[r][2]
          /\ Finals' = Finals
      BY <3>2, <1>1 DEF Starts, Stops, Finals
    <3>4. /\ \A r \in 1..l : Starts'[r] = Starts[r] /\ Stops'[r] = Stops[r]
          /\ Starts'[l + 1] = first + n
          /\ Stops'[l + 1] = first + n
      BY <3>2, <3>3, <1>2, <1>7
    <3>5. l > 0 => Finals[n] # Finals[n + 1]
      BY <1>6, <1>7, <2>2
    <3>6. Grouped(l + 1, Starts', Stops', Finals, first, n + 1)
      <4>1. /\ DOMAIN Finals = 1..Len(schedule) /\ Len(schedule) \in Nat
            /\ n + 1 <= Len(schedule)
            /\ l \in Nat /\ n \in Nat /\ first \in Int
            /\ \A r \in 1..l : Starts[r] \in Int /\ Stops[r] \in Int
        BY <1>2, <1>3, <1>7
      <4> QED BY <4>1, <1>5, <3>4, <3>5, NewGroup
    <3> QED BY <3>2, <3>3, <3>6
  <2> QED BY <2>1, <2>2
<1>9. TypeOK'
  BY <1>1, <1>2, <1>8 DEF IInv, TypeOK, n
<1>10. ParsedOK' /\ Progress'
  BY <1>1 DEF IInv, ParsedOK, Progress
<1>11. EveryDayOnce' /\ ShownIsRight'
  BY <1>1 DEF IInv, EveryDayOnce, ShownIsRight, RightlyShown, Deciding
<1>12. SummaryIsTrue'
  <2>1. (taken <= Capped)'
    BY <1>1, <1>3 DEF Capped
  <2>2. Grouped(Len(runs'), Starts', Stops', Finals', window'[1], taken')
    BY <1>1, <1>8 DEF first, n
  <2>3. (SummaryIsTrue <=>
           taken <= Capped /\ Grouped(Len(runs), Starts, Stops, Finals, window[1], taken))'
    BY <1>9, <1>11, SummaryIsGrouped, PTL
  <2> QED BY <2>1, <2>2, <2>3
<1> QED BY <1>9, <1>10, <1>11, <1>12 DEF IInv

------------------------------------------------------------------------------
LEMMA NextIInv == IInv /\ [Next]_vars => IInv'
<1> SUFFICES ASSUME IInv, [Next]_vars PROVE IInv'
  OBVIOUS
<1>1. CASE AskWeb \/ AskFeed
  BY <1>1, AskIInv
<1>2. CASE ParseText
  BY <1>2, ParseIInv
<1>3. CASE AnswerQuery
  BY <1>3, QueryIInv
<1>4. CASE Load
  BY <1>4, LoadIInv
<1>5. CASE CalculateDay
  BY <1>5, CalculateIInv
<1>6. CASE Calculated
  BY <1>6, CalculatedIInv
<1>7. CASE GroupDay
  BY <1>7, GroupIInv
<1>8. CASE Reply \/ Handled
  BY <1>8, ResetIInv DEF Reply, Handled
<1>9. CASE UNCHANGED vars
  <2> USE <1>9 DEF vars
  <2>1. TypeOK' /\ ParsedOK' /\ Progress'
    BY DEF IInv, TypeOK, ParsedOK, Progress
  <2>2. EveryDayOnce' /\ ShownIsRight'
    BY DEF IInv, EveryDayOnce, ShownIsRight, RightlyShown, Deciding
  <2>3. SummaryIsTrue'
    BY DEF IInv, SummaryIsTrue, RunOf, Capped, LastRun
  <2> QED BY <2>1, <2>2, <2>3 DEF IInv
<1> QED BY <1>1, <1>2, <1>3, <1>4, <1>5, <1>6, <1>7, <1>8, <1>9 DEF Next

LEMMA Invariance == Spec => []IInv
BY IdleIInv, NextIInv, PTL DEF Spec, Init

\* Every reachable state of the reader is well typed.
THEOREM TypeCorrect == Spec => []TypeOK
<1>1. IInv => TypeOK
  BY DEF IInv
<1> QED BY <1>1, Invariance, PTL

\* A question with usable dates is answered and never drafted, whatever the
\* model would have made of it.
THEOREM QuestionsOnlyAnswered == Spec => []QuestionsAreOnlyAnswered
<1>1. IInv => QuestionsAreOnlyAnswered
  BY ParsedQuestions DEF IInv
<1> QED BY <1>1, Invariance, PTL

\* What is drafted or answered spans exactly the dates that were written.
THEOREM SpansKept == Spec => []SpansAreAsWritten
<1>1. IInv => SpansAreAsWritten
  BY ParsedSpans DEF IInv
<1> QED BY <1>1, Invariance, PTL

\* The engine lists each day of any window once, in order.
THEOREM DaysComplete == Spec => []EveryDayOnce
<1>1. IInv => EveryDayOnce
  BY DEF IInv
<1> QED BY <1>1, Invariance, PTL

\* Every day listed has the parent of the rotation, or of the newest approved
\* override that covers it.
THEOREM DaysRight == Spec => []ShownIsRight
<1>1. IInv => ShownIsRight
  BY DEF IInv
<1> QED BY <1>1, Invariance, PTL

\* The groups of a reply by text say what the calendar says.
THEOREM SummaryTrue == Spec => []SummaryIsTrue
<1>1. IInv => SummaryIsTrue
  BY DEF IInv
<1> QED BY <1>1, Invariance, PTL

\* The events of a feed cover its window without a gap or an overlap.
THEOREM FeedContiguous == Spec => []FeedIsContiguous
<1>1. IInv => FeedIsContiguous
  <2> SUFFICES ASSUME IInv, pc = "calculated", surface = "feed"
               PROVE  /\ Feed[1].start = window[1]
                      /\ Feed[Len(Feed)].end = window[2] + 1
                      /\ \A k \in 1..(Len(Feed) - 1) : Feed[k].end = Feed[k + 1].start
    BY DEF FeedIsContiguous
  <2>1. /\ window[1] \in Int /\ window[2] \in Int
        /\ window[1] <= window[2]
        /\ schedule \in Seq(DayStates)
        /\ Len(schedule) = window[2] - window[1] + 1
    BY DEF IInv, TypeOK, Progress, EveryDayOnce
  <2>2. /\ DOMAIN schedule = 1..Len(schedule) /\ Len(schedule) \in Nat \ {0}
        /\ \A k \in 1..Len(schedule) : schedule[k].day = window[1] + k - 1
    <3>1. DOMAIN schedule = 1..Len(schedule) /\ Len(schedule) \in Nat
      BY <2>1
    <3>2. Len(schedule) # 0
      BY <2>1
    <3>3. \A k \in DOMAIN schedule : schedule[k].day = window[1] + k - 1
      BY Zenon DEF IInv, EveryDayOnce
    <3> QED BY <3>1, <3>2, <3>3
  <2>3. Len(Feed) = Len(schedule)
    <3>1. Feed = [k \in 1..Len(schedule) |-> Event(schedule[k])]
      BY <2>2 DEF Feed
    <3> QED BY <2>2, <3>1
  <2>4. \A k \in 1..Len(schedule) : /\ Feed[k].start = window[1] + k - 1
                                    /\ Feed[k].end = window[1] + k - 1 + 1
    BY <2>2 DEF Feed, Event
  <2>5. 1 \in 1..Len(schedule) /\ Len(schedule) \in 1..Len(schedule)
    BY <2>2
  <2>6. Feed[1].start = window[1] /\ Feed[Len(Feed)].end = window[2] + 1
    BY <2>1, <2>3, <2>4, <2>5
  <2>7. ASSUME NEW k \in 1..(Len(Feed) - 1) PROVE Feed[k].end = Feed[k + 1].start
    <3>1. k \in 1..Len(schedule) /\ k + 1 \in 1..Len(schedule) /\ k \in Int
      BY <2>2, <2>3
    <3>2. Feed[k].end = window[1] + k - 1 + 1 /\ Feed[k + 1].start = window[1] + (k + 1) - 1
      BY <2>4, <3>1
    <3> QED BY <2>1, <3>1, <3>2
  <2> QED BY <2>6, <2>7
<1> QED BY <1>1, Invariance, PTL
==============================================================================
