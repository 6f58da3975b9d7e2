CONSTANTS
  ParentA = ParentA
  ParentB = ParentB
  MaxRangeDays = 4
  None = None
  Malformed = Malformed
  Epochs <- MCEpochs
  MaxOverrides = 2
  Spans <- MCSpans
  Windows <- MCWindows
  Todays <- MCTodays
  FeedPast = 1
  FeedFuture = 4
  TextDates <- MCTextDates
  MaxQueryDays = 3
SPECIFICATION Spec
INVARIANTS QuestionsAreOnlyAnswered SpansAreAsWritten ShownIsRight SummaryIsTrue
