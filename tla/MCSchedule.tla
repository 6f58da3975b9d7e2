------------------------------ MODULE MCSchedule ------------------------------
(* Instances of Schedule for TLC.                                          *)
EXTENDS Schedule

MCEpochs == {-3, 0, 6, 11}
MCSpans == {<<3, 5>>, <<5, None>>, <<4, 7>>}
MCWindows == {<<1, 9>>, <<-4, 5>>, <<5, 5>>, <<6, 5>>}
MCTodays == {2}
MCTextDates == {3, 5, 8}
================================================================================
