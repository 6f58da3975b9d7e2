----------------------------- MODULE MCOverrides -----------------------------
(* Instances of Overrides for TLC. *)
EXTENDS Overrides, TLC

\* Sessions are interchangeable, and so are the two parents: no definition
\* names one of them.
Symmetry == Permutations(Sessions) \cup Permutations(Parents)

\* Behaviours in which requests are made and decided on the web and
\* withdrawn by STOP; nothing is swept, drafted or restarted.  They are
\* behaviours of Spec, and enough to look for a race among three sessions.
ApproveAndStop(s) == \/ DecideRead(s) \/ DecideRefused(s) \/ DecideJudged(s)
                     \/ DecideRejected(s) \/ ReadActives(s)
                     \/ ActivateCommit(s) \/ ActivateConflict(s)
                     \/ StopWithdraw(s) \/ SetStatusLoad(s) \/ SetStatusCommit(s)

ApproveAndStopSpec ==
  Init /\ [][CreateOverride \/ \E s \in Sessions : ApproveAndStop(s)]_vars
==============================================================================
