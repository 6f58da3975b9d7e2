----------------------------- MODULE MCConcierge -----------------------------
(* Instances of Concierge for TLC. *)
EXTENDS Concierge, TLC

\* Parents, texts, conversations and sessions are interchangeable; Other picks
\* the only other parent, whichever names the two have.
Symmetry == Permutations(Parents) \cup Permutations(Texts)
              \cup Permutations(Threads) \cup Permutations(Sessions)
==============================================================================
