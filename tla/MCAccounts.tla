------------------------------ MODULE MCAccounts ------------------------------
EXTENDS Accounts, TLC

CONSTANTS a, b, na, nb, free

MCUsers     == {a, b}
MCPhones    == {na, nb, free}
MCSeedPhone == a :> na @@ b :> nb
Symmetry    == Permutations(Requests)
=============================================================================
