----------------------------- MODULE MCAccounts -----------------------------
(* Accounts for TLC: requests are interchangeable, and so are addresses    *)
(* (the first administrator has one of them, which Next does not know).    *)
EXTENDS Accounts, TLC

Symmetric == Permutations(Request) \cup Permutations(Email)
=============================================================================
