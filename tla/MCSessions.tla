----------------------------- MODULE MCSessions -----------------------------
(* Sessions for TLC: two logins, two calls and two tabs, interchangeable in *)
(* pairs.                                                                  *)
EXTENDS Sessions, TLC

Symmetric == Permutations(Login) \cup Permutations(Call) \cup Permutations(Tab)
=============================================================================
