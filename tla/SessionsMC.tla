----------------------------- MODULE SessionsMC -----------------------------
(***************************************************************************)
(* A small instance of Sessions: a second has two milliseconds of two      *)
(* ticks, and a token lives for a second, so that it may be issued,        *)
(* blacklisted and outlived at every offset from both roundings.           *)
(***************************************************************************)
EXTENDS Sessions, TLC

CONSTANTS e1, w1, w2, t1, t2, r1, r2

MCEmails == {e1}
MCPasswords == {w1, w2}
MCTokens == {t1, t2}
MCRequests == {r1, r2}

\* Passwords, tokens and goroutines are interchangeable.
Interchangeable ==
    Permutations(MCPasswords) \cup Permutations(MCTokens) \cup Permutations(MCRequests)
=============================================================================
