--------------------------- MODULE FraudServiceMC --------------------------
(***************************************************************************)
(* Small instances of FraudService.  A day has few ticks and the frequency *)
(* window fewer, so that rows age and days end within a short behaviour.   *)
(***************************************************************************)
EXTENDS FraudService, TLC

CONSTANTS u1, u2, p1, p2, j1, j2

NoOne == {}
OneUser == {u1}
TwoUsers == {u1, u2}
OnePost == {p1}
TwoPosts == {p1, p2}
OneUpload == {j1}
TwoUploads == {j1, j2}

\* The goroutines that serve one endpoint are interchangeable.
Goroutines == Permutations(TwoPosts)

\* So are users.
Customers == Permutations(TwoUsers)
=============================================================================
