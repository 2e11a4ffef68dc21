---------------------------- MODULE ProfileLedger --------------------------
(***************************************************************************)
(* What the store promises to whoever scores a transaction, without the    *)
(* requests, statements and jobs that keep the promise.  There is a ledger *)
(* of transactions that only grows, and a summary for each user.  Each     *)
(* update of a summary happens in one step and stands for one moment of    *)
(* the past: Recount for everything the user had done by then, Rebuild for *)
(* all users at one and the same moment and cutoff date.  A recount never  *)
(* takes back what an earlier one counted.                                 *)
(***************************************************************************)
EXTENDS Integers, Sequences

CONSTANT Users

VARIABLES
    ledger,      \* sequence of transactions
    summaries    \* by user: known, basis and counted

vars == <<ledger, summaries>>

Init ==
    /\ ledger = <<>>
    /\ summaries = [u \in Users |-> [known |-> FALSE, basis |-> {}, counted |-> {}]]

\* The transactions of u at the moment when there were n of all.
Upto(u, n) == {i \in 1..n : ledger[i].user = u}

DatedBefore(rows, cutoff) == {i \in rows : ledger[i].at < cutoff}

Record ==
    /\ Len(ledger') = Len(ledger) + 1
    /\ \A i \in DOMAIN ledger : ledger'[i] = ledger[i]
    /\ ledger'[Len(ledger')].user \in Users
    /\ UNCHANGED summaries

Recount(u) ==
    /\ \E n \in 0..Len(ledger) :
         /\ summaries[u].counted \subseteq Upto(u, n)
         /\ summaries' = [summaries EXCEPT ![u] =
                [known |-> TRUE, basis |-> Upto(u, n), counted |-> Upto(u, n)]]
    /\ UNCHANGED ledger

\* A cutoff matters only by the transactions it admits, so that one just after
\* a date of the ledger stands for all cutoffs.
Rebuild ==
    /\ \E n \in 1..Len(ledger), last \in DOMAIN ledger :
         summaries' = [u \in Users |->
             LET rows == DatedBefore(Upto(u, n), ledger[last].at + 1)
             IN  IF rows = {} THEN summaries[u]
                 ELSE [summaries[u] EXCEPT !.known = TRUE, !.basis = rows]]
    /\ UNCHANGED ledger

Next == Record \/ Rebuild \/ \E u \in Users : Recount(u)

Spec == Init /\ [][Next]_vars
=============================================================================
