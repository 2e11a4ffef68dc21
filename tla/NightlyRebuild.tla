--------------------------- MODULE NightlyRebuild --------------------------
(***************************************************************************)
(* The cron job of internal/worker/cron.go: at every midnight of the       *)
(* service's wall clock a goroutine executes RebuildAllUserProfiles, one   *)
(* statement for all users.  As in BulkUpload, its SELECT and its commit   *)
(* are two steps.  The job of day d is the one that midnight d starts;     *)
(* cron starts it whether or not an earlier one is still running, and does *)
(* not make up for a midnight at which the service was down.               *)
(***************************************************************************)
EXTENDS FraudStore

Days == 1..((MaxNow + (IF Skew > 0 THEN Skew ELSE 0)) \div DayTicks)

VARIABLE rebuilds     \* the job of each day

\* History: how many rows there were when the job was started ("existing"), and
\* the jobs of earlier days that were still running then ("beside").
NoRebuild ==
    [pc |-> "waiting", snapshot |-> [u \in Users |-> {}],
     existing |-> 0, beside |-> {}]

Running(d) == rebuilds[d].pc \in {"started", "store"}

RebuildInit == rebuilds = [d \in Days |-> NoRebuild]

\* Cron's timer, when the clock reaches midnight d.
StartRebuild(d) ==
    rebuilds' = [rebuilds EXCEPT
        ![d].pc = "started", ![d].existing = Len(txns),
        ![d].beside = {e \in Days : Running(e)}]

BeginRebuild(d) ==
    /\ rebuilds[d].pc = "started"
    /\ \A u \in Users : CanCast(ClosedRows(u))
    /\ rebuilds' = [rebuilds EXCEPT ![d].pc = "store",
                        ![d].snapshot = [u \in Users |-> ClosedRows(u)]]
    /\ UNCHANGED storeVars

FaultyFailRebuild(d) ==        \* tried again until it succeeds
    /\ rebuilds[d].pc = "started"
    /\ Fails("rebuildAll") \/ \E u \in Users : ~CanCast(ClosedRows(u))
    /\ rebuilds' = [rebuilds EXCEPT ![d].pc = "started"]
    /\ UNCHANGED storeVars

\* One amount that cannot be cast fails the statement, for every user.
FailRebuild(d) ==
    /\ rebuilds[d].pc = "started"
    /\ Fails("rebuildAll") \/ \E u \in Users : ~CanCast(ClosedRows(u))
    /\ rebuilds' = [rebuilds EXCEPT ![d].pc = "failed"]
    /\ UNCHANGED storeVars

\* GROUP BY yields no row, and so no update, for a user without closed rows.
\* A lost reply changes what is logged, and nothing else.
CommitRebuild(d) ==
    /\ rebuilds[d].pc = "store"
    /\ profiles' = [u \in Users |->
           LET rows == rebuilds[d].snapshot[u]
           IN  IF rows = {} THEN profiles[u] ELSE RebuiltProfile(u, rows)]
    /\ rebuilds' = [rebuilds EXCEPT ![d].pc = "done"]
    /\ UNCHANGED <<txns, now>>

RebuildNext(d) == BeginRebuild(d) \/ FailRebuild(d) \/ CommitRebuild(d)

-----------------------------------------------------------------------------

RebuildTypeOK ==
    rebuilds \in [Days ->
        [pc : {"waiting", "started", "store", "done", "failed", "missed"},
         snapshot : [Users -> SUBSET Nat], existing : Nat, beside : SUBSET Days]]

\* The rows of u that were there at midnight d and are dated before it.
RowsBefore(d, u) ==
    {i \in RowsOf(u) : i <= rebuilds[d].existing /\ txns[i].at < d * DayTicks}

(***************************************************************************)
(* README.md:104: the job rebuilds the profiles "based on the previous     *)
(* day's transactions".  Once the job of day d is done, the aggregates of  *)
(* every user cover the rows of day d-1 and of the days before, and no     *)
(* later job or delayed commit takes them away.  If jobs of earlier days   *)
(* were still running beside it, one of them may commit last; it takes     *)
(* back no more than what came after its own midnight.  It needs a service *)
(* clock that is not ahead of the database's, and no upload beside a job.  *)
(***************************************************************************)
NightlyCoversYesterday ==
    \A d \in Days, u \in Users : rebuilds[d].pc = "done" =>
        {i \in RowsBefore(d, u) : \A e \in rebuilds[d].beside : i \in RowsBefore(e, u)}
            \subseteq profiles[u].basis

(***************************************************************************)
(* README.md:104: the job runs every midnight and updates the profiles: a  *)
(* job that was started and finds the database available does not fail.    *)
(***************************************************************************)
NightlySucceeds == \A d \in Days : rebuilds[d].pc # "failed"

(***************************************************************************)
(* README.md:36 defines the confidence by the user's allowed and total     *)
(* transactions: the transactions that the rebuilt averages stand for are  *)
(* also in the rebuilt totals.                                             *)
(***************************************************************************)
NightlyUpdatesCounts ==
    \A d \in Days : rebuilds[d].pc = "done" =>
        \A u \in Users : RowsBefore(d, u) \subseteq profiles[u].counted
=============================================================================
