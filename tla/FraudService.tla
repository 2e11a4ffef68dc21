---------------------------- MODULE FraudService ---------------------------
(***************************************************************************)
(* The service of cmd/main.go: the goroutines of the two endpoints that    *)
(* write, the cron job, and the database they share, with the clock that   *)
(* runs on under them and a process that may be killed and started again.  *)
(***************************************************************************)
EXTENDS PostTransaction, BulkUpload, NightlyRebuild

CONSTANT MaxCrashes     \* bound on the number of crashes

ASSUME CrashAssumption == MaxCrashes \in Nat

VARIABLES
    up,        \* the process is running
    crashes    \* number of crashes so far

vars == <<storeVars, posts, uploadVars, rebuilds, up, crashes>>

Init ==
    /\ StoreInit
    /\ PostInit
    /\ UploadInit
    /\ RebuildInit
    /\ up = TRUE
    /\ crashes = 0

PostArrives(p) ==
    /\ up
    /\ \E u \in Users : ReceivePost(p, u)
    /\ UNCHANGED <<uploadVars, rebuilds, up, crashes>>

PostAdvances(p) ==
    /\ up
    /\ PostStep(p)
    /\ UNCHANGED <<uploadVars, rebuilds, up, crashes>>

UploadArrives(j) ==
    /\ up
    /\ \E u \in Users : ReceiveUpload(j, u)
    /\ UNCHANGED <<posts, rebuilds, up, crashes>>

UploadAdvances(j) ==
    /\ up
    /\ UploadStep(j)
    /\ UNCHANGED <<posts, rebuilds, up, crashes>>

RebuildAdvances(d) ==
    /\ up
    /\ RebuildNext(d)
    /\ UNCHANGED <<posts, uploadVars, up, crashes>>

\* Time passes.  At midnight cron starts the job of the day that begins.
Tick ==
    /\ now < MaxNow
    /\ now' = now + 1
    /\ LET day == (now' + Skew) \div DayTicks
           midnight == (now' + Skew) % DayTicks = 0 /\ day \in Days
       IN  IF up /\ midnight THEN StartRebuild(day) ELSE UNCHANGED rebuilds
    /\ UNCHANGED <<txns, profiles, posts, uploadVars, up, crashes>>

AbandonedRebuild(d) ==
    IF Running(d) THEN [rebuilds[d] EXCEPT !.pc = "missed"] ELSE rebuilds[d]

\* Every goroutine is gone, and with it the answers that were due.
Crash ==
    /\ up
    /\ crashes < MaxCrashes
    /\ up' = FALSE
    /\ crashes' = crashes + 1
    /\ posts' = [p \in Posts |-> NoPost]
    /\ uploads' = [j \in Uploads |-> NoUpload]
    /\ rebuilds' = [d \in Days |-> AbandonedRebuild(d)]
    /\ UNCHANGED <<storeVars, settled>>

Restart ==
    /\ ~up
    /\ up' = TRUE
    /\ UNCHANGED <<storeVars, posts, uploadVars, rebuilds, crashes>>

\* Nothing is in progress, and nothing has to come: the service waits for
\* requests.  A state with no other step and no step of this kind is a deadlock.
AwaitRequests ==
    /\ \A p \in Posts : posts[p].pc = "idle"
    /\ \A j \in Uploads : uploads[j].pc = "idle"
    /\ \A d \in Days : ~Running(d)
    /\ UNCHANGED vars

Next ==
    \/ \E p \in Posts : PostArrives(p) \/ PostAdvances(p)
    \/ \E j \in Uploads : UploadArrives(j) \/ UploadAdvances(j)
    \/ \E d \in Days : RebuildAdvances(d)
    \/ Tick
    \/ Crash
    \/ Restart
    \/ AwaitRequests

Spec == Init /\ [][Next]_vars

-----------------------------------------------------------------------------

\* The type invariant.
TypeOK ==
    /\ StoreTypeOK
    /\ PostTypeOK
    /\ UploadTypeOK
    /\ RebuildTypeOK
    /\ up \in BOOLEAN
    /\ crashes \in Nat

RowsSeenBy(i, first, oldest) ==
    {k \in RowsOf(txns[i].user) : k <= first /\ txns[k].at > oldest - Window}

(***************************************************************************)
(* A posted transaction is scored with at least the user's transactions of *)
(* the last hour that were committed when its request arrived, whatever    *)
(* else runs meanwhile.  (helpers/txn.go:82-84, CreateTransaction.)        *)
(***************************************************************************)
SettledAreCounted ==
    \A i \in DOMAIN txns : txns[i].via = "post" =>
        txns[i].seen
          >= Cardinality(RowsSeenBy(i, txns[i].began, txns[i].at))

(***************************************************************************)
(* helpers/txn.go:83, "1 hour window": no more transactions are counted    *)
(* than those dated within the hour before the request arrived, or later.  *)
(***************************************************************************)
OnlyRecentAreCounted ==
    \A i \in DOMAIN txns : txns[i].via = "post" =>
        txns[i].seen
          <= Cardinality(RowsSeenBy(i, i - 1, txns[i].since))

(***************************************************************************)
(* helpers/txn.go:83-84, "each transaction adds X (20) to risk score": the *)
(* n-th transaction of the hour is scored with the n-1 before it.          *)
(***************************************************************************)
EachTransactionAdds ==
    \A i \in DOMAIN txns : txns[i].via = "post" =>
        txns[i].seen >= Cardinality(RowsSeenBy(i, i - 1, txns[i].at))

\* The transactions of u when there were n of all.
History(u, n) == {i \in RowsOf(u) : i <= n}

\* Those of them that are dated no later than the transaction "last".
HistoryTo(u, n, last) == {i \in History(u, n) : txns[i].at <= txns[last].at}

Recounted(u, rows) == \E n \in 0..Len(txns) : rows = History(u, n)

Averaged(u, rows) ==
    \/ Recounted(u, rows)
    \/ \E n \in 0..Len(txns), last \in DOMAIN txns : rows = HistoryTo(u, n, last)

Snapshot(u, profile) ==
    Averaged(u, profile.basis) /\ Recounted(u, profile.counted)

\* What one job has read: of all users at one moment, with one cutoff.
ReadTogether(snapshot) ==
    \/ \A u \in Users : snapshot[u] = {}
    \/ \E n \in 0..Len(txns), last \in DOMAIN txns :
         \A u \in Users : snapshot[u] = HistoryTo(u, n, last)

(***************************************************************************)
(* Each of the two groups of columns of a profile is the aggregate of one  *)
(* moment of its user's own past: the totals of everything there was, the  *)
(* averages of everything, or of everything dated before some cutoff.  It  *)
(* is so in the table, in the profiles that requests hold and in what a    *)
(* statement is about to write, and a job reads all users at one moment.   *)
(* The two groups may stand for different moments: the nightly job writes  *)
(* one of them only (sql.go:114-122).                                      *)
(***************************************************************************)
ProfilesAreSnapshots ==
    /\ \A u \in Users : Snapshot(u, profiles[u])
    /\ \A p \in Posts : posts[p].pc # "idle" =>
         Snapshot(posts[p].user, posts[p].profile)
    /\ \A j \in Uploads : Busy(j) =>
         /\ Snapshot(uploads[j].user, uploads[j].profile)
         /\ Recounted(uploads[j].user, uploads[j].snapshot)
    /\ \A d \in Days : rebuilds[d].pc = "store" =>
         ReadTogether(rebuilds[d].snapshot)

(***************************************************************************)
(* The service implements ProfileLedger as long as one upload of a user    *)
(* runs at a time: the two-step statements, their delays and the crashes   *)
(* between the steps show nowhere in the tables.                           *)
(***************************************************************************)
Ledger == INSTANCE ProfileLedger WITH ledger <- txns, summaries <- profiles

LedgerSpec == Ledger!Spec

(***************************************************************************)
(* An upload is answered, or the process crashes first, whatever its lines *)
(* are and whichever queries fail, unless its file cannot be read to the   *)
(* end: the loop goes on after every error of the iterator, and to one     *)
(* that comes again and again there is no end.  (txn_service.go:209-217.)  *)
(***************************************************************************)
UploadsAreAnswered ==
    \A j \in Uploads : Busy(j) ~> ~Busy(j) \/ uploads[j].broken

(***************************************************************************)
(* A job comes to an end, whatever it finds.                               *)
(***************************************************************************)
RebuildsEnd ==
    \A d \in Days : rebuilds[d].pc = "started"
        ~> rebuilds[d].pc \in {"done", "failed", "missed"}
=============================================================================
