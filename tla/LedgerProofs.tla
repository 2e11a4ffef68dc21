---------------------------- MODULE LedgerProofs ---------------------------
(***************************************************************************)
(* What the tables promise to whoever scores a transaction, for any number *)
(* of users, requests, uploads and jobs, with any failures and crashes:    *)
(* the service implements ProfileLedger, and the averages of a night cover *)
(* the days before it.                                                     *)
(***************************************************************************)
EXTENDS UploadProofs, WellFoundedInduction

-----------------------------------------------------------------------------

(***************************************************************************)
(* What a statement may have read, by some moment of the ledger: all of a  *)
(* user's rows until then, or those of them before a date; the nightly job *)
(* reads all users at one moment and before one date.                      *)
(***************************************************************************)
Past(ledger, u, n) == {i \in 1..n : ledger[i].user = u}

Dated(ledger, u, n, cutoff) == {i \in Past(ledger, u, n) : ledger[i].at < cutoff}

Moment(ledger, u, rows) == \E n \in 0..Len(ledger) : rows = Past(ledger, u, n)

Averages(ledger, u, rows) ==
    \/ Moment(ledger, u, rows)
    \/ \E n \in 0..Len(ledger), cutoff \in Int : rows = Dated(ledger, u, n, cutoff)

Together(ledger, snapshot) ==
    \E n \in 0..Len(ledger), cutoff \in Int :
        \A u \in Users : snapshot[u] = Dated(ledger, u, n, cutoff)

LEMMA LedgerContinues ==
    ASSUME TypeOK, [Next]_vars
    PROVE  txns \in Seq(Row) /\ Continues(txns', txns)
BY StepMoves DEF TypeOK, StoreTypeOK, LedgerGrows, Continues

\* The ledger after a step is the ledger before it, with what was appended.
LEMMA LedgerExtends ==
    ASSUME TypeOK, [Next]_vars
    PROVE  /\ txns \in Seq(Row)
           /\ DOMAIN txns = 1..Len(txns) /\ Len(txns) \in Nat /\ Len(txns') \in Nat
           /\ Len(txns) <= Len(txns')
           /\ \A i \in DOMAIN txns : i \in DOMAIN txns' /\ txns'[i] = txns[i]
<1>1. txns \in Seq(Row) /\ Continues(txns', txns)
  BY LedgerContinues
<1>2. ASSUME NEW row \in Row, txns' = Append(txns, row)
      PROVE  /\ Len(txns') = Len(txns) + 1
             /\ \A i \in DOMAIN txns : i \in DOMAIN txns' /\ txns'[i] = txns[i]
  BY <1>1, <1>2
<1> QED
  BY <1>1, <1>2 DEF Continues

\* The past does not change.
LEMMA DatedStays ==
    ASSUME TypeOK, [Next]_vars, NEW n \in 0..Len(txns), NEW u
    PROVE  /\ n \in 0..Len(txns')
           /\ Past(txns', u, n) = Past(txns, u, n)
           /\ \A cutoff \in Int : Dated(txns', u, n, cutoff) = Dated(txns, u, n, cutoff)
<1>1. n \in 0..Len(txns') /\ 1..n \subseteq DOMAIN txns
  BY LedgerExtends
<1>2. Past(txns', u, n) = Past(txns, u, n)
  BY <1>1, LedgerExtends DEF Past
<1>3. Past(txns, u, n) \subseteq DOMAIN txns
  BY <1>1 DEF Past
<1> QED
  BY <1>1, <1>2, <1>3, LedgerExtends DEF Dated

LEMMA PastStays ==
    ASSUME TypeOK, [Next]_vars
    PROVE  /\ \A u, rows : Moment(txns, u, rows) => Moment(txns', u, rows)
           /\ \A u, rows : Averages(txns, u, rows) => Averages(txns', u, rows)
           /\ \A snapshot : Together(txns, snapshot) => Together(txns', snapshot)
<1>1. ASSUME NEW n \in 0..Len(txns), NEW u
      PROVE  /\ n \in 0..Len(txns')
             /\ Past(txns', u, n) = Past(txns, u, n)
             /\ \A cutoff \in Int : Dated(txns', u, n, cutoff) = Dated(txns, u, n, cutoff)
  BY DatedStays
<1>2. ASSUME NEW u, NEW rows, Moment(txns, u, rows) PROVE Moment(txns', u, rows)
  BY <1>1, <1>2 DEF Moment
<1>3. ASSUME NEW u, NEW rows, Averages(txns, u, rows) PROVE Averages(txns', u, rows)
  <2>1. ASSUME NEW n \in 0..Len(txns), NEW cutoff \in Int,
               rows = Dated(txns, u, n, cutoff)
        PROVE  Averages(txns', u, rows)
    <3>1. n \in 0..Len(txns') /\ rows = Dated(txns', u, n, cutoff)
      BY <1>1, <2>1
    <3> QED
      BY <3>1 DEF Averages
  <2> QED
    BY <1>2, <1>3, <2>1 DEF Averages
<1>4. ASSUME NEW snapshot, Together(txns, snapshot) PROVE Together(txns', snapshot)
  <2>1. PICK n \in 0..Len(txns), cutoff \in Int :
          \A u \in Users : snapshot[u] = Dated(txns, u, n, cutoff)
    BY <1>4 DEF Together
  <2>2. \A u \in Users : snapshot[u] = Dated(txns', u, n, cutoff)
    BY <1>1, <2>1
  <2>3. n \in 0..Len(txns')
    BY <1>1
  <2> QED
    BY <2>2, <2>3 DEF Together
<1> QED
  BY <1>2, <1>3, <1>4

LEMMA NothingIsPast ==
    ASSUME TypeOK, NEW u
    PROVE  Moment(txns, u, {})
<1>1. 0 \in 0..Len(txns)
  BY DEF TypeOK, StoreTypeOK
<1>2. Past(txns, u, 0) = {}
  BY DEF Past
<1> QED
  BY <1>1, <1>2 DEF Moment

\* What the statements read is of now.
LEMMA ReadsAreOfNow ==
    ASSUME StoreTypeOK
    PROVE  /\ \A u : Moment(txns, u, RowsOf(u))
           /\ Together(txns, [u \in Users |-> ClosedRows(u)])
<1>1. DOMAIN txns = 1..Len(txns) /\ Len(txns) \in 0..Len(txns)
  BY DEF StoreTypeOK
<1>2. \A u : RowsOf(u) = Past(txns, u, Len(txns))
  BY <1>1 DEF RowsOf, Past
<1>3. Today \in Int
  <2>1. now \in Int /\ DayTicks \in Int /\ DayTicks > 0
    BY DayAssumption DEF StoreTypeOK
  <2>2. now \div DayTicks \in Int
    BY <2>1
  <2> QED
    BY <2>1, <2>2 DEF Today
<1>4. \A u : ClosedRows(u) = Dated(txns, u, Len(txns), Today)
  BY <1>2 DEF ClosedRows, Dated
<1>5. \A u \in Users : [v \in Users |-> ClosedRows(v)][u]
                         = Dated(txns, u, Len(txns), Today)
  BY <1>4
<1> QED
  BY <1>1, <1>2, <1>3, <1>5 DEF Moment, Together

\* Among rows dated before a cutoff there is a latest one.
LEMMA LatestRow ==
    ASSUME NEW ledger \in Seq(Row), NEW rows, rows \subseteq DOMAIN ledger,
           rows # {}, NEW cutoff \in Int, \A i \in rows : ledger[i].at < cutoff
    PROVE  \E last \in rows : \A i \in rows : ledger[i].at <= ledger[last].at
<1> DEFINE ages == {cutoff - ledger[i].at : i \in rows}
<1>1. ASSUME NEW i \in rows
      PROVE  ledger[i].at \in Int /\ cutoff - ledger[i].at \in Nat
  <2>1. i \in DOMAIN ledger /\ ledger[i].at < cutoff
    OBVIOUS
  <2>2. ledger[i] \in Row
    BY <2>1
  <2>3. ledger[i].at \in Int
    BY <2>2 DEF Row
  <2> QED
    BY <2>1, <2>3
<1>2. ages \subseteq Nat /\ ages # {}
  BY <1>1
<1>3. PICK least \in ages : \A age \in ages : ~(<<age, least>> \in OpToRel(<, Nat))
  BY <1>2, NatLessThanWellFounded, WFMin, Zenon
<1>4. \A age \in ages : ~(age < least)
  BY <1>2, <1>3, Zenon DEF OpToRel
<1>5. PICK last \in rows : least = cutoff - ledger[last].at
  BY <1>3
<1>6. ASSUME NEW i \in rows PROVE ledger[i].at <= ledger[last].at
  <2>1. ~(cutoff - ledger[i].at < cutoff - ledger[last].at)
    BY <1>4, <1>5
  <2>2. ledger[i].at \in Int /\ ledger[last].at \in Int
    BY <1>1
  <2> QED
    BY <2>1, <2>2
<1> QED
  BY <1>6

\* The cutoff may be that of the latest row that was read.
LEMMA LatestCutsOff ==
    ASSUME StoreTypeOK, NEW snapshot, Together(txns, snapshot),
           NEW w \in Users, snapshot[w] # {}
    PROVE  \E n \in 1..Len(txns), last \in DOMAIN txns :
             \A u \in Users : snapshot[u] = Dated(txns, u, n, txns[last].at + 1)
<1>1. PICK n \in 0..Len(txns), cutoff \in Int :
        \A u \in Users : snapshot[u] = Dated(txns, u, n, cutoff)
  BY DEF Together
<1>2. /\ txns \in Seq(Row) /\ DOMAIN txns = 1..Len(txns) /\ Len(txns) \in Nat
      /\ n \in 0..Len(txns) /\ 1..n \subseteq DOMAIN txns
  BY DEF StoreTypeOK
<1> DEFINE rows == UNION {snapshot[u] : u \in Users}
<1>3. /\ rows \subseteq 1..n /\ rows # {}
      /\ \A i \in rows : txns[i].at < cutoff
  BY <1>1 DEF Dated, Past
<1>4. n \in 1..Len(txns)
  BY <1>2, <1>3
<1>5. PICK last \in rows : \A i \in rows : txns[i].at <= txns[last].at
  BY <1>2, <1>3, LatestRow
<1>6. last \in DOMAIN txns /\ txns[last].at < cutoff
  BY <1>2, <1>3
<1>7. \A i \in DOMAIN txns : txns[i].at \in Int
  <2>1. \A i \in DOMAIN txns : txns[i] \in Row
    BY <1>2
  <2> QED
    BY <2>1 DEF Row
<1>8. ASSUME NEW u \in Users
      PROVE  snapshot[u] = Dated(txns, u, n, txns[last].at + 1)
  <2>1. snapshot[u] = Dated(txns, u, n, cutoff) /\ snapshot[u] \subseteq rows
    BY <1>1
  <2> HIDE DEF rows
  <2>2. ASSUME NEW i \in Past(txns, u, n)
        PROVE  txns[i].at < cutoff <=> txns[i].at < txns[last].at + 1
    <3>1. i \in DOMAIN txns
      BY <1>2 DEF Past
    <3>2. txns[i].at \in Int /\ txns[last].at \in Int
      BY <1>6, <1>7, <3>1
    <3>3. txns[i].at < cutoff => txns[i].at <= txns[last].at
      BY <1>5, <2>1 DEF Dated
    <3> QED
      BY <1>6, <3>2, <3>3
  <2> QED
    BY <2>1, <2>2 DEF Dated
<1> QED
  BY <1>4, <1>6, <1>8

\* What was read is what the property speaks of.
LEMMA CutAtLast ==
    ASSUME StoreTypeOK, NEW u, NEW n \in 0..Len(txns)
    PROVE  /\ Past(txns, u, n) = History(u, n)
           /\ \A last \in DOMAIN txns :
                Dated(txns, u, n, txns[last].at + 1) = HistoryTo(u, n, last)
<1>1. DOMAIN txns = 1..Len(txns) /\ Len(txns) \in Nat
  BY DEF StoreTypeOK
<1>2. Past(txns, u, n) = History(u, n)
  BY <1>1 DEF Past, History, RowsOf
<1>3. \A i \in DOMAIN txns : txns[i].at \in Int
  <2>1. \A i \in DOMAIN txns : txns[i] \in Row
    BY DEF StoreTypeOK
  <2> QED
    BY <2>1 DEF Row
<1>4. ASSUME NEW last \in DOMAIN txns
      PROVE  Dated(txns, u, n, txns[last].at + 1) = HistoryTo(u, n, last)
  <2>1. ASSUME NEW i \in History(u, n)
        PROVE  txns[i].at < txns[last].at + 1 <=> txns[i].at <= txns[last].at
    <3>1. txns[i].at \in Int /\ txns[last].at \in Int
      BY <1>3 DEF History, RowsOf
    <3> QED
      BY <3>1
  <2> QED
    BY <1>2, <2>1 DEF Dated, HistoryTo
<1> QED
  BY <1>2, <1>4

LEMMA ReadingsAreHistories ==
    ASSUME StoreTypeOK, NEW u \in Users
    PROVE  /\ \A rows : Moment(txns, u, rows) => Recounted(u, rows)
           /\ \A rows : Averages(txns, u, rows) => Averaged(u, rows)
<1>1. ASSUME NEW rows, Moment(txns, u, rows) PROVE Recounted(u, rows)
  BY <1>1, CutAtLast DEF Moment, Recounted
<1>2. ASSUME NEW n \in 0..Len(txns), NEW cutoff \in Int
      PROVE  Averaged(u, Dated(txns, u, n, cutoff))
  <2> DEFINE snapshot == [v \in Users |-> Dated(txns, v, n, cutoff)]
  <2>1. Together(txns, snapshot) /\ snapshot[u] = Dated(txns, u, n, cutoff)
    BY DEF Together
  <2> HIDE DEF snapshot
  <2>2. CASE snapshot[u] = {}
    <3>1. Moment(txns, u, {})
      <4>1. 0 \in 0..Len(txns) /\ Past(txns, u, 0) = {}
        BY DEF Past
      <4> QED
        BY <4>1 DEF Moment
    <3> QED
      BY <1>1, <2>1, <2>2, <3>1 DEF Averaged
  <2>3. CASE snapshot[u] # {}
    <3>1. PICK m \in 1..Len(txns), last \in DOMAIN txns :
            \A v \in Users : snapshot[v] = Dated(txns, v, m, txns[last].at + 1)
      BY <2>1, <2>3, LatestCutsOff
    <3>2. m \in 0..Len(txns)
      BY <3>1
    <3>3. snapshot[u] = HistoryTo(u, m, last)
      BY <3>1, <3>2, CutAtLast
    <3> QED
      BY <2>1, <3>2, <3>3 DEF Averaged
  <2> QED
    BY <2>2, <2>3
<1>3. ASSUME NEW rows, Averages(txns, u, rows) PROVE Averaged(u, rows)
  BY <1>1, <1>2, <1>3 DEF Averages, Averaged
<1> QED
  BY <1>1, <1>3

LEMMA TogetherIsReadTogether ==
    ASSUME StoreTypeOK, NEW snapshot, Together(txns, snapshot)
    PROVE  ReadTogether(snapshot)
<1>1. ASSUME NEW w \in Users, snapshot[w] # {}
      PROVE  ReadTogether(snapshot)
  <2>1. PICK n \in 1..Len(txns), last \in DOMAIN txns :
          \A u \in Users : snapshot[u] = Dated(txns, u, n, txns[last].at + 1)
    BY <1>1, LatestCutsOff
  <2>2. n \in 0..Len(txns)
    BY <2>1
  <2>3. \A u \in Users : snapshot[u] = HistoryTo(u, n, last)
    BY <2>1, <2>2, CutAtLast
  <2> QED
    BY <2>2, <2>3 DEF ReadTogether
<1> QED
  BY <1>1 DEF ReadTogether

-----------------------------------------------------------------------------

(***************************************************************************)
(* The two groups of columns of a profile were each read at one moment of  *)
(* the past, wherever the profile is: in the table, in the requests that   *)
(* read it and in the statements that will write it.  So it is for any     *)
(* number of users, requests, uploads and jobs, in any order, with any     *)
(* failures and crashes.                                                   *)
(*                                                                         *)
(* The inductive invariant says so of every profile and of what has been   *)
(* read but not yet written, in the terms above, which do not change when  *)
(* the ledger grows.                                                       *)
(***************************************************************************)
SnapshotIn(ledger, u, profile) ==
    Averages(ledger, u, profile.basis) /\ Moment(ledger, u, profile.counted)

StoredSnapshots == \A u \in Users : SnapshotIn(txns, u, profiles[u])

PostSnapshots ==
    \A p \in Posts : posts[p].pc # "idle" =>
        SnapshotIn(txns, posts[p].user, posts[p].profile)

UploadSnapshot(upload, ledger) ==
    /\ SnapshotIn(ledger, upload.user, upload.profile)
    /\ Moment(ledger, upload.user, upload.snapshot)

UploadSnapshots == \A j \in Uploads : Busy(j) => UploadSnapshot(uploads[j], txns)

RebuildReads ==
    \A d \in Days : rebuilds[d].pc = "store" => Together(txns, rebuilds[d].snapshot)

SnapshotInv ==
    StoredSnapshots /\ PostSnapshots /\ UploadSnapshots /\ RebuildReads

LEMMA SnapshotInvSuffices == TypeOK /\ SnapshotInv => ProfilesAreSnapshots
<1> SUFFICES ASSUME TypeOK, SnapshotInv PROVE ProfilesAreSnapshots
  OBVIOUS
<1>1. StoreTypeOK
  BY DEF TypeOK
<1>2. ASSUME NEW u \in Users, NEW profile, SnapshotIn(txns, u, profile)
      PROVE  Snapshot(u, profile)
  BY <1>1, <1>2, ReadingsAreHistories DEF SnapshotIn, Snapshot
<1>3. ASSUME NEW p \in Posts, posts[p].pc # "idle"
      PROVE  Snapshot(posts[p].user, posts[p].profile)
  <2>1. posts[p].user \in Users
    BY <1>3, ActivePost DEF TypeOK, PostTypeOK, Post
  <2> QED
    BY <1>2, <1>3, <2>1 DEF SnapshotInv, PostSnapshots
<1>4. ASSUME NEW j \in Uploads, Busy(j)
      PROVE  /\ Snapshot(uploads[j].user, uploads[j].profile)
             /\ Recounted(uploads[j].user, uploads[j].snapshot)
  <2>1. uploads[j].user \in Users
    BY <1>4, ActiveUpload DEF TypeOK, Busy, Upload
  <2> QED
    BY <1>1, <1>2, <1>4, <2>1, ReadingsAreHistories
    DEF SnapshotInv, UploadSnapshots, UploadSnapshot
<1>5. \A u \in Users : Snapshot(u, profiles[u])
  BY <1>2 DEF SnapshotInv, StoredSnapshots
<1>6. \A d \in Days : rebuilds[d].pc = "store" => ReadTogether(rebuilds[d].snapshot)
  BY <1>1, TogetherIsReadTogether DEF SnapshotInv, RebuildReads
<1> QED
  BY <1>3, <1>4, <1>5, <1>6 DEF ProfilesAreSnapshots

LEMMA EmptyProfileIsSnapshot ==
    ASSUME TypeOK, NEW u
    PROVE  SnapshotIn(txns, u, NoProfile) /\ Moment(txns, u, {})
BY NothingIsPast DEF SnapshotIn, Averages, NoProfile

LEMMA SnapshotsStay ==
    ASSUME TypeOK, [Next]_vars, NEW u, NEW profile, SnapshotIn(txns, u, profile)
    PROVE  SnapshotIn(txns', u, profile)
BY PastStays DEF SnapshotIn

-----------------------------------------------------------------------------

LEMMA InitSnapshots == Init => SnapshotInv
<1> SUFFICES ASSUME Init PROVE SnapshotInv
  OBVIOUS
<1>1. TypeOK
  BY InitTypeOK
<1>2. StoredSnapshots
  BY <1>1, EmptyProfileIsSnapshot DEF Init, StoreInit, StoredSnapshots, NoProfile
<1>3. PostSnapshots /\ UploadSnapshots
  BY DEF Init, PostInit, NoPost, PostSnapshots, UploadInit, NoUpload,
         UploadSnapshots, Busy
<1>4. RebuildReads
  BY DEF Init, RebuildInit, NoRebuild, RebuildReads
<1> QED
  BY <1>2, <1>3, <1>4 DEF SnapshotInv

\* Two statements write profiles.
LEMMA ProfileMoves ==
    ASSUME TypeOK, [Next]_vars
    PROVE  \/ profiles' = profiles
           \/ \E j \in Uploads : CommitRecalculate(j)
           \/ \E d \in Days : CommitRebuild(d)
<1>1. UNCHANGED storeVars => profiles' = profiles
  BY DEF storeVars
<1>2. ASSUME NEW p \in Posts, PostArrives(p) \/ PostAdvances(p)
      PROVE  profiles' = profiles
  BY <1>1, <1>2
  DEF PostArrives, ReceivePost, PostAdvances, PostStep, LoadPostProfile,
      CountRecentTransactions, AnalyzePost, InsertPost, CreateTransaction
<1>3. ASSUME NEW j \in Uploads, UploadArrives(j) \/ UploadAdvances(j)
      PROVE  profiles' = profiles \/ CommitRecalculate(j)
  BY <1>1, <1>3
  DEF UploadArrives, ReceiveUpload, UploadAdvances, UploadStep,
      LoadUploadProfile, ReadBadRecord, ReadBrokenFile, ReadBadAmount,
      ReadTransaction, InsertUploaded, CreateTransaction, FailInsert, ReadEOF,
      BeginRecalculate, FailRecalculate, RefreshProfile, RespondUpload
<1>4. ASSUME NEW d \in Days, RebuildAdvances(d)
      PROVE  profiles' = profiles \/ CommitRebuild(d)
  BY <1>1, <1>4 DEF RebuildAdvances, RebuildNext, BeginRebuild, FailRebuild
<1>5. Tick \/ Crash \/ Restart \/ AwaitRequests \/ UNCHANGED vars
        => profiles' = profiles
  BY <1>1 DEF Tick, Crash, Restart, AwaitRequests, vars
<1> QED
  BY <1>2, <1>3, <1>4, <1>5 DEF Next

LEMMA StoredKeep ==
    ASSUME TypeOK, SnapshotInv, [Next]_vars
    PROVE  StoredSnapshots'
<1>1. /\ profiles \in [Users -> Profile]
      /\ uploads \in [Uploads -> {NoUpload} \cup Upload]
  BY DEF TypeOK, StoreTypeOK, UploadTypeOK
<1> SUFFICES ASSUME NEW u \in Users PROVE SnapshotIn(txns', u, profiles'[u])
  BY DEF StoredSnapshots
<1>2. SnapshotIn(txns, u, profiles[u])
  BY DEF SnapshotInv, StoredSnapshots
<1>3. CASE profiles'[u] = profiles[u]
  BY <1>2, <1>3, SnapshotsStay
<1>4. ASSUME NEW j \in Uploads, CommitRecalculate(j)
      PROVE  SnapshotIn(txns', u, profiles'[u])
  <2> DEFINE upload == uploads[j]
  <2>1. /\ upload.pc = "store" /\ txns' = txns
        /\ profiles' = [profiles EXCEPT
                          ![upload.user] = RecalculatedProfile(upload.snapshot)]
    BY <1>4 DEF CommitRecalculate, SetProfile
  <2>2. Moment(txns, upload.user, upload.snapshot)
    BY <2>1 DEF SnapshotInv, UploadSnapshots, UploadSnapshot, Busy
  <2>3. SnapshotIn(txns, upload.user, RecalculatedProfile(upload.snapshot))
    BY <2>2 DEF SnapshotIn, Averages, RecalculatedProfile
  <2>4. CASE upload.user = u
    BY <1>1, <2>1, <2>3, <2>4
  <2>5. CASE upload.user # u
    BY <1>1, <1>3, <2>1, <2>5
  <2> QED
    BY <2>4, <2>5
<1>5. ASSUME NEW d \in Days, CommitRebuild(d)
      PROVE  SnapshotIn(txns', u, profiles'[u])
  <2> DEFINE rows == rebuilds[d].snapshot[u]
  <2>1. /\ txns' = txns /\ profiles'[u] \in {profiles[u], RebuiltProfile(u, rows)}
        /\ Together(txns, rebuilds[d].snapshot)
    BY <1>5 DEF CommitRebuild, SnapshotInv, RebuildReads
  <2>2. Averages(txns, u, rows)
    BY <2>1 DEF Together, Averages
  <2>3. SnapshotIn(txns, u, RebuiltProfile(u, rows))
    BY <1>2, <2>2 DEF SnapshotIn, RebuiltProfile
  <2> QED
    BY <1>3, <2>1, <2>3
<1> QED
  BY <1>3, <1>4, <1>5, ProfileMoves

LEMMA PostsKeep ==
    ASSUME TypeOK, SnapshotInv, [Next]_vars
    PROVE  PostSnapshots'
<1> SUFFICES ASSUME NEW p \in Posts, posts'[p].pc # "idle"
             PROVE  SnapshotIn(txns', posts'[p].user, posts'[p].profile)
  BY DEF PostSnapshots
<1>1. /\ posts \in [Posts -> {NoPost} \cup Post]
      /\ posts[p].pc # "idle" =>
           posts[p] \in Post /\ SnapshotIn(txns, posts[p].user, posts[p].profile)
  BY ActivePost DEF TypeOK, PostTypeOK, Post, SnapshotInv, PostSnapshots
<1>2. CASE posts'[p] = posts[p]
  BY <1>1, <1>2, SnapshotsStay
<1>3. CASE posts'[p] = NoPost
  BY <1>3 DEF NoPost
<1>4. ASSUME UNCHANGED storeVars, Proceeds(p)
      PROVE  SnapshotIn(txns, posts'[p].user, posts'[p].profile)
  <2>1. ASSUME NEW u \in Users, posts'[p] = PostAt("profile", u)
        PROVE  SnapshotIn(txns, posts'[p].user, posts'[p].profile)
    BY <2>1, EmptyProfileIsSnapshot DEF PostAt
  <2>2. ASSUME posts[p].pc = "profile", NEW profile \in ProfileReads(posts[p].user),
               posts'[p] = [posts[p] EXCEPT !.pc = "count", !.profile = profile]
        PROVE  SnapshotIn(txns, posts'[p].user, posts'[p].profile)
    <3>1. /\ posts[p].user \in Users /\ posts'[p].profile = profile
          /\ posts'[p].user = posts[p].user
      BY <1>1, <2>2 DEF Post
    <3>2. profile \in {profiles[posts[p].user], NoProfile}
      BY <2>2 DEF ProfileReads
    <3> QED
      BY <3>1, <3>2, EmptyProfileIsSnapshot DEF SnapshotInv, StoredSnapshots
  <2>3. ASSUME posts[p].pc = "count", NEW count,
               posts'[p] = [posts[p] EXCEPT !.pc = "analyze", !.count = count]
        PROVE  SnapshotIn(txns, posts'[p].user, posts'[p].profile)
    BY <1>1, <2>3 DEF Post
  <2>4. ASSUME posts[p].pc = "analyze",
               posts'[p] = [posts[p] EXCEPT !.pc = "insert", !.at = AppNow]
        PROVE  SnapshotIn(txns, posts'[p].user, posts'[p].profile)
    BY <1>1, <2>4 DEF Post
  <2> QED
    BY <1>4, <2>1, <2>2, <2>3, <2>4 DEF Proceeds
<1>5. RequestMoves(p)
  BY StepMoves
<1> QED
  BY <1>2, <1>3, <1>4, <1>5 DEF RequestMoves, storeVars

\* What an upload holds is replaced by what it reads, if at all.
LEMMA UploadReads ==
    ASSUME TypeOK, SnapshotInv, NEW j \in Uploads, UploadStep(j),
           uploads'[j].pc # "idle"
    PROVE  /\ Busy(j) /\ uploads'[j].user = uploads[j].user
           /\ uploads'[j].profile
                \in {uploads[j].profile, profiles[uploads[j].user], NoProfile}
           /\ uploads'[j].snapshot
                \in {uploads[j].snapshot, RowsOf(uploads[j].user), {}}
<1> DEFINE before == uploads[j]
           after == uploads'[j]
<1>1. uploads \in [Uploads -> {NoUpload} \cup Upload]
  BY DEF TypeOK, UploadTypeOK
<1>2. Busy(j) /\ before \in Upload
  <2>1. before.pc # "idle"
    BY DEF UploadStep, LoadUploadProfile, CanReadLine, ReadBadRecord,
           ReadBrokenFile, ReadBadAmount, ReadTransaction, InsertUploaded, FailInsert, ReadEOF,
           BeginRecalculate, FailRecalculate, CommitRecalculate, RefreshProfile,
           RespondUpload
  <2> QED
    BY <2>1, ActiveUpload DEF TypeOK, Busy
<1>3. ASSUME NEW upload, SetUpload(j, upload) PROVE after = upload
  BY <1>1, <1>3 DEF SetUpload
<1>4. ASSUME after.user = before.user, after.profile = before.profile,
             after.snapshot = before.snapshot
      PROVE  /\ after.user = before.user
             /\ after.profile \in {before.profile, profiles[before.user], NoProfile}
             /\ after.snapshot \in {before.snapshot, RowsOf(before.user), {}}
  BY <1>4
<1>5. CASE ReadBadRecord(j) \/ ReadBadAmount(j)
  BY <1>2, <1>3, <1>4, <1>5 DEF ReadBadRecord, ReadBadAmount, Upload
<1>6. CASE ReadTransaction(j)
  <2>1. PICK at, fits, mode :
          SetUpload(j, [before EXCEPT
              !.pc = "insert", !.line = [at |-> at, fits |-> fits, mode |-> mode],
              !.processed = @ + 1, !.batchCount = @ + 1, !.lines = @ + 1])
    BY <1>6 DEF ReadTransaction
  <2> DEFINE line == [at |-> at, fits |-> fits, mode |-> mode]
  <2> HIDE DEF line
  <2>2. after = [before EXCEPT
              !.pc = "insert", !.line = line,
              !.processed = @ + 1, !.batchCount = @ + 1, !.lines = @ + 1]
    BY <1>3, <2>1 DEF line
  <2> QED
    BY <1>2, <1>4, <2>2 DEF Upload
<1>7. CASE InsertUploaded(j)
  BY <1>2, <1>4, <1>7, RowInserted DEF TypeOK
<1>8. CASE FailInsert(j) \/ ReadEOF(j) \/ FailRecalculate(j)
  <2>1. CASE FailInsert(j)
    BY <1>2, <1>3, <1>4, <2>1 DEF FailInsert, Upload
  <2>2. CASE ReadEOF(j)
    BY <1>2, <1>3, <1>4, <2>2 DEF ReadEOF, Upload
  <2>3. CASE FailRecalculate(j)
    BY <1>2, <1>3, <1>4, <2>3 DEF FailRecalculate, Upload
  <2> QED
    BY <1>8, <2>1, <2>2, <2>3
<1>9. CASE LoadUploadProfile(j)
  <2>1. PICK profile \in ProfileReads(before.user) :
          after = [before EXCEPT !.pc = "read", !.profile = profile]
    BY <1>3, <1>9 DEF LoadUploadProfile
  <2>2. profile \in {profiles[before.user], NoProfile}
    BY DEF ProfileReads
  <2>3. /\ after.user = before.user /\ after.profile = profile
        /\ after.snapshot = before.snapshot
    BY <1>2, <2>1 DEF Upload
  <2> QED
    BY <1>2, <2>2, <2>3
<1>10. CASE BeginRecalculate(j)
  <2>1. after = [before EXCEPT !.pc = "store", !.snapshot = RowsOf(before.user)]
    BY <1>3, <1>10 DEF BeginRecalculate
  <2>2. /\ after.user = before.user /\ after.profile = before.profile
        /\ after.snapshot = RowsOf(before.user)
    BY <1>2, <2>1 DEF Upload
  <2> QED
    BY <1>2, <2>2
<1>11. CASE CommitRecalculate(j)
  <2>1. /\ after.user = before.user /\ after.profile = before.profile
        /\ after.snapshot = {}
    BY <1>11, RecalculationWritten DEF TypeOK
  <2> QED
    BY <1>2, <2>1
<1>12. CASE RefreshProfile(j)
  <2>1. PICK profile \in {profiles[before.user]} \cup
                        (IF Fails("getProfile") THEN {before.profile} ELSE {}) :
          after = [before EXCEPT !.pc = "read", !.profile = profile,
                                 !.batchCount = 0]
    BY <1>3, <1>12 DEF RefreshProfile
  <2>2. profile \in {profiles[before.user], before.profile}
    OBVIOUS
  <2>3. /\ after.user = before.user /\ after.profile = profile
        /\ after.snapshot = before.snapshot
    BY <1>2, <2>1 DEF Upload
  <2> QED
    BY <1>2, <2>2, <2>3
<1>13. ~RespondUpload(j)
  BY <1>3 DEF RespondUpload, NoUpload
<1>14. CASE ReadBrokenFile(j)
  BY <1>2, <1>4, <1>14, FileBreaks DEF TypeOK
<1> QED
  BY <1>2, <1>4, <1>5, <1>6, <1>7, <1>8, <1>9, <1>10, <1>11, <1>12, <1>13, <1>14
  DEF UploadStep

LEMMA UploadsKeep ==
    ASSUME TypeOK, SnapshotInv, [Next]_vars
    PROVE  UploadSnapshots'
<1>1. uploads \in [Uploads -> {NoUpload} \cup Upload]
  BY DEF TypeOK, UploadTypeOK
<1> SUFFICES ASSUME NEW j \in Uploads, uploads'[j].pc # "idle"
             PROVE  UploadSnapshot(uploads'[j], txns')
  BY DEF UploadSnapshots, Busy
<1>2. ASSUME NEW upload, UploadSnapshot(upload, txns)
      PROVE  UploadSnapshot(upload, txns')
  BY <1>2, SnapshotsStay, PastStays DEF UploadSnapshot
<1>3. CASE uploads'[j] = uploads[j]
  BY <1>2, <1>3 DEF SnapshotInv, UploadSnapshots, Busy
<1>4. ASSUME NEW i \in Uploads, UploadArrives(i)
      PROVE  UploadSnapshot(uploads'[j], txns')
  <2>1. PICK u \in Users : uploads' = [uploads EXCEPT ![i] = UploadOf(u)]
    BY <1>4 DEF UploadArrives, ReceiveUpload, SetUpload
  <2>2. uploads'[j] \in {uploads[j], UploadOf(u)}
    BY <1>1, <2>1
  <2>3. UploadSnapshot(UploadOf(u), txns)
    BY EmptyProfileIsSnapshot DEF UploadSnapshot, UploadOf
  <2> QED
    BY <1>2, <1>3, <2>2, <2>3
<1>5. ASSUME NEW i \in Uploads, UploadAdvances(i)
      PROVE  UploadSnapshot(uploads'[j], txns')
  <2>1. UploadStep(i)
    BY <1>5 DEF UploadAdvances
  <2>2. CASE i = j
    <3> DEFINE before == uploads[j]
               after == uploads'[j]
    <3>1. /\ Busy(j) /\ after.user = before.user
          /\ after.profile \in {before.profile, profiles[before.user], NoProfile}
          /\ after.snapshot \in {before.snapshot, RowsOf(before.user), {}}
      BY <2>1, <2>2, UploadReads
    <3>2. UploadSnapshot(before, txns) /\ before.user \in Users
      BY <3>1, ActiveUpload
      DEF SnapshotInv, UploadSnapshots, TypeOK, Busy, Upload
    <3>3. SnapshotIn(txns, before.user, profiles[before.user])
      BY <3>2 DEF SnapshotInv, StoredSnapshots
    <3>4. Moment(txns, before.user, RowsOf(before.user))
      BY ReadsAreOfNow DEF TypeOK
    <3>5. UploadSnapshot(after, txns)
      BY <3>1, <3>2, <3>3, <3>4, EmptyProfileIsSnapshot DEF UploadSnapshot
    <3> QED
      BY <1>2, <3>5
  <2>3. CASE i # j
    <3>1. \E upload : uploads' = [uploads EXCEPT ![i] = upload]
      BY <2>1
      DEF UploadStep, LoadUploadProfile, ReadBadRecord, ReadBrokenFile,
          ReadBadAmount, ReadTransaction, InsertUploaded, FailInsert, ReadEOF,
          BeginRecalculate, FailRecalculate, CommitRecalculate, RefreshProfile,
          RespondUpload, SetUpload
    <3> QED
      BY <1>1, <1>3, <2>3, <3>1
  <2> QED
    BY <2>2, <2>3
<1>6. CASE Crash
  BY <1>6 DEF Crash, NoUpload
<1>7. ASSUME NEW p \in Posts, PostArrives(p) \/ PostAdvances(p)
      PROVE  UNCHANGED uploads
  BY <1>7 DEF PostArrives, PostAdvances, uploadVars
<1>8. ASSUME NEW d \in Days, RebuildAdvances(d) PROVE UNCHANGED uploads
  BY <1>8 DEF RebuildAdvances, uploadVars
<1>9. Tick \/ Restart \/ AwaitRequests \/ UNCHANGED vars => UNCHANGED uploads
  BY DEF Tick, Restart, AwaitRequests, vars, uploadVars
<1> QED
  BY <1>3, <1>4, <1>5, <1>6, <1>7, <1>8, <1>9 DEF Next

LEMMA RebuildReadsKeep ==
    ASSUME TypeOK, RebuildReads, [Next]_vars
    PROVE  RebuildReads'
<1>1. /\ rebuilds \in [Days -> RebuildJob]
      /\ \A d \in Days : rebuilds[d] \in RebuildJob
      /\ StoreTypeOK
  BY DEF TypeOK, RebuildTypeOK, RebuildJob
<1> SUFFICES ASSUME NEW d \in Days, rebuilds'[d].pc = "store"
             PROVE  Together(txns', rebuilds'[d].snapshot)
  BY DEF RebuildReads
<1>2. CASE rebuilds'[d] = rebuilds[d]
  BY <1>2, PastStays DEF RebuildReads
<1>3. ASSUME NEW e \in Days, RebuildAdvances(e)
      PROVE  Together(txns', rebuilds'[d].snapshot)
  <2>1. CASE BeginRebuild(e)
    <3> DEFINE snapshot == [u \in Users |-> ClosedRows(u)]
    <3>1. Together(txns, snapshot)
      BY <1>1, ReadsAreOfNow
    <3>2. /\ rebuilds' = [rebuilds EXCEPT
                            ![e] = [rebuilds[e] EXCEPT !.pc = "store",
                                                       !.snapshot = snapshot]]
          /\ txns' = txns
      BY <2>1 DEF BeginRebuild, storeVars
    <3> HIDE DEF snapshot
    <3>3. CASE d = e
      <4>1. rebuilds'[d].snapshot = snapshot
        BY <1>1, <3>2, <3>3 DEF RebuildJob
      <4> QED
        BY <3>1, <3>2, <4>1
    <3>4. CASE d # e
      BY <1>1, <1>2, <3>2, <3>4
    <3> QED
      BY <3>3, <3>4
  <2>2. ASSUME NEW pc, pc # "store",
               rebuilds' = [rebuilds EXCEPT ![e] = [rebuilds[e] EXCEPT !.pc = pc]]
        PROVE  Together(txns', rebuilds'[d].snapshot)
    <3>1. d # e
      BY <1>1, <2>2 DEF RebuildJob
    <3> QED
      BY <1>1, <1>2, <2>2, <3>1
  <2> QED
    BY <1>3, <2>1, <2>2
    DEF RebuildAdvances, RebuildNext, FailRebuild, CommitRebuild
<1>4. CASE Tick
  <2> DEFINE day == (now' + Skew) \div DayTicks
  <2>1. \/ UNCHANGED rebuilds
        \/ day \in Days /\ StartRebuild(day)
    BY <1>4 DEF Tick
  <2> HIDE DEF day
  <2>2. CASE day \in Days /\ StartRebuild(day)
    <3> DEFINE busy == {e \in Days : Running(e)}
               existing == Len(txns)
    <3>1. rebuilds' = [rebuilds EXCEPT
                         ![day] = [rebuilds[day] EXCEPT
                             !.pc = "started", !.existing = existing,
                             !.beside = busy]]
      BY <2>2 DEF StartRebuild
    <3> HIDE DEF busy, existing
    <3>2. d # day
      BY <1>1, <2>2, <3>1 DEF RebuildJob
    <3> QED
      BY <1>1, <1>2, <3>1, <3>2
  <2> QED
    BY <1>2, <2>1, <2>2
<1>5. CASE Crash
  <2>1. rebuilds'[d] = AbandonedRebuild(d)
    BY <1>5 DEF Crash
  <2>2. ~Running(d)
    <3>1. [rebuilds[d] EXCEPT !.pc = "missed"].pc = "missed"
      BY <1>1 DEF RebuildJob
    <3> QED
      BY <2>1, <3>1 DEF AbandonedRebuild
  <2> QED
    BY <1>2, <2>1, <2>2 DEF AbandonedRebuild
<1>6. ASSUME \/ \E p \in Posts : PostArrives(p) \/ PostAdvances(p)
             \/ \E j \in Uploads : UploadArrives(j) \/ UploadAdvances(j)
             \/ Restart
             \/ AwaitRequests
             \/ UNCHANGED vars
      PROVE  UNCHANGED rebuilds
  BY <1>6 DEF PostArrives, PostAdvances, UploadArrives, UploadAdvances, Restart,
              AwaitRequests, vars
<1> QED
  BY <1>2, <1>3, <1>4, <1>5, <1>6 DEF Next

(***************************************************************************)
(* No profile, stored, held or about to be written, mixes users, and none  *)
(* mixes moments within one of its two groups of columns, whatever         *)
(* overlaps, fails or crashes: the totals are always those of a history    *)
(* that the user really had, and the averages those of such a history up   *)
(* to some date, which for one nightly job are the same for all users.     *)
(***************************************************************************)
THEOREM ProfilesArePast == Spec => []ProfilesAreSnapshots
<1>1. TypeOK /\ SnapshotInv /\ [Next]_vars => SnapshotInv'
  BY StoredKeep, PostsKeep, UploadsKeep, RebuildReadsKeep DEF SnapshotInv
<1> QED
  BY <1>1, InitSnapshots, SnapshotInvSuffices, TypeCorrect, PTL DEF Spec

-----------------------------------------------------------------------------

(***************************************************************************)
(* What a recalculation has read has the counted rows among it.            *)
(***************************************************************************)
RecountReads ==
    \A j \in Uploads : uploads[j].pc = "store" =>
        /\ Moment(txns, uploads[j].user, uploads[j].snapshot)
        /\ profiles[uploads[j].user].counted \subseteq uploads[j].snapshot

LEMMA RecountReadsKeep ==
    ASSUME TypeOK, OneUploadPerUser, SnapshotInv, RecountReads, [Next]_vars
    PROVE  RecountReads'
<1>1. /\ uploads \in [Uploads -> {NoUpload} \cup Upload]
      /\ profiles \in [Users -> Profile] /\ StoreTypeOK
  BY DEF TypeOK, UploadTypeOK, StoreTypeOK
<1> SUFFICES ASSUME NEW j \in Uploads, uploads'[j].pc = "store"
             PROVE  /\ Moment(txns', uploads'[j].user, uploads'[j].snapshot)
                    /\ profiles'[uploads'[j].user].counted \subseteq uploads'[j].snapshot
  BY DEF RecountReads
<1>2. CASE uploads'[j] = uploads[j]
  <2> DEFINE u == uploads[j].user
             rows == uploads[j].snapshot
  <2>1. Busy(j) /\ u \in Users
    BY <1>2, ActiveUpload DEF TypeOK, Busy, Upload
  <2>2. Moment(txns, u, rows) /\ profiles[u].counted \subseteq rows
    BY <1>2 DEF RecountReads
  <2> HIDE DEF u, rows
  <2>3. Moment(txns', u, rows)
    BY <2>2, PastStays
  <2>4. profiles'[u].counted = profiles[u].counted
    <3>1. ASSUME NEW d \in Days, CommitRebuild(d)
          PROVE  profiles'[u].counted = profiles[u].counted
      BY <2>1, <3>1 DEF CommitRebuild, RebuiltProfile
    <3>2. ASSUME NEW i \in Uploads, CommitRecalculate(i)
          PROVE  profiles'[u].counted = profiles[u].counted
      <4>1. /\ uploads[i].pc = "store"
            /\ profiles' = [profiles EXCEPT ![uploads[i].user] =
                               RecalculatedProfile(uploads[i].snapshot)]
        BY <3>2 DEF CommitRecalculate, SetProfile
      <4>2. Busy(i) /\ uploads[i] \in Upload
        BY <4>1, ActiveUpload DEF TypeOK, Busy
      <4>3. uploads'[i].pc # "store"
        BY <3>2, RecalculationWritten DEF TypeOK
      <4>4. uploads[i].user # u
        BY <1>2, <2>1, <4>2, <4>3 DEF OneUploadPerUser, u
      <4> QED
        BY <1>1, <2>1, <4>1, <4>4
    <3> QED
      BY <3>1, <3>2, SettledMoves
  <2> QED
    BY <1>2, <2>2, <2>3, <2>4 DEF u, rows
<1>3. CASE uploads'[j] # uploads[j]
  <2> DEFINE u == uploads[j].user
  <2>1. /\ Busy(j) /\ uploads[j] \in Upload /\ uploads'[j].user = u
        /\ uploads'[j].snapshot = OwnRows(txns, u)
        /\ txns' = txns /\ profiles' = profiles
    BY <1>3, SnapshotIsRead
  <2>2. u \in Users
    BY <2>1 DEF Upload
  <2> HIDE DEF u
  <2>3. OwnRows(txns, u) = RowsOf(u)
    BY DEF OwnRows, RowsOf
  <2>4. profiles[u].counted \subseteq RowsOf(u)
    <3>1. Moment(txns, u, profiles[u].counted)
      BY <2>2 DEF SnapshotInv, StoredSnapshots, SnapshotIn
    <3>2. DOMAIN txns = 1..Len(txns)
      BY <1>1 DEF StoreTypeOK
    <3> QED
      BY <3>1, <3>2 DEF Moment, Past, RowsOf
  <2>5. Moment(txns', u, RowsOf(u))
    BY <1>1, <2>1, ReadsAreOfNow
  <2> QED
    BY <2>1, <2>3, <2>4, <2>5
<1> QED
  BY <1>2, <1>3

-----------------------------------------------------------------------------

LEMMA RebuiltKeepsCounts ==
    ASSUME NEW profile \in Profile, NEW rows
    PROVE  [known |-> TRUE, basis |-> rows, counted |-> profile.counted]
             = [profile EXCEPT !.known = TRUE, !.basis = rows]
<1> DEFINE after == [profile EXCEPT !.known = TRUE, !.basis = rows]
           Rebuilt == [known : BOOLEAN, basis : {rows}, counted : SUBSET Nat]
<1>1. after \in Rebuilt /\ after.known = TRUE /\ after.counted = profile.counted
  BY DEF Profile
<1> HIDE DEF after
<1>2. after = [known |-> after.known, basis |-> after.basis,
               counted |-> after.counted]
  BY <1>1
<1>3. after.basis = rows
  BY <1>1
<1> QED
  BY <1>1, <1>2, <1>3 DEF after

LEMMA CommitRebuildRefines ==
    ASSUME TypeOK, RebuildReads, NEW d \in Days, CommitRebuild(d)
    PROVE  Ledger!Rebuild \/ UNCHANGED <<txns, profiles>>
<1> DEFINE snapshot == rebuilds[d].snapshot
<1>1. /\ profiles \in [Users -> Profile] /\ StoreTypeOK
      /\ Together(txns, snapshot) /\ txns' = txns
  BY DEF TypeOK, StoreTypeOK, CommitRebuild, RebuildReads
<1>2. profiles' = [u \in Users |->
                     IF snapshot[u] = {} THEN profiles[u]
                     ELSE RebuiltProfile(u, snapshot[u])]
  BY DEF CommitRebuild
<1> HIDE DEF snapshot
<1>3. CASE \A u \in Users : snapshot[u] = {}
  BY <1>1, <1>2, <1>3
<1>4. ASSUME NEW w \in Users, snapshot[w] # {}
      PROVE  Ledger!Rebuild
  <2>1. PICK n \in 1..Len(txns), last \in DOMAIN txns :
          \A u \in Users : snapshot[u] = Dated(txns, u, n, txns[last].at + 1)
    BY <1>1, <1>4, LatestCutsOff
  <2>2. \A u \in Users :
          snapshot[u] = Ledger!DatedBefore(Ledger!Upto(u, n), txns[last].at + 1)
    BY <2>1 DEF Dated, Past, Ledger!DatedBefore, Ledger!Upto
  <2>3. ASSUME NEW u \in Users, NEW rows
        PROVE  RebuiltProfile(u, rows)
                 = [profiles[u] EXCEPT !.known = TRUE, !.basis = rows]
    <3>1. profiles[u] \in Profile
      BY <1>1
    <3> QED
      BY <3>1, RebuiltKeepsCounts DEF RebuiltProfile
  <2> DEFINE Read(u) == Ledger!DatedBefore(Ledger!Upto(u, n), txns[last].at + 1)
  <2>4. \A u \in Users :
          (IF snapshot[u] = {} THEN profiles[u] ELSE RebuiltProfile(u, snapshot[u]))
            = IF Read(u) = {} THEN profiles[u]
              ELSE [profiles[u] EXCEPT !.known = TRUE, !.basis = Read(u)]
    BY <2>2, <2>3
  <2> HIDE DEF Read
  <2>5. profiles' = [u \in Users |->
                       IF Read(u) = {} THEN profiles[u]
                       ELSE [profiles[u] EXCEPT !.known = TRUE, !.basis = Read(u)]]
    BY <1>2, <2>4
  <2> USE DEF Read
  <2> QED
    BY <1>1, <2>5 DEF Ledger!Rebuild
<1> QED
  BY <1>3, <1>4

LEMMA CommitRecalculateRefines ==
    ASSUME TypeOK, RecountReads, NEW j \in Uploads, CommitRecalculate(j)
    PROVE  \E u \in Users : Ledger!Recount(u)
<1> DEFINE u == uploads[j].user
           rows == uploads[j].snapshot
<1>1. /\ uploads[j].pc = "store" /\ txns' = txns
      /\ profiles' = [profiles EXCEPT ![u] = RecalculatedProfile(rows)]
  BY DEF CommitRecalculate, SetProfile
<1>2. u \in Users
  BY <1>1, ActiveUpload DEF TypeOK, Upload
<1>3. Moment(txns, u, rows) /\ profiles[u].counted \subseteq rows
  BY <1>1 DEF RecountReads
<1> HIDE DEF u, rows
<1>4. PICK n \in 0..Len(txns) : rows = Ledger!Upto(u, n)
  BY <1>3 DEF Moment, Past, Ledger!Upto
<1>5. Ledger!Recount(u)
  BY <1>1, <1>3, <1>4 DEF Ledger!Recount, RecalculatedProfile
<1> QED
  BY <1>2, <1>5

\* Every step is one of ProfileLedger, or does not show.
LEMMA StepRefines ==
    ASSUME TypeOK, RecountReads, RebuildReads, [Next]_vars
    PROVE  Ledger!Next \/ UNCHANGED <<txns, profiles>>
<1>1. CASE profiles' = profiles
  <2>1. txns \in Seq(Row)
    BY DEF TypeOK, StoreTypeOK
  <2>2. ASSUME NEW row \in Row, txns' = Append(txns, row)
        PROVE  Ledger!Record
    <3>1. /\ Len(txns') = Len(txns) + 1 /\ txns'[Len(txns')] = row
          /\ \A i \in DOMAIN txns : txns'[i] = txns[i]
      BY <2>1, <2>2
    <3>2. row.user \in Users
      BY DEF Row
    <3> QED
      BY <1>1, <3>1, <3>2 DEF Ledger!Record
  <2>3. txns' = txns \/ \E row \in Row : txns' = Append(txns, row)
    BY StepMoves DEF LedgerGrows
  <2> QED
    BY <1>1, <2>2, <2>3 DEF Ledger!Next
<1>2. ASSUME NEW j \in Uploads, CommitRecalculate(j)
      PROVE  Ledger!Next
  BY <1>2, CommitRecalculateRefines DEF Ledger!Next
<1>3. ASSUME NEW d \in Days, CommitRebuild(d)
      PROVE  Ledger!Next \/ UNCHANGED <<txns, profiles>>
  BY <1>3, CommitRebuildRefines DEF Ledger!Next
<1> QED
  BY <1>1, <1>2, <1>3, ProfileMoves

(***************************************************************************)
(* While no user has two uploads at a time, the service implements         *)
(* ProfileLedger: what a statement writes stands for one moment of the     *)
(* past, what one night writes for the same moment of all users, and no    *)
(* recalculation takes back a counted transaction.                         *)
(***************************************************************************)
THEOREM ServiceImplementsLedger == Spec /\ []OneUploadPerUser => LedgerSpec
<1>1. Init => SnapshotInv /\ RecountReads
  BY InitSnapshots DEF Init, UploadInit, NoUpload, RecountReads
<1>2. TypeOK /\ SnapshotInv /\ [Next]_vars => SnapshotInv'
  BY StoredKeep, PostsKeep, UploadsKeep, RebuildReadsKeep DEF SnapshotInv
<1>3. TypeOK /\ OneUploadPerUser /\ SnapshotInv /\ RecountReads /\ [Next]_vars
        => RecountReads'
  BY RecountReadsKeep
<1>4. SnapshotInv => RebuildReads
  BY DEF SnapshotInv
<1>5. TypeOK /\ RecountReads /\ RebuildReads /\ [Next]_vars
        => [Ledger!Next]_(Ledger!vars)
  BY StepRefines DEF Ledger!vars
<1>6. Init => Ledger!Init
  BY DEF Init, StoreInit, NoProfile, Ledger!Init
<1> QED
  BY <1>1, <1>2, <1>3, <1>4, <1>5, <1>6, TypeCorrect, PTL
  DEF Spec, LedgerSpec, Ledger!Spec

-----------------------------------------------------------------------------

(***************************************************************************)
(* What the averages of a night cover.  No recalculation has read but not  *)
(* yet written while a job runs:                                           *)
(***************************************************************************)
Apart ==
    \A j \in Uploads, d \in Days : ~(uploads[j].pc = "store" /\ Running(d))

Midnight(d) == d * DayTicks

\* The rows of RowsBefore.
Night(d, u) == Dated(txns, u, rebuilds[d].existing, Midnight(d))

(***************************************************************************)
(* The inductive invariant: jobs are started at their midnights, and what  *)
(* a job or a recalculation has read covers the nights up to then.         *)
(***************************************************************************)
NightsInOrder ==
    \A d \in Days :
        /\ rebuilds[d].existing \in 0..Len(txns)
        /\ rebuilds[d].pc # "waiting" => Midnight(d) <= AppNow
        /\ rebuilds[d].pc # "waiting" =>
             \A e \in Days : e < d /\ Running(e) => e \in rebuilds[d].beside
        /\ \A e \in rebuilds[d].beside : rebuilds[e].pc # "waiting"

JobsCover ==
    \A d, e \in Days : d <= e /\ rebuilds[e].pc = "store" =>
        \A u \in Users : Night(d, u) \subseteq rebuilds[e].snapshot[u]

RecountsCover ==
    \A j \in Uploads, d \in Days : uploads[j].pc = "store" =>
        Night(d, uploads[j].user) \subseteq uploads[j].snapshot

\* A job of an earlier day that was running beside job d may commit after it.
Shared(d, u) ==
    {i \in Night(d, u) : \A e \in rebuilds[d].beside : i \in Night(e, u)}

ProfilesCover ==
    \A d \in Days : rebuilds[d].pc = "done" =>
        \A u \in Users : Shared(d, u) \subseteq profiles[u].basis

NightInv == NightsInOrder /\ JobsCover /\ RecountsCover /\ ProfilesCover

LEMMA NightInvSuffices == TypeOK /\ NightInv => NightlyCoversYesterday
<1> SUFFICES ASSUME TypeOK, NightInv PROVE NightlyCoversYesterday
  OBVIOUS
<1>1. ASSUME NEW d \in Days, NEW u \in Users
      PROVE  RowsBefore(d, u) \subseteq Night(d, u)
  <2>1. DOMAIN txns = 1..Len(txns) /\ rebuilds[d].existing \in Nat
    BY DEF TypeOK, StoreTypeOK, NightInv, NightsInOrder
  <2> QED
    BY <2>1 DEF RowsBefore, RowsOf, Night, Dated, Past, Midnight
<1>2. \A d \in Days : rebuilds[d].beside \subseteq Days
  BY DEF TypeOK, RebuildTypeOK
<1>3. ASSUME NEW d \in Days, NEW u \in Users, NEW i \in RowsBefore(d, u),
             \A e \in rebuilds[d].beside : i \in RowsBefore(e, u)
      PROVE  i \in Shared(d, u)
  BY <1>1, <1>2, <1>3 DEF Shared
<1> QED
  BY <1>3 DEF NightInv, ProfilesCover, NightlyCoversYesterday

\* Midnights.
LEMMA DaysInOrder ==
    ASSUME NEW d \in Days, NEW e \in Days
    PROVE  /\ d \in Nat /\ Midnight(d) \in Int
           /\ d <= e <=> Midnight(d) <= Midnight(e)
<1>1. d \in Nat /\ e \in Nat
  BY DEF Days
<1>2. DayTicks \in Nat /\ DayTicks > 0
  BY DayAssumption
<1> HIDE DEF Days
<1>3. d <= e => d * DayTicks <= e * DayTicks
  BY <1>1, <1>2
<1>4. e < d => e * DayTicks < d * DayTicks
  BY <1>1, <1>2
<1>5. d * DayTicks \in Int /\ e * DayTicks \in Int
  BY <1>1, <1>2
<1> QED
  BY <1>1, <1>3, <1>4, <1>5 DEF Midnight

LEMMA TodayIsLater ==
    ASSUME TypeOK, NEW d \in Days, Midnight(d) <= now
    PROVE  Today \in Int /\ Midnight(d) <= Today
<1>1. now \in Nat /\ DayTicks \in Nat /\ DayTicks > 0 /\ d \in Nat
  BY DayAssumption DEF TypeOK, StoreTypeOK, Days
<1> DEFINE q == now \div DayTicks
           r == now % DayTicks
<1>2. q \in Int /\ r \in Int /\ r < DayTicks /\ now = DayTicks * q + r
  BY <1>1
<1> HIDE DEF q, r
<1>3. d <= q
  <2>1. d * DayTicks < (q + 1) * DayTicks
    BY <1>1, <1>2 DEF Midnight
  <2> QED
    BY <1>1, <1>2, <2>1
<1>4. d * DayTicks <= q * DayTicks /\ q * DayTicks \in Int
  BY <1>1, <1>2, <1>3
<1> QED
  BY <1>4 DEF Today, Midnight, q

LEMMA StartsAtMidnight ==
    ASSUME NEW time \in Int, time % DayTicks = 0
    PROVE  Midnight(time \div DayTicks) = time
<1>1. DayTicks \in Nat /\ DayTicks > 0
  BY DayAssumption
<1> DEFINE q == time \div DayTicks
           r == time % DayTicks
<1>2. q \in Int /\ r = 0 /\ time = DayTicks * q + r
  BY <1>1
<1> HIDE DEF q, r
<1>3. q * DayTicks = time
  BY <1>1, <1>2
<1> QED
  BY <1>1, <1>3 DEF Midnight, q

LEMMA NextTick ==
    ASSUME TypeOK, now' = now + 1
    PROVE  AppNow' = AppNow + 1
<1>1. now \in Int /\ Skew \in Int
  BY SkewAssumption DEF TypeOK, StoreTypeOK
<1>2. \A t \in Int, k \in Int : (t + 1) + k = (t + k) + 1
  OBVIOUS
<1>3. AppNow' = (now + 1) + Skew
  BY DEF AppNow
<1>4. AppNow + 1 = (now + Skew) + 1
  BY DEF AppNow
<1> QED
  BY <1>1, <1>2, <1>3, <1>4

\* What a step does to the jobs: nothing, ...
NoJobMoves ==
    /\ rebuilds' = rebuilds
    /\ profiles' = profiles \/ \E j \in Uploads : CommitRecalculate(j)

\* ... or one of them moves on, or is started, or all are abandoned.
JobMoves(e) ==
    /\ RebuildNext(e)
    /\ uploads' = uploads

JobStarts(day) ==
    /\ StartRebuild(day)
    /\ AppNow' = AppNow + 1 /\ AppNow' = Midnight(day)
    /\ UNCHANGED <<txns, profiles, uploads>>

LEMMA NightMoves ==
    ASSUME TypeOK, TypeOK', Skew <= 0, [Next]_vars
    PROVE  \/ NoJobMoves
           \/ \E e \in Days : JobMoves(e)
           \/ \E day \in Days : JobStarts(day)
           \/ Crash
<1>1. UNCHANGED storeVars => profiles' = profiles
  BY DEF storeVars
<1>2. ASSUME NEW p \in Posts, PostArrives(p) \/ PostAdvances(p)
      PROVE  NoJobMoves
  BY <1>1, <1>2
  DEF NoJobMoves, PostArrives, ReceivePost, PostAdvances, PostStep,
      LoadPostProfile, CountRecentTransactions, AnalyzePost, InsertPost,
      CreateTransaction
<1>3. ASSUME NEW j \in Uploads, UploadArrives(j) \/ UploadAdvances(j)
      PROVE  NoJobMoves
  <2>1. rebuilds' = rebuilds
    BY <1>3 DEF UploadArrives, UploadAdvances
  <2>2. profiles' = profiles \/ CommitRecalculate(j)
    BY <1>1, <1>3
    DEF UploadArrives, ReceiveUpload, UploadAdvances, UploadStep,
        LoadUploadProfile, ReadBadRecord, ReadBrokenFile, ReadBadAmount,
        ReadTransaction, InsertUploaded, CreateTransaction, FailInsert, ReadEOF,
        BeginRecalculate, FailRecalculate, RefreshProfile, RespondUpload
  <2> QED
    BY <2>1, <2>2 DEF NoJobMoves
<1>4. ASSUME NEW d \in Days, RebuildAdvances(d) PROVE JobMoves(d)
  BY <1>4 DEF JobMoves, RebuildAdvances, uploadVars
<1>5. CASE Tick
  <2> DEFINE day == (now' + Skew) \div DayTicks
             midnight == (now' + Skew) % DayTicks = 0 /\ day \in Days
  <2>1. /\ now' = now + 1 /\ UNCHANGED <<txns, profiles, uploads>>
        /\ IF up /\ midnight THEN StartRebuild(day) ELSE UNCHANGED rebuilds
    BY <1>5 DEF Tick, uploadVars
  <2>2. CASE up /\ midnight
    <3>1. Midnight(day) = AppNow'
      BY <2>2, ClockAdvances, StartsAtMidnight DEF AppNow
    <3>2. AppNow' = AppNow + 1
      BY <2>1, NextTick
    <3>3. day \in Days /\ JobStarts(day)
      BY <2>1, <2>2, <3>1, <3>2 DEF JobStarts
    <3> QED
      BY <3>3
  <2>3. CASE ~(up /\ midnight)
    BY <2>1, <2>3 DEF NoJobMoves
  <2> QED
    BY <2>2, <2>3
<1>6. Restart \/ AwaitRequests \/ UNCHANGED vars => NoJobMoves
  BY <1>1 DEF NoJobMoves, Restart, AwaitRequests, vars
<1> QED
  BY <1>2, <1>3, <1>4, <1>5, <1>6 DEF Next

\* What becomes of each job.
LEMMA JobAfter ==
    ASSUME TypeOK, TypeOK', Skew <= 0, [Next]_vars, NEW d \in Days
    PROVE  \/ rebuilds'[d] = rebuilds[d]
           \/ /\ rebuilds[d].pc # "waiting" /\ rebuilds'[d].pc # "waiting"
              /\ rebuilds'[d].existing = rebuilds[d].existing
              /\ rebuilds'[d].beside = rebuilds[d].beside
              /\ (rebuilds'[d].pc \in {"started", "store"} => Running(d))
              /\ \/ rebuilds'[d].pc = "store" /\ BeginRebuild(d)
                 \/ rebuilds'[d].pc \in {"failed", "missed"}
                 \/ rebuilds'[d].pc = "done" /\ CommitRebuild(d)
           \/ /\ JobStarts(d)
              /\ rebuilds'[d].pc = "started"
              /\ rebuilds'[d].existing = Len(txns)
              /\ rebuilds'[d].beside = {e \in Days : Running(e)}
<1>1. /\ rebuilds \in [Days -> RebuildJob]
      /\ \A e \in Days : rebuilds[e] \in RebuildJob
  BY DEF TypeOK, RebuildTypeOK, RebuildJob
<1> DEFINE Kept == /\ rebuilds[d].pc # "waiting" /\ rebuilds'[d].pc # "waiting"
                   /\ rebuilds'[d].existing = rebuilds[d].existing
                   /\ rebuilds'[d].beside = rebuilds[d].beside
                   /\ (rebuilds'[d].pc \in {"started", "store"} => Running(d))
<1>2. ASSUME NEW e \in Days, JobMoves(e)
      PROVE  \/ rebuilds'[d] = rebuilds[d]
             \/ /\ Kept
                /\ \/ rebuilds'[d].pc = "store" /\ BeginRebuild(d)
                   \/ rebuilds'[d].pc \in {"failed", "missed"}
                   \/ rebuilds'[d].pc = "done" /\ CommitRebuild(d)
  <2>1. CASE BeginRebuild(e)
    <3> DEFINE snapshot == [u \in Users |-> ClosedRows(u)]
    <3>1. /\ rebuilds' = [rebuilds EXCEPT
                            ![e] = [rebuilds[e] EXCEPT !.pc = "store",
                                                       !.snapshot = snapshot]]
          /\ rebuilds[e].pc = "started"
      BY <2>1 DEF BeginRebuild
    <3> HIDE DEF snapshot
    <3>2. CASE d = e
      <4>1. /\ rebuilds'[d].pc = "store"
            /\ rebuilds'[d].existing = rebuilds[d].existing
            /\ rebuilds'[d].beside = rebuilds[d].beside
        BY <1>1, <3>1, <3>2 DEF RebuildJob
      <4> QED
        BY <2>1, <3>1, <3>2, <4>1 DEF Running
    <3>3. CASE d # e
      BY <1>1, <3>1, <3>3
    <3> QED
      BY <3>2, <3>3
  <2>2. ASSUME NEW pc \in {"failed", "done"}, rebuilds[e].pc \in {"started", "store"},
               rebuilds' = [rebuilds EXCEPT ![e] = [rebuilds[e] EXCEPT !.pc = pc]]
        PROVE  \/ rebuilds'[d] = rebuilds[d]
               \/ d = e /\ Kept /\ rebuilds'[d].pc = pc
    <3>1. CASE d = e
      <4>1. /\ rebuilds'[d].pc = pc
            /\ rebuilds'[d].existing = rebuilds[d].existing
            /\ rebuilds'[d].beside = rebuilds[d].beside
        BY <1>1, <2>2, <3>1 DEF RebuildJob
      <4> QED
        BY <2>2, <3>1, <4>1
    <3>2. CASE d # e
      BY <1>1, <2>2, <3>2
    <3> QED
      BY <3>1, <3>2
  <2>3. CASE FailRebuild(e)
    <3>1. /\ rebuilds[e].pc = "started"
          /\ rebuilds' = [rebuilds EXCEPT ![e] = [rebuilds[e] EXCEPT !.pc = "failed"]]
      BY <2>3 DEF FailRebuild
    <3> QED
      BY <2>2, <3>1
  <2>4. CASE CommitRebuild(e)
    <3>1. /\ rebuilds[e].pc = "store"
          /\ rebuilds' = [rebuilds EXCEPT ![e] = [rebuilds[e] EXCEPT !.pc = "done"]]
      BY <2>4 DEF CommitRebuild
    <3> QED
      BY <2>2, <2>4, <3>1
  <2> QED
    BY <1>2, <2>1, <2>3, <2>4 DEF JobMoves, RebuildNext
<1>3. ASSUME NEW day \in Days, JobStarts(day)
      PROVE  \/ rebuilds'[d] = rebuilds[d]
             \/ /\ d = day
                /\ rebuilds'[d].pc = "started"
                /\ rebuilds'[d].existing = Len(txns)
                /\ rebuilds'[d].beside = {e \in Days : Running(e)}
  <2> DEFINE busy == {e \in Days : Running(e)}
             existing == Len(txns)
  <2>1. rebuilds' = [rebuilds EXCEPT
                       ![day] = [rebuilds[day] EXCEPT
                           !.pc = "started", !.existing = existing,
                           !.beside = busy]]
    BY <1>3 DEF JobStarts, StartRebuild
  <2> HIDE DEF busy, existing
  <2>2. CASE d = day
    <3>1. /\ rebuilds'[d].pc = "started" /\ rebuilds'[d].existing = existing
          /\ rebuilds'[d].beside = busy
      BY <1>1, <2>1, <2>2 DEF RebuildJob
    <3> QED
      BY <2>2, <3>1 DEF busy, existing
  <2>3. CASE d # day
    BY <1>1, <2>1, <2>3
  <2> QED
    BY <2>2, <2>3
<1>4. CASE Crash
  <2>1. rebuilds'[d] = AbandonedRebuild(d)
    BY <1>4 DEF Crash
  <2>2. CASE Running(d)
    <3>1. /\ rebuilds'[d].pc = "missed"
          /\ rebuilds'[d].existing = rebuilds[d].existing
          /\ rebuilds'[d].beside = rebuilds[d].beside
      BY <1>1, <2>1, <2>2 DEF RebuildJob, AbandonedRebuild
    <3> QED
      BY <2>2, <3>1 DEF Running
  <2>3. CASE ~Running(d)
    BY <2>1, <2>3 DEF AbandonedRebuild
  <2> QED
    BY <2>2, <2>3
<1> QED
  BY <1>2, <1>3, <1>4, NightMoves DEF NoJobMoves

LEMMA StartsOnce ==
    ASSUME TypeOK, TypeOK', NightsInOrder, [Next]_vars, NEW d \in Days, JobStarts(d)
    PROVE  rebuilds[d].pc = "waiting"
<1>1. AppNow \in Int /\ AppNow' \in Int /\ Midnight(d) \in Int
  BY ClockAdvances, DaysInOrder
<1>2. AppNow < Midnight(d)
  BY <1>1 DEF JobStarts
<1>3. ~(Midnight(d) <= AppNow)
  BY <1>1, <1>2
<1> QED
  BY <1>3 DEF NightsInOrder

LEMMA InOrderKeep ==
    ASSUME TypeOK, TypeOK', Skew <= 0, NightsInOrder, [Next]_vars
    PROVE  NightsInOrder'
<1>1. AppNow \in Int /\ AppNow' \in Int /\ AppNow <= AppNow'
  BY ClockAdvances
<1> SUFFICES ASSUME NEW d \in Days
             PROVE  /\ rebuilds'[d].existing \in 0..Len(txns')
                    /\ rebuilds'[d].pc # "waiting" => Midnight(d) <= AppNow'
                    /\ rebuilds'[d].pc # "waiting" =>
                         \A e \in Days :
                           e < d /\ rebuilds'[e].pc \in {"started", "store"}
                             => e \in rebuilds'[d].beside
                    /\ \A e \in rebuilds'[d].beside : rebuilds'[e].pc # "waiting"
  BY DEF NightsInOrder, Running, Midnight
<1>2. Midnight(d) \in Int /\ d \in Nat
  BY DaysInOrder
<1>3. JobStarts(d) => rebuilds[d].pc = "waiting"
  BY StartsOnce
<1>4. rebuilds'[d].existing \in 0..Len(txns')
  <2>1. rebuilds[d].existing \in 0..Len(txns')
    BY LedgerExtends DEF NightsInOrder
  <2>2. Len(txns) \in 0..Len(txns')
    BY LedgerExtends
  <2> QED
    BY <2>1, <2>2, JobAfter
<1>5. rebuilds'[d].pc # "waiting" => Midnight(d) <= AppNow'
  <2>1. rebuilds[d].pc # "waiting" => Midnight(d) <= AppNow'
    BY <1>1, <1>2 DEF NightsInOrder
  <2>2. JobStarts(d) => Midnight(d) <= AppNow'
    BY <1>1 DEF JobStarts
  <2> QED
    BY <2>1, <2>2, JobAfter
<1>6. ASSUME rebuilds'[d].pc # "waiting", NEW e \in Days, e < d,
             rebuilds'[e].pc \in {"started", "store"}
      PROVE  e \in rebuilds'[d].beside
  <2>1. CASE rebuilds[d].pc # "waiting"
    <3>1. ~JobStarts(d)
      BY <1>3, <2>1
    <3>2. rebuilds'[d].beside = rebuilds[d].beside
      BY <3>1, JobAfter
    <3>3. Running(e) => e \in rebuilds[d].beside
      BY <1>6, <2>1 DEF NightsInOrder
    <3>4. ~JobStarts(e)
      <4>1. Midnight(d) <= AppNow
        BY <2>1 DEF NightsInOrder
      <4>2. Midnight(e) <= Midnight(d) /\ Midnight(e) \in Int
        <5>1. e \in Nat /\ Midnight(e) \in Int
          BY DaysInOrder
        <5>2. e <= d
          BY <1>2, <1>6, <5>1
        <5> QED
          BY <5>1, <5>2, DaysInOrder
      <4>3. Midnight(e) < AppNow + 1
        BY <1>1, <1>2, <4>1, <4>2
      <4> QED
        BY <1>1, <4>2, <4>3 DEF JobStarts
    <3>5. Running(e)
      BY <1>6, <3>4, JobAfter DEF Running
    <3> QED
      BY <3>2, <3>3, <3>5
  <2>2. CASE rebuilds[d].pc = "waiting"
    <3>1. JobStarts(d) /\ rebuilds'[d].beside = {i \in Days : Running(i)}
      BY <1>6, <2>2, JobAfter
    <3>3. ~JobStarts(e)
      <4>1. Midnight(e) # Midnight(d)
        <5>1. e \in Nat /\ ~(d <= e) /\ Midnight(e) \in Int
          BY <1>2, <1>6, DaysInOrder
        <5>2. ~(Midnight(d) <= Midnight(e))
          BY <5>1, DaysInOrder
        <5> QED
          BY <1>2, <5>1, <5>2
      <4> QED
        BY <3>1, <4>1 DEF JobStarts
    <3>4. Running(e)
      BY <1>6, <3>3, JobAfter DEF Running
    <3> QED
      BY <3>1, <3>4
  <2> QED
    BY <2>1, <2>2
<1>7. ASSUME NEW e \in rebuilds'[d].beside
      PROVE  rebuilds'[e].pc # "waiting"
  <2>1. e \in Days
    BY DEF TypeOK, RebuildTypeOK
  <2>2. rebuilds[e].pc # "waiting"
    <3>1. CASE rebuilds'[d].beside = rebuilds[d].beside
      BY <3>1 DEF NightsInOrder
    <3>2. CASE rebuilds'[d].beside = {i \in Days : Running(i)}
      BY <3>2 DEF Running
    <3> QED
      BY <3>1, <3>2, JobAfter
  <2> QED
    BY <2>1, <2>2, JobAfter
<1> QED
  BY <1>4, <1>5, <1>6, <1>7

LEMMA NightStays ==
    ASSUME TypeOK, [Next]_vars, NightsInOrder, NEW d \in Days, NEW u,
           rebuilds'[d].existing = rebuilds[d].existing
    PROVE  Dated(txns', u, rebuilds'[d].existing, Midnight(d)) = Night(d, u)
<1>1. rebuilds[d].existing \in 0..Len(txns) /\ Midnight(d) \in Int
  BY DaysInOrder DEF NightsInOrder
<1> QED
  BY <1>1, DatedStays DEF Night

\* A night is over when a later job reads.
LEMMA ReadsCoverNights ==
    ASSUME TypeOK, NightsInOrder, NEW d \in Days, NEW u
    PROVE  /\ Night(d, u) \subseteq RowsOf(u)
           /\ \A e \in Days : d <= e /\ Midnight(e) <= now =>
                Night(d, u) \subseteq ClosedRows(u)
<1>1. /\ txns \in Seq(Row) /\ DOMAIN txns = 1..Len(txns) /\ Len(txns) \in Nat
      /\ rebuilds[d].existing \in 0..Len(txns)
  BY DEF TypeOK, StoreTypeOK, NightsInOrder
<1>2. Night(d, u) \subseteq RowsOf(u)
  BY <1>1 DEF Night, Dated, Past, RowsOf
<1>3. ASSUME NEW e \in Days, d <= e, Midnight(e) <= now, NEW i \in Night(d, u)
      PROVE  i \in ClosedRows(u)
  <2>1. Today \in Int /\ Midnight(e) <= Today
    BY <1>3, TodayIsLater
  <2>2. Midnight(d) \in Int /\ Midnight(e) \in Int /\ Midnight(d) <= Midnight(e)
    BY <1>3, DaysInOrder
  <2>3. i \in RowsOf(u) /\ txns[i].at < Midnight(d)
    BY <1>2 DEF Night, Dated
  <2>4. txns[i].at \in Int
    <3>1. txns[i] \in Row
      BY <1>1, <2>3 DEF RowsOf
    <3> QED
      BY <3>1 DEF Row
  <2>5. txns[i].at < Today
    BY <2>1, <2>2, <2>3, <2>4
  <2> QED
    BY <2>3, <2>5 DEF ClosedRows
<1> QED
  BY <1>2, <1>3

LEMMA JobsCoverKeep ==
    ASSUME TypeOK, TypeOK', Skew <= 0, NightInv, [Next]_vars
    PROVE  JobsCover'
<1>1. NightsInOrder /\ NightsInOrder' /\ JobsCover
  BY InOrderKeep DEF NightInv
<1>2. AppNow \in Int /\ AppNow <= now /\ rebuilds \in [Days -> RebuildJob]
  <2>1. now \in Int /\ rebuilds \in [Days -> RebuildJob]
    BY DEF TypeOK, StoreTypeOK, RebuildTypeOK, RebuildJob
  <2>2. \A t \in Int, k \in Int : k <= 0 => t + k \in Int /\ t + k <= t
    OBVIOUS
  <2> QED
    BY <2>1, <2>2, SkewAssumption DEF AppNow
<1> SUFFICES ASSUME NEW d \in Days, NEW e \in Days, d <= e,
                    rebuilds'[e].pc = "store", NEW u \in Users
             PROVE  Dated(txns', u, rebuilds'[d].existing, Midnight(d))
                      \subseteq rebuilds'[e].snapshot[u]
  BY DEF JobsCover, Night, Midnight
<1>3. rebuilds[e].pc # "waiting"
  BY JobAfter
<1>4. Midnight(e) <= AppNow /\ Midnight(d) <= Midnight(e)
  BY <1>1, <1>3, DaysInOrder DEF NightsInOrder
<1>5. ~JobStarts(d)
  <2>1. Midnight(d) \in Int /\ Midnight(e) \in Int
    BY DaysInOrder
  <2> QED
    BY <1>2, <1>4, <2>1 DEF JobStarts
<1>6. rebuilds'[d].existing = rebuilds[d].existing
  BY <1>5, JobAfter
<1>7. Dated(txns', u, rebuilds'[d].existing, Midnight(d)) = Night(d, u)
  BY <1>1, <1>6, NightStays
<1>8. CASE rebuilds'[e] = rebuilds[e]
  BY <1>1, <1>7, <1>8 DEF JobsCover
<1>9. CASE BeginRebuild(e)
  <2> DEFINE snapshot == [v \in Users |-> ClosedRows(v)]
  <2>1. rebuilds' = [rebuilds EXCEPT
                       ![e] = [rebuilds[e] EXCEPT !.pc = "store",
                                                  !.snapshot = snapshot]]
    BY <1>9 DEF BeginRebuild
  <2> HIDE DEF snapshot
  <2>2. rebuilds'[e].snapshot = snapshot
    BY <1>2, <2>1 DEF RebuildJob
  <2>3. snapshot[u] = ClosedRows(u)
    BY DEF snapshot
  <2>4. Midnight(e) <= now
    <3>1. now \in Int /\ Midnight(e) \in Int
      BY DaysInOrder DEF TypeOK, StoreTypeOK
    <3> QED
      BY <1>2, <1>4, <3>1
  <2>5. Night(d, u) \subseteq ClosedRows(u)
    BY <1>1, <2>4, ReadsCoverNights
  <2> QED
    BY <1>7, <2>2, <2>3, <2>5
<1> QED
  BY <1>8, <1>9, JobAfter

LEMMA RecountsCoverKeep ==
    ASSUME TypeOK, TypeOK', Skew <= 0, Apart', NightInv, [Next]_vars
    PROVE  RecountsCover'
<1>1. NightsInOrder /\ NightsInOrder' /\ RecountsCover
  BY InOrderKeep DEF NightInv
<1> SUFFICES ASSUME NEW j \in Uploads, NEW d \in Days, uploads'[j].pc = "store"
             PROVE  Dated(txns', uploads'[j].user, rebuilds'[d].existing, Midnight(d))
                      \subseteq uploads'[j].snapshot
  BY DEF RecountsCover, Night, Midnight
<1>2. rebuilds'[d].pc \notin {"started", "store"}
  BY DEF Apart, Running
<1>3. rebuilds'[d].existing = rebuilds[d].existing
  BY <1>2, JobAfter
<1>4. \A u : Dated(txns', u, rebuilds'[d].existing, Midnight(d)) = Night(d, u)
  BY <1>1, <1>3, NightStays
<1>5. CASE uploads'[j] = uploads[j]
  BY <1>1, <1>4, <1>5 DEF RecountsCover
<1>6. CASE uploads'[j] # uploads[j]
  <2>1. /\ uploads'[j].user = uploads[j].user
        /\ uploads'[j].snapshot = OwnRows(txns, uploads[j].user)
    BY <1>6, SnapshotIsRead
  <2>2. Night(d, uploads[j].user) \subseteq RowsOf(uploads[j].user)
    BY <1>1, ReadsCoverNights
  <2> QED
    BY <1>4, <2>1, <2>2 DEF OwnRows, RowsOf
<1> QED
  BY <1>5, <1>6

LEMMA ProfilesCoverKeep ==
    ASSUME TypeOK, TypeOK', Skew <= 0, NightInv, [Next]_vars
    PROVE  ProfilesCover'
<1>1. NightsInOrder /\ JobsCover /\ RecountsCover /\ ProfilesCover
  BY DEF NightInv
<1>2. profiles \in [Users -> Profile]
  BY DEF TypeOK, StoreTypeOK
<1> DEFINE After(e, u) == Dated(txns', u, rebuilds'[e].existing, Midnight(e))
<1> SUFFICES ASSUME NEW d \in Days, rebuilds'[d].pc = "done", NEW u \in Users
             PROVE  {i \in After(d, u) : \A e \in rebuilds'[d].beside : i \in After(e, u)}
                      \subseteq profiles'[u].basis
  BY DEF ProfilesCover, Shared, Night, Midnight
<1>3. /\ rebuilds'[d].beside = rebuilds[d].beside
      /\ rebuilds[d].pc # "waiting" /\ rebuilds[d].beside \subseteq Days
      /\ rebuilds[d].pc = "done" \/ CommitRebuild(d)
  BY JobAfter DEF TypeOK, RebuildTypeOK
<1>8. \A e \in Days : rebuilds[e].pc # "waiting" => After(e, u) = Night(e, u)
  <2> SUFFICES ASSUME NEW e \in Days, rebuilds[e].pc # "waiting"
               PROVE  After(e, u) = Night(e, u)
    OBVIOUS
  <2>1. rebuilds'[e].existing = rebuilds[e].existing
    BY <1>1, StartsOnce, JobAfter
  <2> QED
    BY <1>1, <2>1, NightStays
<1>4. {i \in After(d, u) : \A e \in rebuilds'[d].beside : i \in After(e, u)}
        = Shared(d, u)
  BY <1>1, <1>3, <1>8 DEF Shared, NightsInOrder
<1> HIDE DEF After
<1>9. Shared(d, u) \subseteq Night(d, u)
  BY DEF Shared
<1>5. CASE profiles'[u] = profiles[u]
  <2>1. CASE rebuilds[d].pc = "done"
    BY <1>1, <1>3, <1>4, <1>5, <2>1 DEF ProfilesCover
  <2>2. CASE CommitRebuild(d)
    <3>1. /\ rebuilds[d].pc = "store"
          /\ profiles'[u] = IF rebuilds[d].snapshot[u] = {} THEN profiles[u]
                            ELSE RebuiltProfile(u, rebuilds[d].snapshot[u])
      BY <2>2 DEF CommitRebuild
    <3>2. d <= d
      <4>1. d \in Nat
        BY DaysInOrder
      <4> QED
        BY <4>1
    <3>3. Night(d, u) \subseteq rebuilds[d].snapshot[u]
      BY <1>1, <3>1, <3>2 DEF JobsCover
    <3> QED
      BY <1>4, <1>9, <3>1, <3>3 DEF RebuiltProfile
  <2> QED
    BY <1>3, <2>1, <2>2
<1>6. ASSUME NEW e \in Days, CommitRebuild(e), profiles'[u] # profiles[u]
      PROVE  Shared(d, u) \subseteq profiles'[u].basis
  <2>1. /\ rebuilds[e].pc = "store"
        /\ profiles'[u] = RebuiltProfile(u, rebuilds[e].snapshot[u])
    BY <1>6 DEF CommitRebuild
  <2>2. d \in Nat /\ e \in Nat
    BY DaysInOrder
  <2>3. CASE d <= e
    BY <1>1, <1>9, <2>1, <2>3 DEF JobsCover, RebuiltProfile
  <2>4. CASE e < d
    <3>1. e \in rebuilds[d].beside
      BY <1>1, <1>3, <2>1, <2>4 DEF NightsInOrder, Running
    <3>2. e <= e
      BY <2>2
    <3>3. Night(e, u) \subseteq rebuilds[e].snapshot[u]
      BY <1>1, <2>1, <3>2 DEF JobsCover
    <3> QED
      BY <2>1, <3>1, <3>3 DEF Shared, RebuiltProfile
  <2> QED
    BY <2>2, <2>3, <2>4
<1>7. ASSUME NEW j \in Uploads, CommitRecalculate(j), profiles'[u] # profiles[u]
      PROVE  Shared(d, u) \subseteq profiles'[u].basis
  <2>1. /\ uploads[j].pc = "store"
        /\ profiles' = [profiles EXCEPT ![uploads[j].user] =
                           RecalculatedProfile(uploads[j].snapshot)]
    BY <1>7 DEF CommitRecalculate, SetProfile
  <2>2. u = uploads[j].user
    BY <1>2, <1>7, <2>1
  <2>3. profiles'[u].basis = uploads[j].snapshot
    BY <1>2, <2>1, <2>2 DEF RecalculatedProfile
  <2> QED
    BY <1>1, <1>9, <2>1, <2>2, <2>3 DEF RecountsCover
<1> QED
  BY <1>4, <1>5, <1>6, <1>7, ProfileMoves

LEMMA InitNights == Init => NightInv
<1> SUFFICES ASSUME Init PROVE NightInv
  OBVIOUS
<1>1. \A d \in Days : rebuilds[d] = NoRebuild
  BY DEF Init, RebuildInit
<1>2. \A d \in Days : /\ rebuilds[d].pc = "waiting" /\ rebuilds[d].existing = 0
                       /\ rebuilds[d].beside = {}
  BY <1>1 DEF NoRebuild
<1>3. Len(txns) = 0
  BY DEF Init, StoreInit
<1>4. \A j \in Uploads : uploads[j].pc # "store"
  BY DEF Init, UploadInit, NoUpload
<1> QED
  BY <1>2, <1>3, <1>4
  DEF NightInv, NightsInOrder, JobsCover, RecountsCover, ProfilesCover

(***************************************************************************)
(* With a service clock that is not ahead of the database's, so that a     *)
(* midnight at which cron starts a job is past in the database too, and no *)
(* recalculation between its query and its commit while a job runs, the    *)
(* averages cover the day before from the moment the job is done, for      *)
(* good: neither a job of a later day nor a recalculation takes a row of   *)
(* it away, and a job of an earlier day that was still running takes away  *)
(* only what came after its own midnight.                                  *)
(***************************************************************************)
THEOREM NightlyCovers ==
    ASSUME Skew <= 0
    PROVE  Spec /\ []Apart => []NightlyCoversYesterday
<1>1. Init => NightInv
  BY InitNights
<1>2. TypeOK /\ TypeOK' /\ Apart' /\ NightInv /\ [Next]_vars => NightInv'
  BY InOrderKeep, JobsCoverKeep, RecountsCoverKeep, ProfilesCoverKeep DEF NightInv
<1>3. TypeOK /\ NightInv => NightlyCoversYesterday
  BY NightInvSuffices
<1> QED
  BY <1>1, <1>2, <1>3, TypeCorrect, PTL DEF Spec
=============================================================================
