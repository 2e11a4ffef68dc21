------------------------- MODULE FraudServiceProofs ------------------------
(***************************************************************************)
(* Invariants of FraudService for any number of users, goroutines, days,   *)
(* crashes and rows, any clock skew, any window and any set of failing     *)
(* queries.                                                                *)
(***************************************************************************)
EXTENDS FraudService, FiniteSetTheorems, TLAPS

(***************************************************************************)
(* The store.                                                              *)
(***************************************************************************)
LEMMA RowsAreFinite ==
    ASSUME StoreTypeOK, NEW u
    PROVE  /\ RowsOf(u) \subseteq DOMAIN txns /\ RowsOf(u) \subseteq Nat
           /\ \A S \in SUBSET DOMAIN txns : IsFiniteSet(S) /\ Cardinality(S) \in Nat
           /\ DOMAIN txns = 1..Len(txns) /\ Len(txns) \in Nat
<1>1. DOMAIN txns = 1..Len(txns) /\ Len(txns) \in Nat
  BY DEF StoreTypeOK
<1>2. IsFiniteSet(DOMAIN txns)
  BY <1>1, FS_Interval
<1>3. \A S \in SUBSET DOMAIN txns : IsFiniteSet(S) /\ Cardinality(S) \in Nat
  BY <1>2, FS_Subset, FS_CardinalityType
<1>4. RowsOf(u) \subseteq DOMAIN txns
  BY DEF RowsOf
<1> QED
  BY <1>1, <1>3, <1>4

LEMMA CountIsNat ==
    ASSUME StoreTypeOK, NEW u
    PROVE  CountReads(u) \subseteq Nat
<1>1. RecentRows(u) \in SUBSET DOMAIN txns
  BY DEF RecentRows, RowsOf
<1>2. Cardinality(RecentRows(u)) \in Nat
  BY <1>1, RowsAreFinite
<1> QED
  BY <1>2 DEF CountReads

LEMMA ProfileReadIsTyped ==
    ASSUME StoreTypeOK, NEW u \in Users
    PROVE  NoProfile \in Profile /\ ProfileReads(u) \subseteq Profile
<1>1. NoProfile \in Profile
  BY DEF Profile, NoProfile
<1>2. profiles[u] \in Profile
  BY DEF StoreTypeOK
<1> QED
  BY <1>1, <1>2 DEF ProfileReads

LEMMA AppendTyped ==
    ASSUME StoreTypeOK, NEW row \in Row, CreateTransaction(row)
    PROVE  /\ StoreTypeOK'
           /\ Len(txns') = Len(txns) + 1
           /\ txns'[Len(txns) + 1] = row
           /\ \A i \in DOMAIN txns : i \in DOMAIN txns' /\ txns'[i] = txns[i]
           /\ DOMAIN txns' = DOMAIN txns \cup {Len(txns) + 1}
<1>1. txns \in Seq(Row) /\ txns' = Append(txns, row) /\ txns' \in Seq(Row)
  BY DEF StoreTypeOK, CreateTransaction
<1>2. UNCHANGED <<profiles, now>>
  BY DEF CreateTransaction
<1>3. StoreTypeOK'
  BY <1>1, <1>2 DEF StoreTypeOK
<1>4. /\ Len(txns') = Len(txns) + 1
      /\ txns'[Len(txns) + 1] = row
      /\ \A i \in DOMAIN txns : i \in DOMAIN txns' /\ txns'[i] = txns[i]
  BY <1>1
<1>5. DOMAIN txns' = DOMAIN txns \cup {Len(txns) + 1}
  BY <1>1
<1> QED
  BY <1>3, <1>4, <1>5

LEMMA SetProfileTyped ==
    ASSUME StoreTypeOK, NEW u \in Users, NEW profile \in Profile,
           SetProfile(u, profile)
    PROVE  StoreTypeOK'
BY DEF StoreTypeOK, SetProfile

-----------------------------------------------------------------------------

(***************************************************************************)
(* The types of the three kinds of goroutines.                             *)
(***************************************************************************)
Post ==
    [pc : {"profile", "count", "analyze", "insert"}, user : Users,
     profile : Profile, count : Nat, at : Int, began : Nat, since : Int]

LEMMA ActivePost ==
    ASSUME PostTypeOK, NEW p \in Posts, posts[p].pc # "idle"
    PROVE  posts[p] \in Post
BY DEF PostTypeOK, NoPost, Post

LEMMA SetPostTyped ==
    ASSUME PostTypeOK, NEW p \in Posts, NEW post \in Post \cup {NoPost},
           SetPost(p, post)
    PROVE  PostTypeOK'
BY DEF PostTypeOK, SetPost, Post

LEMMA PostStepTyped ==
    ASSUME StoreTypeOK, PostTypeOK, NEW p \in Posts, PostStep(p)
    PROVE  StoreTypeOK' /\ PostTypeOK'
<1>1. AppNow \in Int
  BY SkewAssumption DEF StoreTypeOK, AppNow
<1>2. CASE LoadPostProfile(p)
  <2>1. posts[p] \in Post
    BY <1>2, ActivePost DEF LoadPostProfile
  <2>2. PICK profile \in ProfileReads(posts[p].user) :
          SetPost(p, [posts[p] EXCEPT !.pc = "count", !.profile = profile])
    BY <1>2 DEF LoadPostProfile
  <2>3. profile \in Profile
    BY <2>1, ProfileReadIsTyped DEF Post
  <2>4. [posts[p] EXCEPT !.pc = "count", !.profile = profile] \in Post
    BY <2>1, <2>3 DEF Post
  <2> QED
    BY <1>2, <2>2, <2>4, SetPostTyped DEF LoadPostProfile, StoreTypeOK, storeVars
<1>3. CASE CountRecentTransactions(p)
  <2>1. posts[p] \in Post
    BY <1>3, ActivePost DEF CountRecentTransactions
  <2>2. PICK count \in CountReads(posts[p].user) :
          SetPost(p, [posts[p] EXCEPT !.pc = "analyze", !.count = count])
    BY <1>3 DEF CountRecentTransactions
  <2>3. count \in Nat
    BY CountIsNat
  <2>4. [posts[p] EXCEPT !.pc = "analyze", !.count = count] \in Post
    BY <2>1, <2>3 DEF Post
  <2> QED
    BY <1>3, <2>2, <2>4, SetPostTyped
    DEF CountRecentTransactions, StoreTypeOK, storeVars
<1>4. CASE AnalyzePost(p)
  <2>1. posts[p] \in Post
    BY <1>4, ActivePost DEF AnalyzePost
  <2>2. [posts[p] EXCEPT !.pc = "insert", !.at = AppNow] \in Post
    BY <1>1, <2>1 DEF Post
  <2> QED
    BY <1>4, <2>2, SetPostTyped DEF AnalyzePost, StoreTypeOK, storeVars
<1>5. CASE InsertPost(p)
  <2>1. posts[p] \in Post
    BY <1>5, ActivePost DEF InsertPost
  <2>2. ASSUME NEW fits \in Castable PROVE PostedRow(posts[p], fits) \in Row
    BY <2>1, CastableAssumption DEF PostedRow, Row, Post
  <2>3. StoreTypeOK'
    BY <1>5, <2>2, AppendTyped DEF InsertPost, StoreTypeOK, storeVars
  <2> QED
    BY <1>5, <2>3, SetPostTyped DEF InsertPost
<1> QED
  BY <1>2, <1>3, <1>4, <1>5 DEF PostStep

LEMMA ReceivePostTyped ==
    ASSUME StoreTypeOK, PostTypeOK, NEW p \in Posts, NEW u \in Users,
           ReceivePost(p, u)
    PROVE  StoreTypeOK' /\ PostTypeOK'
<1>1. AppNow \in Int /\ Len(txns) \in Nat
  BY SkewAssumption DEF StoreTypeOK, AppNow
<1>2. PostAt("profile", u) \in Post
  BY <1>1, ProfileReadIsTyped DEF PostAt, Post
<1> QED
  BY <1>2, SetPostTyped DEF ReceivePost, StoreTypeOK, storeVars

LEMMA ActiveUpload ==
    ASSUME UploadTypeOK, NEW j \in Uploads, uploads[j].pc # "idle"
    PROVE  uploads[j] \in Upload
BY DEF UploadTypeOK, NoUpload, Upload

LEMMA SetUploadTyped ==
    ASSUME UploadTypeOK, NEW j \in Uploads, NEW upload \in Upload \cup {NoUpload},
           SetUpload(j, upload)
    PROVE  UploadTypeOK'
BY DEF UploadTypeOK, SetUpload

LEMMA UploadStepTyped ==
    ASSUME StoreTypeOK, UploadTypeOK, NEW j \in Uploads, UploadStep(j)
    PROVE  StoreTypeOK' /\ UploadTypeOK'
<1> USE DEF Upload
<1>1. uploads[j] \in Upload
  <2>1. uploads[j].pc # "idle"
    BY DEF UploadStep, LoadUploadProfile, CanReadLine, ReadBadRecord,
           ReadBrokenFile, ReadBadAmount, ReadTransaction, InsertUploaded, FailInsert, ReadEOF,
           BeginRecalculate, FailRecalculate, CommitRecalculate, RefreshProfile,
           RespondUpload
  <2> QED
    BY <2>1, ActiveUpload
<1>2. AppNow \in Int /\ NoLine \in Line /\ Len(txns) + 1 \in Nat
  BY SkewAssumption DEF StoreTypeOK, AppNow, NoLine, Line
<1>3. UNCHANGED storeVars => StoreTypeOK'
  BY DEF StoreTypeOK, storeVars
<1>pc. AfterInsert(uploads[j]) \in {"recalculate", "read"}
  BY DEF AfterInsert
<1>4. CASE LoadUploadProfile(j)
  <2>1. PICK profile \in ProfileReads(uploads[j].user) :
          SetUpload(j, [uploads[j] EXCEPT !.pc = "read", !.profile = profile])
    BY <1>4 DEF LoadUploadProfile
  <2>2. profile \in Profile
    BY <1>1, ProfileReadIsTyped
  <2>3. [uploads[j] EXCEPT !.pc = "read", !.profile = profile] \in Upload
    BY <1>1, <2>2
  <2> QED
    BY <1>3, <1>4, <2>1, <2>3, SetUploadTyped DEF LoadUploadProfile
<1>sums. /\ uploads[j].processed + 1 \in Nat /\ uploads[j].success + 1 \in Nat
       /\ uploads[j].failed + 1 \in Nat /\ uploads[j].lines + 1 \in Nat
       /\ uploads[j].skipped + 1 \in Nat /\ uploads[j].batchCount + 1 \in Nat
       /\ uploads[j].lost \in Nat /\ uploads[j].mine \cup {Len(txns) + 1} \in SUBSET Nat
  <2>1. /\ uploads[j].processed \in Nat /\ uploads[j].success \in Nat
        /\ uploads[j].failed \in Nat /\ uploads[j].lines \in Nat
        /\ uploads[j].skipped \in Nat /\ uploads[j].batchCount \in Nat
        /\ uploads[j].lost \in Nat /\ uploads[j].mine \in SUBSET Nat
    BY <1>1
  <2>2. \A n \in Nat : n + 1 \in Nat
    OBVIOUS
  <2> QED
    BY <1>2, <2>1, <2>2
<1> DEFINE processed == uploads[j].processed + 1
           success == uploads[j].success + 1
           failed == uploads[j].failed + 1
           lines == uploads[j].lines + 1
           skipped == uploads[j].skipped + 1
           batchCount == uploads[j].batchCount + 1
           mine == uploads[j].mine \cup {Len(txns) + 1}
           pc == AfterInsert(uploads[j])
<1>5. CASE ReadBadRecord(j)
  <2> DEFINE next == [uploads[j] EXCEPT !.failed = failed, !.lines = lines,
                                        !.skipped = skipped]
  <2>1. SetUpload(j, next) /\ UNCHANGED storeVars
    BY <1>5 DEF ReadBadRecord
  <2>2. next \in Upload
    <3> HIDE DEF failed, lines, skipped
    <3>1. failed \in Nat /\ lines \in Nat /\ skipped \in Nat
      BY <1>sums DEF failed, lines, skipped
    <3> QED
      BY <1>1, <3>1
  <2> QED
    BY <1>3, <2>1, <2>2, SetUploadTyped
<1>16. CASE ReadBrokenFile(j)
  <2>1. CASE uploads[j].lines < MaxLines
    <3> DEFINE next == [uploads[j] EXCEPT !.failed = failed, !.lines = lines,
                                          !.skipped = skipped, !.broken = TRUE]
    <3>1. SetUpload(j, next) /\ UNCHANGED storeVars
      BY <1>16, <2>1 DEF ReadBrokenFile
    <3>2. next \in Upload
      <4> HIDE DEF failed, lines, skipped
      <4>1. failed \in Nat /\ lines \in Nat /\ skipped \in Nat
        BY <1>sums DEF failed, lines, skipped
      <4> QED
        BY <1>1, <4>1
    <3> QED
      BY <1>3, <3>1, <3>2, SetUploadTyped
  <2>2. CASE ~(uploads[j].lines < MaxLines)
    <3>1. SetUpload(j, [uploads[j] EXCEPT !.broken = TRUE]) /\ UNCHANGED storeVars
      BY <1>16, <2>2 DEF ReadBrokenFile
    <3>2. [uploads[j] EXCEPT !.broken = TRUE] \in Upload
      BY <1>1
    <3> QED
      BY <1>3, <3>1, <3>2, SetUploadTyped
  <2> QED
    BY <2>1, <2>2
<1>6. CASE ReadBadAmount(j)
  <2> DEFINE next == [uploads[j] EXCEPT !.processed = processed,
                                        !.failed = failed, !.lines = lines]
  <2>1. SetUpload(j, next) /\ UNCHANGED storeVars
    BY <1>6 DEF ReadBadAmount
  <2>2. next \in Upload
    <3> HIDE DEF processed, failed, lines
    <3>1. processed \in Nat /\ failed \in Nat /\ lines \in Nat
      BY <1>sums DEF processed, failed, lines
    <3> QED
      BY <1>1, <3>1
  <2> QED
    BY <1>3, <2>1, <2>2, SetUploadTyped
<1>7. CASE ReadTransaction(j)
  <2>1. PICK at \in FileTimes \cup {AppNow}, fits \in Castable, mode \in BOOLEAN :
          SetUpload(j, [uploads[j] EXCEPT
              !.pc = "insert", !.line = [at |-> at, fits |-> fits, mode |-> mode],
              !.processed = processed, !.batchCount = batchCount,
              !.lines = lines])
    BY <1>7 DEF ReadTransaction
  <2> DEFINE line == [at |-> at, fits |-> fits, mode |-> mode]
             next == [uploads[j] EXCEPT
                         !.pc = "insert", !.line = line, !.processed = processed,
                         !.batchCount = batchCount, !.lines = lines]
  <2>2. line \in Line
    BY <1>2, FileAssumption, CastableAssumption DEF Line
  <2>3. next \in Upload
    <3> HIDE DEF line, processed, batchCount, lines
    <3>1. processed \in Nat /\ batchCount \in Nat /\ lines \in Nat
      BY <1>sums DEF processed, batchCount, lines
    <3> QED
      BY <1>1, <2>2, <3>1
  <2> QED
    BY <1>3, <1>7, <2>1, <2>3, SetUploadTyped DEF ReadTransaction
<1>8. CASE InsertUploaded(j)
  <2>4. PICK reply \in LostReplies :
          SetUpload(j, [uploads[j] EXCEPT
              !.pc = pc, !.line = NoLine, !.success = @ + (1 - reply),
              !.failed = @ + reply, !.lost = @ + reply, !.mine = mine])
    BY <1>8 DEF InsertUploaded
  <2> DEFINE right == uploads[j].success + (1 - reply)
             wrong == uploads[j].failed + reply
             lost == uploads[j].lost + reply
             next == [uploads[j] EXCEPT !.pc = pc, !.line = NoLine,
                         !.success = right, !.failed = wrong, !.lost = lost,
                         !.mine = mine]
  <2>1. UploadedRow(uploads[j]) \in Row
    BY <1>1 DEF UploadedRow, Row, Line
  <2>2. SetUpload(j, next) /\ CreateTransaction(UploadedRow(uploads[j]))
    BY <1>8, <2>4 DEF InsertUploaded
  <2>3. next \in Upload
    <3>1. /\ uploads[j].success \in Nat /\ uploads[j].failed \in Nat
          /\ uploads[j].lost \in Nat /\ reply \in {0, 1}
      BY <1>1, <2>4 DEF LostReplies
    <3>2. right \in Nat /\ wrong \in Nat /\ lost \in Nat
      BY <3>1
    <3> HIDE DEF pc, right, wrong, lost, mine
    <3>3. pc \in {"recalculate", "read"} /\ mine \in SUBSET Nat
      BY <1>pc, <1>sums DEF pc, mine
    <3> QED
      BY <1>1, <1>2, <3>2, <3>3
  <2> QED
    BY <2>1, <2>2, <2>3, AppendTyped, SetUploadTyped
<1>9. CASE FailInsert(j)
  <2> DEFINE next == [uploads[j] EXCEPT !.pc = pc, !.line = NoLine,
                                        !.failed = failed]
  <2>1. SetUpload(j, next) /\ UNCHANGED storeVars
    BY <1>9 DEF FailInsert
  <2>2. next \in Upload
    <3> HIDE DEF pc, failed
    <3>1. pc \in {"recalculate", "read"} /\ failed \in Nat
      BY <1>pc, <1>sums DEF pc, failed
    <3> QED
      BY <1>1, <1>2, <3>1
  <2> QED
    BY <1>3, <2>1, <2>2, SetUploadTyped
<1>10. CASE ReadEOF(j)
  <2>1. [uploads[j] EXCEPT !.pc = "recalculate", !.eof = TRUE] \in Upload
    BY <1>1
  <2> QED
    BY <1>3, <1>10, <2>1, SetUploadTyped DEF ReadEOF
<1>11. CASE BeginRecalculate(j)
  <2>1. [uploads[j] EXCEPT !.pc = "store",
                           !.snapshot = RowsOf(uploads[j].user)] \in Upload
    BY <1>1, RowsAreFinite
  <2> QED
    BY <1>3, <1>11, <2>1, SetUploadTyped DEF BeginRecalculate
<1>12. CASE FailRecalculate(j)
  <2>1. [uploads[j] EXCEPT !.pc = IF uploads[j].eof THEN "respond" ELSE "read",
                           !.batchCount = 0] \in Upload
    BY <1>1
  <2> QED
    BY <1>3, <1>12, <2>1, SetUploadTyped DEF FailRecalculate
<1>13. CASE CommitRecalculate(j)
  <2> DEFINE upload == uploads[j]
  <2>7. PICK after \in AfterRecalculate(upload) :
          uploads' = [uploads EXCEPT ![j] =
              [upload EXCEPT !.pc = after, !.snapshot = {},
                             !.batchCount = IF after = "read" THEN 0 ELSE @]]
    BY <1>13 DEF CommitRecalculate
  <2> DEFINE next == [upload EXCEPT !.pc = after, !.snapshot = {},
                          !.batchCount = IF after = "read" THEN 0 ELSE @]
  <2>8. after \in {"respond", "refresh", "read"}
    BY <2>7 DEF AfterRecalculate
  <2>1. next \in Upload
    BY <1>1, <2>8
  <2>2. /\ SetProfile(upload.user, RecalculatedProfile(upload.snapshot))
        /\ uploads' = [uploads EXCEPT ![j] = next]
        /\ \/ settled' = settled
           \/ settled' = [settled EXCEPT ![upload.user] = @ \cup upload.mine]
    BY <1>13, <2>7 DEF CommitRecalculate
  <2>3. RecalculatedProfile(upload.snapshot) \in Profile
    BY <1>1 DEF RecalculatedProfile, Profile
  <2>4. StoreTypeOK'
    BY <1>1, <2>2, <2>3, SetProfileTyped
  <2>5. settled' \in [Users -> SUBSET Nat]
    BY <1>1, <2>2 DEF UploadTypeOK
  <2> HIDE DEF next
  <2>6. uploads' \in [Uploads -> {NoUpload} \cup Upload]
    BY <2>1, <2>2 DEF UploadTypeOK
  <2> QED
    BY <2>4, <2>5, <2>6 DEF UploadTypeOK
<1>14. CASE RefreshProfile(j)
  <2>1. PICK profile \in {profiles[uploads[j].user]} \cup
                        (IF Fails("getProfile") THEN {uploads[j].profile} ELSE {}) :
          SetUpload(j, [uploads[j] EXCEPT !.pc = "read", !.profile = profile,
                                          !.batchCount = 0])
    BY <1>14 DEF RefreshProfile
  <2>2. profile \in Profile
    BY <1>1 DEF StoreTypeOK
  <2>3. [uploads[j] EXCEPT !.pc = "read", !.profile = profile,
                           !.batchCount = 0] \in Upload
    BY <1>1, <2>2
  <2> QED
    BY <1>3, <1>14, <2>1, <2>3, SetUploadTyped DEF RefreshProfile
<1>15. CASE RespondUpload(j)
  BY <1>3, <1>15, SetUploadTyped DEF RespondUpload
<1> QED
  BY <1>4, <1>5, <1>6, <1>7, <1>8, <1>9, <1>10, <1>11, <1>12, <1>13, <1>14,
     <1>15, <1>16 DEF UploadStep

\* What three of these steps make of an upload, field by field.
LEMMA FileBreaks ==
    ASSUME UploadTypeOK, NEW j \in Uploads, ReadBrokenFile(j)
    PROVE  LET before == uploads[j]
               after == uploads'[j]
           IN  /\ before \in Upload /\ before.pc = "read" /\ after.pc = "read"
               /\ \/ /\ after.failed = before.failed + 1
                     /\ after.lines = before.lines + 1
                     /\ after.skipped = before.skipped + 1
                  \/ /\ after.failed = before.failed
                     /\ after.lines = before.lines
                     /\ after.skipped = before.skipped
               /\ after.user = before.user /\ after.profile = before.profile
               /\ after.line = before.line /\ after.mine = before.mine
               /\ after.processed = before.processed
               /\ after.success = before.success /\ after.lost = before.lost
               /\ after.batchCount = before.batchCount
               /\ after.eof = before.eof /\ after.snapshot = before.snapshot
               /\ UNCHANGED storeVars /\ UNCHANGED settled
<1> DEFINE before == uploads[j]
           after == uploads'[j]
<1>1. before.pc = "read" /\ before \in Upload
  BY ActiveUpload DEF ReadBrokenFile
<1>2. /\ UNCHANGED storeVars /\ UNCHANGED settled
      /\ \/ after = [before EXCEPT !.failed = @ + 1, !.lines = @ + 1,
                                   !.skipped = @ + 1, !.broken = TRUE]
         \/ after = [before EXCEPT !.broken = TRUE]
  BY DEF ReadBrokenFile, SetUpload, UploadTypeOK
<1> HIDE DEF before, after
<1>3. CASE after = [before EXCEPT !.failed = @ + 1, !.lines = @ + 1,
                                  !.skipped = @ + 1, !.broken = TRUE]
  BY <1>1, <1>2, <1>3 DEF Upload, before, after
<1>4. CASE after = [before EXCEPT !.broken = TRUE]
  BY <1>1, <1>2, <1>4 DEF Upload, before, after
<1> QED
  BY <1>2, <1>3, <1>4

LEMMA RowInserted ==
    ASSUME UploadTypeOK, NEW j \in Uploads, InsertUploaded(j)
    PROVE  LET before == uploads[j]
               after == uploads'[j]
           IN  /\ before \in Upload /\ before.pc = "insert" /\ before.line.mode
               /\ after.pc = AfterInsert(before) /\ after.line = NoLine
               /\ \E reply \in {0, 1} :
                    /\ after.success = before.success + (1 - reply)
                    /\ after.failed = before.failed + reply
                    /\ after.lost = before.lost + reply
               /\ after.mine = before.mine \cup {Len(txns) + 1}
               /\ after.user = before.user /\ after.profile = before.profile
               /\ after.processed = before.processed
               /\ after.lines = before.lines /\ after.skipped = before.skipped
               /\ after.batchCount = before.batchCount
               /\ after.eof = before.eof /\ after.snapshot = before.snapshot
               /\ txns' = Append(txns, UploadedRow(before))
               /\ profiles' = profiles /\ now' = now /\ settled' = settled
<1> DEFINE before == uploads[j]
           after == uploads'[j]
           pc == AfterInsert(before)
           mine == before.mine \cup {Len(txns) + 1}
<1>1. before.pc = "insert" /\ before \in Upload /\ before.line.mode
  BY ActiveUpload DEF InsertUploaded
<1>2. PICK reply \in LostReplies :
        SetUpload(j, [before EXCEPT
            !.pc = pc, !.line = NoLine, !.success = @ + (1 - reply),
            !.failed = @ + reply, !.lost = @ + reply, !.mine = mine])
  BY DEF InsertUploaded
<1> HIDE DEF pc, mine
<1>3. /\ after = [before EXCEPT
            !.pc = pc, !.line = NoLine, !.success = @ + (1 - reply),
            !.failed = @ + reply, !.lost = @ + reply, !.mine = mine]
      /\ settled' = settled
  BY <1>2 DEF SetUpload, UploadTypeOK
<1>4. /\ txns' = Append(txns, UploadedRow(before))
      /\ profiles' = profiles /\ now' = now
  BY DEF InsertUploaded, CreateTransaction
<1>5. reply \in {0, 1}
  BY <1>2 DEF LostReplies
<1> HIDE DEF before, after
<1>6. /\ after.pc = pc /\ after.line = NoLine /\ after.mine = mine
      /\ after.success = before.success + (1 - reply)
      /\ after.failed = before.failed + reply
      /\ after.lost = before.lost + reply
      /\ after.user = before.user /\ after.profile = before.profile
      /\ after.processed = before.processed
      /\ after.lines = before.lines /\ after.skipped = before.skipped
      /\ after.batchCount = before.batchCount
      /\ after.eof = before.eof /\ after.snapshot = before.snapshot
  BY <1>1, <1>3 DEF Upload, before
<1> QED
  BY <1>1, <1>3, <1>4, <1>5, <1>6 DEF before, after, pc, mine

LEMMA RecalculationWritten ==
    ASSUME UploadTypeOK, NEW j \in Uploads, CommitRecalculate(j)
    PROVE  LET before == uploads[j]
               after == uploads'[j]
           IN  /\ before \in Upload /\ before.pc = "store"
               /\ after.pc \in AfterRecalculate(before)
               /\ after.pc \in {"respond", "refresh", "read"}
               /\ after.pc # "read" => after.batchCount = before.batchCount
               /\ after.pc = "read" => after.batchCount = 0
               /\ after.snapshot = {} /\ after.line = before.line
               /\ after.mine = before.mine /\ after.user = before.user
               /\ after.profile = before.profile
               /\ after.processed = before.processed
               /\ after.success = before.success
               /\ after.failed = before.failed /\ after.lost = before.lost
               /\ after.lines = before.lines /\ after.skipped = before.skipped
               /\ after.eof = before.eof
               /\ \A i \in Uploads : i # j => uploads'[i] = uploads[i]
               /\ txns' = txns /\ now' = now
<1> DEFINE before == uploads[j]
           after == uploads'[j]
<1>1. before.pc = "store" /\ before \in Upload
  BY ActiveUpload DEF CommitRecalculate
<1>2. PICK pc \in AfterRecalculate(before) :
        uploads' = [uploads EXCEPT ![j] =
            [before EXCEPT !.pc = pc, !.snapshot = {},
                           !.batchCount = IF pc = "read" THEN 0 ELSE @]]
  BY DEF CommitRecalculate
<1>3. /\ after = [before EXCEPT !.pc = pc, !.snapshot = {},
                          !.batchCount = IF pc = "read" THEN 0 ELSE @]
      /\ \A i \in Uploads : i # j => uploads'[i] = uploads[i]
  BY <1>2 DEF UploadTypeOK
<1>4. pc \in {"respond", "refresh", "read"}
  BY <1>2 DEF AfterRecalculate
<1>5. txns' = txns /\ now' = now
  BY DEF CommitRecalculate, SetProfile
<1> HIDE DEF before, after
<1>6. /\ after.pc = pc /\ after.snapshot = {} /\ after.line = before.line
      /\ after.batchCount = IF pc = "read" THEN 0 ELSE before.batchCount
      /\ after.mine = before.mine /\ after.user = before.user
      /\ after.profile = before.profile
      /\ after.processed = before.processed
      /\ after.success = before.success
      /\ after.failed = before.failed /\ after.lost = before.lost
      /\ after.lines = before.lines /\ after.skipped = before.skipped
      /\ after.eof = before.eof
  BY <1>1, <1>3 DEF Upload, before
<1> QED
  BY <1>1, <1>2, <1>3, <1>4, <1>5, <1>6 DEF before, after

LEMMA ReceiveUploadTyped ==
    ASSUME StoreTypeOK, UploadTypeOK, NEW j \in Uploads, NEW u \in Users,
           ReceiveUpload(j, u)
    PROVE  StoreTypeOK' /\ UploadTypeOK'
<1>1. UploadOf(u) \in Upload
  BY ProfileReadIsTyped DEF UploadOf, Upload, NoLine, Line
<1> QED
  BY <1>1, SetUploadTyped DEF ReceiveUpload, StoreTypeOK, storeVars

RebuildJob ==
    [pc : {"waiting", "started", "store", "done", "failed", "missed"},
     snapshot : [Users -> SUBSET Nat], existing : Nat, beside : SUBSET Days]

LEMMA SetRebuildTyped ==
    ASSUME RebuildTypeOK, NEW d \in Days, NEW job \in RebuildJob,
           rebuilds' = [rebuilds EXCEPT ![d] = job]
    PROVE  RebuildTypeOK'
BY DEF RebuildTypeOK, RebuildJob

LEMMA RebuildStepTyped ==
    ASSUME StoreTypeOK, RebuildTypeOK, NEW d \in Days, RebuildNext(d)
    PROVE  StoreTypeOK' /\ RebuildTypeOK'
<1>1. rebuilds[d] \in RebuildJob
  BY DEF RebuildTypeOK, RebuildJob
<1>2. UNCHANGED storeVars => StoreTypeOK'
  BY DEF StoreTypeOK, storeVars
<1>3. CASE BeginRebuild(d)
  <2> DEFINE snapshot == [u \in Users |-> ClosedRows(u)]
             job == [rebuilds[d] EXCEPT !.pc = "store", !.snapshot = snapshot]
  <2>1. \A u \in Users : ClosedRows(u) \subseteq Nat
    BY RowsAreFinite DEF ClosedRows
  <2>2. snapshot \in [Users -> SUBSET Nat]
    BY <2>1
  <2> HIDE DEF snapshot
  <2>3. job \in RebuildJob
    BY <1>1, <2>2 DEF RebuildJob
  <2>4. rebuilds' = [rebuilds EXCEPT ![d] = job]
    BY <1>3 DEF BeginRebuild, snapshot
  <2> QED
    BY <1>2, <1>3, <2>3, <2>4, SetRebuildTyped DEF BeginRebuild
<1>4. CASE FailRebuild(d)
  <2>1. [rebuilds[d] EXCEPT !.pc = "failed"] \in RebuildJob
    BY <1>1 DEF RebuildJob
  <2>2. rebuilds' = [rebuilds EXCEPT ![d] = [rebuilds[d] EXCEPT !.pc = "failed"]]
    BY <1>4 DEF FailRebuild
  <2> QED
    BY <1>2, <1>4, <2>1, <2>2, SetRebuildTyped DEF FailRebuild
<1>5. CASE CommitRebuild(d)
  <2>1. [rebuilds[d] EXCEPT !.pc = "done"] \in RebuildJob
    BY <1>1 DEF RebuildJob
  <2>2. rebuilds' = [rebuilds EXCEPT ![d] = [rebuilds[d] EXCEPT !.pc = "done"]]
    BY <1>5 DEF CommitRebuild
  <2>3. \A u \in Users : RebuiltProfile(u, rebuilds[d].snapshot[u]) \in Profile
    BY <1>1 DEF RebuiltProfile, RebuildJob, Profile, StoreTypeOK
  <2>4. profiles' \in [Users -> Profile]
    BY <1>5, <2>3 DEF CommitRebuild, StoreTypeOK
  <2>5. StoreTypeOK'
    BY <1>5, <2>4 DEF CommitRebuild, StoreTypeOK
  <2> QED
    BY <2>1, <2>2, <2>5, SetRebuildTyped
<1> QED
  BY <1>3, <1>4, <1>5 DEF RebuildNext

LEMMA StartRebuildTyped ==
    ASSUME StoreTypeOK, RebuildTypeOK, NEW d \in Days, StartRebuild(d)
    PROVE  RebuildTypeOK'
<1> DEFINE job == [rebuilds[d] EXCEPT !.pc = "started", !.existing = Len(txns),
                      !.beside = {e \in Days : Running(e)}]
<1>1. rebuilds[d] \in RebuildJob /\ Len(txns) \in Nat
  BY DEF RebuildTypeOK, RebuildJob, StoreTypeOK
<1>2. job \in RebuildJob
  BY <1>1 DEF RebuildJob
<1>3. rebuilds' = [rebuilds EXCEPT ![d] = job]
  BY DEF StartRebuild
<1> QED
  BY <1>2, <1>3, SetRebuildTyped

-----------------------------------------------------------------------------

(***************************************************************************)
(* The type invariant of the service.  It is inductive.                    *)
(***************************************************************************)
LEMMA InitTypeOK == Init => TypeOK
<1> SUFFICES ASSUME Init PROVE TypeOK
  OBVIOUS
<1>1. StoreTypeOK
  BY DEF Init, StoreInit, StoreTypeOK, NoProfile, Profile
<1>2. PostTypeOK
  BY DEF Init, PostInit, PostTypeOK
<1>3. UploadTypeOK
  BY DEF Init, UploadInit, UploadTypeOK
<1>4. RebuildTypeOK
  BY DEF Init, RebuildInit, NoRebuild, RebuildTypeOK
<1> QED
  BY <1>1, <1>2, <1>3, <1>4 DEF Init, TypeOK

LEMMA TickTyped == TypeOK /\ Tick => TypeOK'
<1> SUFFICES ASSUME TypeOK, Tick PROVE TypeOK'
  OBVIOUS
<1>1. StoreTypeOK'
  BY DEF TypeOK, Tick, StoreTypeOK
<1>2. PostTypeOK' /\ UploadTypeOK' /\ up' = up /\ crashes' = crashes
  BY DEF TypeOK, Tick, PostTypeOK, UploadTypeOK, uploadVars
<1>3. RebuildTypeOK'
  <2> DEFINE day == (now' + Skew) \div DayTicks
  <2>1. \/ UNCHANGED rebuilds
        \/ day \in Days /\ StartRebuild(day)
    BY DEF Tick
  <2> HIDE DEF day
  <2> QED
    BY <2>1, StartRebuildTyped DEF TypeOK, RebuildTypeOK
<1> QED
  BY <1>1, <1>2, <1>3 DEF TypeOK

LEMMA CrashTyped == TypeOK /\ Crash => TypeOK'
<1> SUFFICES ASSUME TypeOK, Crash PROVE TypeOK'
  OBVIOUS
<1>1. StoreTypeOK' /\ settled' = settled /\ up' \in BOOLEAN /\ crashes' \in Nat
  <2>1. StoreTypeOK'
    BY DEF TypeOK, Crash, StoreTypeOK, storeVars
  <2>2. settled' = settled /\ up' = FALSE
    BY DEF Crash
  <2>3. crashes' \in Nat
    BY DEF Crash, TypeOK
  <2> QED
    BY <2>1, <2>2, <2>3
<1>2. PostTypeOK' /\ UploadTypeOK'
  BY <1>1 DEF TypeOK, Crash, PostTypeOK, UploadTypeOK
<1>3. RebuildTypeOK'
  <2>1. \A d \in Days : AbandonedRebuild(d) \in RebuildJob
    <3> TAKE d \in Days
    <3>1. rebuilds[d] \in RebuildJob
      BY DEF TypeOK, RebuildTypeOK, RebuildJob
    <3>2. [rebuilds[d] EXCEPT !.pc = "missed"] \in RebuildJob
      BY <3>1 DEF RebuildJob
    <3> QED
      BY <3>1, <3>2 DEF AbandonedRebuild
  <2>2. rebuilds' = [d \in Days |-> AbandonedRebuild(d)]
    BY DEF Crash
  <2> QED
    BY <2>1, <2>2 DEF RebuildTypeOK, RebuildJob
<1> QED
  BY <1>1, <1>2, <1>3 DEF TypeOK

LEMMA NextTypeOK == TypeOK /\ [Next]_vars => TypeOK'
<1> SUFFICES ASSUME TypeOK, [Next]_vars PROVE TypeOK'
  OBVIOUS
<1>1. StoreTypeOK /\ PostTypeOK /\ UploadTypeOK /\ RebuildTypeOK
  BY DEF TypeOK
<1>2. UNCHANGED posts => PostTypeOK'
  BY <1>1 DEF PostTypeOK
<1>3. UNCHANGED uploadVars => UploadTypeOK'
  BY <1>1 DEF UploadTypeOK, uploadVars
<1>4. UNCHANGED rebuilds => RebuildTypeOK'
  BY <1>1 DEF RebuildTypeOK
<1>5. UNCHANGED <<up, crashes>> => up' \in BOOLEAN /\ crashes' \in Nat
  BY DEF TypeOK
<1>6. ASSUME NEW p \in Posts, PostArrives(p) PROVE TypeOK'
  <2>1. StoreTypeOK' /\ PostTypeOK'
    BY <1>1, <1>6, ReceivePostTyped DEF PostArrives
  <2> QED
    BY <1>3, <1>4, <1>5, <1>6, <2>1 DEF PostArrives, TypeOK
<1>7. ASSUME NEW p \in Posts, PostAdvances(p) PROVE TypeOK'
  <2>1. StoreTypeOK' /\ PostTypeOK'
    BY <1>1, <1>7, PostStepTyped DEF PostAdvances
  <2> QED
    BY <1>3, <1>4, <1>5, <1>7, <2>1 DEF PostAdvances, TypeOK
<1>8. ASSUME NEW j \in Uploads, UploadArrives(j) PROVE TypeOK'
  <2>1. StoreTypeOK' /\ UploadTypeOK'
    BY <1>1, <1>8, ReceiveUploadTyped DEF UploadArrives
  <2> QED
    BY <1>2, <1>4, <1>5, <1>8, <2>1 DEF UploadArrives, TypeOK
<1>9. ASSUME NEW j \in Uploads, UploadAdvances(j) PROVE TypeOK'
  <2>1. StoreTypeOK' /\ UploadTypeOK'
    BY <1>1, <1>9, UploadStepTyped DEF UploadAdvances
  <2> QED
    BY <1>2, <1>4, <1>5, <1>9, <2>1 DEF UploadAdvances, TypeOK
<1>10. ASSUME NEW d \in Days, RebuildAdvances(d) PROVE TypeOK'
  <2>1. StoreTypeOK' /\ RebuildTypeOK'
    BY <1>1, <1>10, RebuildStepTyped DEF RebuildAdvances
  <2> QED
    BY <1>2, <1>3, <1>5, <1>10, <2>1 DEF RebuildAdvances, TypeOK
<1>11. CASE Restart
  <2>1. StoreTypeOK'
    BY <1>1, <1>11 DEF Restart, StoreTypeOK, storeVars
  <2> QED
    BY <1>2, <1>3, <1>4, <1>11, <2>1 DEF Restart, TypeOK
<1>12. CASE UNCHANGED vars
  <2>1. StoreTypeOK'
    BY <1>1, <1>12 DEF vars, StoreTypeOK, storeVars
  <2> QED
    BY <1>2, <1>3, <1>4, <1>5, <1>12, <2>1 DEF vars, TypeOK
<1>13. AwaitRequests => UNCHANGED vars
  BY DEF AwaitRequests
<1> QED
  BY <1>6, <1>7, <1>8, <1>9, <1>10, <1>11, <1>12, <1>13, TickTyped, CrashTyped
  DEF Next

\* Whatever is interleaved, lost in a crash or refused by the database, every
\* row, profile, request and job has the fields and the ranges of its kind.
THEOREM TypeCorrect == Spec => []TypeOK
<1> QED
  BY InitTypeOK, NextTypeOK, PTL DEF Spec

-----------------------------------------------------------------------------

LEMMA LedgerIsFinite ==
    ASSUME NEW ledger \in Seq(Row), NEW S, S \subseteq DOMAIN ledger
    PROVE  IsFiniteSet(S) /\ Cardinality(S) \in Nat
<1>1. DOMAIN ledger = 1..Len(ledger) /\ Len(ledger) \in Nat
  OBVIOUS
<1>2. IsFiniteSet(DOMAIN ledger)
  BY <1>1, FS_Interval
<1> QED
  BY <1>2, FS_Subset, FS_CardinalityType

\* The ledger after a step.
Continues(longer, ledger) ==
    longer = ledger \/ \E row \in Row : longer = Append(ledger, row)

(***************************************************************************)
(* What a step of the service does to the ledger, the clock and a request. *)
(***************************************************************************)
Arrives(row) ==
    \/ row.via = "upload" /\ row.began = 0
    \/ \E p \in Posts, fits \in Castable :
         /\ posts[p] \in Post /\ posts[p].pc = "insert"
         /\ row = PostedRow(posts[p], fits)

LedgerGrows ==
    \/ txns' = txns
    \/ \E row \in Row : Arrives(row) /\ txns' = Append(txns, row)

\* A request moves on without a row being stored.
Proceeds(p) ==
    \/ \E u \in Users : posts'[p] = PostAt("profile", u)
    \/ /\ posts[p].pc = "profile"
       /\ \E profile \in ProfileReads(posts[p].user) :
            posts'[p] = [posts[p] EXCEPT !.pc = "count", !.profile = profile]
    \/ /\ posts[p].pc = "count"
       /\ \E count \in CountReads(posts[p].user) :
            posts'[p] = [posts[p] EXCEPT !.pc = "analyze", !.count = count]
    \/ /\ posts[p].pc = "analyze"
       /\ posts'[p] = [posts[p] EXCEPT !.pc = "insert", !.at = AppNow]

RequestMoves(p) ==
    \/ posts'[p] \in {posts[p], NoPost}
    \/ UNCHANGED storeVars /\ posts[p] \in Post \cup {NoPost} /\ Proceeds(p)

LEMMA PostMoves ==
    ASSUME TypeOK, NEW p \in Posts, PostStep(p)
    PROVE  LedgerGrows /\ now' = now /\ \A q \in Posts : RequestMoves(q)
<1>1. /\ posts \in [Posts -> {NoPost} \cup Post] /\ StoreTypeOK
      /\ \A q \in Posts : posts[q] \in Post \cup {NoPost}
  BY DEF TypeOK, PostTypeOK, Post
<1>2. ASSUME NEW post, SetPost(p, post)
      PROVE  posts'[p] = post /\ \A q \in Posts : q # p => posts'[q] = posts[q]
  BY <1>1, <1>2 DEF SetPost
<1>3. CASE InsertPost(p)
  <2>1. SetPost(p, NoPost) /\ posts[p].pc = "insert"
    BY <1>3 DEF InsertPost
  <2>2. posts[p] \in Post
    BY <2>1, ActivePost DEF TypeOK
  <2>3. \A q \in Posts : RequestMoves(q)
    BY <1>2, <2>1 DEF RequestMoves
  <2>4. now' = now
    BY <1>3 DEF InsertPost, CreateTransaction, storeVars
  <2>5. LedgerGrows
    <3>1. ASSUME NEW fits \in Castable, CreateTransaction(PostedRow(posts[p], fits))
          PROVE  LedgerGrows
      <4>1. PostedRow(posts[p], fits) \in Row
        BY <2>2, CastableAssumption DEF PostedRow, Row, Post
      <4>2. Arrives(PostedRow(posts[p], fits))
        BY <2>1, <2>2 DEF Arrives
      <4> QED
        BY <3>1, <4>1, <4>2 DEF LedgerGrows, CreateTransaction
    <3>2. UNCHANGED storeVars => LedgerGrows
      BY DEF storeVars, LedgerGrows
    <3> QED
      BY <1>3, <3>1, <3>2 DEF InsertPost
  <2> QED
    BY <2>3, <2>4, <2>5
<1>4. CASE LoadPostProfile(p)
  <2>1. PICK profile \in ProfileReads(posts[p].user) :
          SetPost(p, [posts[p] EXCEPT !.pc = "count", !.profile = profile])
    BY <1>4 DEF LoadPostProfile
  <2>2. posts[p] \in Post /\ posts[p].pc = "profile" /\ UNCHANGED storeVars
    BY <1>4, ActivePost DEF LoadPostProfile, TypeOK
  <2>3. Proceeds(p)
    BY <1>2, <2>1, <2>2 DEF Proceeds
  <2> QED
    BY <1>2, <2>1, <2>2, <2>3 DEF RequestMoves, LedgerGrows, storeVars
<1>5. CASE CountRecentTransactions(p)
  <2>1. PICK count \in CountReads(posts[p].user) :
          SetPost(p, [posts[p] EXCEPT !.pc = "analyze", !.count = count])
    BY <1>5 DEF CountRecentTransactions
  <2>2. posts[p] \in Post /\ posts[p].pc = "count" /\ UNCHANGED storeVars
    BY <1>5, ActivePost DEF CountRecentTransactions, TypeOK
  <2>3. Proceeds(p)
    BY <1>2, <2>1, <2>2 DEF Proceeds
  <2> QED
    BY <1>2, <2>1, <2>2, <2>3 DEF RequestMoves, LedgerGrows, storeVars
<1>6. CASE AnalyzePost(p)
  <2>1. /\ SetPost(p, [posts[p] EXCEPT !.pc = "insert", !.at = AppNow])
        /\ posts[p].pc = "analyze" /\ UNCHANGED storeVars
    BY <1>6 DEF AnalyzePost
  <2>2. posts[p] \in Post
    BY <2>1, ActivePost DEF TypeOK
  <2>3. Proceeds(p)
    BY <1>2, <2>1 DEF Proceeds
  <2> QED
    BY <1>2, <2>1, <2>2, <2>3 DEF RequestMoves, LedgerGrows, storeVars
<1> QED
  BY <1>3, <1>4, <1>5, <1>6 DEF PostStep

LEMMA UploadMoves ==
    ASSUME TypeOK, NEW j \in Uploads, UploadStep(j)
    PROVE  LedgerGrows /\ now' = now
<1>1. CASE InsertUploaded(j)
  <2>1. uploads[j] \in Upload
    BY <1>1, ActiveUpload DEF InsertUploaded, TypeOK
  <2>2. UploadedRow(uploads[j]) \in Row
    BY <2>1 DEF UploadedRow, Row, Upload, Line
  <2>3. Arrives(UploadedRow(uploads[j]))
    BY DEF Arrives, UploadedRow
  <2> QED
    BY <1>1, <2>2, <2>3 DEF InsertUploaded, CreateTransaction, LedgerGrows
<1>2. CASE CommitRecalculate(j)
  BY <1>2 DEF CommitRecalculate, SetProfile, LedgerGrows
<1>3. UNCHANGED storeVars => LedgerGrows /\ now' = now
  BY DEF storeVars, LedgerGrows
<1> QED
  BY <1>1, <1>2, <1>3
  DEF UploadStep, LoadUploadProfile, ReadBadRecord, ReadBrokenFile,
      ReadBadAmount, ReadTransaction, FailInsert, ReadEOF, BeginRecalculate, FailRecalculate,
      RefreshProfile, RespondUpload

LEMMA StepMoves ==
    ASSUME TypeOK, [Next]_vars
    PROVE  LedgerGrows /\ now' >= now /\ \A q \in Posts : RequestMoves(q)
<1>1. now \in Nat /\ posts \in [Posts -> {NoPost} \cup Post]
  BY DEF TypeOK, StoreTypeOK, PostTypeOK, Post
<1>2. now' = now => now' >= now
  BY <1>1
<1>3. UNCHANGED storeVars => LedgerGrows /\ now' = now
  BY DEF storeVars, LedgerGrows
<1>4. UNCHANGED posts => \A q \in Posts : RequestMoves(q)
  BY DEF RequestMoves
<1>5. ASSUME NEW p \in Posts, PostArrives(p)
      PROVE  LedgerGrows /\ now' = now /\ \A q \in Posts : RequestMoves(q)
  <2>1. PICK u \in Users : ReceivePost(p, u)
    BY <1>5 DEF PostArrives
  <2>2. /\ posts' = [posts EXCEPT ![p] = PostAt("profile", u)]
        /\ UNCHANGED storeVars
    BY <2>1 DEF ReceivePost, SetPost
  <2>3. ASSUME NEW q \in Posts PROVE RequestMoves(q)
    <3>1. posts[q] \in Post \cup {NoPost}
      BY <1>1
    <3>2. posts'[q] = posts[q] \/ posts'[q] = PostAt("profile", u)
      BY <1>1, <2>2
    <3> QED
      BY <2>2, <3>1, <3>2 DEF RequestMoves, Proceeds
  <2> QED
    BY <1>3, <2>2, <2>3
<1>6. ASSUME NEW p \in Posts, PostAdvances(p)
      PROVE  LedgerGrows /\ now' = now /\ \A q \in Posts : RequestMoves(q)
  BY <1>6, PostMoves DEF PostAdvances
<1>7. ASSUME NEW j \in Uploads, UploadArrives(j) \/ UploadAdvances(j)
      PROVE  LedgerGrows /\ now' = now /\ UNCHANGED posts
  BY <1>3, <1>7, UploadMoves DEF UploadArrives, ReceiveUpload, UploadAdvances
<1>8. ASSUME NEW d \in Days, RebuildAdvances(d)
      PROVE  LedgerGrows /\ now' = now /\ UNCHANGED posts
  BY <1>3, <1>8 DEF RebuildAdvances, RebuildNext, BeginRebuild, FailRebuild,
                    CommitRebuild, LedgerGrows
<1>9. CASE Tick
  <2>1. now' >= now
    BY <1>1, <1>9 DEF Tick
  <2> QED
    BY <1>4, <1>9, <2>1 DEF Tick, LedgerGrows
<1>10. CASE Crash
  <2>1. UNCHANGED storeVars /\ \A q \in Posts : posts'[q] = NoPost
    BY <1>10 DEF Crash
  <2> QED
    BY <1>2, <1>3, <2>1 DEF RequestMoves
<1>11. CASE Restart \/ UNCHANGED vars
  BY <1>2, <1>3, <1>4, <1>11 DEF Restart, vars
<1>12. AwaitRequests => UNCHANGED vars
  BY DEF AwaitRequests
<1> QED
  BY <1>2, <1>4, <1>5, <1>6, <1>7, <1>8, <1>9, <1>10, <1>11, <1>12 DEF Next

LEMMA ClockAdvances ==
    ASSUME TypeOK, TypeOK', [Next]_vars
    PROVE  AppNow \in Int /\ AppNow' \in Int /\ AppNow <= AppNow'
<1>1. now \in Int /\ now' \in Int /\ now <= now'
  <2>1. now \in Nat /\ now' \in Nat
    BY DEF TypeOK, StoreTypeOK
  <2>2. now' >= now
    BY StepMoves
  <2> QED
    BY <2>1, <2>2
<1>2. \A a \in Int, b \in Int, s \in Int : a <= b =>
        a + s \in Int /\ b + s \in Int /\ a + s <= b + s
  OBVIOUS
<1>3. now + Skew \in Int /\ now' + Skew \in Int /\ now + Skew <= now' + Skew
  BY <1>1, <1>2, SkewAssumption
<1> QED
  BY <1>3 DEF AppNow

-----------------------------------------------------------------------------

(***************************************************************************)
(* The frequency count of every posted transaction is bounded from below   *)
(* by SettledAreCounted and from above by OnlyRecentAreCounted, for any    *)
(* number of users and requests, however they are interleaved.  The two    *)
(* bounds need opposite things of the clocks: the first that the service's *)
(* is not behind the database's, the second that it is not ahead.          *)
(***************************************************************************)

\* The first n rows of a ledger, those of u that are dated after oldest - Window.
UserRows(ledger, u, n, oldest) ==
    {k \in DOMAIN ledger :
        ledger[k].user = u /\ k <= n /\ ledger[k].at > oldest - Window}

HowMany(ledger, u, n, oldest) == Cardinality(UserRows(ledger, u, n, oldest))

LEMMA HowManyIsNat ==
    ASSUME NEW ledger \in Seq(Row), NEW u, NEW n, NEW oldest
    PROVE  HowMany(ledger, u, n, oldest) \in Nat
<1>1. UserRows(ledger, u, n, oldest) \subseteq DOMAIN ledger
  BY DEF UserRows
<1> QED
  BY <1>1, LedgerIsFinite DEF HowMany

LEMMA FewerRows ==
    ASSUME NEW ledger \in Seq(Row), NEW u, NEW m \in Int, NEW n \in Int, m <= n,
           NEW newer \in Int, NEW older \in Int, older <= newer
    PROVE  HowMany(ledger, u, m, newer) <= HowMany(ledger, u, n, older)
<1>1. ASSUME NEW k \in UserRows(ledger, u, m, newer)
      PROVE  k \in UserRows(ledger, u, n, older)
  <2>1. k \in DOMAIN ledger /\ ledger[k].user = u
    BY DEF UserRows
  <2>2. k \in Int /\ k <= m
    BY DEF UserRows
  <2>3. ledger[k].at \in Int /\ ledger[k].at > newer - Window
    <3>1. ledger[k] \in Row
      BY <2>1
    <3> QED
      BY <3>1 DEF Row, UserRows
  <2>4. ledger[k].at > older - Window
    BY <2>3, WindowAssumption
  <2> QED
    BY <2>1, <2>2, <2>4 DEF UserRows
<1>2. UserRows(ledger, u, n, older) \subseteq DOMAIN ledger
  BY DEF UserRows
<1>3. IsFiniteSet(UserRows(ledger, u, n, older))
  BY <1>2, LedgerIsFinite
<1> QED
  BY <1>1, <1>3, FS_Subset DEF HowMany

\* What was committed stays what it was.
LEMMA OldRowsStay ==
    ASSUME NEW ledger \in Seq(Row), NEW row \in Row,
           NEW u, NEW n \in Int, n <= Len(ledger), NEW oldest
    PROVE  UserRows(Append(ledger, row), u, n, oldest)
             = UserRows(ledger, u, n, oldest)
<1> DEFINE longer == Append(ledger, row)
<1>1. /\ DOMAIN longer = DOMAIN ledger \cup {Len(ledger) + 1}
      /\ \A k \in DOMAIN ledger : longer[k] = ledger[k]
      /\ Len(ledger) \in Nat
      /\ DOMAIN ledger \subseteq Int
  OBVIOUS
<1>2. \A k \in DOMAIN longer : k <= n => k \in DOMAIN ledger
  BY <1>1
<1> HIDE DEF longer
<1>3. UserRows(longer, u, n, oldest) = UserRows(ledger, u, n, oldest)
  BY <1>1, <1>2 DEF UserRows
<1> QED
  BY <1>3 DEF longer

-----------------------------------------------------------------------------

(***************************************************************************)
(* What a request in progress has to remember for the bounds to hold when  *)
(* its row is stored.  The lower bound is against a moving clock until the *)
(* row is dated, and against created_at from then on.                      *)
(***************************************************************************)
ArrivedBefore(post, ledger, time) ==
    post.began <= Len(ledger) /\ post.since <= time

CountedEnough(post, ledger, time) ==
    /\ post.pc = "analyze" =>
         post.count >= HowMany(ledger, post.user, post.began, time)
    /\ post.pc = "insert" =>
         post.count >= HowMany(ledger, post.user, post.began, post.at)

CountedNoMore(post, ledger) ==
    post.pc \in {"analyze", "insert"} =>
        post.count <= HowMany(ledger, post.user, Len(ledger), post.since)

LEMMA RequestsKeep ==
    ASSUME NEW ledger \in Seq(Row), NEW longer, Continues(longer, ledger),
           NEW time \in Int, NEW later \in Int, time <= later,
           NEW post \in Post, ArrivedBefore(post, ledger, time)
    PROVE  /\ ArrivedBefore(post, longer, later)
           /\ CountedEnough(post, ledger, time)
                => CountedEnough(post, longer, later)
           /\ CountedNoMore(post, ledger) => CountedNoMore(post, longer)
<1>1. /\ post.user \in Users /\ post.began \in Int /\ post.since \in Int
      /\ post.at \in Int /\ post.count \in Nat
      /\ post.began <= Len(ledger) /\ post.since <= time
  BY DEF Post, ArrivedBefore
<1>2. /\ longer \in Seq(Row) /\ Len(ledger) \in Nat /\ Len(longer) \in Nat
      /\ Len(ledger) <= Len(longer)
  BY DEF Continues
<1>3. \A n \in Int, oldest \in Int : n <= Len(ledger) =>
        HowMany(longer, post.user, n, oldest) = HowMany(ledger, post.user, n, oldest)
  <2>1. ASSUME NEW row \in Row, longer = Append(ledger, row),
               NEW n \in Int, NEW oldest \in Int, n <= Len(ledger)
        PROVE  HowMany(longer, post.user, n, oldest)
                 = HowMany(ledger, post.user, n, oldest)
    BY <2>1, OldRowsStay DEF HowMany
  <2> QED
    BY <2>1 DEF Continues
<1>4. ArrivedBefore(post, longer, later)
  BY <1>1, <1>2 DEF ArrivedBefore
<1>5. ASSUME CountedEnough(post, ledger, time)
      PROVE  CountedEnough(post, longer, later)
  <2>1. HowMany(longer, post.user, post.began, post.at)
          = HowMany(ledger, post.user, post.began, post.at)
    BY <1>1, <1>3
  <2>2. HowMany(longer, post.user, post.began, later)
          <= HowMany(ledger, post.user, post.began, time)
    <3>1. HowMany(longer, post.user, post.began, later)
            = HowMany(ledger, post.user, post.began, later)
      BY <1>1, <1>3
    <3> QED
      BY <1>1, <3>1, FewerRows
  <2>3. /\ HowMany(longer, post.user, post.began, later) \in Nat
        /\ HowMany(ledger, post.user, post.began, time) \in Nat
    BY <1>2, HowManyIsNat
  <2> QED
    BY <1>1, <1>5, <2>1, <2>2, <2>3 DEF CountedEnough
<1>6. ASSUME CountedNoMore(post, ledger)
      PROVE  CountedNoMore(post, longer)
  <2>1. HowMany(ledger, post.user, Len(ledger), post.since)
          <= HowMany(longer, post.user, Len(longer), post.since)
    <3>1. HowMany(ledger, post.user, Len(ledger), post.since)
            = HowMany(longer, post.user, Len(ledger), post.since)
      BY <1>1, <1>2, <1>3
    <3> QED
      BY <1>1, <1>2, <3>1, FewerRows
  <2>2. /\ HowMany(ledger, post.user, Len(ledger), post.since) \in Nat
        /\ HowMany(longer, post.user, Len(longer), post.since) \in Nat
    BY <1>2, HowManyIsNat
  <2> QED
    BY <1>1, <1>6, <2>1, <2>2 DEF CountedNoMore
<1> QED
  BY <1>4, <1>5, <1>6

-----------------------------------------------------------------------------

Arrived ==
    /\ \A p \in Posts :
         posts[p].pc # "idle" => ArrivedBefore(posts[p], txns, AppNow)
    /\ \A i \in DOMAIN txns : txns[i].began < i

LEMMA RequestsArrived ==
    ASSUME TypeOK, TypeOK', Arrived, [Next]_vars
    PROVE  Arrived'
<1>1. LedgerGrows /\ now' >= now /\ \A q \in Posts : RequestMoves(q)
  BY StepMoves
<1>2. /\ txns \in Seq(Row) /\ Len(txns) \in Nat /\ now \in Nat /\ now' \in Nat
      /\ DOMAIN txns = 1..Len(txns)
      /\ posts \in [Posts -> {NoPost} \cup Post]
  BY DEF TypeOK, StoreTypeOK, PostTypeOK, Post
<1>3. AppNow \in Int /\ AppNow' \in Int /\ AppNow <= AppNow'
  BY ClockAdvances
<1>4. Continues(txns', txns)
  BY <1>1 DEF LedgerGrows, Continues
<1>5. ASSUME NEW p \in Posts, posts'[p].pc # "idle"
      PROVE  ArrivedBefore(posts'[p], txns', AppNow')
  <2>1. CASE posts'[p] = posts[p]
    <3>1. posts[p] \in Post /\ ArrivedBefore(posts[p], txns, AppNow)
      BY <1>2, <1>5, <2>1 DEF Arrived, NoPost
    <3> QED
      BY <1>2, <1>3, <1>4, <2>1, <3>1, RequestsKeep
  <2>2. posts'[p] # NoPost
    BY <1>5 DEF NoPost
  <2>3. CASE UNCHANGED storeVars /\ posts[p] \in Post \cup {NoPost} /\ Proceeds(p)
    <3>1. txns' = txns /\ AppNow' = AppNow
      BY <2>3 DEF storeVars, AppNow
    <3>2. CASE \E u \in Users : posts'[p] = PostAt("profile", u)
      BY <1>2, <1>3, <3>1, <3>2 DEF PostAt, ArrivedBefore
    <3>3. CASE /\ posts[p].pc # "idle"
               /\ posts'[p].began = posts[p].began
               /\ posts'[p].since = posts[p].since
      BY <3>1, <3>3 DEF Arrived, ArrivedBefore
    <3>4. posts[p].pc # "idle" => posts[p] \in Post
      BY <2>3 DEF NoPost
    <3> QED
      BY <2>3, <3>2, <3>3, <3>4 DEF Proceeds, Post
  <2> QED
    BY <1>1, <2>1, <2>2, <2>3 DEF RequestMoves
<1>6. ASSUME NEW i \in DOMAIN txns' PROVE txns'[i].began < i
  <2>1. CASE txns' = txns
    BY <1>6, <2>1 DEF Arrived
  <2>2. ASSUME NEW row \in Row, Arrives(row), txns' = Append(txns, row)
        PROVE  txns'[i].began < i
    <3>1. row.began <= Len(txns)
      <4>1. ASSUME NEW p \in Posts, NEW fits \in Castable, posts[p] \in Post,
                   posts[p].pc = "insert", row = PostedRow(posts[p], fits)
            PROVE  row.began <= Len(txns)
        BY <4>1 DEF Arrived, ArrivedBefore, PostedRow
      <4> QED
        BY <1>2, <2>2, <4>1 DEF Arrives
    <3>2. row.began \in Nat
      BY DEF Row
    <3>3. \/ i \in DOMAIN txns /\ txns'[i] = txns[i]
          \/ i = Len(txns) + 1 /\ txns'[i] = row
      BY <1>2, <1>6, <2>2
    <3> QED
      BY <1>2, <3>1, <3>2, <3>3 DEF Arrived
  <2> QED
    BY <1>1, <2>1, <2>2 DEF LedgerGrows
<1> QED
  BY <1>5, <1>6 DEF Arrived

-----------------------------------------------------------------------------

(***************************************************************************)
(* The properties of FraudService in terms of HowMany.                     *)
(***************************************************************************)
SeenEnough(ledger, i) ==
    ledger[i].via = "post" =>
        ledger[i].seen
          >= HowMany(ledger, ledger[i].user, ledger[i].began, ledger[i].at)

SeenNoMore(ledger, i) ==
    ledger[i].via = "post" =>
        ledger[i].seen <= HowMany(ledger, ledger[i].user, i - 1, ledger[i].since)

LEMMA PropertiesByRow ==
    /\ SettledAreCounted <=> \A i \in DOMAIN txns : SeenEnough(txns, i)
    /\ OnlyRecentAreCounted <=> \A i \in DOMAIN txns : SeenNoMore(txns, i)
<1>1. ASSUME NEW i, NEW first, NEW oldest
      PROVE  Cardinality(RowsSeenBy(i, first, oldest))
               = HowMany(txns, txns[i].user, first, oldest)
  <2>1. RowsSeenBy(i, first, oldest) = UserRows(txns, txns[i].user, first, oldest)
    BY DEF RowsSeenBy, UserRows, RowsOf
  <2> QED
    BY <2>1 DEF HowMany
<1> QED
  BY <1>1 DEF SettledAreCounted, OnlyRecentAreCounted, SeenEnough, SeenNoMore

LEMMA RecentRowsAreUserRows ==
    ASSUME StoreTypeOK, NEW u
    PROVE  Cardinality(RecentRows(u)) = HowMany(txns, u, Len(txns), now)
<1>1. \A k \in DOMAIN txns : k <= Len(txns)
  BY DEF StoreTypeOK
<1>2. RecentRows(u) = UserRows(txns, u, Len(txns), now)
  BY <1>1 DEF RecentRows, UserRows, RowsOf
<1> QED
  BY <1>2 DEF HowMany

\* Rows that were counted keep their count, since the rows before them stay.
LEMMA OldScoresKeep ==
    ASSUME NEW ledger \in Seq(Row), NEW row \in Row, NEW i \in DOMAIN ledger,
           ledger[i].began < i
    PROVE  /\ SeenEnough(ledger, i) => SeenEnough(Append(ledger, row), i)
           /\ SeenNoMore(ledger, i) => SeenNoMore(Append(ledger, row), i)
<1> DEFINE longer == Append(ledger, row)
<1>1. longer[i] = ledger[i] /\ i \in Nat /\ i <= Len(ledger) /\ Len(ledger) \in Nat
  OBVIOUS
<1>2. ledger[i] \in Row
  OBVIOUS
<1>3. ledger[i].began \in Int /\ ledger[i].began <= Len(ledger)
  BY <1>1, <1>2 DEF Row
<1>4. i - 1 \in Int /\ i - 1 <= Len(ledger)
  BY <1>1
<1>5. /\ HowMany(longer, ledger[i].user, ledger[i].began, ledger[i].at)
           = HowMany(ledger, ledger[i].user, ledger[i].began, ledger[i].at)
      /\ HowMany(longer, ledger[i].user, i - 1, ledger[i].since)
           = HowMany(ledger, ledger[i].user, i - 1, ledger[i].since)
  BY <1>3, <1>4, OldRowsStay DEF HowMany
<1> HIDE DEF longer
<1>6. /\ SeenEnough(ledger, i) => SeenEnough(longer, i)
      /\ SeenNoMore(ledger, i) => SeenNoMore(longer, i)
  BY <1>1, <1>5 DEF SeenEnough, SeenNoMore
<1> QED
  BY <1>6 DEF longer

\* A row that is stored now has the bounds that its request had.
LEMMA NewScoreKeeps ==
    ASSUME NEW ledger \in Seq(Row), NEW post \in Post, post.pc = "insert",
           NEW fits \in Castable, NEW time \in Int,
           ArrivedBefore(post, ledger, time),
           PostedRow(post, fits) \in Row
    PROVE  LET longer == Append(ledger, PostedRow(post, fits))
               i == Len(ledger) + 1
           IN  /\ CountedEnough(post, ledger, time) => SeenEnough(longer, i)
               /\ CountedNoMore(post, ledger) => SeenNoMore(longer, i)
<1> DEFINE row == PostedRow(post, fits)
           longer == Append(ledger, row)
           i == Len(ledger) + 1
<1>1. /\ longer[i] = row /\ Len(ledger) \in Nat /\ i - 1 = Len(ledger)
  OBVIOUS
<1>2. /\ row.user = post.user /\ row.at = post.at /\ row.seen = post.count
      /\ row.began = post.began /\ row.since = post.since
  BY DEF PostedRow
<1>3. post.began \in Int /\ post.began <= Len(ledger)
  BY DEF Post, ArrivedBefore
<1>4. \A oldest : \A n \in Int : n <= Len(ledger) =>
        HowMany(longer, post.user, n, oldest) = HowMany(ledger, post.user, n, oldest)
  BY OldRowsStay DEF HowMany
<1> HIDE DEF row, longer
<1>5. CountedEnough(post, ledger, time) => SeenEnough(longer, i)
  BY <1>1, <1>2, <1>3, <1>4 DEF CountedEnough, SeenEnough
<1>6. CountedNoMore(post, ledger) => SeenNoMore(longer, i)
  BY <1>1, <1>2, <1>4 DEF CountedNoMore, SeenNoMore
<1> QED
  BY <1>5, <1>6 DEF longer, row

-----------------------------------------------------------------------------

EnoughInv ==
    /\ \A p \in Posts :
         posts[p].pc # "idle" => CountedEnough(posts[p], txns, AppNow)
    /\ \A i \in DOMAIN txns : SeenEnough(txns, i)

NoMoreInv ==
    /\ \A p \in Posts : posts[p].pc # "idle" => CountedNoMore(posts[p], txns)
    /\ \A i \in DOMAIN txns : SeenNoMore(txns, i)

\* Old rows keep their bounds, and a new one has those of its request.
LEMMA RowsKeepEnough ==
    ASSUME TypeOK, TypeOK', Arrived, EnoughInv, [Next]_vars,
           NEW i \in DOMAIN txns'
    PROVE  SeenEnough(txns', i)
<1>1. /\ txns \in Seq(Row) /\ DOMAIN txns = 1..Len(txns) /\ Len(txns) \in Nat
      /\ AppNow \in Int
  BY ClockAdvances DEF TypeOK, StoreTypeOK
<1>2. CASE txns' = txns
  BY <1>2 DEF EnoughInv
<1>3. ASSUME NEW row \in Row, Arrives(row), txns' = Append(txns, row)
      PROVE  SeenEnough(txns', i)
  <2>1. CASE i \in DOMAIN txns
    BY <1>1, <1>3, <2>1, OldScoresKeep DEF EnoughInv, Arrived
  <2>2. CASE i = Len(txns) + 1
    <3>1. txns'[i] = row
      BY <1>1, <1>3, <2>2
    <3>2. CASE row.via = "upload"
      BY <3>1, <3>2 DEF SeenEnough
    <3>3. ASSUME NEW p \in Posts, NEW fits \in Castable, posts[p] \in Post,
                 posts[p].pc = "insert", row = PostedRow(posts[p], fits)
          PROVE  SeenEnough(txns', i)
      <4>1. /\ ArrivedBefore(posts[p], txns, AppNow)
            /\ CountedEnough(posts[p], txns, AppNow)
        BY <3>3 DEF Arrived, EnoughInv
      <4> QED
        BY <1>1, <1>3, <2>2, <3>3, <4>1, NewScoreKeeps
    <3> QED
      BY <1>3, <3>2, <3>3 DEF Arrives
  <2>3. i \in DOMAIN txns \/ i = Len(txns) + 1
    BY <1>1, <1>3
  <2> QED
    BY <2>1, <2>2, <2>3
<1> QED
  BY <1>2, <1>3, StepMoves DEF LedgerGrows

LEMMA RowsKeepNoMore ==
    ASSUME TypeOK, TypeOK', Arrived, NoMoreInv, [Next]_vars,
           NEW i \in DOMAIN txns'
    PROVE  SeenNoMore(txns', i)
<1>1. /\ txns \in Seq(Row) /\ DOMAIN txns = 1..Len(txns) /\ Len(txns) \in Nat
      /\ AppNow \in Int
  BY ClockAdvances DEF TypeOK, StoreTypeOK
<1>2. CASE txns' = txns
  BY <1>2 DEF NoMoreInv
<1>3. ASSUME NEW row \in Row, Arrives(row), txns' = Append(txns, row)
      PROVE  SeenNoMore(txns', i)
  <2>1. CASE i \in DOMAIN txns
    BY <1>1, <1>3, <2>1, OldScoresKeep DEF NoMoreInv, Arrived
  <2>2. CASE i = Len(txns) + 1
    <3>1. txns'[i] = row
      BY <1>1, <1>3, <2>2
    <3>2. CASE row.via = "upload"
      BY <3>1, <3>2 DEF SeenNoMore
    <3>3. ASSUME NEW p \in Posts, NEW fits \in Castable, posts[p] \in Post,
                 posts[p].pc = "insert", row = PostedRow(posts[p], fits)
          PROVE  SeenNoMore(txns', i)
      <4>1. /\ ArrivedBefore(posts[p], txns, AppNow)
            /\ CountedNoMore(posts[p], txns)
        BY <3>3 DEF Arrived, NoMoreInv
      <4> QED
        BY <1>1, <1>3, <2>2, <3>3, <4>1, NewScoreKeeps
    <3> QED
      BY <1>3, <3>2, <3>3 DEF Arrives
  <2>3. i \in DOMAIN txns \/ i = Len(txns) + 1
    BY <1>1, <1>3
  <2> QED
    BY <2>1, <2>2, <2>3
<1> QED
  BY <1>2, <1>3, StepMoves DEF LedgerGrows

LEMMA RequestsKeepEnough ==
    ASSUME Skew >= 0, ~Fails("countRecent"),
           TypeOK, TypeOK', Arrived, EnoughInv, [Next]_vars,
           NEW p \in Posts, posts'[p].pc # "idle"
    PROVE  CountedEnough(posts'[p], txns', AppNow')
<1>1. LedgerGrows /\ RequestMoves(p) /\ posts'[p] # NoPost
  BY StepMoves DEF NoPost
<1>2. /\ StoreTypeOK /\ txns \in Seq(Row) /\ Len(txns) \in Int /\ now \in Int
      /\ posts[p] \in {NoPost} \cup Post
      /\ AppNow \in Int /\ AppNow' \in Int /\ AppNow <= AppNow'
  BY ClockAdvances DEF TypeOK, StoreTypeOK, PostTypeOK, Post
<1>3. CASE posts'[p] = posts[p]
  <2>1. /\ posts[p] \in Post /\ ArrivedBefore(posts[p], txns, AppNow)
        /\ CountedEnough(posts[p], txns, AppNow)
    BY <1>2, <1>3 DEF Arrived, EnoughInv, NoPost
  <2>2. Continues(txns', txns)
    BY <1>1 DEF LedgerGrows, Continues
  <2> QED
    BY <1>2, <1>3, <2>1, <2>2, RequestsKeep
<1>4. CASE UNCHANGED storeVars /\ posts[p] \in Post \cup {NoPost} /\ Proceeds(p)
  <2>1. txns' = txns /\ AppNow' = AppNow
    BY <1>4 DEF storeVars, AppNow
  <2>2. CASE posts'[p].pc \in {"profile", "count"}
    BY <2>2 DEF CountedEnough
  <2>3. CASE posts[p].pc = "count" /\ \E count \in CountReads(posts[p].user) :
               posts'[p] = [posts[p] EXCEPT !.pc = "analyze", !.count = count]
    <3>1. posts[p] \in Post
      BY <1>2, <2>3 DEF NoPost
    <3>2. /\ posts'[p].pc = "analyze"
          /\ posts'[p].count = Cardinality(RecentRows(posts[p].user))
          /\ posts'[p].user = posts[p].user
          /\ posts'[p].began = posts[p].began
      BY <2>3, <3>1 DEF CountReads, Post
    <3>3. posts[p].began \in Int /\ posts[p].began <= Len(txns)
      BY <2>3, <3>1 DEF Arrived, ArrivedBefore, Post
    <3>4. now <= AppNow
      BY <1>2, SkewAssumption DEF AppNow
    <3>5. HowMany(txns, posts[p].user, posts[p].began, AppNow)
            <= Cardinality(RecentRows(posts[p].user))
      BY <1>2, <3>3, <3>4, FewerRows, RecentRowsAreUserRows
    <3>6. /\ HowMany(txns, posts[p].user, posts[p].began, AppNow) \in Nat
          /\ Cardinality(RecentRows(posts[p].user)) \in Nat
      BY <1>2, HowManyIsNat, RecentRowsAreUserRows
    <3> QED
      BY <2>1, <3>2, <3>5, <3>6 DEF CountedEnough
  <2>4. CASE /\ posts[p].pc = "analyze"
             /\ posts'[p] = [posts[p] EXCEPT !.pc = "insert", !.at = AppNow]
    <3>1. posts[p] \in Post /\ CountedEnough(posts[p], txns, AppNow)
      BY <1>2, <2>4 DEF NoPost, EnoughInv
    <3>2. /\ posts'[p].pc = "insert" /\ posts'[p].at = AppNow
          /\ posts'[p].count = posts[p].count /\ posts'[p].user = posts[p].user
          /\ posts'[p].began = posts[p].began
      BY <2>4, <3>1 DEF Post
    <3> QED
      BY <2>1, <2>4, <3>1, <3>2 DEF CountedEnough
  <2>5. CASE \E u \in Users : posts'[p] = PostAt("profile", u)
    BY <2>2, <2>5 DEF PostAt
  <2>6. CASE /\ posts[p].pc = "profile"
             /\ \E profile \in ProfileReads(posts[p].user) :
               posts'[p] = [posts[p] EXCEPT !.pc = "count", !.profile = profile]
    <3>1. posts[p] \in Post
      BY <1>2, <2>6 DEF NoPost
    <3> QED
      BY <2>2, <2>6, <3>1 DEF Post
  <2> QED
    BY <1>4, <2>3, <2>4, <2>5, <2>6 DEF Proceeds
<1> QED
  BY <1>1, <1>3, <1>4 DEF RequestMoves

\* A count that failed is 0, which is no more than any other.
LEMMA RequestsKeepNoMore ==
    ASSUME Skew <= 0,
           TypeOK, TypeOK', Arrived, NoMoreInv, [Next]_vars,
           NEW p \in Posts, posts'[p].pc # "idle"
    PROVE  CountedNoMore(posts'[p], txns')
<1>1. LedgerGrows /\ RequestMoves(p) /\ posts'[p] # NoPost
  BY StepMoves DEF NoPost
<1>2. /\ StoreTypeOK /\ txns \in Seq(Row) /\ Len(txns) \in Int /\ now \in Int
      /\ posts[p] \in {NoPost} \cup Post
      /\ AppNow \in Int /\ AppNow' \in Int /\ AppNow <= AppNow'
  BY ClockAdvances DEF TypeOK, StoreTypeOK, PostTypeOK, Post
<1>3. CASE posts'[p] = posts[p]
  <2>1. /\ posts[p] \in Post /\ ArrivedBefore(posts[p], txns, AppNow)
        /\ CountedNoMore(posts[p], txns)
    BY <1>2, <1>3 DEF Arrived, NoMoreInv, NoPost
  <2>2. Continues(txns', txns)
    BY <1>1 DEF LedgerGrows, Continues
  <2> QED
    BY <1>2, <1>3, <2>1, <2>2, RequestsKeep
<1>4. CASE UNCHANGED storeVars /\ posts[p] \in Post \cup {NoPost} /\ Proceeds(p)
  <2>1. txns' = txns
    BY <1>4 DEF storeVars
  <2>2. CASE posts'[p].pc \in {"profile", "count"}
    BY <2>2 DEF CountedNoMore
  <2>3. CASE posts[p].pc = "count" /\ \E count \in CountReads(posts[p].user) :
               posts'[p] = [posts[p] EXCEPT !.pc = "analyze", !.count = count]
    <3>1. posts[p] \in Post
      BY <1>2, <2>3 DEF NoPost
    <3>2. /\ posts'[p].count \in {0, Cardinality(RecentRows(posts[p].user))}
          /\ posts'[p].user = posts[p].user
          /\ posts'[p].since = posts[p].since
      BY <2>3, <3>1 DEF CountReads, Post
    <3>3. posts[p].since \in Int /\ posts[p].since <= AppNow
      BY <2>3, <3>1 DEF Arrived, ArrivedBefore, Post
    <3>4. posts[p].since <= now
      BY <1>2, <3>3, SkewAssumption DEF AppNow
    <3>5. Cardinality(RecentRows(posts[p].user))
            <= HowMany(txns, posts[p].user, Len(txns), posts[p].since)
      BY <1>2, <3>3, <3>4, FewerRows, RecentRowsAreUserRows
    <3>6. HowMany(txns, posts[p].user, Len(txns), posts[p].since) \in Nat
      BY <1>2, HowManyIsNat
    <3> QED
      BY <2>1, <3>2, <3>5, <3>6 DEF CountedNoMore
  <2>4. CASE /\ posts[p].pc = "analyze"
             /\ posts'[p] = [posts[p] EXCEPT !.pc = "insert", !.at = AppNow]
    <3>1. posts[p] \in Post /\ CountedNoMore(posts[p], txns)
      BY <1>2, <2>4 DEF NoPost, NoMoreInv
    <3>2. /\ posts'[p].count = posts[p].count /\ posts'[p].user = posts[p].user
          /\ posts'[p].since = posts[p].since
      BY <2>4, <3>1 DEF Post
    <3> QED
      BY <2>1, <2>4, <3>1, <3>2 DEF CountedNoMore
  <2>5. CASE \E u \in Users : posts'[p] = PostAt("profile", u)
    BY <2>2, <2>5 DEF PostAt
  <2>6. CASE /\ posts[p].pc = "profile"
             /\ \E profile \in ProfileReads(posts[p].user) :
               posts'[p] = [posts[p] EXCEPT !.pc = "count", !.profile = profile]
    <3>1. posts[p] \in Post
      BY <1>2, <2>6 DEF NoPost
    <3> QED
      BY <2>2, <2>6, <3>1 DEF Post
  <2> QED
    BY <1>4, <2>3, <2>4, <2>5, <2>6 DEF Proceeds
<1> QED
  BY <1>1, <1>3, <1>4 DEF RequestMoves

-----------------------------------------------------------------------------

LEMMA InitArrived == Init => Arrived /\ EnoughInv /\ NoMoreInv
<1> SUFFICES ASSUME Init PROVE Arrived /\ EnoughInv /\ NoMoreInv
  OBVIOUS
<1>1. /\ \A p \in Posts : posts[p].pc = "idle"
      /\ DOMAIN txns = {}
  BY DEF Init, PostInit, NoPost, StoreInit
<1> QED
  BY <1>1 DEF Arrived, EnoughInv, NoMoreInv

\* No row was stored by a request that had not arrived.
THEOREM ArrivalsPrecede == Spec => []Arrived
<1>1. TypeOK /\ TypeOK' /\ Arrived /\ [Next]_vars => Arrived'
  BY RequestsArrived
<1> QED
  BY <1>1, InitArrived, TypeCorrect, PTL DEF Spec

(***************************************************************************)
(* With a service clock that is not behind the database's, and counts that *)
(* succeed, a posted transaction is scored with at least the transactions  *)
(* of its hour that were committed when its request arrived.               *)
(***************************************************************************)
THEOREM SettledCounted ==
    ASSUME Skew >= 0, ~Fails("countRecent")
    PROVE  Spec => []SettledAreCounted
<1>1. TypeOK /\ TypeOK' /\ Arrived /\ EnoughInv /\ [Next]_vars => EnoughInv'
  <2> SUFFICES ASSUME TypeOK, TypeOK', Arrived, EnoughInv, [Next]_vars
               PROVE  EnoughInv'
    OBVIOUS
  <2>1. \A i \in DOMAIN txns' : SeenEnough(txns', i)
    BY RowsKeepEnough
  <2>2. \A p \in Posts :
          posts'[p].pc # "idle" => CountedEnough(posts'[p], txns', AppNow')
    BY RequestsKeepEnough
  <2> QED
    BY <2>1, <2>2 DEF EnoughInv
<1>2. EnoughInv => SettledAreCounted
  BY PropertiesByRow DEF EnoughInv
<1> QED
  BY <1>1, <1>2, InitArrived, TypeCorrect, ArrivalsPrecede, PTL DEF Spec

(***************************************************************************)
(* With a service clock that is not ahead of the database's, whether or    *)
(* not counts succeed, no transaction is scored with more than those dated *)
(* within the hour before its request arrived, or later.                   *)
(***************************************************************************)
THEOREM OnlyRecentCounted ==
    ASSUME Skew <= 0
    PROVE  Spec => []OnlyRecentAreCounted
<1>1. TypeOK /\ TypeOK' /\ Arrived /\ NoMoreInv /\ [Next]_vars => NoMoreInv'
  <2> SUFFICES ASSUME TypeOK, TypeOK', Arrived, NoMoreInv, [Next]_vars
               PROVE  NoMoreInv'
    OBVIOUS
  <2>1. \A i \in DOMAIN txns' : SeenNoMore(txns', i)
    BY RowsKeepNoMore
  <2>2. \A p \in Posts :
          posts'[p].pc # "idle" => CountedNoMore(posts'[p], txns')
    BY RequestsKeepNoMore
  <2> QED
    BY <2>1, <2>2 DEF NoMoreInv
<1>2. NoMoreInv => OnlyRecentAreCounted
  BY PropertiesByRow DEF NoMoreInv
<1> QED
  BY <1>1, <1>2, InitArrived, TypeCorrect, ArrivalsPrecede, PTL DEF Spec
=============================================================================
