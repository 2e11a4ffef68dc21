---------------------------- MODULE UploadProofs ---------------------------
(***************************************************************************)
(* What an upload reports is what it did, for any number of uploads beside *)
(* any other requests and jobs, with any failures and crashes.             *)
(***************************************************************************)
EXTENDS FraudServiceProofs

OwnRows(ledger, u) == {i \in DOMAIN ledger : ledger[i].user = u}

(***************************************************************************)
(* UploadAccounting for one upload.  With the types it is inductive.       *)
(***************************************************************************)
Account(upload, ledger) ==
    /\ upload.mine \subseteq OwnRows(ledger, upload.user)
    /\ upload.success + upload.lost = Cardinality(upload.mine)
    /\ upload.lost <= upload.failed
    /\ upload.success + upload.failed
         + (IF upload.pc = "insert" THEN 1 ELSE 0) = upload.lines
    /\ upload.processed + upload.skipped = upload.lines

LEMMA AccountsAreAccounting ==
    UploadAccounting <=> \A j \in Uploads : Busy(j) => Account(uploads[j], txns)
BY DEF UploadAccounting, Account, OwnRows, RowsOf

LEMMA AccountStays ==
    ASSUME NEW ledger \in Seq(Row), NEW longer, Continues(longer, ledger),
           NEW upload, Account(upload, ledger)
    PROVE  Account(upload, longer)
<1>1. OwnRows(ledger, upload.user) \subseteq OwnRows(longer, upload.user)
  <2>1. ASSUME NEW row \in Row, longer = Append(ledger, row)
        PROVE  OwnRows(ledger, upload.user) \subseteq OwnRows(longer, upload.user)
    BY <2>1 DEF OwnRows
  <2> QED
    BY <2>1 DEF Continues
<1> QED
  BY <1>1 DEF Account

\* "reported" lines are read, "short" of them with too few columns, and
\* "ended" attempts fail; nothing is inserted.
Reports(before, after, reported, short, ended) ==
    /\ after.mine = before.mine
    /\ after.user = before.user
    /\ after.success = before.success
    /\ after.lost = before.lost
    /\ after.lines = before.lines + reported
    /\ after.skipped = before.skipped + short
    /\ after.processed = before.processed + (reported - short)
    /\ after.failed = before.failed + ended
    /\ (IF after.pc = "insert" THEN 1 ELSE 0)
         = (IF before.pc = "insert" THEN 1 ELSE 0) + (reported - ended)

LEMMA LineCounted ==
    ASSUME NEW ledger, NEW before \in Upload, NEW after \in Upload,
           NEW reported \in Int, NEW short \in Int, NEW ended \in Nat,
           Reports(before, after, reported, short, ended),
           Account(before, ledger)
    PROVE  Account(after, ledger)
<1> DEFINE was == IF before.pc = "insert" THEN 1 ELSE 0
           is == IF after.pc = "insert" THEN 1 ELSE 0
           success == before.success
           failed == before.failed
           lines == before.lines
           processed == before.processed
           skipped == before.skipped
           lost == before.lost
<1>1. /\ success \in Nat /\ failed \in Nat /\ lines \in Nat
      /\ processed \in Nat /\ skipped \in Nat /\ lost \in Nat
  BY DEF Upload
<1>2. was \in Int /\ is \in Int /\ is = was + (reported - ended)
  BY DEF Reports
<1>3. /\ success + failed + was = lines /\ processed + skipped = lines
      /\ success + lost = Cardinality(before.mine) /\ lost <= failed
  BY DEF Account
<1>4. /\ after.success = success /\ after.failed = failed + ended
      /\ after.lines = lines + reported
      /\ after.processed = processed + (reported - short)
      /\ after.skipped = skipped + short
      /\ after.mine = before.mine /\ after.user = before.user
      /\ after.lost = lost
  BY DEF Reports
<1> HIDE DEF was, is, success, failed, lines, processed, skipped, lost
<1>5. success + (failed + ended) + is = lines + reported
  BY <1>1, <1>2, <1>3
<1>6. (processed + (reported - short)) + (skipped + short) = lines + reported
  BY <1>1, <1>3
<1>7. after.success + after.failed + is = after.lines
  BY <1>4, <1>5
<1>8. after.processed + after.skipped = after.lines
  BY <1>4, <1>6
<1>9. after.lost <= after.failed /\ after.success + after.lost = Cardinality(after.mine)
  BY <1>1, <1>3, <1>4
<1> QED
  BY <1>4, <1>7, <1>8, <1>9 DEF Account, is

SameNumbers(before, after) ==
    /\ after.mine = before.mine
    /\ after.user = before.user
    /\ after.success = before.success
    /\ after.lost = before.lost
    /\ after.lines = before.lines
    /\ after.skipped = before.skipped
    /\ after.processed = before.processed
    /\ after.failed = before.failed

LEMMA NothingReported ==
    ASSUME NEW before \in Upload, NEW after, SameNumbers(before, after),
           before.pc # "insert", after.pc # "insert"
    PROVE  Reports(before, after, 0, 0, 0)
<1>1. /\ before.lines \in Nat /\ before.skipped \in Nat
      /\ before.processed \in Nat /\ before.failed \in Nat
  BY DEF Upload
<1>2. \A n \in Nat : n = n + 0 /\ n = n + (0 - 0)
  OBVIOUS
<1> QED
  BY <1>1, <1>2 DEF Reports, SameNumbers

\* A row that is stored is counted once, as a success or a failure.
LEMMA RowCounted ==
    ASSUME NEW ledger \in Seq(Row), NEW row \in Row,
           NEW before \in Upload, NEW after \in Upload, NEW reply \in {0, 1},
           Account(before, ledger), before.pc = "insert", after.pc # "insert",
           row.user = before.user, after.user = before.user,
           after.mine = before.mine \cup {Len(ledger) + 1},
           after.success = before.success + (1 - reply),
           after.failed = before.failed + reply,
           after.lost = before.lost + reply,
           after.lines = before.lines, after.processed = before.processed,
           after.skipped = before.skipped
    PROVE  Account(after, Append(ledger, row))
<1> DEFINE longer == Append(ledger, row)
<1>1. /\ DOMAIN ledger = 1..Len(ledger) /\ Len(ledger) \in Nat
      /\ DOMAIN longer = DOMAIN ledger \cup {Len(ledger) + 1}
      /\ \A i \in DOMAIN ledger : longer[i] = ledger[i]
      /\ longer[Len(ledger) + 1] = row
  OBVIOUS
<1>2. before.mine \subseteq DOMAIN ledger
  BY DEF Account, OwnRows
<1>3. IsFiniteSet(before.mine) /\ Len(ledger) + 1 \notin before.mine
  BY <1>1, <1>2, LedgerIsFinite
<1>4. Cardinality(after.mine) = Cardinality(before.mine) + 1
  BY <1>3, FS_AddElement
<1> HIDE DEF longer
<1>5. after.mine \subseteq OwnRows(longer, after.user)
  BY <1>1 DEF Account, OwnRows
<1>7. /\ after.success + after.failed + 0 = after.lines
      /\ after.success + after.lost = Cardinality(after.mine)
      /\ after.lost <= after.failed
  <2> DEFINE success == before.success
             failed == before.failed
             lost == before.lost
             size == Cardinality(before.mine)
  <2>1. success \in Nat /\ failed \in Nat /\ lost \in Nat
    BY DEF Upload
  <2>2. /\ success + failed + 1 = after.lines /\ success + lost = size
        /\ lost <= failed
    BY DEF Account
  <2>3. /\ after.success = success + (1 - reply) /\ after.failed = failed + reply
        /\ after.lost = lost + reply /\ Cardinality(after.mine) = size + 1
    BY <1>4
  <2> HIDE DEF success, failed, lost, size
  <2>4. (success + (1 - reply)) + (failed + reply) + 0 = after.lines
    BY <2>1, <2>2
  <2>5. (success + (1 - reply)) + (lost + reply) = size + 1
    BY <2>1, <2>2
  <2>6. lost + reply <= failed + reply
    BY <2>1, <2>2
  <2> QED
    BY <2>3, <2>4, <2>5, <2>6
<1>8. after.processed + after.skipped = after.lines
  BY DEF Account
<1> QED
  BY <1>5, <1>7, <1>8 DEF Account, longer

-----------------------------------------------------------------------------

LEMMA UploadCounted ==
    ASSUME TypeOK, TypeOK', NEW j \in Uploads, UploadStep(j),
           Account(uploads[j], txns), uploads'[j].pc # "idle"
    PROVE  Account(uploads'[j], txns')
<1> DEFINE before == uploads[j]
           after == uploads'[j]
<1>1. /\ uploads \in [Uploads -> {NoUpload} \cup Upload]
      /\ txns \in Seq(Row)
  BY DEF TypeOK, UploadTypeOK, StoreTypeOK
<1>2. before \in Upload
  <2>1. before.pc # "idle"
    BY DEF UploadStep, LoadUploadProfile, CanReadLine, ReadBadRecord,
           ReadBrokenFile, ReadBadAmount, ReadTransaction, InsertUploaded, FailInsert, ReadEOF,
           BeginRecalculate, FailRecalculate, CommitRecalculate, RefreshProfile,
           RespondUpload
  <2> QED
    BY <2>1, ActiveUpload DEF TypeOK
<1>3. after \in Upload
  BY ActiveUpload DEF TypeOK, UploadTypeOK, NoUpload, Upload
<1>4. /\ before.processed \in Nat /\ before.failed \in Nat /\ before.lines \in Nat
      /\ before.skipped \in Nat
  BY <1>2 DEF Upload
<1>5. ASSUME NEW upload, SetUpload(j, upload) PROVE after = upload
  BY <1>1, <1>5 DEF SetUpload
<1>6. CASE ReadBadRecord(j)
  <2>1. /\ after = [before EXCEPT !.failed = @ + 1, !.lines = @ + 1,
                                  !.skipped = @ + 1]
        /\ before.pc = "read" /\ UNCHANGED storeVars
    BY <1>5, <1>6 DEF ReadBadRecord, CanReadLine
  <2>2. /\ after.mine = before.mine /\ after.user = before.user
        /\ after.success = before.success /\ after.lost = before.lost
        /\ after.pc = "read"
        /\ after.lines = before.lines + 1 /\ after.skipped = before.skipped + 1
        /\ after.processed = before.processed
        /\ after.failed = before.failed + 1
    BY <1>2, <2>1 DEF Upload
  <2> HIDE DEF before, after
  <2>3. Reports(before, after, 1, 1, 1)
    BY <1>4, <2>1, <2>2 DEF Reports
  <2>4. Account(after, txns)
    BY <1>2, <1>3, <2>3, LineCounted DEF before
  <2> QED
    BY <2>1, <2>4 DEF storeVars, after
<1>7. CASE ReadBadAmount(j)
  <2>1. /\ after = [before EXCEPT !.processed = @ + 1, !.failed = @ + 1,
                                  !.lines = @ + 1]
        /\ before.pc = "read" /\ UNCHANGED storeVars
    BY <1>5, <1>7 DEF ReadBadAmount, CanReadLine
  <2>2. /\ after.mine = before.mine /\ after.user = before.user
        /\ after.success = before.success /\ after.lost = before.lost
        /\ after.pc = "read"
        /\ after.lines = before.lines + 1 /\ after.skipped = before.skipped
        /\ after.processed = before.processed + 1
        /\ after.failed = before.failed + 1
    BY <1>2, <2>1 DEF Upload
  <2> HIDE DEF before, after
  <2>3. Reports(before, after, 1, 0, 1)
    BY <1>4, <2>1, <2>2 DEF Reports
  <2>4. Account(after, txns)
    BY <1>2, <1>3, <2>3, LineCounted DEF before
  <2> QED
    BY <2>1, <2>4 DEF storeVars, after
<1>8. CASE ReadTransaction(j)
  <2>1. PICK at \in FileTimes \cup {AppNow}, fits \in Castable, mode \in BOOLEAN :
          SetUpload(j, [before EXCEPT
              !.pc = "insert", !.line = [at |-> at, fits |-> fits, mode |-> mode],
              !.processed = @ + 1, !.batchCount = @ + 1, !.lines = @ + 1])
    BY <1>8 DEF ReadTransaction
  <2>2. before.pc = "read" /\ UNCHANGED storeVars
    BY <1>8 DEF ReadTransaction, CanReadLine
  <2> DEFINE line == [at |-> at, fits |-> fits, mode |-> mode]
  <2> HIDE DEF line
  <2>line. after = [before EXCEPT
              !.pc = "insert", !.line = line,
              !.processed = @ + 1, !.batchCount = @ + 1, !.lines = @ + 1]
    BY <1>5, <2>1 DEF line
  <2>3. /\ after.mine = before.mine /\ after.user = before.user
        /\ after.success = before.success /\ after.lost = before.lost
        /\ after.pc = "insert"
        /\ after.lines = before.lines + 1 /\ after.skipped = before.skipped
        /\ after.processed = before.processed + 1
        /\ after.failed = before.failed
    BY <1>2, <2>line DEF Upload
  <2> HIDE DEF before, after
  <2>4. Reports(before, after, 1, 0, 0)
    BY <1>4, <2>2, <2>3 DEF Reports
  <2>5. Account(after, txns)
    BY <1>2, <1>3, <2>4, LineCounted DEF before
  <2> QED
    BY <2>2, <2>5 DEF storeVars, after
<1>9. CASE FailInsert(j)
  <2>1. /\ after = [before EXCEPT !.pc = AfterInsert(before), !.line = NoLine,
                                  !.failed = @ + 1]
        /\ before.pc = "insert" /\ UNCHANGED storeVars
    BY <1>5, <1>9 DEF FailInsert
  <2>2. /\ after.mine = before.mine /\ after.user = before.user
        /\ after.success = before.success /\ after.lost = before.lost
        /\ after.pc # "insert"
        /\ after.lines = before.lines /\ after.skipped = before.skipped
        /\ after.processed = before.processed
        /\ after.failed = before.failed + 1
    BY <1>2, <2>1 DEF Upload, AfterInsert
  <2> HIDE DEF before, after
  <2>3. Reports(before, after, 0, 0, 1)
    BY <1>4, <2>1, <2>2 DEF Reports
  <2>4. Account(after, txns)
    BY <1>2, <1>3, <2>3, LineCounted DEF before
  <2> QED
    BY <2>1, <2>4 DEF storeVars, after
<1>10. CASE InsertUploaded(j)
  <2>1. before.pc = "insert" /\ txns' = Append(txns, UploadedRow(before))
    BY <1>10, RowInserted DEF TypeOK
  <2>5. PICK reply \in {0, 1} :
          /\ after.success = before.success + (1 - reply)
          /\ after.failed = before.failed + reply
          /\ after.lost = before.lost + reply
    BY <1>10, RowInserted DEF TypeOK
  <2>2. /\ after.mine = before.mine \cup {Len(txns) + 1}
        /\ after.user = before.user /\ after.pc # "insert"
        /\ after.lines = before.lines /\ after.skipped = before.skipped
        /\ after.processed = before.processed
    BY <1>10, RowInserted DEF TypeOK, AfterInsert
  <2>3. /\ UploadedRow(before) \in Row
        /\ UploadedRow(before).user = before.user
    BY <1>2 DEF UploadedRow, Row, Upload, Line
  <2> HIDE DEF before, after
  <2>4. Account(after, Append(txns, UploadedRow(before)))
    BY <1>1, <1>2, <1>3, <2>1, <2>2, <2>3, <2>5, RowCounted DEF before
  <2> QED
    BY <2>1, <2>4 DEF after
<1>11. ASSUME txns' = txns, before.pc # "insert", after.pc # "insert",
              Reports(before, after, 0, 0, 0)
       PROVE  Account(after, txns')
  <2> HIDE DEF before, after
  <2>1. Account(after, txns)
    BY <1>2, <1>3, <1>11, LineCounted DEF before
  <2> QED
    BY <1>11, <2>1
<1>12. CASE LoadUploadProfile(j)
  <2>1. PICK profile \in ProfileReads(before.user) :
          after = [before EXCEPT !.pc = "read", !.profile = profile]
    BY <1>5, <1>12 DEF LoadUploadProfile
  <2>2. before.pc = "profile" /\ txns' = txns
    BY <1>12 DEF LoadUploadProfile, storeVars
  <2>3. SameNumbers(before, after) /\ after.pc = "read"
    BY <1>2, <2>1 DEF Upload, SameNumbers
  <2> HIDE DEF before, after
  <2>4. Reports(before, after, 0, 0, 0)
    BY <1>2, <2>2, <2>3, NothingReported
  <2> QED
    BY <1>11, <2>2, <2>3, <2>4 DEF after
<1>13. CASE ReadEOF(j)
  <2>1. /\ after = [before EXCEPT !.pc = "recalculate", !.eof = TRUE]
        /\ before.pc = "read" /\ txns' = txns
    BY <1>5, <1>13 DEF ReadEOF, storeVars
  <2>2. SameNumbers(before, after) /\ after.pc = "recalculate"
    BY <1>2, <2>1 DEF Upload, SameNumbers
  <2> HIDE DEF before, after
  <2>3. Reports(before, after, 0, 0, 0)
    BY <1>2, <2>1, <2>2, NothingReported
  <2> QED
    BY <1>11, <2>1, <2>2, <2>3 DEF after
<1>14. CASE BeginRecalculate(j)
  <2>1. /\ after = [before EXCEPT !.pc = "store", !.snapshot = RowsOf(before.user)]
        /\ before.pc = "recalculate" /\ txns' = txns
    BY <1>5, <1>14 DEF BeginRecalculate, storeVars
  <2>2. SameNumbers(before, after) /\ after.pc = "store"
    BY <1>2, <2>1 DEF Upload, SameNumbers
  <2> HIDE DEF before, after
  <2>3. Reports(before, after, 0, 0, 0)
    BY <1>2, <2>1, <2>2, NothingReported
  <2> QED
    BY <1>11, <2>1, <2>2, <2>3 DEF after
<1>15. CASE FailRecalculate(j)
  <2>1. /\ after = [before EXCEPT
                       !.pc = IF before.eof THEN "respond" ELSE "read",
                       !.batchCount = 0]
        /\ before.pc = "recalculate" /\ txns' = txns
    BY <1>5, <1>15 DEF FailRecalculate, storeVars
  <2>2. SameNumbers(before, after) /\ after.pc \in {"respond", "read"}
    BY <1>2, <2>1 DEF Upload, SameNumbers
  <2> HIDE DEF before, after
  <2>3. Reports(before, after, 0, 0, 0)
    BY <1>2, <2>1, <2>2, NothingReported
  <2> QED
    BY <1>11, <2>1, <2>2, <2>3 DEF after
<1>16. CASE CommitRecalculate(j)
  <2>1. before.pc = "store" /\ txns' = txns
    BY <1>16, RecalculationWritten DEF TypeOK
  <2>2. SameNumbers(before, after) /\ after.pc \in {"respond", "refresh", "read"}
    BY <1>16, RecalculationWritten DEF TypeOK, SameNumbers
  <2> HIDE DEF before, after
  <2>3. Reports(before, after, 0, 0, 0)
    BY <1>2, <2>1, <2>2, NothingReported
  <2> QED
    BY <1>11, <2>1, <2>2, <2>3 DEF after
<1>17. CASE RefreshProfile(j)
  <2>1. PICK profile :
          after = [before EXCEPT !.pc = "read", !.profile = profile,
                                 !.batchCount = 0]
    BY <1>5, <1>17 DEF RefreshProfile
  <2>2. before.pc = "refresh" /\ txns' = txns
    BY <1>17 DEF RefreshProfile, storeVars
  <2>3. SameNumbers(before, after) /\ after.pc = "read"
    BY <1>2, <2>1 DEF Upload, SameNumbers
  <2> HIDE DEF before, after
  <2>4. Reports(before, after, 0, 0, 0)
    BY <1>2, <2>2, <2>3, NothingReported
  <2> QED
    BY <1>11, <2>2, <2>3, <2>4 DEF after
<1>18. ~RespondUpload(j)
  BY <1>5 DEF RespondUpload, NoUpload
<1>19. CASE ReadBrokenFile(j)
  <2>1. /\ before.pc = "read" /\ after.pc = "read" /\ txns' = txns
        /\ \/ /\ after.failed = before.failed + 1
              /\ after.lines = before.lines + 1
              /\ after.skipped = before.skipped + 1
           \/ /\ after.failed = before.failed
              /\ after.lines = before.lines
              /\ after.skipped = before.skipped
        /\ after.mine = before.mine /\ after.user = before.user
        /\ after.success = before.success /\ after.lost = before.lost
        /\ after.processed = before.processed
    BY <1>19, FileBreaks DEF TypeOK, storeVars
  <2> HIDE DEF before, after
  <2>2. CASE /\ after.failed = before.failed + 1
             /\ after.lines = before.lines + 1
             /\ after.skipped = before.skipped + 1
    <3>1. Reports(before, after, 1, 1, 1)
      BY <1>4, <2>1, <2>2 DEF Reports
    <3>2. Account(after, txns)
      BY <1>2, <1>3, <3>1, LineCounted DEF before
    <3> QED
      BY <2>1, <3>2 DEF after
  <2>3. CASE /\ after.failed = before.failed
             /\ after.lines = before.lines
             /\ after.skipped = before.skipped
    <3>1. SameNumbers(before, after)
      BY <2>1, <2>3 DEF SameNumbers
    <3>2. Reports(before, after, 0, 0, 0)
      BY <1>2, <2>1, <3>1, NothingReported
    <3> QED
      BY <1>11, <2>1, <3>2 DEF after
  <2> QED
    BY <2>1, <2>2, <2>3
<1> QED
  BY <1>6, <1>7, <1>8, <1>9, <1>10, <1>12, <1>13, <1>14, <1>15, <1>16, <1>17,
     <1>18, <1>19 DEF UploadStep

\* A request that arrives has counted nothing.
LEMMA NewAccount ==
    ASSUME NEW u, NEW ledger
    PROVE  Account(UploadOf(u), ledger)
BY FS_EmptySet DEF Account, UploadOf

Accounts == \A j \in Uploads : Busy(j) => Account(uploads[j], txns)

LEMMA AccountsKeep ==
    ASSUME TypeOK, TypeOK', Accounts, [Next]_vars
    PROVE  Accounts'
<1>1. /\ uploads \in [Uploads -> {NoUpload} \cup Upload]
      /\ txns \in Seq(Row) /\ Continues(txns', txns)
  BY StepMoves DEF TypeOK, UploadTypeOK, StoreTypeOK, LedgerGrows, Continues
<1> SUFFICES ASSUME NEW j \in Uploads, uploads'[j].pc # "idle"
             PROVE  Account(uploads'[j], txns')
  BY DEF Accounts, Busy
<1>2. CASE uploads'[j] = uploads[j]
  BY <1>1, <1>2, AccountStays DEF Accounts, Busy
<1>3. ASSUME NEW i \in Uploads, UploadArrives(i) PROVE Account(uploads'[j], txns')
  <2>1. PICK u \in Users : uploads' = [uploads EXCEPT ![i] = UploadOf(u)]
    BY <1>3 DEF UploadArrives, ReceiveUpload, SetUpload
  <2>2. uploads'[j] \in {uploads[j], UploadOf(u)}
    BY <1>1, <2>1
  <2> QED
    BY <1>2, <2>2, NewAccount
<1>4. ASSUME NEW i \in Uploads, UploadAdvances(i) PROVE Account(uploads'[j], txns')
  <2>1. UploadStep(i)
    BY <1>4 DEF UploadAdvances
  <2>2. CASE i = j
    <3>1. uploads[j].pc # "idle"
      BY <2>1, <2>2
      DEF UploadStep, LoadUploadProfile, CanReadLine, ReadBadRecord,
          ReadBrokenFile, ReadBadAmount, ReadTransaction, InsertUploaded, FailInsert, ReadEOF,
          BeginRecalculate, FailRecalculate, CommitRecalculate, RefreshProfile,
          RespondUpload
    <3> QED
      BY <2>1, <2>2, <3>1, UploadCounted DEF Accounts, Busy
  <2>3. CASE i # j
    <3>1. \E upload : uploads' = [uploads EXCEPT ![i] = upload]
      BY <2>1
      DEF UploadStep, LoadUploadProfile, ReadBadRecord, ReadBrokenFile,
          ReadBadAmount, ReadTransaction, InsertUploaded, FailInsert, ReadEOF,
          BeginRecalculate, FailRecalculate, CommitRecalculate, RefreshProfile,
          RespondUpload, SetUpload
    <3> QED
      BY <1>1, <1>2, <2>3, <3>1
  <2> QED
    BY <2>2, <2>3
<1>5. CASE Crash
  BY <1>5 DEF Crash, NoUpload
<1>6. UNCHANGED uploads => Account(uploads'[j], txns')
  BY <1>2
<1>7. ASSUME NEW p \in Posts, PostArrives(p) \/ PostAdvances(p)
      PROVE  UNCHANGED uploads
  BY <1>7 DEF PostArrives, PostAdvances, uploadVars
<1>8. ASSUME NEW d \in Days, RebuildAdvances(d) PROVE UNCHANGED uploads
  BY <1>8 DEF RebuildAdvances, uploadVars
<1>9. Tick \/ Restart \/ AwaitRequests \/ UNCHANGED vars => UNCHANGED uploads
  BY DEF Tick, Restart, AwaitRequests, vars, uploadVars
<1> QED
  BY <1>3, <1>4, <1>5, <1>6, <1>7, <1>8, <1>9 DEF Next

(***************************************************************************)
(* Whatever is interleaved with an upload, fails in it or kills it, the    *)
(* numbers of BulkProcessResponse are those of the rows it committed and   *)
(* of the lines it read.                                                   *)
(***************************************************************************)
THEOREM UploadsAddUp == Spec => []UploadAccounting
<1>1. Init => Accounts
  BY DEF Init, UploadInit, NoUpload, Accounts, Busy
<1>2. TypeOK /\ TypeOK' /\ Accounts /\ [Next]_vars => Accounts'
  BY AccountsKeep
<1>3. Accounts => UploadAccounting
  BY AccountsAreAccounting DEF Accounts
<1> QED
  BY <1>1, <1>2, <1>3, TypeCorrect, PTL DEF Spec

-----------------------------------------------------------------------------

(***************************************************************************)
(* What becomes of the profiles when one upload of a user runs at a time.  *)
(***************************************************************************)
OneUploadPerUser ==
    \A i, j \in Uploads :
        Busy(i) /\ Busy(j) /\ uploads[i].user = uploads[j].user => i = j

LEMMA UploadStepIsBusy ==
    ASSUME TypeOK, NEW j \in Uploads, UploadStep(j)
    PROVE  Busy(j) /\ uploads[j] \in Upload
<1>1. uploads[j].pc # "idle"
  BY DEF UploadStep, LoadUploadProfile, CanReadLine, ReadBadRecord,
         ReadBrokenFile, ReadBadAmount, ReadTransaction, InsertUploaded, FailInsert, ReadEOF,
         BeginRecalculate, FailRecalculate, CommitRecalculate, RefreshProfile,
         RespondUpload
<1> QED
  BY <1>1, ActiveUpload DEF TypeOK, Busy

\* Which steps concern an upload, and which the profiles.
LEMMA UploadEvolves ==
    ASSUME TypeOK, [Next]_vars, NEW j \in Uploads
    PROVE  \/ uploads'[j] = uploads[j]
           \/ uploads'[j] = NoUpload
           \/ \E u \in Users : uploads'[j] = UploadOf(u)
           \/ UploadStep(j)
<1>1. uploads \in [Uploads -> {NoUpload} \cup Upload]
  BY DEF TypeOK, UploadTypeOK
<1>2. ASSUME NEW i \in Uploads, UploadArrives(i)
      PROVE  uploads'[j] = uploads[j] \/ \E u \in Users : uploads'[j] = UploadOf(u)
  <2>1. PICK u \in Users : uploads' = [uploads EXCEPT ![i] = UploadOf(u)]
    BY <1>2 DEF UploadArrives, ReceiveUpload, SetUpload
  <2> QED
    BY <1>1, <2>1
<1>3. ASSUME NEW i \in Uploads, UploadAdvances(i)
      PROVE  uploads'[j] = uploads[j] \/ UploadStep(j)
  <2>1. UploadStep(i)
    BY <1>3 DEF UploadAdvances
  <2>2. \E upload : uploads' = [uploads EXCEPT ![i] = upload]
    BY <2>1
    DEF UploadStep, LoadUploadProfile, ReadBadRecord, ReadBrokenFile,
        ReadBadAmount, ReadTransaction, InsertUploaded, FailInsert, ReadEOF,
        BeginRecalculate, FailRecalculate, CommitRecalculate, RefreshProfile,
        RespondUpload, SetUpload
  <2>3. i = j \/ uploads'[j] = uploads[j]
    BY <1>1, <2>2
  <2> QED
    BY <2>1, <2>3
<1>4. Crash => uploads'[j] = NoUpload
  BY DEF Crash
<1>5. ASSUME NEW p \in Posts, PostArrives(p) \/ PostAdvances(p)
      PROVE  uploads' = uploads
  BY <1>5 DEF PostArrives, PostAdvances, uploadVars
<1>6. ASSUME NEW d \in Days, RebuildAdvances(d) PROVE uploads' = uploads
  BY <1>6 DEF RebuildAdvances, uploadVars
<1>7. Tick \/ Restart \/ AwaitRequests \/ UNCHANGED vars => uploads' = uploads
  BY DEF Tick, Restart, AwaitRequests, vars, uploadVars
<1> QED
  BY <1>2, <1>3, <1>4, <1>5, <1>6, <1>7 DEF Next

LEMMA SettledMoves ==
    ASSUME TypeOK, [Next]_vars
    PROVE  \/ profiles' = profiles /\ settled' = settled
           \/ (\E d \in Days : CommitRebuild(d)) /\ settled' = settled
                 /\ uploads' = uploads
           \/ \E j \in Uploads : CommitRecalculate(j)
<1>1. UNCHANGED storeVars => profiles' = profiles
  BY DEF storeVars
<1>2. ASSUME NEW p \in Posts, PostArrives(p) \/ PostAdvances(p)
      PROVE  profiles' = profiles /\ settled' = settled
  BY <1>1, <1>2
  DEF PostArrives, ReceivePost, PostAdvances, PostStep, LoadPostProfile,
      CountRecentTransactions, AnalyzePost, InsertPost, CreateTransaction,
      uploadVars
<1>3. ASSUME NEW j \in Uploads, UploadArrives(j)
      PROVE  profiles' = profiles /\ settled' = settled
  BY <1>1, <1>3 DEF UploadArrives, ReceiveUpload, SetUpload
<1>4. ASSUME NEW j \in Uploads, UploadAdvances(j)
      PROVE  \/ profiles' = profiles /\ settled' = settled
             \/ CommitRecalculate(j)
  BY <1>1, <1>4
  DEF UploadAdvances, UploadStep, LoadUploadProfile, ReadBadRecord,
      ReadBrokenFile, ReadBadAmount, ReadTransaction, InsertUploaded, CreateTransaction,
      FailInsert, ReadEOF, BeginRecalculate, FailRecalculate, RefreshProfile,
      RespondUpload, SetUpload
<1>5. ASSUME NEW d \in Days, RebuildAdvances(d)
      PROVE  /\ settled' = settled /\ uploads' = uploads
             /\ profiles' = profiles \/ CommitRebuild(d)
  BY <1>1, <1>5
  DEF RebuildAdvances, RebuildNext, BeginRebuild, FailRebuild, uploadVars
<1>6. Tick \/ Crash \/ Restart \/ AwaitRequests \/ UNCHANGED vars
        => profiles' = profiles /\ settled' = settled
  BY <1>1 DEF Tick, Crash, Restart, AwaitRequests, vars, uploadVars
<1> QED
  BY <1>2, <1>3, <1>4, <1>5, <1>6 DEF Next

(***************************************************************************)
(* SettledUploadsCounted becomes inductive with what a recalculation has   *)
(* read: the rows of its own upload and of those that ended before.        *)
(***************************************************************************)
SettledInv ==
    /\ SettledUploadsCounted
    /\ \A u \in Users : settled[u] \subseteq OwnRows(txns, u)
    /\ \A j \in Uploads : uploads[j].pc = "store" =>
         uploads[j].mine \cup settled[uploads[j].user] \subseteq uploads[j].snapshot

LEMMA RowsStay ==
    ASSUME TypeOK, [Next]_vars, NEW u
    PROVE  OwnRows(txns, u) \subseteq OwnRows(txns', u)
<1>1. txns \in Seq(Row)
  BY DEF TypeOK, StoreTypeOK
<1>2. ASSUME NEW row \in Row, txns' = Append(txns, row)
      PROVE  OwnRows(txns, u) \subseteq OwnRows(txns', u)
  BY <1>1, <1>2 DEF OwnRows
<1>3. txns' = txns \/ \E row \in Row : txns' = Append(txns, row)
  BY StepMoves DEF LedgerGrows
<1> QED
  BY <1>2, <1>3

\* Who holds a snapshot has just read it, or holds it still.
LEMMA SnapshotIsRead ==
    ASSUME TypeOK, [Next]_vars, NEW j \in Uploads, uploads'[j].pc = "store"
    PROVE  \/ uploads'[j] = uploads[j]
           \/ /\ Busy(j) /\ uploads[j] \in Upload
              /\ uploads'[j].user = uploads[j].user
              /\ uploads'[j].mine = uploads[j].mine
              /\ uploads'[j].snapshot = OwnRows(txns, uploads[j].user)
              /\ UNCHANGED <<txns, profiles, settled>>
<1>1. uploads \in [Uploads -> {NoUpload} \cup Upload]
  BY DEF TypeOK, UploadTypeOK
<1>2. ASSUME UploadStep(j), uploads'[j] # uploads[j]
      PROVE  /\ Busy(j) /\ uploads[j] \in Upload
             /\ uploads'[j].user = uploads[j].user
             /\ uploads'[j].mine = uploads[j].mine
             /\ uploads'[j].snapshot = OwnRows(txns, uploads[j].user)
             /\ UNCHANGED <<txns, profiles, settled>>
  <2>1. Busy(j) /\ uploads[j] \in Upload
    BY <1>2, UploadStepIsBusy
  <2>2. ASSUME NEW upload, SetUpload(j, upload)
        PROVE  uploads'[j] = upload /\ settled' = settled
    BY <1>1, <2>2 DEF SetUpload
  <2>3. CASE BeginRecalculate(j)
    <3>1. /\ uploads'[j] = [uploads[j] EXCEPT !.pc = "store",
                                !.snapshot = RowsOf(uploads[j].user)]
          /\ settled' = settled /\ UNCHANGED storeVars
      BY <2>2, <2>3 DEF BeginRecalculate
    <3> QED
      BY <2>1, <3>1 DEF Upload, OwnRows, RowsOf, storeVars
  <2>4. ASSUME NEW upload, SetUpload(j, upload) PROVE upload.pc = "store"
    BY <2>2, <2>4
  <2>5. ~ReadBadRecord(j) /\ ~ReadBadAmount(j)
    <3>1. [uploads[j] EXCEPT !.failed = @ + 1, !.lines = @ + 1,
                             !.skipped = @ + 1].pc = uploads[j].pc
      BY <2>1 DEF Upload
    <3>2. [uploads[j] EXCEPT !.processed = @ + 1, !.failed = @ + 1,
                             !.lines = @ + 1].pc = uploads[j].pc
      BY <2>1 DEF Upload
    <3> QED
      BY <2>4, <3>1, <3>2 DEF ReadBadRecord, ReadBadAmount, CanReadLine
  <2>6. ~ReadTransaction(j)
    <3>1. \A line : [uploads[j] EXCEPT
              !.pc = "insert", !.line = line, !.processed = @ + 1,
              !.batchCount = @ + 1, !.lines = @ + 1].pc = "insert"
      BY <2>1 DEF Upload
    <3> QED
      BY <2>4, <3>1 DEF ReadTransaction
  <2>7. ~LoadUploadProfile(j) /\ ~RefreshProfile(j)
    <3>1. \A profile : [uploads[j] EXCEPT !.pc = "read", !.profile = profile].pc = "read"
      BY <2>1 DEF Upload
    <3>2. \A profile : [uploads[j] EXCEPT !.pc = "read", !.profile = profile,
                                          !.batchCount = 0].pc = "read"
      BY <2>1 DEF Upload
    <3> QED
      BY <2>4, <3>1, <3>2 DEF LoadUploadProfile, RefreshProfile
  <2>8. ~InsertUploaded(j) /\ ~ReadBrokenFile(j) /\ ~FailInsert(j)
    <3> DEFINE pc == AfterInsert(uploads[j])
               failing == [uploads[j] EXCEPT !.pc = pc, !.line = NoLine,
                                             !.failed = @ + 1]
    <3>1. pc # "store"
      BY DEF AfterInsert
    <3>4. ~InsertUploaded(j) /\ ~ReadBrokenFile(j)
      BY <3>1, RowInserted, FileBreaks DEF TypeOK
    <3> HIDE DEF pc
    <3>2. failing.pc = pc
      BY <2>1 DEF Upload
    <3> HIDE DEF failing
    <3>3. ~SetUpload(j, failing)
      BY <2>4, <3>1, <3>2
    <3> QED
      BY <3>3, <3>4 DEF FailInsert, failing, pc
  <2>9. ~ReadEOF(j) /\ ~FailRecalculate(j)
    <3>1. [uploads[j] EXCEPT !.pc = "recalculate", !.eof = TRUE].pc = "recalculate"
      BY <2>1 DEF Upload
    <3>2. \A pc : [uploads[j] EXCEPT !.pc = pc, !.batchCount = 0].pc = pc
      BY <2>1 DEF Upload
    <3>3. (IF uploads[j].eof THEN "respond" ELSE "read") # "store"
      OBVIOUS
    <3> QED
      BY <2>4, <3>1, <3>2, <3>3 DEF ReadEOF, FailRecalculate
  <2>10. ~CommitRecalculate(j)
    BY RecalculationWritten DEF TypeOK
  <2>11. ~RespondUpload(j)
    BY <2>2 DEF RespondUpload, NoUpload
  <2> QED
    BY <1>2, <2>3, <2>5, <2>6, <2>7, <2>8, <2>9, <2>10, <2>11 DEF UploadStep
<1>3. uploads'[j] # NoUpload /\ \A u : uploads'[j] # UploadOf(u)
  BY DEF NoUpload, UploadOf
<1> QED
  BY <1>2, <1>3, UploadEvolves

LEMMA SettledKeep ==
    ASSUME TypeOK, TypeOK', Accounts, OneUploadPerUser, SettledInv, [Next]_vars
    PROVE  SettledInv'
<1>1. /\ uploads \in [Uploads -> {NoUpload} \cup Upload]
      /\ profiles \in [Users -> Profile]
      /\ settled \in [Users -> SUBSET Nat]
  BY DEF TypeOK, UploadTypeOK, StoreTypeOK
<1>2. ASSUME NEW j \in Uploads, CommitRecalculate(j)
      PROVE  SettledInv'
  <2> DEFINE upload == uploads[j]
             u == upload.user
  <2>1. /\ upload.pc = "store" /\ Busy(j) /\ upload \in Upload /\ u \in Users
        /\ txns' = txns
        /\ profiles' = [profiles EXCEPT ![u] = RecalculatedProfile(upload.snapshot)]
        /\ settled' = IF upload.eof
                      THEN [settled EXCEPT ![u] = @ \cup upload.mine]
                      ELSE settled
        /\ uploads'[j].pc # "store"
        /\ \A i \in Uploads : i # j => uploads'[i] = uploads[i]
    <3>1. upload.pc = "store"
      BY <1>2 DEF CommitRecalculate
    <3>2. Busy(j) /\ upload \in Upload
      BY <3>1, ActiveUpload DEF TypeOK, Busy
    <3> QED
      BY <1>2, <3>1, <3>2, RecalculationWritten
      DEF CommitRecalculate, SetProfile, Upload, TypeOK
  <2> HIDE DEF u
  <2>2. upload.mine \cup settled[u] \subseteq upload.snapshot
    BY <2>1 DEF SettledInv, u
  <2>3. upload.mine \subseteq OwnRows(txns, u)
    BY <2>1 DEF Accounts, Account, u
  <2>4. settled'[u] \in {settled[u], settled[u] \cup upload.mine}
    BY <1>1, <2>1
  <2>5. \A v \in Users : v # u => settled'[v] = settled[v] /\ profiles'[v] = profiles[v]
    BY <1>1, <2>1
  <2>6. profiles'[u].counted = upload.snapshot
    BY <1>1, <2>1 DEF RecalculatedProfile
  <2>7. SettledUploadsCounted'
    <3>1. settled'[u] \subseteq profiles'[u].counted
      BY <2>2, <2>4, <2>6
    <3> QED
      BY <2>5, <3>1 DEF SettledInv, SettledUploadsCounted
  <2>8. \A v \in Users : settled'[v] \subseteq OwnRows(txns', v)
    <3>1. settled'[u] \subseteq OwnRows(txns', u)
      BY <2>1, <2>3, <2>4 DEF SettledInv
    <3> QED
      BY <2>1, <2>5, <3>1 DEF SettledInv
  <2>9. ASSUME NEW i \in Uploads, uploads'[i].pc = "store"
        PROVE  uploads'[i].mine \cup settled'[uploads'[i].user]
                 \subseteq uploads'[i].snapshot
    <3>1. i # j
      BY <2>1, <2>9
    <3>2. uploads'[i] = uploads[i] /\ Busy(i)
      BY <2>1, <2>9, <3>1 DEF Busy
    <3>3. uploads[i] \in Upload
      BY <3>2, ActiveUpload DEF TypeOK, Busy
    <3>4. uploads[i].user \in Users /\ uploads[i].user # u
      BY <2>1, <3>1, <3>2, <3>3 DEF OneUploadPerUser, Upload, u
    <3> QED
      BY <2>5, <2>9, <3>2, <3>4 DEF SettledInv
  <2> QED
    BY <2>7, <2>8, <2>9 DEF SettledInv
<1>3. ASSUME settled' = settled, \A u \in Users : profiles'[u].counted = profiles[u].counted
      PROVE  SettledInv'
  <2>1. SettledUploadsCounted'
    BY <1>3 DEF SettledInv, SettledUploadsCounted
  <2>2. \A u \in Users : settled'[u] \subseteq OwnRows(txns', u)
    BY <1>3, RowsStay DEF SettledInv
  <2>3. ASSUME NEW j \in Uploads, uploads'[j].pc = "store"
        PROVE  uploads'[j].mine \cup settled'[uploads'[j].user]
                 \subseteq uploads'[j].snapshot
    <3>1. CASE uploads'[j] = uploads[j]
      BY <1>3, <2>3, <3>1 DEF SettledInv
    <3>2. CASE uploads'[j] # uploads[j]
      <4>1. /\ Busy(j) /\ uploads[j] \in Upload
            /\ uploads'[j].user = uploads[j].user
            /\ uploads'[j].mine = uploads[j].mine
            /\ uploads'[j].snapshot = OwnRows(txns, uploads[j].user)
        BY <2>3, <3>2, SnapshotIsRead
      <4>2. uploads[j].mine \subseteq OwnRows(txns, uploads[j].user)
        BY <4>1 DEF Accounts, Account
      <4>3. settled[uploads[j].user] \subseteq OwnRows(txns, uploads[j].user)
        BY <4>1 DEF SettledInv, Upload
      <4> QED
        BY <1>3, <4>1, <4>2, <4>3
    <3> QED
      BY <3>1, <3>2
  <2> QED
    BY <2>1, <2>2, <2>3 DEF SettledInv
<1>4. ASSUME NEW d \in Days, CommitRebuild(d), settled' = settled
      PROVE  SettledInv'
  <2>1. \A u \in Users : profiles'[u].counted = profiles[u].counted
    BY <1>4 DEF CommitRebuild, RebuiltProfile
  <2> QED
    BY <1>3, <1>4, <2>1
<1> QED
  BY <1>2, <1>3, <1>4, SettledMoves

(***************************************************************************)
(* While no user has two uploads at a time, the rows of an upload that has *)
(* written its final recalculation stay in the user's total_transactions,  *)
(* whatever the nightly job, failures and crashes do.                      *)
(***************************************************************************)
THEOREM SettledStayCounted ==
    Spec /\ []OneUploadPerUser => []SettledUploadsCounted
<1>1. Init => Accounts /\ SettledInv
  BY DEF Init, UploadInit, NoUpload, StoreInit, NoProfile, Accounts, Busy,
         SettledInv, SettledUploadsCounted
<1>2. TypeOK /\ TypeOK' /\ Accounts /\ [Next]_vars => Accounts'
  BY AccountsKeep
<1>3. TypeOK /\ TypeOK' /\ Accounts /\ OneUploadPerUser /\ SettledInv /\ [Next]_vars
        => SettledInv'
  BY SettledKeep
<1>4. SettledInv => SettledUploadsCounted
  BY DEF SettledInv
<1> QED
  BY <1>1, <1>2, <1>3, <1>4, TypeCorrect, PTL DEF Spec

-----------------------------------------------------------------------------

(***************************************************************************)
(* How old the profile gets that bulk rows are scored with.                *)
(***************************************************************************)

\* Between a recalculation and the refresh nobody else writes the profile.
Undisturbed ==
    \A j \in Uploads : uploads[j].pc = "refresh" =>
        /\ \A i \in Uploads : uploads[i].pc = "store" =>
             uploads[i].user # uploads[j].user
        /\ \A d \in Days : rebuilds[d].pc # "store"

\* No amount is too large to be cast.
AllFit ==
    /\ \A i \in DOMAIN txns : txns[i].fits
    /\ \A j \in Uploads : Busy(j) => uploads[j].line.fits

(***************************************************************************)
(* BulkProfileFresh becomes inductive with the count of the batch, which   *)
(* bounds the rows that the local profile lacks, and with what the         *)
(* recalculation has read and written of them.  "stored" is the profile in *)
(* the table.                                                              *)
(***************************************************************************)
Lacking(upload) == Cardinality(upload.mine \ upload.profile.basis)

Fresh(upload, stored) ==
    /\ upload.pc = "profile" => upload.mine = {} /\ upload.batchCount = 0
    /\ upload.pc = "read" =>
         Lacking(upload) <= upload.batchCount /\ upload.batchCount < BatchSize
    /\ upload.pc = "insert" =>
         Lacking(upload) < upload.batchCount /\ upload.batchCount <= BatchSize
    /\ upload.pc = "store" => upload.mine \subseteq upload.snapshot
    /\ upload.pc = "refresh" => upload.mine \subseteq stored.basis

AllFresh ==
    \A j \in Uploads : Busy(j) => Fresh(uploads[j], profiles[uploads[j].user])

\* Rows of one's own are few enough to be counted.
LEMMA LackingIsCounted ==
    ASSUME NEW ledger \in Seq(Row), NEW upload, Account(upload, ledger), NEW basis
    PROVE  /\ IsFiniteSet(upload.mine \ basis)
           /\ Cardinality(upload.mine \ basis) \in Nat
<1>1. upload.mine \ basis \subseteq DOMAIN ledger
  BY DEF Account, OwnRows
<1> QED
  BY <1>1, LedgerIsFinite

LEMMA FreshSuffices ==
    ASSUME TypeOK, Accounts, AllFresh
    PROVE  BulkProfileFresh
<1> SUFFICES ASSUME NEW j \in Uploads, uploads[j].pc = "insert"
             PROVE  Lacking(uploads[j]) < BatchSize
  BY DEF BulkProfileFresh, Lacking
<1>1. uploads[j] \in Upload /\ txns \in Seq(Row) /\ Account(uploads[j], txns)
  BY ActiveUpload DEF TypeOK, StoreTypeOK, Accounts, Busy
<1>2. /\ Lacking(uploads[j]) < uploads[j].batchCount
      /\ uploads[j].batchCount <= BatchSize
  BY DEF AllFresh, Fresh, Busy
<1>3. Lacking(uploads[j]) \in Nat /\ uploads[j].batchCount \in Nat
  BY <1>1, LackingIsCounted DEF Lacking, Upload
<1> QED
  BY <1>2, <1>3, BatchAssumption

LEMMA OneRowMore ==
    ASSUME NEW ledger \in Seq(Row), NEW upload, Account(upload, ledger),
           NEW basis, NEW row
    PROVE  /\ Cardinality((upload.mine \cup {row}) \ basis) \in Nat
           /\ Cardinality((upload.mine \cup {row}) \ basis)
                <= Cardinality(upload.mine \ basis) + 1
<1> DEFINE lacking == upload.mine \ basis
           more == (upload.mine \cup {row}) \ basis
<1>1. IsFiniteSet(lacking) /\ Cardinality(lacking) \in Nat
  BY LackingIsCounted
<1>2. /\ IsFiniteSet(lacking \cup {row})
      /\ Cardinality(lacking \cup {row}) \in {Cardinality(lacking), Cardinality(lacking) + 1}
  BY <1>1, FS_AddElement
<1>3. more \subseteq lacking \cup {row}
  OBVIOUS
<1>4. /\ IsFiniteSet(more) /\ Cardinality(more) \in Nat
      /\ Cardinality(more) <= Cardinality(lacking \cup {row})
  BY <1>2, <1>3, FS_Subset, FS_CardinalityType
<1> QED
  BY <1>1, <1>2, <1>4

LEMMA FitsKeep ==
    ASSUME TypeOK, FALSE \notin Castable, AllFit, [Next]_vars
    PROVE  AllFit'
<1>1. /\ uploads \in [Uploads -> {NoUpload} \cup Upload]
      /\ txns \in Seq(Row)
  BY DEF TypeOK, UploadTypeOK, StoreTypeOK
<1>2. \A fits \in Castable : fits
  BY CastableAssumption
<1>3. ASSUME NEW row \in Row, Arrives(row), row.via = "post" PROVE row.fits
  BY <1>2, <1>3 DEF Arrives, PostedRow
<1>4. ASSUME NEW j \in Uploads, UploadStep(j)
      PROVE  /\ \A i \in DOMAIN txns' : txns'[i].fits
             /\ uploads'[j].pc # "idle" => uploads'[j].line.fits
  <2>1. Busy(j) /\ uploads[j] \in Upload /\ uploads[j].line.fits
    BY <1>4, UploadStepIsBusy DEF AllFit
  <2>2. ASSUME NEW upload, SetUpload(j, upload) PROVE uploads'[j] = upload
    BY <1>1, <2>2 DEF SetUpload
  <2>3. UNCHANGED storeVars => \A i \in DOMAIN txns' : txns'[i].fits
    BY DEF storeVars, AllFit
  <2>4. CASE InsertUploaded(j)
    <3> DEFINE row == UploadedRow(uploads[j])
    <3>2. uploads'[j].line = NoLine
      BY <2>4, RowInserted DEF TypeOK
    <3>3. txns' = Append(txns, row) /\ row.fits
      BY <2>1, <2>4 DEF InsertUploaded, CreateTransaction, UploadedRow
    <3> HIDE DEF row
    <3>4. \A i \in DOMAIN txns' : txns'[i] = row \/ (i \in DOMAIN txns /\ txns'[i] = txns[i])
      BY <1>1, <3>3
    <3>5. ASSUME NEW i \in DOMAIN txns' PROVE txns'[i].fits
      <4>1. txns'[i] = row => txns'[i].fits
        BY <3>3, Zenon
      <4>2. i \in DOMAIN txns /\ txns'[i] = txns[i] => txns'[i].fits
        BY Zenon DEF AllFit
      <4> QED
        BY <3>4, <4>1, <4>2
    <3> QED
      BY <3>2, <3>5 DEF NoLine
  <2>5. CASE ReadTransaction(j)
    <3>1. PICK at \in FileTimes \cup {AppNow}, fits \in Castable, mode \in BOOLEAN :
            SetUpload(j, [uploads[j] EXCEPT
                !.pc = "insert", !.line = [at |-> at, fits |-> fits, mode |-> mode],
                !.processed = @ + 1, !.batchCount = @ + 1, !.lines = @ + 1])
      BY <2>5 DEF ReadTransaction
    <3> DEFINE line == [at |-> at, fits |-> fits, mode |-> mode]
    <3>2. line.fits
      BY <1>2
    <3> HIDE DEF line
    <3>3. uploads'[j] = [uploads[j] EXCEPT
                !.pc = "insert", !.line = line,
                !.processed = @ + 1, !.batchCount = @ + 1, !.lines = @ + 1]
      BY <2>2, <3>1 DEF line
    <3>4. uploads'[j].line = line
      BY <2>1, <3>3 DEF Upload
    <3> QED
      BY <2>3, <2>5, <3>2, <3>4 DEF ReadTransaction
  <2>6. CASE FailInsert(j)
    <3> DEFINE pc == AfterInsert(uploads[j])
    <3> HIDE DEF pc
    <3>1. uploads'[j] = [uploads[j] EXCEPT !.pc = pc, !.line = NoLine, !.failed = @ + 1]
      BY <2>2, <2>6 DEF FailInsert, pc
    <3>2. uploads'[j].line = NoLine
      BY <2>1, <3>1 DEF Upload
    <3> QED
      BY <2>3, <2>6, <3>2 DEF FailInsert, NoLine
  <2>7. ASSUME UNCHANGED txns, uploads'[j].line = uploads[j].line
        PROVE  /\ \A i \in DOMAIN txns' : txns'[i].fits
               /\ uploads'[j].pc # "idle" => uploads'[j].line.fits
    BY <2>1, <2>7 DEF AllFit
  <2>8. CASE CommitRecalculate(j)
    <3>1. uploads'[j].line = uploads[j].line /\ UNCHANGED txns
      BY <2>8, RecalculationWritten DEF TypeOK
    <3> QED
      BY <2>7, <3>1
  <2>9. CASE ReadBadRecord(j) \/ ReadBadAmount(j)
    BY <2>1, <2>2, <2>7, <2>9 DEF ReadBadRecord, ReadBadAmount, Upload, storeVars
  <2>10. CASE LoadUploadProfile(j)
    BY <2>1, <2>2, <2>7, <2>10 DEF LoadUploadProfile, Upload, storeVars
  <2>11. CASE RefreshProfile(j)
    BY <2>1, <2>2, <2>7, <2>11 DEF RefreshProfile, Upload, storeVars
  <2>12. CASE ReadEOF(j) \/ BeginRecalculate(j) \/ FailRecalculate(j)
    BY <2>1, <2>2, <2>7, <2>12
    DEF ReadEOF, BeginRecalculate, FailRecalculate, Upload, storeVars
  <2>13. CASE RespondUpload(j)
    BY <2>2, <2>3, <2>13 DEF RespondUpload, NoUpload
  <2>14. CASE ReadBrokenFile(j)
    <3>1. uploads'[j].line = uploads[j].line /\ UNCHANGED txns
      BY <2>14, FileBreaks DEF TypeOK, storeVars
    <3> QED
      BY <2>7, <3>1
  <2> QED
    BY <1>4, <2>4, <2>5, <2>6, <2>8, <2>9, <2>10, <2>11, <2>12, <2>13, <2>14
    DEF UploadStep
<1>5. \A i \in DOMAIN txns' : txns'[i].fits
  <2>1. CASE \E j \in Uploads : UploadStep(j)
    BY <1>4, <2>1
  <2>2. CASE ~\E j \in Uploads : UploadStep(j)
    <3>1. txns' = txns \/ \E p \in Posts : InsertPost(p)
      BY <2>2
      DEF Next, PostArrives, ReceivePost, PostAdvances, PostStep,
          LoadPostProfile, CountRecentTransactions, AnalyzePost, UploadArrives,
          ReceiveUpload, UploadAdvances, RebuildAdvances, RebuildNext,
          BeginRebuild, FailRebuild, CommitRebuild, Tick, Crash, Restart,
          AwaitRequests, vars, storeVars
    <3>2. ASSUME NEW p \in Posts, InsertPost(p)
          PROVE  txns' = txns \/ \E row : row.fits /\ txns' = Append(txns, row)
      BY <1>2, <3>2 DEF InsertPost, CreateTransaction, PostedRow, storeVars
    <3>3. ASSUME NEW row, row.fits, txns' = Append(txns, row)
          PROVE  \A i \in DOMAIN txns' : txns'[i].fits
      <4> SUFFICES ASSUME NEW i \in DOMAIN txns' PROVE txns'[i].fits
        OBVIOUS
      <4>1. txns'[i] = row \/ (i \in DOMAIN txns /\ txns'[i] = txns[i])
        BY <1>1, <3>3
      <4>2. txns'[i] = row => txns'[i].fits
        BY <3>3, Zenon
      <4>3. i \in DOMAIN txns /\ txns'[i] = txns[i] => txns'[i].fits
        BY Zenon DEF AllFit
      <4> QED
        BY <4>1, <4>2, <4>3
    <3>4. txns' = txns => \A i \in DOMAIN txns' : txns'[i].fits
      BY Zenon DEF AllFit
    <3> QED
      BY <3>1, <3>2, <3>3, <3>4
  <2> QED
    BY <2>1, <2>2
<1>6. ASSUME NEW j \in Uploads, uploads'[j].pc # "idle"
      PROVE  uploads'[j].line.fits
  <2>1. uploads'[j] = uploads[j] => uploads'[j].line.fits
    BY <1>6, Zenon DEF AllFit, Busy
  <2>2. uploads'[j] # NoUpload
    BY <1>6 DEF NoUpload
  <2>3. ASSUME NEW u, uploads'[j] = UploadOf(u) PROVE uploads'[j].line.fits
    BY <2>3 DEF UploadOf, NoLine
  <2> QED
    BY <1>4, <1>6, <2>1, <2>2, <2>3, UploadEvolves
<1> QED
  BY <1>5, <1>6 DEF AllFit, Busy
\* Nothing that Fresh looks at but pc has changed.
SameBatch(before, after) ==
    /\ after.mine = before.mine
    /\ after.profile = before.profile
    /\ after.batchCount = before.batchCount

LEMMA FreshStep ==
    ASSUME TypeOK, Accounts, ~Fails("recalculate"), ~Fails("getProfile"), AllFit,
           AllFresh, NEW j \in Uploads, UploadStep(j), uploads'[j].pc # "idle"
    PROVE  Fresh(uploads'[j], profiles'[uploads'[j].user])
<1> DEFINE before == uploads[j]
           after == uploads'[j]
           stored == profiles'[after.user]
           missing == before.mine \ before.profile.basis
<1>1. /\ uploads \in [Uploads -> {NoUpload} \cup Upload]
      /\ profiles \in [Users -> Profile] /\ txns \in Seq(Row)
  BY DEF TypeOK, UploadTypeOK, StoreTypeOK
<1>2. Busy(j) /\ before \in Upload
  BY UploadStepIsBusy
<1>3. Account(before, txns) /\ Fresh(before, profiles[before.user])
  BY <1>2 DEF Accounts, AllFresh
<1>4. /\ before.batchCount \in Nat /\ before.user \in Users
      /\ Lacking(before) \in Nat /\ BatchSize \in Nat \ {0}
  BY <1>1, <1>2, <1>3, LackingIsCounted, BatchAssumption DEF Upload, Lacking
<1>5. ASSUME NEW upload, SetUpload(j, upload) PROVE after = upload
  BY <1>1, <1>5 DEF SetUpload
<1>6. ASSUME SameBatch(before, after) PROVE Lacking(after) = Lacking(before)
  BY <1>6 DEF SameBatch, Lacking
<1>7. ASSUME NEW upload, upload.mine \subseteq upload.profile.basis
      PROVE  Lacking(upload) = 0
  <2>1. upload.mine \ upload.profile.basis = {}
    BY <1>7
  <2> QED
    BY <2>1, FS_EmptySet DEF Lacking
<1>8. CASE LoadUploadProfile(j)
  <2>1. PICK profile :
          after = [before EXCEPT !.pc = "read", !.profile = profile]
    BY <1>5, <1>8 DEF LoadUploadProfile
  <2>2. before.mine = {} /\ before.batchCount = 0
    BY <1>3, <1>8 DEF LoadUploadProfile, Fresh
  <2>3. after.pc = "read" /\ after.mine = {} /\ after.batchCount = 0
    BY <1>2, <2>1, <2>2 DEF Upload
  <2> HIDE DEF after, stored
  <2>4. Lacking(after) = 0
    BY <1>7, <2>3
  <2>5. Fresh(after, stored)
    BY <1>4, <2>3, <2>4 DEF Fresh
  <2> QED
    BY <2>5 DEF after, stored
<1>9. CASE ReadBadRecord(j) \/ ReadBrokenFile(j) \/ ReadBadAmount(j)
  <2>1. after.pc = "read" /\ before.pc = "read" /\ SameBatch(before, after)
    <3>1. CASE ReadBrokenFile(j)
      BY <3>1, FileBreaks DEF TypeOK, SameBatch
    <3>2. CASE ReadBadRecord(j) \/ ReadBadAmount(j)
      BY <1>2, <1>5, <3>2
      DEF ReadBadRecord, ReadBadAmount, CanReadLine, Upload, SameBatch
    <3> QED
      BY <1>9, <3>1, <3>2
  <2>2. Lacking(after) = Lacking(before) /\ after.batchCount = before.batchCount
    BY <1>6, <2>1 DEF SameBatch
  <2> HIDE DEF after, before, stored
  <2>3. Fresh(after, stored)
    BY <1>3, <2>1, <2>2 DEF Fresh
  <2> QED
    BY <2>3 DEF after, stored
<1>10. CASE ReadTransaction(j)
  <2>1. PICK line :
          after = [before EXCEPT
              !.pc = "insert", !.line = line,
              !.processed = @ + 1, !.batchCount = @ + 1, !.lines = @ + 1]
    <3>1. PICK at \in FileTimes \cup {AppNow}, fits \in Castable, mode \in BOOLEAN :
            SetUpload(j, [uploads[j] EXCEPT
                !.pc = "insert", !.line = [at |-> at, fits |-> fits, mode |-> mode],
                !.processed = @ + 1, !.batchCount = @ + 1, !.lines = @ + 1])
      BY <1>10 DEF ReadTransaction
    <3> QED
      BY <1>5, <3>1
  <2>2. before.pc = "read"
    BY <1>10 DEF ReadTransaction, CanReadLine
  <2>3. /\ after.pc = "insert" /\ after.mine = before.mine
        /\ after.profile = before.profile
        /\ after.batchCount = before.batchCount + 1
    BY <1>2, <2>1 DEF Upload
  <2>4. Lacking(after) = Lacking(before)
    BY <2>3 DEF Lacking
  <2>5. Lacking(before) <= before.batchCount /\ before.batchCount < BatchSize
    BY <1>3, <2>2 DEF Fresh
  <2> HIDE DEF after, before, stored
  <2>6. Lacking(after) < after.batchCount /\ after.batchCount <= BatchSize
    BY <1>4, <2>3, <2>4, <2>5
  <2>7. Fresh(after, stored)
    BY <2>3, <2>6 DEF Fresh
  <2> QED
    BY <2>7 DEF after, stored
<1>11. ASSUME before.pc = "insert", after.pc = AfterInsert(before),
              after.batchCount = before.batchCount,
              Lacking(after) \in Nat, Lacking(after) <= Lacking(before) + 1
       PROVE  Fresh(after, stored)
  <2>1. Lacking(before) < before.batchCount
    BY <1>3, <1>11 DEF Fresh
  <2>2. after.pc \in {"read", "recalculate"}
    BY <1>11 DEF AfterInsert
  <2>3. after.pc = "read" => before.batchCount < BatchSize
    BY <1>4, <1>11 DEF AfterInsert
  <2>4. Lacking(after) <= after.batchCount
    <3> DEFINE count == before.batchCount
               lacking == Lacking(before)
               more == Lacking(after)
    <3>1. /\ count \in Nat /\ lacking \in Nat /\ more \in Nat
          /\ lacking < count /\ more <= lacking + 1
      BY <1>4, <1>11, <2>1
    <3> HIDE DEF count, lacking, more
    <3>2. more <= count
      BY <3>1
    <3> QED
      BY <1>11, <3>2 DEF count, more
  <2> HIDE DEF after, before, stored
  <2> QED
    BY <1>11, <2>2, <2>3, <2>4 DEF Fresh, after, before
<1>12. CASE InsertUploaded(j)
  <2> DEFINE pc == AfterInsert(before)
             mine == before.mine \cup {Len(txns) + 1}
  <2> HIDE DEF pc, mine
  <2>1. before.pc = "insert"
    BY <1>12 DEF InsertUploaded
  <2>2. after.pc = pc /\ after.mine = mine
    BY <1>12, RowInserted DEF TypeOK, pc, mine
  <2>3. after.profile = before.profile /\ after.batchCount = before.batchCount
    BY <1>12, RowInserted DEF TypeOK
  <2>4. Lacking(after) \in Nat /\ Lacking(after) <= Lacking(before) + 1
    <3>1. Lacking(after)
            = Cardinality((before.mine \cup {Len(txns) + 1}) \ before.profile.basis)
      BY <2>2, <2>3 DEF Lacking, mine
    <3> QED
      BY <1>1, <1>3, <3>1, OneRowMore DEF Lacking
  <2> QED
    BY <1>11, <2>1, <2>2, <2>3, <2>4 DEF pc
<1>13. CASE FailInsert(j)
  <2> DEFINE pc == AfterInsert(before)
  <2> HIDE DEF pc
  <2>1. /\ after = [before EXCEPT !.pc = pc, !.line = NoLine, !.failed = @ + 1]
        /\ before.pc = "insert"
    BY <1>5, <1>13 DEF FailInsert, pc
  <2>2. after.pc = pc
    BY <1>2, <2>1 DEF Upload
  <2>3. SameBatch(before, after)
    BY <1>2, <2>1 DEF Upload, SameBatch
  <2>4. after.batchCount = before.batchCount /\ Lacking(after) = Lacking(before)
    BY <1>6, <2>3 DEF SameBatch
  <2>5. Lacking(after) \in Nat /\ Lacking(after) <= Lacking(before) + 1
    BY <1>4, <2>4
  <2> QED
    BY <1>11, <2>1, <2>2, <2>4, <2>5 DEF pc
<1>14. CASE ReadEOF(j)
  <2>1. after.pc = "recalculate"
    BY <1>2, <1>5, <1>14 DEF ReadEOF, Upload
  <2> QED
    BY <2>1 DEF Fresh
<1>15. CASE BeginRecalculate(j)
  <2>1. after = [before EXCEPT !.pc = "store", !.snapshot = RowsOf(before.user)]
    BY <1>5, <1>15 DEF BeginRecalculate
  <2>2. /\ after.pc = "store" /\ after.mine = before.mine
        /\ after.snapshot = RowsOf(before.user)
    BY <1>2, <2>1 DEF Upload
  <2>3. after.mine \subseteq after.snapshot
    BY <1>3, <2>2 DEF Account, OwnRows, RowsOf
  <2> QED
    BY <2>2, <2>3 DEF Fresh
<1>16. ~FailRecalculate(j)
  BY DEF FailRecalculate, CanCast, RowsOf, AllFit
<1>17. CASE CommitRecalculate(j)
  <2>1. after.pc \in {"respond", "refresh"}
    BY <1>17, RecalculationWritten DEF TypeOK, AfterRecalculate
  <2>2. /\ before.pc = "store"
        /\ profiles' = [profiles EXCEPT ![before.user] =
                           RecalculatedProfile(before.snapshot)]
    BY <1>17 DEF CommitRecalculate, SetProfile
  <2>3. after.mine = before.mine /\ after.user = before.user
    BY <1>17, RecalculationWritten DEF TypeOK
  <2>4. before.mine \subseteq before.snapshot
    BY <1>3, <2>2 DEF Fresh
  <2>5. stored.basis = before.snapshot
    BY <1>1, <1>4, <2>2, <2>3 DEF RecalculatedProfile
  <2>6. after.mine \subseteq stored.basis
    BY <2>3, <2>4, <2>5
  <2> HIDE DEF after, before, stored
  <2>7. Fresh(after, stored)
    BY <2>1, <2>3, <2>6 DEF Fresh
  <2> QED
    BY <2>7 DEF after, stored
<1>18. CASE RefreshProfile(j)
  <2>1. /\ after = [before EXCEPT !.pc = "read", !.profile = profiles[before.user],
                                  !.batchCount = 0]
        /\ before.pc = "refresh"
    BY <1>5, <1>18 DEF RefreshProfile
  <2>2. /\ after.pc = "read" /\ after.mine = before.mine /\ after.batchCount = 0
        /\ after.profile = profiles[before.user]
    BY <1>2, <2>1 DEF Upload
  <2>3. before.mine \subseteq profiles[before.user].basis
    BY <1>3, <2>1 DEF Fresh
  <2>4. Lacking(after) = 0
    BY <1>7, <2>2, <2>3
  <2> HIDE DEF after, stored
  <2>5. Fresh(after, stored)
    BY <1>4, <2>2, <2>4 DEF Fresh
  <2> QED
    BY <2>5 DEF after, stored
<1>19. ~RespondUpload(j)
  BY <1>5 DEF RespondUpload, NoUpload
<1> QED
  BY <1>8, <1>9, <1>10, <1>12, <1>13, <1>14, <1>15, <1>16, <1>17, <1>18, <1>19
  DEF UploadStep

LEMMA FreshKeep ==
    ASSUME TypeOK, Accounts, ~Fails("recalculate"), ~Fails("getProfile"), AllFit,
           Undisturbed, AllFresh, [Next]_vars
    PROVE  AllFresh'
<1> SUFFICES ASSUME NEW j \in Uploads, uploads'[j].pc # "idle"
             PROVE  Fresh(uploads'[j], profiles'[uploads'[j].user])
  BY DEF AllFresh, Busy
<1>1. /\ uploads \in [Uploads -> {NoUpload} \cup Upload]
      /\ profiles \in [Users -> Profile]
  BY DEF TypeOK, UploadTypeOK, StoreTypeOK
<1>2. CASE uploads'[j] = uploads[j]
  <2>1. Fresh(uploads[j], profiles[uploads[j].user])
    BY <1>2 DEF AllFresh, Busy
  <2>2. ASSUME uploads[j].pc = "refresh"
        PROVE  profiles'[uploads[j].user] = profiles[uploads[j].user]
    <3>1. \A d \in Days : ~CommitRebuild(d)
      BY <2>2 DEF Undisturbed, CommitRebuild
    <3>2. ASSUME NEW i \in Uploads, CommitRecalculate(i)
          PROVE  profiles'[uploads[j].user] = profiles[uploads[j].user]
      <4>1. /\ uploads[i].pc = "store"
            /\ profiles' = [profiles EXCEPT ![uploads[i].user] =
                               RecalculatedProfile(uploads[i].snapshot)]
        BY <3>2 DEF CommitRecalculate, SetProfile
      <4>2. uploads[i].user # uploads[j].user
        BY <2>2, <4>1 DEF Undisturbed
      <4>3. uploads[j].user \in Users
        BY <2>2, ActiveUpload DEF TypeOK, Upload
      <4> QED
        BY <1>1, <4>1, <4>2, <4>3
    <3> QED
      BY <3>1, <3>2, SettledMoves
  <2>3. Fresh(uploads[j], profiles'[uploads[j].user])
    BY <2>1, <2>2 DEF Fresh
  <2> QED
    BY <1>2, <2>3
<1>3. ASSUME NEW u, uploads'[j] = UploadOf(u)
      PROVE  Fresh(uploads'[j], profiles'[uploads'[j].user])
  <2>1. /\ uploads'[j].pc = "profile" /\ uploads'[j].mine = {}
        /\ uploads'[j].batchCount = 0
    BY <1>3 DEF UploadOf
  <2> QED
    BY <2>1 DEF Fresh
<1>4. uploads'[j] # NoUpload
  BY DEF NoUpload
<1> QED
  BY <1>2, <1>3, <1>4, FreshStep, UploadEvolves

(***************************************************************************)
(* With recalculations and profile queries that succeed (and amounts that  *)
(* can be cast, or they would not), and no other writer between a          *)
(* recalculation and the refresh, every row of every file is scored with a *)
(* profile that lacks fewer than BatchSize rows of the file.               *)
(***************************************************************************)
THEOREM BulkStaysFresh ==
    ASSUME ~Fails("recalculate"), ~Fails("getProfile"), FALSE \notin Castable
    PROVE  Spec /\ []Undisturbed => []BulkProfileFresh
<1>1. Init => Accounts /\ AllFit /\ AllFresh
  BY DEF Init, UploadInit, NoUpload, StoreInit, Accounts, Busy, AllFit, AllFresh
<1>2. TypeOK /\ TypeOK' /\ Accounts /\ [Next]_vars => Accounts'
  BY AccountsKeep
<1>3. TypeOK /\ AllFit /\ [Next]_vars => AllFit'
  BY FitsKeep
<1>4. TypeOK /\ Accounts /\ AllFit /\ Undisturbed /\ AllFresh /\ [Next]_vars
        => AllFresh'
  BY FreshKeep
<1>5. TypeOK /\ Accounts /\ AllFresh => BulkProfileFresh
  BY FreshSuffices
<1> QED
  BY <1>1, <1>2, <1>3, <1>4, <1>5, TypeCorrect, PTL DEF Spec
=============================================================================
