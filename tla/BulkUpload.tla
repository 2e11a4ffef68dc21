---------------------------- MODULE BulkUpload -----------------------------
(***************************************************************************)
(* POST /transactions/upload: TransactionService.ProcessBulkTransactions   *)
(* in internal/service/txn_service.go, from the moment the header row was  *)
(* accepted (before that nothing changes).                                 *)
(*                                                                         *)
(* RecalculateUserProfile is one INSERT ... SELECT ... ON CONFLICT DO      *)
(* UPDATE.  Under READ COMMITTED its SELECT reads a snapshot, and the      *)
(* aggregates of that snapshot (EXCLUDED) are written when the row lock of *)
(* the profile is granted, so it is two steps here.                        *)
(***************************************************************************)
EXTENDS FraudStore

CONSTANTS
    Uploads,     \* goroutines that serve this endpoint
    BatchSize,   \* batchSize, 50 in the code
    MaxLines,    \* bound on the lines of a file after its header
    FileTimes    \* the created_at values that occur in the files

ASSUME BatchAssumption == BatchSize \in Nat \ {0}
ASSUME FileAssumption == MaxLines \in Nat /\ FileTimes \subseteq Int

VARIABLES
    uploads,     \* the upload each goroutine is serving
    settled      \* by user, the rows of uploads whose final recalculation
                 \* was written: history

uploadVars == <<uploads, settled>>

NoUpload == [pc |-> "idle"]

\* A parsed line: the created_at of its row, whether the amount fits ::INTEGER
\* and whether the mode is one of the enum.
NoLine == [at |-> 0, fits |-> TRUE, mode |-> TRUE]

\* "broken" says that the file cannot be read any further.  "lines" counts what
\* the iterator returned, "skipped" what it returned with an error or with fewer
\* than three columns, "mine" is the rows this upload inserted, "lost" how many
\* of those inserts were answered by an error all the same: all four are history.
UploadOf(u) ==
    [pc |-> "profile", user |-> u, profile |-> NoProfile, line |-> NoLine,
     processed |-> 0, success |-> 0, failed |-> 0, batchCount |-> 0,
     eof |-> FALSE, broken |-> FALSE, snapshot |-> {}, lines |-> 0,
     skipped |-> 0, mine |-> {}, lost |-> 0]

UploadInit ==
    /\ uploads = [j \in Uploads |-> NoUpload]
    /\ settled = [u \in Users |-> {}]

\* The upload of j advances, and nothing but the store changes besides.
SetUpload(j, upload) ==
    /\ uploads' = [uploads EXCEPT ![j] = upload]
    /\ UNCHANGED settled

ReceiveUpload(j, u) ==
    /\ uploads[j].pc = "idle"
    /\ Len(txns) < MaxRows
    /\ SetUpload(j, UploadOf(u))
    /\ UNCHANGED storeVars

LoadUploadProfile(j) ==
    /\ uploads[j].pc = "profile"
    /\ \E profile \in ProfileReads(uploads[j].user) :
         SetUpload(j, [uploads[j] EXCEPT !.pc = "read", !.profile = profile])
    /\ UNCHANGED storeVars

CanReadLine(j) ==
    /\ uploads[j].pc = "read"
    /\ ~uploads[j].broken
    /\ uploads[j].lines < MaxLines
    /\ Len(txns) < MaxRows

\* The iterator cannot make sense of a line, or the record has fewer than three
\* columns.
ReadBadRecord(j) ==
    /\ CanReadLine(j)
    /\ SetUpload(j, [uploads[j] EXCEPT !.failed = @ + 1, !.lines = @ + 1,
                                       !.skipped = @ + 1])
    /\ UNCHANGED storeVars

\* The file below the CSV reader cannot be read: the iterator consumes nothing,
\* returns the error, and returns it again whenever it is asked again.  Bound:
\* after MaxLines the failures are no longer counted.
ReadBrokenFile(j) ==
    /\ uploads[j].pc = "read"
    /\ IF uploads[j].lines < MaxLines
       THEN SetUpload(j, [uploads[j] EXCEPT
                !.failed = @ + 1, !.lines = @ + 1, !.skipped = @ + 1,
                !.broken = TRUE])
       ELSE SetUpload(j, [uploads[j] EXCEPT !.broken = TRUE])
    /\ UNCHANGED storeVars

ReadBadAmount(j) ==
    /\ CanReadLine(j)
    /\ SetUpload(j, [uploads[j] EXCEPT !.processed = @ + 1, !.failed = @ + 1,
                                       !.lines = @ + 1])
    /\ UNCHANGED storeVars

\* A created_at that time.RFC3339 rejects (it needs a zone) is replaced by
\* time.Now().  The mode may be none of the enum; only the insert finds out.
ReadTransaction(j) ==
    /\ CanReadLine(j)
    /\ \E at \in FileTimes \cup {AppNow}, fits \in Castable, mode \in BOOLEAN :
         SetUpload(j, [uploads[j] EXCEPT
             !.pc = "insert", !.line = [at |-> at, fits |-> fits, mode |-> mode],
             !.processed = @ + 1, !.batchCount = @ + 1, !.lines = @ + 1])
    /\ UNCHANGED storeVars

UploadedRow(upload) ==
    [user |-> upload.user, at |-> upload.line.at, fits |-> upload.line.fits,
     via |-> "upload", seen |-> 0, began |-> 0, since |-> 0]

FaultyAfterInsert(upload) ==
    IF upload.batchCount > BatchSize THEN "recalculate" ELSE "read"

AfterInsert(upload) ==
    IF upload.batchCount >= BatchSize THEN "recalculate" ELSE "read"

\* Replies that get lost after an insert has committed, of one insert.
LostReplies == IF Fails("createTransaction") THEN {0, 1} ELSE {0}

\* The row is committed.  If the reply is lost, the service sees an error.
InsertUploaded(j) ==
    /\ uploads[j].pc = "insert"
    /\ uploads[j].line.mode
    /\ CreateTransaction(UploadedRow(uploads[j]))
    /\ \E lost \in LostReplies :
         SetUpload(j, [uploads[j] EXCEPT
             !.pc = AfterInsert(uploads[j]), !.line = NoLine,
             !.success = @ + (1 - lost), !.failed = @ + lost, !.lost = @ + lost,
             !.mine = @ \cup {Len(txns) + 1}])

FaultyFailInsert(j) ==         \* the failure is not counted
    /\ uploads[j].pc = "insert"
    /\ ~uploads[j].line.mode \/ Fails("createTransaction")
    /\ SetUpload(j, [uploads[j] EXCEPT
           !.pc = AfterInsert(uploads[j]), !.line = NoLine])
    /\ UNCHANGED storeVars

\* The insert is an error, and nothing is stored.
FailInsert(j) ==
    /\ uploads[j].pc = "insert"
    /\ ~uploads[j].line.mode \/ Fails("createTransaction")
    /\ SetUpload(j, [uploads[j] EXCEPT
           !.pc = AfterInsert(uploads[j]), !.line = NoLine, !.failed = @ + 1])
    /\ UNCHANGED storeVars

\* io.EOF leaves the loop for the final recalculation.  (The rows of an XLSX
\* file end in this way too when it cannot be read any further.)
ReadEOF(j) ==
    /\ uploads[j].pc = "read"
    /\ ~uploads[j].broken
    /\ SetUpload(j, [uploads[j] EXCEPT !.pc = "recalculate", !.eof = TRUE])
    /\ UNCHANGED storeVars

FaultyBeginRecalculate(j) ==   \* without WHERE u.id = $1
    /\ uploads[j].pc = "recalculate"
    /\ CanCast(DOMAIN txns)
    /\ SetUpload(j, [uploads[j] EXCEPT !.pc = "store", !.snapshot = DOMAIN txns])
    /\ UNCHANGED storeVars

\* The SELECT of RecalculateUserProfile.
BeginRecalculate(j) ==
    LET rows == RowsOf(uploads[j].user) IN
    /\ uploads[j].pc = "recalculate"
    /\ CanCast(rows)
    /\ SetUpload(j, [uploads[j] EXCEPT !.pc = "store", !.snapshot = rows])
    /\ UNCHANGED storeVars

FaultyFailRecalculate(j) ==    \* tried again until it succeeds
    /\ uploads[j].pc = "recalculate"
    /\ Fails("recalculate") \/ ~CanCast(RowsOf(uploads[j].user))
    /\ SetUpload(j, [uploads[j] EXCEPT !.batchCount = 0])
    /\ UNCHANGED storeVars

\* The error is logged in the loop and dropped after it; either way the
\* batch starts over and the local profile stays what it was.
FailRecalculate(j) ==
    /\ uploads[j].pc = "recalculate"
    /\ Fails("recalculate") \/ ~CanCast(RowsOf(uploads[j].user))
    /\ SetUpload(j, [uploads[j] EXCEPT
           !.pc = IF uploads[j].eof THEN "respond" ELSE "read", !.batchCount = 0])
    /\ UNCHANGED storeVars

\* An error, of a lost reply, skips the refresh.
AfterRecalculate(upload) ==
    IF upload.eof THEN {"respond"}
    ELSE {"refresh"} \cup (IF Fails("recalculate") THEN {"read"} ELSE {})

\* Its DO UPDATE commits.
CommitRecalculate(j) ==
    LET upload == uploads[j] IN
    /\ upload.pc = "store"
    /\ SetProfile(upload.user, RecalculatedProfile(upload.snapshot))
    /\ \E pc \in AfterRecalculate(upload) :
         uploads' = [uploads EXCEPT ![j] =
             [upload EXCEPT !.pc = pc, !.snapshot = {},
                            !.batchCount = IF pc = "read" THEN 0 ELSE @]]
    /\ settled' = IF upload.eof
                  THEN [settled EXCEPT ![upload.user] = @ \cup upload.mine]
                  ELSE settled

\* The local profile is replaced unless the query fails.
RefreshProfile(j) ==
    /\ uploads[j].pc = "refresh"
    /\ \E profile \in {profiles[uploads[j].user]} \cup
                      (IF Fails("getProfile") THEN {uploads[j].profile} ELSE {}) :
         SetUpload(j, [uploads[j] EXCEPT !.pc = "read", !.profile = profile,
                                         !.batchCount = 0])
    /\ UNCHANGED storeVars

\* BulkProcessResponse goes to the client.
RespondUpload(j) ==
    /\ uploads[j].pc = "respond"
    /\ SetUpload(j, NoUpload)
    /\ UNCHANGED storeVars

UploadStep(j) ==
    \/ LoadUploadProfile(j)
    \/ ReadBadRecord(j)
    \/ ReadBrokenFile(j)
    \/ ReadBadAmount(j)
    \/ ReadTransaction(j)
    \/ InsertUploaded(j)
    \/ FailInsert(j)
    \/ ReadEOF(j)
    \/ BeginRecalculate(j)
    \/ FailRecalculate(j)
    \/ CommitRecalculate(j)
    \/ RefreshProfile(j)
    \/ RespondUpload(j)

-----------------------------------------------------------------------------

Line == [at : Int, fits : BOOLEAN, mode : BOOLEAN]

Upload ==
    [pc : {"profile", "read", "insert", "recalculate", "store", "refresh",
           "respond"},
     user : Users, profile : Profile, line : Line, processed : Nat,
     success : Nat, failed : Nat, batchCount : Nat, eof : BOOLEAN,
     broken : BOOLEAN, snapshot : SUBSET Nat, lines : Nat, skipped : Nat,
     mine : SUBSET Nat, lost : Nat]

UploadTypeOK ==
    /\ uploads \in [Uploads -> {NoUpload} \cup Upload]
    /\ settled \in [Users -> SUBSET Nat]

Busy(j) == uploads[j].pc # "idle"

(***************************************************************************)
(* What BulkProcessResponse reports is what happened, at every moment and  *)
(* whatever failed: "success" is the number of rows this upload committed, *)
(* all of them its user's, less those whose reply was lost, which are      *)
(* among the failures; every line read, but the one being inserted, is a   *)
(* success or a failure; "processed" is the lines that had three columns.  *)
(* So the rows in the table are between "success" and all lines.           *)
(***************************************************************************)
UploadAccounting ==
    \A j \in Uploads : Busy(j) =>
        LET upload == uploads[j] IN
        /\ upload.mine \subseteq RowsOf(upload.user)
        /\ upload.success + upload.lost = Cardinality(upload.mine)
        /\ upload.lost <= upload.failed
        /\ upload.success + upload.failed
             + (IF upload.pc = "insert" THEN 1 ELSE 0) = upload.lines
        /\ upload.processed + upload.skipped = upload.lines

(***************************************************************************)
(* Bulk rows are scored against a profile that is at most one batch old:   *)
(* when a row is scored, fewer than BatchSize of the rows that this upload *)
(* committed are missing from the local profile.  It needs recalculations  *)
(* that succeed and no other writer of the profile.                        *)
(***************************************************************************)
BulkProfileFresh ==
    \A j \in Uploads : uploads[j].pc = "insert" =>
        Cardinality(uploads[j].mine \ uploads[j].profile.basis) < BatchSize

(***************************************************************************)
(* internal/service/txn_service.go:310, "Final recalculation to ensure     *)
(* consistency": once an upload has written its final recalculation, its   *)
(* rows are in the user's total_transactions, and they stay there.         *)
(***************************************************************************)
SettledUploadsCounted ==
    \A u \in Users : settled[u] \subseteq profiles[u].counted
=============================================================================
