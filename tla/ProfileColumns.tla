--------------------------- MODULE ProfileColumns ---------------------------
(***************************************************************************)
(* The loop that the behaviour of one user closes: decisions select the    *)
(* rows that the columns of user_profile_behavior are computed from        *)
(* (internal/repository/user_behavior_profile.sql.go), and the columns are *)
(* what the next decision is made from (RiskScoring).  The requests and    *)
(* the nightly jobs advance statement by statement, as they do in          *)
(* PostTransaction, BulkUpload and NightlyRebuild, which count what is     *)
(* answered and when; here a row has an amount, a mode and a time, and is  *)
(* decided by the scorer.  A crash is left to FraudService: all that it    *)
(* changes here is that statements do not come to be executed.             *)
(*                                                                         *)
(* Amounts are in tenths: the average and the deviation are rounded to     *)
(* whole numbers while the amount to be scored is truncated.  Moments are  *)
(* hours since the midnight at which the service was started.  The column  *)
(* average_number_of_transactions_per_day is left out: nothing reads it.   *)
(***************************************************************************)
EXTENDS RiskScoring, Bags, FiniteSetsExt

CONSTANTS
    Posts,       \* requests to POST /transactions, a goroutine each
    Uploads,     \* requests to POST /transactions/upload
    Payments,    \* payments that are posted
    Moments,     \* the hours at which something happens
    Lines,       \* lines of files; a file is any sequence of them
    BatchSize,   \* batchSize, 50 in the code
    MaxRows      \* bound on the table transactions

Payment == [amount : Int \ {0}, mode : Modes]
Line == [amount : Int, mode : Modes, at : Nat]
Decided == [amount : Int, mode : Modes, at : Nat, allowed : BOOLEAN]

ASSUME LinesAssumption == Lines \subseteq Line /\ BatchSize \in Nat \ {0}
ASSUME PaymentsAssumption == Payments \subseteq Payment
ASSUME MomentsAssumption == 0 \in Moments /\ Moments \subseteq Nat /\ MaxRows \in Nat

VARIABLES
    rows,        \* the bag of the user's transactions
    profile,     \* the user's row of user_profile_behavior
    basis,       \* the rows its averages stand for: history
    now,         \* the hour
    posts,       \* how far each request has come
    uploads,     \* how far each upload has come
    rebuilds,    \* the nightly job of each day
    ahead        \* a file dated a row after the day it came: history

vars == <<rows, profile, basis, now, posts, uploads, rebuilds, ahead>>

HourOf(moment) == moment % 24
DayOf(moment) == moment \div 24

\* The days whose midnight passes.
Days == {DayOf(m) : m \in Moments} \ {0}

-----------------------------------------------------------------------------

Where(S, test(_)) == [r \in {x \in DOMAIN S : test(x)} |-> S[r]]

\* FILTER (WHERE t.decision IN ('ALLOW', 'FLAG'))
AllowedIn(S) == Where(S, LAMBDA r : r.allowed)

Sum(S, value(_)) == MapThenSumSet(LAMBDA r : S[r] * value(r), DOMAIN S)

\* ::INTEGER of the double n/d: to the nearest, ties to even.
Rounded(n, d) ==
    LET floor == n \div d
        rest == 2 * (n % d)
    IN  IF rest > d \/ (rest = d /\ floor % 2 = 1) THEN floor + 1 ELSE floor

FaultyAverage(S) ==     \* the FILTER is missing on the count
    LET good == AllowedIn(S)
    IN  IF good = EmptyBag THEN 0
        ELSE Rounded(Sum(good, LAMBDA r : r.amount), 10 * BagCardinality(S))

Average(S) ==
    LET good == AllowedIn(S)
    IN  IF good = EmptyBag THEN 0
        ELSE Rounded(Sum(good, LAMBDA r : r.amount), 10 * BagCardinality(good))

\* The deviation of n rows is at least k - 1/2 from this "v" on.
HalfBelow(k, n) == 25 * (2 * k - 1) * (2 * k - 1) * n * (n - 1)

\* STDDEV, to the nearest and ties to even; v is n(n-1) times the variance.  It
\* is NULL for fewer than two rows.  MaxInt32 + 1 stands for all that is more.
Deviation(S) ==
    LET good == AllowedIn(S)
        n == BagCardinality(good)
        total == Sum(good, LAMBDA r : r.amount)
        v == n * Sum(good, LAMBDA r : r.amount * r.amount) - total * total
    IN  IF n < 2 THEN 0
        ELSE Max({k \in 0..(MaxInt32 + 1) :
                    \/ k = 0 \/ v > HalfBelow(k, n)
                    \/ v = HalfBelow(k, n) /\ k % 2 = 0})

\* The maximum is that of all rows, the refused ones too.
Maximum(S) == IF S = EmptyBag THEN 0 ELSE Rounded(Max({r.amount : r \in DOMAIN S}), 10)

\* A file may have amounts below zero, which deviate by more than any amount is.
FaultyCanCast(S) == {Average(S), Maximum(S)} \subseteq Int32

\* A column out of the range of INTEGER is an error.
CanCast(S) == {Average(S), Deviation(S), Maximum(S)} \subseteq Int32

\* The hours of MIN(created_at) and MAX(created_at); NULL without rows.
AllowedTimes(S) == {r.at : r \in DOMAIN AllowedIn(S)}
StartHour(S) == IF AllowedIn(S) = EmptyBag THEN NoHour ELSE HourOf(Min(AllowedTimes(S)))
EndHour(S) == IF AllowedIn(S) = EmptyBag THEN NoHour ELSE HourOf(Max(AllowedTimes(S)))

Columns(S, total, allowed) ==
    [known |-> TRUE, avg |-> Average(S), stdDev |-> Deviation(S), max |-> Maximum(S),
     modes |-> {r.mode : r \in DOMAIN AllowedIn(S)},
     startHour |-> StartHour(S), endHour |-> EndHour(S),
     total |-> total, allowed |-> allowed]

\* LEFT JOIN: a user without a transaction gets a profile all the same.
RecalculatedColumns(S) ==
    Columns(S, BagCardinality(S), BagCardinality(AllowedIn(S)))

\* The two counts are not among the columns of the nightly job.
RebuiltColumns(S) == Columns(S, profile.total, profile.allowed)

Today == DayOf(now) * 24
ClosedRows == Where(rows, LAMBDA r : r.at < Today)

\* CountRecentTransactions: rows dated in the future are recent too.
RecentCount == BagCardinality(Where(rows, LAMBDA r : r.at > now - 1))

-----------------------------------------------------------------------------

\* int32(req.Amount) cuts the fraction off.
Truncated(amount) == IF amount >= 0 THEN amount \div 10 ELSE -((-amount) \div 10)

IsAllowed(decision) == decision \in {"ALLOW", "FLAG"}

\* Whether a line scored with a profile becomes one of the allowed rows.
Verdicts(line, count, held) ==
    {IsAllowed(AnalyzeTransaction(a, line.mode, HourOf(line.at), count, held).decision) :
        a \in ToInt32(Truncated(line.amount))}

Decide(line, allowed) ==
    [amount |-> line.amount, mode |-> line.mode, at |-> line.at, allowed |-> allowed]

Insert(row) ==
    /\ BagCardinality(rows) < MaxRows
    /\ rows' = rows (+) SetToBag({row})

\* A profile that cannot be read is that of a new user.
ProfileReads == {profile, EmptyProfile}

NotYet == [pc |-> "waiting"]
Over == [pc |-> "over"]

Init ==
    /\ rows = EmptyBag
    /\ profile = EmptyProfile
    /\ basis = EmptyBag
    /\ now = 0
    /\ posts = [p \in Posts |-> NotYet]
    /\ uploads = [j \in Uploads |-> NotYet]
    /\ rebuilds = [d \in Days |-> NotYet]
    /\ ahead = FALSE

-----------------------------------------------------------------------------

\* POST /transactions
ReadProfile(p) ==
    /\ posts[p].pc = "waiting"
    /\ \E held \in ProfileReads :
         posts' = [posts EXCEPT ![p] = [pc |-> "score", held |-> held]]
    /\ UNCHANGED <<rows, profile, basis, now, uploads, rebuilds, ahead>>

\* Rows that cannot be counted are none.
Score(p) ==
    /\ posts[p].pc = "score"
    /\ \E payment \in Payments, count \in {RecentCount, 0} :
         LET line == [amount |-> payment.amount, mode |-> payment.mode, at |-> now] IN
         /\ payment.amount > 0
         /\ \E allowed \in Verdicts(line, count, posts[p].held) :
              posts' = [posts EXCEPT ![p] =
                  [pc |-> "insert", row |-> Decide(line, allowed)]]
    /\ UNCHANGED <<rows, profile, basis, now, uploads, rebuilds, ahead>>

\* The row is dated when it is inserted; the insert may fail.
InsertPost(p) ==
    /\ posts[p].pc = "insert"
    /\ Insert([posts[p].row EXCEPT !.at = now]) \/ UNCHANGED rows
    /\ posts' = [posts EXCEPT ![p] = Over]
    /\ UNCHANGED <<profile, basis, now, uploads, rebuilds, ahead>>

-----------------------------------------------------------------------------

SetUpload(j, upload) == uploads' = [uploads EXCEPT ![j] = upload]

SetColumns(S, columns) ==
    /\ profile' = columns
    /\ basis' = S

\* POST /transactions/upload
ReceiveUpload(j) ==
    /\ uploads[j].pc = "waiting"
    /\ \E held \in ProfileReads :
         SetUpload(j, [pc |-> "read", held |-> held, batch |-> 0, eof |-> FALSE,
                       snapshot |-> EmptyBag])
    /\ UNCHANGED <<rows, profile, basis, now, posts, rebuilds, ahead>>

\* A line is scored with the local profile and no recent rows.  One that is not
\* scored changes nothing, and is no part of the file here.
InsertLine(j) ==
    /\ uploads[j].pc = "read"
    /\ \E line \in Lines : \E allowed \in Verdicts(line, 0, uploads[j].held) :
         \/ /\ Insert(Decide(line, allowed))
            /\ ahead' = (ahead \/ DayOf(line.at) > DayOf(now))
         \/ UNCHANGED <<rows, ahead>>
    /\ LET batch == uploads[j].batch + 1 IN
       SetUpload(j, [uploads[j] EXCEPT
           !.pc = IF batch >= BatchSize THEN "recalculate" ELSE "read",
           !.batch = batch])
    /\ UNCHANGED <<profile, basis, now, posts, rebuilds>>

\* Neither the local profile nor the number of lines is needed any more.
EndFile(j) ==
    /\ uploads[j].pc = "read"
    /\ SetUpload(j, [uploads[j] EXCEPT !.pc = "recalculate", !.eof = TRUE,
                                      !.held = EmptyProfile, !.batch = 0])
    /\ UNCHANGED <<rows, profile, basis, now, posts, rebuilds, ahead>>

\* After a recalculation that was not followed by a refresh.
NextBatch(upload) ==
    IF upload.eof THEN Over
    ELSE [upload EXCEPT !.pc = "read", !.batch = 0, !.snapshot = EmptyBag]

\* The SELECT of RecalculateUserProfile; an error of it is dropped.
BeginRecalculate(j) ==
    /\ uploads[j].pc = "recalculate"
    /\ \/ /\ CanCast(rows)
          /\ SetUpload(j, [uploads[j] EXCEPT !.pc = "store", !.snapshot = rows])
       \/ SetUpload(j, NextBatch(uploads[j]))
    /\ UNCHANGED <<rows, profile, basis, now, posts, rebuilds, ahead>>

\* Its DO UPDATE.  A reply that is lost skips the refresh.
CommitRecalculate(j) ==
    LET upload == uploads[j] IN
    /\ upload.pc = "store"
    /\ SetColumns(upload.snapshot, RecalculatedColumns(upload.snapshot))
    /\ \/ SetUpload(j, NextBatch(upload))
       \/ /\ ~upload.eof
          /\ SetUpload(j, [upload EXCEPT !.pc = "refresh", !.snapshot = EmptyBag])
    /\ UNCHANGED <<rows, now, posts, rebuilds, ahead>>

\* The local profile is replaced unless the query fails.
RefreshProfile(j) ==
    /\ uploads[j].pc = "refresh"
    /\ \E held \in {profile, uploads[j].held} :
         SetUpload(j, [uploads[j] EXCEPT !.pc = "read", !.held = held, !.batch = 0])
    /\ UNCHANGED <<rows, profile, basis, now, posts, rebuilds, ahead>>

-----------------------------------------------------------------------------

SetRebuild(d, rebuild) == rebuilds' = [rebuilds EXCEPT ![d] = rebuild]

\* The SELECT of RebuildAllUserProfiles, which may fail for the sake of other
\* users too.
BeginRebuild(d) ==
    /\ rebuilds[d].pc = "started"
    /\ \/ /\ CanCast(ClosedRows)
          /\ SetRebuild(d, [pc |-> "store", snapshot |-> ClosedRows])
       \/ SetRebuild(d, Over)
    /\ UNCHANGED <<rows, profile, basis, now, posts, uploads, ahead>>

FaultyCommitRebuild(d) ==     \* LEFT JOIN, as in UpsertUserProfileByUserID
    /\ rebuilds[d].pc = "store"
    /\ SetColumns(rebuilds[d].snapshot, RebuiltColumns(rebuilds[d].snapshot))
    /\ SetRebuild(d, Over)
    /\ UNCHANGED <<rows, now, posts, uploads, ahead>>

\* Its DO UPDATE.  There is no row for a user without closed transactions.
CommitRebuild(d) ==
    LET S == rebuilds[d].snapshot IN
    /\ rebuilds[d].pc = "store"
    /\ \/ S # EmptyBag /\ SetColumns(S, RebuiltColumns(S))
       \/ S = EmptyBag /\ UNCHANGED <<profile, basis>>
    /\ SetRebuild(d, Over)
    /\ UNCHANGED <<rows, now, posts, uploads, ahead>>

-----------------------------------------------------------------------------

\* Every midnight that passes starts the job of its day.
Later ==
    /\ \E t \in Moments :
         /\ t > now
         /\ now' = t
         /\ rebuilds' = [d \in Days |->
                IF DayOf(now) < d /\ d <= DayOf(t) THEN [pc |-> "started"]
                ELSE rebuilds[d]]
    /\ UNCHANGED <<rows, profile, basis, posts, uploads, ahead>>

PostStep(p) == ReadProfile(p) \/ Score(p) \/ InsertPost(p)

UploadStep(j) ==
    \/ ReceiveUpload(j) \/ InsertLine(j) \/ EndFile(j)
    \/ BeginRecalculate(j) \/ CommitRecalculate(j) \/ RefreshProfile(j)

RebuildStep(d) == BeginRebuild(d) \/ CommitRebuild(d)

Next ==
    \/ \E p \in Posts : PostStep(p)
    \/ \E j \in Uploads : UploadStep(j)
    \/ \E d \in Days : RebuildStep(d)
    \/ Later

Spec == Init /\ [][Next]_vars

-----------------------------------------------------------------------------

Request ==
    [pc : {"score"}, held : UserProfile] \cup [pc : {"insert"}, row : Decided]

\* The upload whose snapshot is S.
Upload(S) ==
    [pc : {"read", "recalculate", "store", "refresh"}, held : UserProfile,
     batch : 0..BatchSize, eof : BOOLEAN, snapshot : {S}]

IsTable(S) == IsABag(S) /\ DOMAIN S \subseteq Decided

\* The type invariant: what is stored is a profile that the scorer can use,
\* none of its numbers outside of int32.
TypeOK ==
    /\ IsTable(rows) /\ IsTable(basis)
    /\ profile \in UserProfile /\ profile.stdDev \in Int32
    /\ now \in Moments
    /\ posts \in [Posts -> {NotYet, Over} \cup Request]
    /\ DOMAIN uploads = Uploads
    /\ \A j \in Uploads :
         \/ uploads[j] \in {NotYet, Over}
         \/ /\ uploads[j] \in Upload(uploads[j].snapshot)
            /\ IsTable(uploads[j].snapshot)
    /\ DOMAIN rebuilds = Days
    /\ \A d \in Days :
         \/ rebuilds[d] \in {NotYet, [pc |-> "started"], Over}
         \/ rebuilds[d].pc = "store" /\ IsTable(rebuilds[d].snapshot)
    /\ ahead \in BOOLEAN

HabitOf(S) == {<<r.amount, r.mode>> : r \in DOMAIN AllowedIn(S)}

(***************************************************************************)
(* Who has only ever been allowed one kind of payment may go on making it  *)
(* at any hour, the third within an hour too: neither the average that is  *)
(* rounded where the amount is truncated, nor refused payments in the same *)
(* profile, get in the way.  (helpers/txn.go:48-61 and                     *)
(* user_behavior_profile.sql.go:79-87.)                                    *)
(***************************************************************************)
HabitIsAllowed ==
    \A payment \in HabitOf(basis) :
        HabitOf(basis) = {payment} /\ payment[1] > 0 =>
            \A hour \in Hours :
                AnalyzeTransaction(Truncated(payment[1]), payment[2], hour,
                                   ThresholdFrequency - 1, profile).decision = "ALLOW"

(***************************************************************************)
(* Once all the allowed rows of a profile are of one day, every hour at    *)
(* which one of them took place is within the usual hours.  It is not so   *)
(* for several days: the first and the last timestamp are stored, and only *)
(* their hours are compared.  (helpers/txn.go:155-167 and                  *)
(* user_behavior_profile.sql.go:102-106.)                                  *)
(***************************************************************************)
HoursOfOneDayAreUsual ==
    LET good == DOMAIN AllowedIn(basis) IN
    Cardinality({DayOf(r.at) : r \in good}) = 1 =>
        \A r \in good : CalculateTimeAnomalyRisk(HourOf(r.at), profile) = 0

(***************************************************************************)
(* Whoever is scored as an established user has a habit to be compared     *)
(* with: five transactions are counted only if some were allowed (the      *)
(* cold start never refuses a first one), and no midnight puts a day       *)
(* without allowed transactions in its place.  A file that dates rows      *)
(* ahead of the day breaks it: the next rebuild leaves them out again.     *)
(* (user_behavior_profile.sql.go:111-112, helpers/txn.go:256-264.)         *)
(***************************************************************************)
EstablishedHasHabit ==
    ~IsColdStart(profile) /\ ~ahead
        => profile.modes # {} /\ profile.startHour # NoHour

(***************************************************************************)
(* No line of a file is refused, whatever it says, whenever the file comes *)
(* and however old the local profile has become: a count of 0 keeps a      *)
(* young profile below MFA_REQUIRED, and an established one has five       *)
(* allowed transactions or more, since the first refusal of a user needs   *)
(* five before it, and a snapshot of the rows that counts the refusal      *)
(* counts those too.                                                       *)
(* (service/txn_service.go:253-254, helpers/txn.go:213-225 and 256-276.)   *)
(***************************************************************************)
FilesAreAllowed ==
    \A line \in Lines :
        /\ Verdicts(line, 0, profile) = {TRUE}
        /\ \A j \in Uploads :
             uploads[j].pc = "read" => Verdicts(line, 0, uploads[j].held) = {TRUE}
=============================================================================
