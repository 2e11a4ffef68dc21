# Fraud detection lite: specifications and proofs

TLA+ specifications of the service in this repository, the TLC configurations
that check them on small instances, and proofs, checked by TLAPS, that their
main properties hold for every instance.

- [The system](#the-system): components, state, interactions, what is hard
- [The modules](#the-modules): how the specification corresponds to the code
- [The runs](#the-runs): what each one checks, its bounds, the fairness
- [The proofs](#the-proofs): what is proved, from what, and how
- [What was found](#what-was-found)
- [What is not modelled](#what-is-not-modelled)
- [Plan](#plan)

Paths are relative to the repository; `txn_service.go` is
`internal/service/txn_service.go`, `helpers/txn.go` is
`internal/pkg/helpers/txn.go`, and `profile.sql.go` is
`internal/repository/user_behavior_profile.sql.go`. `user_service.go` is
`internal/service/user_service.go`, `middleware/auth.go` and `helpers/auth.go`
are in `internal/pkg`, `user_transaction_handler.go` is in
`internal/api/handler`, and `transactions.sql.go` and `users.sql.go` in
`internal/repository`.

## The system

A Go HTTP server that gives each money transaction a risk score and a decision
(ALLOW, FLAG, MFA_REQUIRED, BLOCK), by comparison with a profile of the user's
behaviour. Its state is in PostgreSQL, and in Redis for logged-out tokens; the
process itself keeps nothing between requests but a cron timer.

| component | code | state | operations |
|---|---|---|---|
| Risk scoring | `helpers/txn.go`, `internal/pkg/constants/txn.go` | none (pure) | `AnalyzeTransaction`, `AnalyzeBulkTransactions`: four factor risks, weighted sum, dampening, triggered factors, decision |
| Store | `internal/repository`, `internal/db` | tables `users`, `transactions`, `user_profile_behavior` | single SQL statements, each a database transaction of its own |
| Posting a transaction | `txn_service.go` `CreateTransaction` | a goroutine per request | read profile, count recent rows, score, insert |
| Bulk upload | `txn_service.go` `ProcessBulkTransactions` | a goroutine per request; counters, local profile | read line, score, insert; recalculate and refresh every 50 lines; final recalculation |
| Nightly rebuild | `internal/worker/cron.go` | a goroutine per midnight | `RebuildAllUserProfiles`, one statement for all users |
| Profile columns | `profile.sql.go` | the columns of `user_profile_behavior` | averages, deviation, maximum, modes, hours and counts of a set of rows, by `RecalculateUserProfile` and `RebuildAllUserProfiles` |
| Sessions | `user_service.go`, `middleware/auth.go`, `helpers/auth.go` | tokens at the clients, Redis blacklist | login, logout, check on every protected request |
| Accounts | `user_service.go`, `users.sql.go` | table `users` | signup, look-up |
| Listing and look-up | `user_transaction_handler.go`, `transactions.sql.go` | none | read-only queries with limit and offset |
| Process | `cmd/main.go` | pools, server, cron | start, signal, shutdown |

The parts meet in the database, and nowhere else, but for the sessions, which
live in tokens and in Redis and only decide whether a request gets through. A
post and an upload read the profile that uploads and the nightly job write; both
insert the rows that all three statements aggregate. There is no lock and no
explicit transaction in the Go code: between any two statements of a goroutine,
every other goroutine may run, any statement may fail, and the process may be
killed.

What is hard, and what makes each part correct:

- *Scoring.* Four integer and float scales, caps and floors, two decision
  ladders, a conversion to `int32`. Correct: scores stay on their scale; trust
  never hurts and risk never helps; a decision has the grounds that the code's
  thresholds imply. (Some of those thresholds are written down nowhere, such as
  the 12 and the 32 allowed transactions in `BlockNeedsOutlierAndSpike` and
  `TrustedIsNeverChallenged`.)
- *Posting.* Count-then-insert is not atomic, and rows are dated by one clock
  and counted by another. Correct: a row is scored with what its user had
  settled before the request, and with nothing outside the hour.
- *Uploading.* Long loop, any line may fail in one of four ways, and the local
  profile goes stale. Correct: the numbers answered account for the rows
  committed; the staleness is bounded by a batch; the loop ends if the file does.
- *Profiles.* Written by an `INSERT ... SELECT ... ON CONFLICT DO UPDATE`, whose
  reading and writing are two moments. Correct: the averages of a profile are of
  one moment of its user's past, and so are its totals (but not always of the
  same one, see `NightlyCounts`); once a finished upload is counted it stays
  counted, while uploads of one user do not overlap.
- *Nightly job.* May fail as a whole, overlap with itself and with uploads, miss
  a midnight. Correct: after a job is done the past days are in the profiles.
- *Profile columns.* Decisions select the rows that the columns are computed
  from, and the columns make the next decisions, through a rounding on one side
  and a truncation on the other, and with two statements that select rows
  differently. Correct: what has been allowed goes on being allowed; an
  established profile has a habit; no line of a file is refused.
- *Sessions.* One clock is read at three resolutions: a token expires at a whole
  second, its Redis key at a whole millisecond, `time.Now` is finer. A token is
  parsed up to three times per request, Redis may fail, execute a command twice
  or forget, and the secret may be missing. Correct: a logout that was answered
  ends its session, and no other, for good.
- *Accounts.* Only the table's unique index stands between two signups in
  flight. Correct: a signup that was answered stays good.
- *Listing.* Each page is a query of its own, beside writers that add rows with
  any date. Correct: who reads page after page misses nothing that was there.
- *Shutdown.* A job is waited for without a limit while requests still come in,
  then requests for 30 seconds, and then the pools are closed under whoever is
  left. Correct: the process ends, and nobody inside is left without an answer
  as long as the 30 seconds suffice.

`PROJECT.json` lists these hazards one by one, each at its line, with the
properties that watch it.

## The modules

```
RiskScoring          the scoring functions
 ├ RiskScoringProofs       facts about them
 ├ RiskAnalysis      calls of the scorer and the properties of their results
 │  ├ RiskAnalysisMC       values for TLC
 │  └ RiskAnalysisProofs   (with RiskScoringProofs)
 └ ProfileColumns    the aggregates of both profile statements, with their loop
    ├ ProfileColumnsMC     through the scorer
    └ ProfileColumnsProofs (with RiskScoringProofs)
FraudStore           tables, clocks, SQL statements
 ├ PostTransaction   POST /transactions
 ├ BulkUpload        POST /transactions/upload
 └ NightlyRebuild    the cron job
      └ FraudService composes the three: clock, crash, restart
         ├ INSTANCE ProfileLedger   the abstract specification
         ├ FraudServiceMC           values for TLC
         ├ Listing                  GET /transactions beside the writers
         │  └ ListingMC             (with FraudServiceMC)
         ├ Shutdown                 the end of main, and fairness
         │  └ ShutdownMC            (with FraudServiceMC)
         └ FraudServiceProofs       types, and the frequency count
            └ UploadProofs
               └ LedgerProofs       snapshots, refinement, nights
                  └ ExtensionProofs (with Listing and Shutdown)
Sessions             accounts, tokens, the Redis blacklist
 ├ SessionsMC
 └ SessionsProofs
```

**RiskScoring** has one operator per function of `helpers/txn.go`, with the
function's name. The code computes in `float64`; the model in integers of a unit
in which the code's constants are exact (a factor risk in tenths of a point, the
weighted sum in hundredths, the final score in 1/20000). The two quotients of
the amount risk are rounded down to the unit. `int32(req.Amount)` is `ToInt32`:
out of range it yields what a Go compiler may produce, the least value on amd64
or the nearest on arm64. A NULL hour is `NoHour`, a missing profile
`known = FALSE`.

**RiskAnalysis** turns that into behaviours: `Analyze` picks a profile, an
amount, a mode, an hour and a count; `Return` ends the call. Its properties
relate a result to its input, or the results of two calls to each other.

**FraudStore** is the database. A transaction is its position in `txns`, the
order of commits. A profile is a pair of sets of positions: `basis`, the rows
behind the average, the deviation, the maximum, the modes and the hours, and
`counted`, the rows behind `total_transactions` and `allowed_transactions`. They
are apart because the nightly statement rewrites the first group of columns and
not the second. With sets in place of aggregates, a lost update or a mix of two
moments shows as a wrong set whatever the amounts are. `now` is the database's
clock, `AppNow` the service's, `Skew` ticks ahead (negative: behind); the code
dates rows with one and cuts windows and days with the other. A statement of
`FaultyCalls` may fail without cause. `Castable` says whether there are amounts
that `::INTEGER` refuses.

Rows carry history that the table has only through the scores: `seen`, the count
the row was scored with; `began`, how many rows there were when the request
arrived; `since`, the service's time at that moment.

**PostTransaction**: `LoadPostProfile`, `CountRecentTransactions`,
`AnalyzePost`, `InsertPost` are the steps 1 to 4 of `CreateTransaction`
(`txn_service.go:50-110`), one action per statement. A failing profile read
gives an empty profile and a failing count gives 0, as in the code.

**BulkUpload**: one action per way through the loop. A line is refused by the
iterator or has too few columns (`ReadBadRecord`), has no numeric amount
(`ReadBadAmount`) or is parsed (`ReadTransaction`, where a `created_at` that is
not RFC 3339 becomes the current time); its insert succeeds or fails
(`InsertUploaded`, `FailInsert`; an unknown mode is found out by the database).
After `BatchSize` lines, and at the end, `RecalculateUserProfile` reads
(`BeginRecalculate`) and writes (`CommitRecalculate`), or fails. PostgreSQL runs
it at READ COMMITTED: the aggregates are of the statement's snapshot, and the
row lock of `ON CONFLICT` is taken later, so that the two steps may be far apart.
`FailRecalculate`, in the loop, skips the refresh and resets the batch, as the
code does; after the loop the error is dropped. An insert or a recalculation may
commit although the service gets an error (`LostReplies`, `AfterRecalculate`): the
row is there and the upload counts a failure. `ReadBrokenFile` is an error of the
reader below the CSV reader: it comes again whenever the loop asks again, and the
loop never ends (`txn_service.go:214-217`). Each failure counts up to `MaxLines`.

**NightlyRebuild**: the job of day `d` is started by midnight `d` of the
service's clock and has the same two steps for all users at once. `RebuiltProfile`
keeps `counted`. A cast that fails in one row of one user fails the whole
statement. `existing` (the rows there were at the job's midnight) and `beside`
(the jobs still running then) are history.

**FraudService** is the process. `Tick` advances the clocks and, at midnight,
starts a job, or none if the process is down. `Crash` removes every goroutine
and leaves the tables; `Restart` brings the process back. A client may send a
new request at any time; `AwaitRequests` is the state of rest, so that TLC's
deadlock check (on in all runs) finds a goroutine that is stuck.

**ProfileLedger** is the abstract specification: a ledger that only grows, and
per user a summary that is replaced in one step, by `Recount` (everything up to
some moment, never less than an earlier recount had) or, for all users at one and
the same moment and cutoff, by `Rebuild`. No request, no statement in two steps,
no crash. `FraudService!LedgerSpec` is its `Spec` under the refinement mapping
`ledger <- txns, summaries <- profiles`.

**ProfileColumns** has the data that `FraudStore` leaves out. `rows` is the bag
of one user's transactions, each with its amount in tenths, its mode, the hour at
which it took place and whether it was allowed; `profile` has the columns. The
columns are written as the SQL says: `Average`, `Deviation` and `Maximum` with
the filter on the decision (the maximum has none), the rounding of `::INTEGER`
(halves to the even side) and its range check (`CanCast`, of all three), the set
of modes, the hours of the first and the last allowed row. `RecalculatedColumns`
and `RebuiltColumns` are the two statements; they differ in the rows, in who gets
a profile at all (`LEFT JOIN` against `JOIN`) and in the counts, which a rebuild
keeps. The requests of one user advance statement by statement, and a statement
that writes the profile reads and commits in two steps, as in the modules above:
`ReadProfile`, `Score`, `InsertPost` are `CreateTransaction`; `ReceiveUpload`,
`InsertLine`, `EndFile`, `BeginRecalculate`, `CommitRecalculate`, `RefreshProfile`
are `ProcessBulkTransactions`; `BeginRebuild`, `CommitRebuild` are the job, and
`Later` is the clock, which starts it. Each read and each write may fail: a profile
that cannot be read is empty, a count is 0, an insert or a recalculation does not
happen, or happens and its reply is lost. A request is scored by
`RiskScoring!AnalyzeTransaction`. `basis` (the rows the averages stand for) and
`ahead` (a file dated a row after the day it came) are history.
`average_number_of_transactions_per_day` is left out: nothing reads it.
`FilesAreAllowed` is about how the parts add up: a file that is scored with a
count of 0 can be refused nothing, whoever uploads it, and however old the profile
that the upload holds.

**Listing** adds clients that read `GET /transactions` to FraudService, from
`BeginListing` by `GetTransactions` until an empty page. `Pages` is
`ORDER BY created_at DESC LIMIT $2 OFFSET $3`, with the order of equal dates left
open in each query; `FromInt` is the conversion to `int32`, which wraps around.

**Shutdown** adds the end of `main` to FraudService: `Signal`; `StopServer`,
after the wait for running jobs, while the server still accepts connections;
`FinishDraining`, when the requests in flight have ended or 30 seconds have
passed (`cut`); `Exit`, after the deferred closing of the pools, which waits for
statements under way. `phase` is how far `main` has come. A connection that was
accepted earlier may bring a request while the server drains (`Accepting`). A
stopped cron starts
no job (`LifeTick`), and once the pools are closing a goroutine can only finish
the statement it is in (`LifeUploadAdvances`, `LifeRebuildAdvances`). A crash may
come at any point of this, and `LifeRestart` starts the process anew.

**Sessions** has no table in common with the rest. `Signup`, `LookUpUser` and
`CheckPassword` are `user_service.go:33-76`; `Authenticate` and `AskBlacklist`
are the middleware; `Identify` is the second parse of the token that every
handler makes, since nobody fills in the context; `Logout` is the third, with the
time left, and `SetBlacklist` the command it leads to. Between any two of them
the clock may go on (`Tick`), other requests advance, Redis may fail, and it may
restart and forget keys (`RedisRestarts`). The unit of time is a tick;
`MsTicks` and `SecondTicks` are the coarser ones. `SigningKey` and `VerifyingKey`
are the two fallbacks for an empty `JWT_SECRET`, which are not the same.
`signedUp`, `leaving`, `ended` and `forgotten` are history: which password was
acknowledged, which tokens' logouts are on the way or answered, which keys Redis
lost. Of a password only its identity is modelled; those bcrypt cannot hash (over
72 bytes) are left out.

The operators named `Faulty...` are plausible mistakes, each beside the
definition it gets wrong. No specification uses them; put in place of that
definition they make a property fail, which is how we know it can.

## The runs

| run | instance | what it shows |
|---|---|---|
| `RiskAnalysis` | 73 profiles, 6 amounts, 5 counts, 24 hours, 2 modes | the scorer's type, scale, explanations and monotonicity, and hours that wrap around midnight |
| `Traffic` | 1 user, 2 posts, 4 ticks, 2 midnights, crash, failing inserts and rebuilds | the frequency count is bounded from both sides; a rebuild that is done covers the days before it, but for what jobs beside it take back |
| `Service` | 2 users, 1 post, 1 upload, 1 midnight, crash, inserts that fail or whose reply is lost | types, the numbers an upload answers, settled uploads stay counted, averages and totals are snapshots, and the refinement of `ProfileLedger` |
| `UploadFresh` | 4-line uploads in batches of 2, beside a client that reads with no limit, 1 row a page, or a limit that `int32` cannot hold | bulk rows are scored with a profile less than one batch old; pages miss nothing, and repeat a row only if rows came in or dates are equal |
| `Liveness` | 1 post, 1 upload of 2 lines, 1 midnight, crash, failing recalculations, amounts that cannot be cast, a file that cannot be read on, signals | under fairness, every upload of a readable file is answered, and every job and shutdown ends; no job meets a closed pool, and no request before the 30 seconds are over |
| `Sessions` | 1 email, 2 passwords, 2 tokens, 2 requests, 5 ticks, failing database and Redis | an answered logout ends its session and no other, for good; an answered signup stays good |
| `ProfileColumns` | 1 post and 1 upload, with at most 6 rows, 2 modes, amounts of 19, 9.7 and -21 where `int32` ends at 20, 2 days, failing reads and writes | the loop of decisions and columns keeps allowing what it allowed, leaves no established profile without a habit, and never refuses a line of a file |
| `RiskOverflow`, `FrequencyBurst`, `UploadsOverlap`, `NightlyOverflow`, `NightlyCounts` | the least instance that shows it | the five findings below, as counterexamples |

Bounds, and why they are enough:

- `MaxRows` bounds the acceptance of requests; those in progress may still
  insert, so that a run with `MaxRows = 2` and two goroutines stores three or
  more rows. Two rows are what it takes for one to be missed by the other, to be
  committed and dated in different orders, or to be in one snapshot and out of
  the next. `UploadFresh` needs two whole batches, the second of them scored after
  a refresh, hence four; its rows carry various dates, so that the order of
  reading is not the order of commits, and equal dates occur.
- `MaxNow` with `DayTicks` gives one or two midnights: two are needed for a job
  that overlaps the next one, or that is missed and made up for. `Window` is two
  ticks, so that rows age within a request.
- `BatchSize` is 1 or 2 where the code has 50; nothing depends on it but the
  place of the recalculations. `MaxLines` bounds the files.
- `Int32Size` is 8 in `UploadFresh`, that is, `int32` is -4..3: a limit of 4
  turns negative, an offset of 4 too, so that a reading that does not fail has
  up to three rows. The default limit of 2 gives whole and
  incomplete pages.
- In `Sessions` a second has two milliseconds of two ticks, and a token lives for
  one second: 5 ticks let it be issued, blacklisted and outlived at every
  offset from both roundings. Two requests are what it takes for two logouts to
  cross, for a logout to overtake a request, or for two signups to meet; two
  tokens for a logout to hit the wrong session.
- In `ProfileColumns`, 9.7 is 10 when rounded and 9 when truncated, rows of -21
  beside one of the others deviate by more than 20, which cannot be cast, five
  rows end the cold start, and a sixth is scored with the profile they make. The
  hours 0, 9 and 33 are midnight, a morning, and the same hour of the next day; a
  row dated 24 is of the next day's midnight. A second upload is more than TLC can
  enumerate with the rows that this needs: the proofs are for any number of
  requests and uploads, and `UploadsOverlap` has what two of them do to the totals.
  Each request happens once there, so that the run stops when all are over
  (`CHECK_DEADLOCK FALSE`).
- `MaxCrashes` is 1. After a crash and a restart only the tables are left, and
  those are any that a crash at any moment leaves.
- Two users only in `Service`, where rows of another user could get into a
  snapshot; the other properties are about one user at a time, and no statement
  but the nightly one touches two.
- Each kind of failure is in a run where it can do harm: inserts in `Service` and
  `Traffic`, rebuilds in `Traffic` and `Liveness`, recalculations and casts in `Liveness`. All
  of them together are in the proofs, where `FaultyCalls` is any set.
- Symmetry is declared for users in `Service`, for the goroutines of an
  endpoint in `Traffic` and for passwords, tokens and goroutines in `Sessions`; no
  property of these runs tells them apart, and none of them checks liveness.
- In `RiskAnalysis`, `MaxInt32` is 1000, so that 2000 is out of range. The other
  amounts and profiles lie on both sides of each threshold they meet, and the
  pairs of `total_transactions` and `allowed_transactions` on both sides of 3,
  5, 12, 32 and 50.

What the runs assume, because the code promises the property only then:
`Traffic` has equal clocks (`Skew = 0`) and count queries that succeed;
`NightlyCoversYesterday` is checked without uploads beside the job;
`SettledUploadsCounted`, `BulkProfileFresh` and `LedgerSpec` are checked with one
upload at a time (`UploadsOverlap` is what happens with two).

`UploadFresh` is without a post, a crash or a midnight, so that what is checked
there is the loop, and pages beside it. `PagesMissNothing` speaks of
distinct dates and of limits that `int32` holds.

Fairness (`FairLifeSpec`, used by `Liveness`): weak fairness of each goroutine's
steps, of `main`'s steps after a signal (`StopServer`, `FinishDraining`, `Exit`)
and of `LifeRestart`. The timer of the 30 seconds is sure to run out, so
`FinishDraining` does not depend on any client. `StopServer` is enabled once no
job runs, and a stopped cron starts no more of them, so weak fairness is enough.
The Go scheduler runs a runnable goroutine, each statement returns a result or
an error (the code sets no deadline of its own, the database and the network
do), and an operator or supervisor restarts a process that died. No fairness is
assumed of clients, of signals, of the clock, of crashes or of any particular
outcome: the statement that fails may fail every time, and the file may be
unreadable from any line on. `UploadsAreAnswered` excludes that file, because one
error path of the loop does lead back without progress: an error of the reader
below the CSV reader is counted as a failed line, and asked for again
(`txn_service.go:214-217`), for ever if it stays. All other paths use up a line,
so that the bound `MaxLines` does no more than make the file finite.

## The proofs

TLAPS proves the following for all values of the constants: any number of users,
goroutines, rows, days and crashes, any batch size, window, length of day, set of
failing statements and file contents, and any clock skew unless it is named.
`[]OneUploadPerUser`, `[]Undisturbed` and `[]Apart` in front of a property are
hypotheses on the behaviour, not facts: no user has two uploads at a time; nobody
writes a profile between a recalculation of it and the refresh that follows; no
recalculation is between its two steps while a job runs.

| theorem | says |
|---|---|
| `RiskAnalysisProofs` `TypeCorrect`, `ScoresStayOnScale`, `BlockIsJustified`, `ChallengesAreExplained`, `TrustedAreNotChallenged`, `BulkIsNotBlocked`, `TrustHelps`, `MoreIsRiskier`, `HoursFollowTheClock` | the nine invariants of the run `RiskAnalysis`, for every profile, amount and count, and for the real `int32` |
| `FraudServiceProofs!TypeCorrect` | `TypeOK` |
| `FraudServiceProofs!SettledCounted` | `SettledAreCounted`, if `Skew >= 0` and the count query does not fail |
| `FraudServiceProofs!OnlyRecentCounted` | `OnlyRecentAreCounted`, if `Skew <= 0` |
| `UploadProofs!UploadsAddUp` | `UploadAccounting` |
| `UploadProofs!SettledStayCounted` | `SettledUploadsCounted`, under `[]OneUploadPerUser` |
| `UploadProofs!BulkStaysFresh` | `BulkProfileFresh`, under `[]Undisturbed`, if recalculations and profile reads do not fail and all amounts can be cast |
| `LedgerProofs!ProfilesArePast` | `ProfilesAreSnapshots`: averages and totals each of one moment, uploads that overlap included |
| `LedgerProofs!ServiceImplementsLedger` | `LedgerSpec`, the refinement of `ProfileLedger`, under `[]OneUploadPerUser` |
| `LedgerProofs!NightlyCovers` | `NightlyCoversYesterday`, under `[]Apart`, if `Skew <= 0` |
| `ExtensionProofs!ClosedPoolIsIdle` | `NothingMeetsAClosedPool` |
| `ExtensionProofs` `ShutdownHarmsNothing`, `ShutdownKeepsCounts`, `ShutdownKeepsNights`, `ShutdownKeepsBulkFresh`, `ShutdownImplementsLedger` | for `LifeSpec`, under the same premises, all that the theorems above say of `Spec` |
| `ExtensionProofs` `NothingMissed`, `QuietPagesDiffer` | `PagesMissNothing`, `QuietPagesRepeatNothing`: any number of rows, readers and limits, any width of `int32`, beside any writers |
| `ProfileColumnsProofs` `ColumnsTypeOK`, `HabitsAreAllowed`, `OneDaysHoursAreUsual`, `EstablishedHabit`, `AllFilesAreAllowed` | the five properties of the run `ProfileColumns`: any number of posts, uploads and jobs beside each other, any amounts posted but 0, any moments and number of rows, any files and batch size, and the real `int32` |
| `SessionsProofs` `TypeCorrect`, `LogoutIsFinal`, `OverForGood`, `RefusalsAreJustified`, `SignupsAreKept` | the five properties of the run `Sessions` |

They rest on the named assumptions of the modules (`MaxInt32Assumption`,
`WindowAssumption`, ...), which only give the constants their types, and on the
premises in the table. Of the assumptions of `Sessions` one says more: a second
is a whole number of milliseconds (`UnitsAssumption`); of those of
`ProfileColumns`, that a posted amount is not 0 (`PaymentsAssumption`; `Validate`
refuses it). That Redis and the service share one clock, and that it does not go
back, is in the shape of the model of the sessions. TLC evaluates the assumptions
in every run.

How they go:

- *Scoring.* The inductive invariant `IInv` says that what is stored is the
  result of `AnalyzeTransaction` for the stored request. The properties then are
  facts about that operator: each factor risk lies in its range, the weighted
  sum is at most 10000, the dampening factor lies between 100 and 200, and a
  decision says on which side of 30, 60, 75 and 80 points the score lies.
  `SixtyPoints` and `EightyPoints` combine these: without the frequency factor
  there are not 80 points, nor without the amount factor. Monotonicity
  follows factor by factor, then through the sum and the dampening. For the hours,
  `WithinIsSpan` shows that the two comparisons of the code are those hours that
  lie on the way from the first usual hour to the last around the clock.
- *Types* are inductive as they are. `StepMoves` extracts from the case analysis
  what the other proofs need of a step: the ledger is unchanged or has one more
  row of a known kind, clocks do not go back, and a request moves on in one of
  four ways.
- *Frequency.* The properties speak of stored rows only. The invariants
  `EnoughInv` and `NoMoreInv` also bound the count that a request holds between
  its query and its insert, and `Arrived` orders its moments: it arrived before
  it was dated, and among rows that all existed. The lower bound needs rows to be dated
  no earlier than the database's clock reads (`Skew >= 0`), the upper bound the
  opposite; both bounds at once need equal clocks.
- *Uploads.* `Account` is the property for one upload and inductive with the
  types: a line that is read, an attempt that ends, or a row that is stored
  changes both sides of each equation by the same amount (`LineCounted`,
  `RowCounted`); a row whose reply is lost is a failure and one of `lost`.
- *Snapshots.* `SnapshotInv` says more than the property: what a recalculation
  holds is a `Moment` (everything of its user up to some row), the averages in a
  profile are `Averages` (a `Moment`, or the rows of one that are dated before some
  cutoff), the totals a `Moment`, and what a job holds is taken from one moment
  and one cutoff for all users (`Together`). The cutoff there is a time, for which
  the property names a row (`ReadingsAreHistories`, `TogetherIsReadTogether`).
  Since rows are only appended, all stay true of a set whatever is committed
  after it (`PastStays`, `SnapshotsStay`). The averages and the totals of a profile
  are written by different statements, so that nothing ties their moments to
  each other.
- *Settled uploads.* `SettledUploadsCounted` is not inductive: a recalculation
  that has read may write a snapshot without rows that were settled in between.
  `SettledInv` adds that such a snapshot has the upload's own rows and all that
  are settled for its user. When another upload of that user settles its rows
  meanwhile this breaks, and that is what `OneUploadPerUser` excludes and
  the run `UploadsOverlap` shows.
- *Fresh profiles.* `AllFresh` bounds `Lacking`, the number of an upload's rows
  that its local profile does not have, by its batch counter at each point of the
  loop. A recalculation takes in all its rows, and the refresh reads them back
  unless a job or another upload wrote the profile in between, from an older
  snapshot.
- *Refinement.* What a statement has read has to be what `ProfileLedger` would
  read at some one moment. `RecountReads`: a snapshot of a recalculation is
  everything of the user up to some row, and has what is counted. `RebuildReads`:
  the snapshots of a rebuild are, for all users, the rows up to one position and
  before one date. The abstract rebuild names its cutoff by a row; `LatestRow`
  finds it, as the last date in a finite part of the ledger. Then each commit is a
  `Recount` or a `Rebuild` (`CommitRecalculateRefines`, `CommitRebuildRefines`),
  each insert appends one row, and all other steps are stutters.
- *Nights.* `Night(d, u)` is what the job of day `d` found of user `u` before its
  midnight. `NightInv` says that jobs are started in the order of their days and
  at their midnights, and that whatever is about to be written by a later job,
  or by a recalculation, contains the nights before it (`JobsCover`,
  `RecountsCover`). An earlier job that still runs is among the jobs `beside`
  (`NightsInOrder`), and if it commits last it takes back to its own night at most
  (`Shared`). So whoever writes last takes nothing else of a past night away.
  Midnights are those of the service's clock;
  the database's must have passed them too (`Skew <= 0`).
- *Sessions.* The roundings enter by two lemmas only, `FloorBelow` and `FloorSum`.
  `Timing` is the invariant: an expiry is a whole number of milliseconds
  (`Aligned`); the time left that a logout holds still reaches the expiry,
  however late it is sent (`SetCovers`); so a key ends at most a millisecond
  before its token does (`KeysOutlive`), and Redis keeps a key through its last
  one. `OverForGood` follows. `LateIsStopped` says how far a request that came
  after the answered logout can get: up to the middleware, or past it with a
  token that has expired and does not pass the second parse.
- *Pages.* The `Rank` of a row is the number of its user's rows that come before
  it in `ORDER BY created_at DESC`. `PageRanks` is the one fact about a page: with
  distinct dates it has exactly the rows whose rank lies between its offset and
  its end. `ReadInv` says that whatever was there at the start and ranks below
  the offset has been seen. It is inductive because a row that comes in only
  adds to ranks (`Longer`), so that nothing unseen can slip before the offset. A
  page is empty only if no rank reaches its offset, and then all has been seen.
  As long as no row comes in, all that has been seen ranks below the offset, so
  that the next page cannot repeat it.
- *Columns.* A fold over a set picks one element after another. `Subsets` is
  induction over the subsets of a finite set, and `SumsCommute` uses it to show
  that the sum does not depend on what is picked; `TotalLaws`, `TotalGrows` and
  `TotalIsLinear` are all the rest of the proof needs of sums, and `Extremes` all
  it needs of maxima. The invariant `Inv` has a part for the table (`Core`) and one
  for each kind of goroutine (`PostsFit`, `UploadsFit`, `RebuildsFit`): which rows
  the stored profile stands for (`Stored`), and that every profile, stored or
  held, is `Usable` with the rows that are there now: it counts no more than there
  are, and an established one counts five allowed ones. Rows are only added, so
  that a profile that was read long ago stays usable (`UsableStays`), and that is
  all that is known of its age. `RefusedLate` is the centre: if a row is refused,
  five are allowed. A young profile refuses nothing before the sixth payment of an
  hour (`YoungRefusal`), and if those five were not all allowed, one was refused
  before. `UploadsFit` has `RefusedLate` of every snapshot that waits to be written,
  however many: a snapshot that counts the refused row counts the five that came
  before it, so that established totals may fall back to an older snapshot and
  still have five allowed ones (`FiveAllowed`). Hence no line of a file is refused
  (`UsableVerdict`). `Dated` adds that a refused row follows an allowed one of the
  same day or before, so that the rows a rebuild takes, if there are any, have an
  allowed one among them (`Habitual`, `ClosedHaveHabit`). For a habit of
  one amount `c`, linearity gives the sums as `c` and `c * c` times the number of
  rows: the average rounds `c` to no less than what truncation
  makes of it, the variance is 0, and the maximum is no smaller. The amount risk
  then is at most 20 points and the whole score under 30 (`HabitVerdict`).
- *Shutdown.* `OrderlyEnd` says for each phase of `main` who may still be there.
  It is inductive because a stopped cron starts no job, and because the wait for
  requests ends only when none is left or the time is up; what comes in during
  that wait is waited for too. A shutdown does two things that
  FraudService never does: the process `Ends` without a crash, and time `Elapses`
  over a midnight that starts no job (`LifeSteps`). Both only lose what is in
  progress (`QuietSteps`), and so they keep each inductive invariant of the
  service (`QuietKeeps`, `QuietKeepsCounts`, `QuietKeepsNights`). Clients that read
  need nothing of the kind: `ReadSpec` implies `Spec` (`ReadersOnlyRead`).

Only model-checked, not proved:

- liveness (`UploadsAreAnswered`, `RebuildsEnd`, `ShutdownEnds`), which with
  `ENABLED` is out of the prover's reach.

Every invariant and every action property of a passing run has a theorem.

No module has a RECURSIVE operator. The induction theorems of the library take
an operator as a parameter, which the provers cannot instantiate; where a proof
is by induction, the predicate is therefore given as a set, of numbers (`Numbers`)
or of subsets (`Subsets`), and the induction rests on the well-foundedness of the
natural numbers, as does the last of finitely many rows (`LatestRow`).

## What was found

Each of these is a run that ends in a counterexample.

1. **`RiskOverflow`** (`helpers/txn.go:318`, and 281). `Validate` accepts amounts
   up to 1e16, the scorer converts them to `int32`. On amd64 everything beyond
   2147483647 becomes the least `int32` and scores as a small amount.
2. **`FrequencyBurst`** (`txn_service.go:79`). Requests that are in flight
   together do not count each other, although "each transaction adds" 20 points.
   `SettledAreCounted` is what the code does guarantee.
3. **`UploadsOverlap`** (`profile.sql.go:186`). Two final recalculations of one
   user: the one that read first may write last, and the rows of the other upload
   drop out of the totals until a later upload (and out of the averages until the
   nightly job).
4. **`NightlyOverflow`** (`profile.sql.go:89`). One stored amount that does not fit
   `::INTEGER` fails the statement for all users, on that night and every later
   one.
5. **`NightlyCounts`** (`profile.sql.go:114`). The rebuild leaves
   `total_transactions` and `allowed_transactions` alone. A user who only posts
   stays at 0 of both: in cold start, and without confidence, for good.

Seen on the way, and kept out of the runs because the text or the code leaves
room:

- `helpers/txn.go:48-49` says that a deviation of 0 means that the user has always
  paid the exact same amount. Both statements round the deviation to an
  `INTEGER`: four payments of 100 and one of 101 have a deviation of 0, and
  paying 101 again then has an amount risk of 100. `HabitIsAllowed` is therefore
  about users who have only ever paid one amount.
- An uploaded amount with a fraction may look like a deviation from itself when
  it is negative, because the average is rounded and the amount truncated; hence
  `payment[1] > 0` in `HabitIsAllowed`.
- An upload of an empty file makes a profile all the same (`LEFT JOIN`), with a
  maximum of 0; the next payment is infinitely many times that, and gets the
  highest amount risk.
- The maximum is that of all rows, refused ones included: a blocked payment makes
  the next large one look smaller.
- The usual hours are those of the first and the last allowed row. Over several
  days they need not contain what lies in between (`HoursOfOneDayAreUsual` is for
  one day), and the last payment alone moves them.
- A file may date rows ahead of the day. They count at once, and the rebuild of
  the next midnight leaves them out again, so that an established profile may be
  left without a habit (`ahead` in `EstablishedHasHabit`).
- Without `JWT_SECRET`, login signs with "default_secret" and the check of a
  token uses the empty key: every token is refused.
- A logout at the very instant of the expiry has a time left of 0, and go-redis
  then stores a key that never expires. It does no harm but stay.
- Any error of the look-up is answered as an unknown user, database failures
  included. A logout whose command was executed but whose reply was lost is
  answered as failed, and the session is over nevertheless.
- Redis may forget blacklisted tokens when it restarts from a dump
  (nothing in this repository configures it otherwise); they are accepted again until they
  expire.
- A `limit` that does not fit `int32` wraps around to 0 (an empty page) or below
  (an error, 500); so does an offset. Rows with equal `created_at` have no order,
  and paging may skip some of them.
- A second SIGTERM is not read, so that during the wait for a job, which has no
  limit, only SIGKILL ends the process. Uploads still in progress after 30
  seconds are cut off where they are: their rows stay, without a recalculation or
  an answer.
- README.md:36 calls the confidence the ratio of allowed to total transactions;
  the code has `allowed / 50`, at most 1 (`helpers/txn.go:13`).
- An upload may store negative amounts, as nothing validates them. If a user's
  largest amount is negative, the amount risk of a higher one is negative
  without bound; `ScoresOnScale` is therefore stated for maxima that are not
  negative.
- With unequal clocks the frequency count loses rows dated in what is the past
  for the database, or keeps those dated in its future for longer than an hour;
  and a job at the service's midnight does not cover the day that has just ended
  if it is not yet over for the database.
- An error of the reader below the CSV reader is taken for a bad line, and the
  loop asks again (`txn_service.go:214-217`): if the error stays, the request never
  ends and `failed` grows without bound. `ReadBrokenFile` has it, and
  `UploadsAreAnswered` excludes it. The reader is a file that the server itself
  has stored, so that only its own disk can do this.
- An insert whose reply is lost is reported as failed although the row is there:
  `success` is then less than the number of rows (`lost` in `UploadAccounting`).
- Of two jobs that run beside each other the older may commit last, and the
  averages then lack the last day until the next night (`beside` in
  `NightlyCoversYesterday`).
- Usual hours that do not run over midnight are not circular: for hours 0 to 9 an
  hour of 23 is 14 hours outside (`UsualHoursWrap` bounds it from below only).
- A recalculation and a rebuild of the same night may write in either order.
  If the rebuild is last, `basis` falls back to the closed days (by design); if
  a recalculation that read before the rebuild's rows were committed is last, it
  takes them out again until the next.
- `txn_service.go:242-243` replaces a `created_at` that has no time zone by the
  current time, so that uploaded history counts as of today.
- The comment "last 24h" (`txn_service.go:78`) stands over a window of 3600
  seconds.

## What is not modelled

- The look-up of one transaction (`GetTransaction`), a single read of a row that
  never changes; routing, decoding, the wording of answers, logging; the order of
  the start (pools, router, server, cron), which is one step; the test data
  generator and the mocks.
- A statement that goes on in the database after the service gave up on it or
  died. An error may come after a commit (the reply is lost), and a crash between
  any two steps; but a recalculation or a rebuild that had read when the process
  died is abandoned, and what follows a failing statement follows its end.
- The values of the aggregates together with several users and crashes:
  `FraudStore` says which rows a column stands for, `ProfileColumns` what the
  column then is, for one user, and `RiskScoring` takes any values.
- Names, hashing and the strength of passwords; a clock that steps back, under
  which a token could outlive its key.
- `float64` rounding, NaN and infinities. Posted amounts are finite (JSON has no
  others); an uploaded "NaN" or "Inf" parses in Go and is left out.
- The parsing of CSV and XLSX files, and the header row: a header with fewer
  than three columns panics (`txn_service.go:142`), which net/http recovers from.
- `UpsertUserProfileByUserID`, `UpsertUserProfileFromProfile` and
  `helpers/profile_update.go`, which nothing calls.

## Plan

All modules of the first plan are there. What is left, in this order:

1. Statements that outlive the request or the process that sent them.
2. A shutdown of two uploads and two days, so that a wait may outlast a midnight
   that started a job before the signal.
3. Two uploads of `ProfileColumns` in TLC, with fewer lines each; so far only the
   proofs have them.
