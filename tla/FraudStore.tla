----------------------------- MODULE FraudStore ----------------------------
(***************************************************************************)
(* The PostgreSQL tables transactions and user_profile_behavior, the two   *)
(* clocks that date their rows, and the statements of                      *)
(* internal/db/queries that the service executes on them.                  *)
(*                                                                         *)
(* A transaction is known by its position in txns, which is the order of   *)
(* the commits.  The columns of a profile are aggregates of a set of       *)
(* transactions, so a profile is represented by the sets of positions its  *)
(* columns were computed from: "basis" for the average, the deviation, the *)
(* maximum, the modes and the hours, "counted" for total_transactions and  *)
(* allowed_transactions.  What the decision on a row was plays no part: it *)
(* only selects rows within the aggregates.                                *)
(***************************************************************************)
EXTENDS Integers, Sequences, FiniteSets

CONSTANTS
    Users,         \* registered users
    Window,        \* FrequencyWindowHours, in ticks
    DayTicks,      \* ticks in a day
    Skew,          \* the service's wall clock minus the database's, in ticks
    Castable,      \* whether amounts of this instance fit ::INTEGER, SUBSET BOOLEAN
    FaultyCalls,   \* queries that may fail although nothing is wrong with them
    MaxRows,       \* bound: no request is accepted once this many rows exist
    MaxNow         \* bound on the database clock

Calls == {"getProfile", "countRecent", "createTransaction",
          "recalculate", "rebuildAll"}

ASSUME WindowAssumption == Window \in Nat
ASSUME DayAssumption == DayTicks \in Nat \ {0}
ASSUME SkewAssumption == Skew \in Int
ASSUME CastableAssumption == Castable \subseteq BOOLEAN
ASSUME FaultsAssumption == FaultyCalls \subseteq Calls
ASSUME BoundsAssumption == MaxRows \in Nat /\ MaxNow \in Nat

VARIABLES
    txns,      \* rows of transactions, in commit order
    profiles,  \* rows of user_profile_behavior, by user
    now        \* the database clock, NOW()

storeVars == <<txns, profiles, now>>

NoProfile == [known |-> FALSE, basis |-> {}, counted |-> {}]

\* time.Now() as a timestamp without time zone
AppNow == now + Skew

(***************************************************************************)
(* Faulty...: the definition that follows, with a plausible mistake.  Here *)
(* and in the modules that extend this one they are used only to see that  *)
(* the properties notice the mistake.                                      *)
(***************************************************************************)

FaultyToday == ((now - 1) \div DayTicks) * DayTicks     \* one day is lost

\* CURRENT_DATE
Today == (now \div DayTicks) * DayTicks

Fails(call) == call \in FaultyCalls

(***************************************************************************)
(* A row, with what the code keeps only in the scores of the row: the way  *)
(* it came in, how many recent rows were counted when it was scored        *)
(* ("seen"), how many rows existed when its request arrived ("began") and  *)
(* the wall-clock time of that ("since").                                  *)
(***************************************************************************)
Row ==
    [user : Users, at : Int, fits : BOOLEAN, via : {"post", "upload"},
     seen : Nat, began : Nat, since : Int]

RowsOf(u) == {i \in DOMAIN txns : txns[i].user = u}

FaultyWindowRows(u) == {i \in RowsOf(u) : txns[i].at >= now - Window}
FaultyShortRows(u) == {i \in RowsOf(u) : txns[i].at > now - Window + 1}

\* WHERE user_id = $1 AND created_at > NOW() - make_interval(secs => $2)
RecentRows(u) == {i \in RowsOf(u) : txns[i].at > now - Window}

\* WHERE t.created_at < CURRENT_DATE
ClosedRows(u) == {i \in RowsOf(u) : txns[i].at < Today}

\* COALESCE(MAX(t.amount), 0)::INTEGER and the like raise an error otherwise
CanCast(rows) == \A i \in rows : txns[i].fits

CreateTransaction(row) ==
    /\ txns' = Append(txns, row)
    /\ UNCHANGED <<profiles, now>>

RecalculatedProfile(rows) ==
    [known |-> TRUE, basis |-> rows, counted |-> rows]

FaultyRebuiltProfile(u, rows) == RecalculatedProfile(rows)

\* total_transactions and allowed_transactions are not among the columns
\* that RebuildAllUserProfiles writes: 0 for a new row, otherwise unchanged.
RebuiltProfile(u, rows) ==
    [known |-> TRUE, basis |-> rows, counted |-> profiles[u].counted]

SetProfile(u, profile) ==
    /\ profiles' = [profiles EXCEPT ![u] = profile]
    /\ UNCHANGED <<txns, now>>

\* GetUserProfileByUserID: every error is treated as an empty profile.
ProfileReads(u) ==
    {profiles[u]} \cup (IF Fails("getProfile") THEN {NoProfile} ELSE {})

\* discounts a current transaction that is not in the table yet
FaultyCountReads(u) == {Cardinality(RecentRows(u)) - 1}

\* CountRecentTransactions: an error is treated as a count of 0.
CountReads(u) ==
    {Cardinality(RecentRows(u))} \cup (IF Fails("countRecent") THEN {0} ELSE {})

StoreInit ==
    /\ txns = <<>>
    /\ profiles = [u \in Users |-> NoProfile]
    /\ now = 0

Profile == [known : BOOLEAN, basis : SUBSET Nat, counted : SUBSET Nat]

StoreTypeOK ==
    /\ txns \in Seq(Row)
    /\ profiles \in [Users -> Profile]
    /\ now \in Nat
=============================================================================
