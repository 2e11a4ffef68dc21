------------------------------- MODULE Listing -------------------------------
(***************************************************************************)
(* GET /transactions: the GetTransactions handler of                       *)
(* internal/api/handler/user_transaction_handler.go and its query, read    *)
(* page after page by clients while FraudService goes on writing.          *)
(*                                                                         *)
(* ORDER BY created_at DESC leaves the order of equal dates open, and each *)
(* page is a query of its own, so that every page may have another order.  *)
(***************************************************************************)
EXTENDS FraudService

CONSTANTS
    Readers,        \* clients that read a user's transactions
    Limits,         \* values of the query parameter limit; 0 for none
    DefaultLimit,   \* DefaultTransactionsLimit, 20
    Int32Size       \* number of values of int32; 2^32

ASSUME LimitsAssumption == Limits \subseteq Int /\ DefaultLimit \in Nat \ {0}
ASSUME Int32Assumption ==
    /\ Int32Size \in Nat
    /\ Int32Size % 2 = 0
    /\ 2 * DefaultLimit < Int32Size

VARIABLE listings     \* how far each client has come

readVars == <<vars, listings>>

NoListing == [pc |-> "idle"]

ReadInit == Init /\ listings = [c \in Readers |-> NoListing]

\* int32(n) of an int wraps around.
FromInt(n) == ((n + Int32Size \div 2) % Int32Size) - Int32Size \div 2

\* "first" is the number of rows when the client began, "repeated" says that a
\* row came twice: both are history.  Bound: a client reads once.
BeginListing(c, u, limit) ==
    /\ listings[c].pc = "idle"
    /\ listings' = [listings EXCEPT ![c] =
           [pc |-> "reading", user |-> u, limit |-> limit, offset |-> 0,
            seen |-> {}, first |-> Len(txns), repeated |-> FALSE]]
    /\ UNCHANGED vars

\* Only a positive number counts as a limit.
LimitOf(listing) ==
    FromInt(IF listing.limit > 0 THEN listing.limit ELSE DefaultLimit)

OffsetOf(listing) == FromInt(listing.offset)

FaultyTops(u, n) ==     \* without ORDER BY
    {rows \in SUBSET RowsOf(u) :
        \/ Cardinality(rows) = n
        \/ Cardinality(rows) < n /\ rows = RowsOf(u)}

\* What may come first when the rows of u are ordered and n are taken.
Tops(u, n) ==
    {rows \in SUBSET RowsOf(u) :
        /\ \/ Cardinality(rows) = n
           \/ Cardinality(rows) < n /\ rows = RowsOf(u)
        /\ \A i \in rows, k \in RowsOf(u) \ rows : txns[i].at >= txns[k].at}

FaultyPages(u, limit, offset) ==     \* the offset counts pages
    UNION {{upto \ before : before \in Tops(u, offset * limit) \cap SUBSET upto} :
              upto \in Tops(u, offset * limit + limit)}

\* LIMIT $2 OFFSET $3
Pages(u, limit, offset) ==
    UNION {{upto \ before : before \in Tops(u, offset) \cap SUBSET upto} :
              upto \in Tops(u, offset + limit)}

\* The client goes on behind the rows it got, until it gets none.
TakePage(c, page) ==
    LET listing == listings[c] IN
    listings' = [listings EXCEPT ![c] =
        [listing EXCEPT !.pc = IF page = {} THEN "done" ELSE "reading",
                        !.offset = @ + Cardinality(page),
                        !.seen = @ \cup page,
                        !.repeated = @ \/ page \cap listing.seen # {}]]

\* A negative LIMIT or OFFSET is an error, and so the answer is 500.
GetTransactions(c) ==
    LET listing == listings[c] IN
    /\ up
    /\ listing.pc = "reading"
    /\ \/ /\ LimitOf(listing) >= 0 /\ OffsetOf(listing) >= 0
          /\ \E page \in Pages(listing.user, LimitOf(listing), OffsetOf(listing)) :
               TakePage(c, page)
       \/ /\ LimitOf(listing) < 0 \/ OffsetOf(listing) < 0
          /\ listings' = [listings EXCEPT ![c].pc = "failed"]
    /\ UNCHANGED vars

ReadNext ==
    \/ Next /\ UNCHANGED listings
    \/ \E c \in Readers, u \in Users, limit \in Limits : BeginListing(c, u, limit)
    \/ \E c \in Readers : GetTransactions(c)

ReadSpec == ReadInit /\ [][ReadNext]_readVars

-----------------------------------------------------------------------------

\* The order of the rows of u is defined.
DistinctDates(u) ==
    \A i, k \in RowsOf(u) : txns[i].at = txns[k].at => i = k

\* A limit that fits, or none.
Fits(limit) == 2 * limit < Int32Size

(***************************************************************************)
(* A client that reads page after page gets every transaction that was     *)
(* there when it began, whatever is posted and uploaded meanwhile, even    *)
(* with dates before those it has read.  It needs distinct dates, which    *)
(* uploaded files need not have, and a limit that int32 can hold.          *)
(* (user_transaction_handler.go:64-93, transactions.sql.go:142-147.)       *)
(***************************************************************************)
PagesMissNothing ==
    \A c \in Readers :
        LET listing == listings[c] IN
        listing.pc = "done" =>
            (Fits(listing.limit) /\ DistinctDates(listing.user)
                => {i \in RowsOf(listing.user) : i <= listing.first} \subseteq listing.seen)

(***************************************************************************)
(* A row comes twice only if rows came in meanwhile or dates are equal.    *)
(***************************************************************************)
QuietPagesRepeatNothing ==
    \A c \in Readers :
        LET listing == listings[c] IN
        listing.pc # "idle" /\ listing.repeated =>
            \/ ~DistinctDates(listing.user)
            \/ \E i \in RowsOf(listing.user) : i > listing.first
=============================================================================
