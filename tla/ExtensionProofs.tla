--------------------------- MODULE ExtensionProofs --------------------------
(***************************************************************************)
(* Invariants of the two modules that add to FraudService: Listing, in     *)
(* which clients read while it writes, and Shutdown, in which it ends; and *)
(* that what is proved of FraudService holds beside them.                  *)
(***************************************************************************)
EXTENDS Listing, Shutdown, LedgerProofs

-----------------------------------------------------------------------------

(***************************************************************************)
(* What a client gets that reads the transactions page after page, for any *)
(* number of rows, requests and uploads meanwhile, any limits and any      *)
(* width of the integers.                                                  *)
(***************************************************************************)

(***************************************************************************)
(* A row's place in the order is the number of rows with later dates.      *)
(***************************************************************************)
RowsIn(ledger, u) == {i \in DOMAIN ledger : ledger[i].user = u}

LaterRows(ledger, u, i) == {k \in RowsIn(ledger, u) : ledger[k].at > ledger[i].at}

Rank(ledger, u, i) == Cardinality(LaterRows(ledger, u, i))

Distinct(ledger, u) ==
    \A i, k \in RowsIn(ledger, u) : ledger[i].at = ledger[k].at => i = k

LEMMA RowsAreTyped ==
    ASSUME NEW ledger \in Seq(Row), NEW u
    PROVE  /\ IsFiniteSet(RowsIn(ledger, u)) /\ Cardinality(RowsIn(ledger, u)) \in Nat
           /\ \A i \in DOMAIN ledger : ledger[i].at \in Int
           /\ \A i : /\ IsFiniteSet(LaterRows(ledger, u, i))
                     /\ Rank(ledger, u, i) \in Nat
<1>1. RowsIn(ledger, u) \subseteq DOMAIN ledger
  BY DEF RowsIn
<1>2. \A i : LaterRows(ledger, u, i) \subseteq DOMAIN ledger
  BY DEF RowsIn, LaterRows
<1>3. ASSUME NEW i \in DOMAIN ledger PROVE ledger[i].at \in Int
  <2>1. ledger[i] \in Row
    OBVIOUS
  <2> QED
    BY <2>1 DEF Row
<1> QED
  BY <1>1, <1>2, <1>3, LedgerIsFinite DEF Rank

\* A row of a set that has all later rows comes before the size of the set.
LEMMA RankWithin ==
    ASSUME NEW ledger \in Seq(Row), NEW u, NEW i \in DOMAIN ledger, NEW rows,
           rows \subseteq RowsIn(ledger, u), i \in rows,
           LaterRows(ledger, u, i) \subseteq rows
    PROVE  Rank(ledger, u, i) < Cardinality(rows)
<1>1. IsFiniteSet(rows) /\ Cardinality(rows) \in Nat
  BY RowsAreTyped, FS_Subset, FS_CardinalityType
<1>2. i \notin LaterRows(ledger, u, i)
  BY RowsAreTyped DEF LaterRows
<1>3. LaterRows(ledger, u, i) \subseteq rows \ {i}
  BY <1>2
<1>4. IsFiniteSet(rows \ {i}) /\ Cardinality(rows \ {i}) = Cardinality(rows) - 1
  BY <1>1, FS_RemoveElement
<1>5. Cardinality(LaterRows(ledger, u, i)) <= Cardinality(rows \ {i})
  BY <1>3, <1>4, FS_Subset
<1> QED
  BY <1>1, <1>4, <1>5, RowsAreTyped DEF Rank

LEMMA RankBeyond ==
    ASSUME NEW ledger \in Seq(Row), NEW u, NEW i \in DOMAIN ledger, NEW rows,
           rows \subseteq LaterRows(ledger, u, i)
    PROVE  IsFiniteSet(rows) /\ Cardinality(rows) <= Rank(ledger, u, i)
BY RowsAreTyped, FS_Subset DEF Rank

-----------------------------------------------------------------------------

(***************************************************************************)
(* The query.  With distinct dates the first n rows are those of rank less *)
(* than n, and a page is what its limit and offset say.                    *)
(***************************************************************************)
LEMMA TopsAreTyped ==
    ASSUME txns \in Seq(Row), NEW u, NEW n \in Nat, NEW rows \in Tops(u, n)
    PROVE  /\ rows \subseteq RowsIn(txns, u)
           /\ IsFiniteSet(rows) /\ Cardinality(rows) \in 0..n
           /\ Cardinality(rows) = n \/ rows = RowsIn(txns, u)
<1>1. /\ rows \subseteq RowsIn(txns, u)
      /\ \/ Cardinality(rows) = n
         \/ Cardinality(rows) < n /\ rows = RowsIn(txns, u)
  <2>1. RowsOf(u) = RowsIn(txns, u)
    BY DEF RowsOf, RowsIn
  <2>2. /\ rows \subseteq RowsOf(u)
        /\ \/ Cardinality(rows) = n
           \/ Cardinality(rows) < n /\ rows = RowsOf(u)
    BY DEF Tops
  <2> QED
    BY <2>1, <2>2
<1>2. IsFiniteSet(rows) /\ Cardinality(rows) \in Nat
  BY <1>1, RowsAreTyped, FS_Subset, FS_CardinalityType
<1> QED
  BY <1>1, <1>2

LEMMA TopsAreRanked ==
    ASSUME txns \in Seq(Row), NEW u, NEW n \in Nat, NEW rows \in Tops(u, n),
           Distinct(txns, u), NEW i \in RowsIn(txns, u)
    PROVE  i \in rows <=> Rank(txns, u, i) < n
<1>1. \A k \in rows, o \in RowsIn(txns, u) \ rows : txns[k].at >= txns[o].at
  BY DEF Tops, RowsOf, RowsIn
<1>2. i \in DOMAIN txns /\ Rank(txns, u, i) \in Nat
  BY RowsAreTyped DEF RowsIn
<1>3. \A k \in RowsIn(txns, u) : txns[k].at \in Int
  BY RowsAreTyped DEF RowsIn
<1>4. CASE i \in rows
  <2>1. LaterRows(txns, u, i) \subseteq rows
    BY <1>1, <1>3, <1>4 DEF LaterRows
  <2> QED
    BY <1>2, <1>4, <2>1, TopsAreTyped, RankWithin
<1>5. CASE i \notin rows
  <2>1. ASSUME NEW k \in rows PROVE k \in LaterRows(txns, u, i)
    <3>1. k \in RowsIn(txns, u) /\ txns[k].at >= txns[i].at
      BY <1>1, <1>5, TopsAreTyped
    <3>2. txns[k].at # txns[i].at
      BY <1>5, <3>1 DEF Distinct
    <3> QED
      BY <1>3, <3>1, <3>2 DEF LaterRows
  <2>2. Cardinality(rows) = n
    BY <1>5, TopsAreTyped
  <2> QED
    BY <1>2, <1>5, <2>1, <2>2, RankBeyond
<1> QED
  BY <1>4, <1>5

LEMMA PageSize ==
    ASSUME txns \in Seq(Row), NEW u, NEW limit \in Nat, NEW offset \in Nat,
           NEW page \in Pages(u, limit, offset)
    PROVE  /\ page \subseteq RowsIn(txns, u)
           /\ IsFiniteSet(page) /\ Cardinality(page) \in 0..limit
<1>1. PICK upto \in Tops(u, offset + limit), before \in Tops(u, offset) :
        before \subseteq upto /\ page = upto \ before
  BY DEF Pages
<1>2. /\ upto \subseteq RowsIn(txns, u) /\ IsFiniteSet(upto)
      /\ Cardinality(upto) \in 0..(offset + limit)
      /\ IsFiniteSet(before) /\ Cardinality(before) \in Nat
      /\ Cardinality(before) = offset \/ before = RowsIn(txns, u)
  BY <1>1, TopsAreTyped
<1>3. upto \cap before = before
  BY <1>1
<1>4. /\ IsFiniteSet(page) /\ Cardinality(page) \in Nat
      /\ Cardinality(page) = Cardinality(upto) - Cardinality(before)
  <2>1. /\ IsFiniteSet(upto \ before)
        /\ Cardinality(upto \ before) = Cardinality(upto) - Cardinality(upto \cap before)
    BY <1>2, FS_Difference, Zenon
  <2> QED
    BY <1>1, <1>3, <2>1, FS_CardinalityType
<1>5. page \subseteq RowsIn(txns, u)
  BY <1>1, <1>2, Zenon
<1>6. CASE Cardinality(before) = offset
  <2>1. Cardinality(page) <= limit
    BY <1>2, <1>4, <1>6
  <2> QED
    BY <1>4, <1>5, <2>1
<1>7. CASE before = RowsIn(txns, u)
  <2>1. page = {}
    BY <1>1, <1>2, <1>7, Zenon
  <2>2. Cardinality(page) = 0
    BY <2>1, FS_EmptySet
  <2> QED
    BY <1>4, <1>5, <2>2
<1> QED
  BY <1>2, <1>6, <1>7

LEMMA PageRanks ==
    ASSUME txns \in Seq(Row), NEW u, NEW limit \in Nat, NEW offset \in Nat,
           NEW page \in Pages(u, limit, offset), Distinct(txns, u),
           NEW i \in RowsIn(txns, u)
    PROVE  /\ i \in page <=> Rank(txns, u, i) \in offset..(offset + Cardinality(page) - 1)
           /\ page = {} /\ limit > 0 => Rank(txns, u, i) < offset
<1>1. PICK upto \in Tops(u, offset + limit), before \in Tops(u, offset) :
        before \subseteq upto /\ page = upto \ before
  BY DEF Pages
<1>2. /\ IsFiniteSet(upto) /\ Cardinality(upto) \in Nat
      /\ IsFiniteSet(before) /\ Cardinality(before) \in 0..offset
      /\ upto \subseteq RowsIn(txns, u)
      /\ Cardinality(before) = offset \/ before = RowsIn(txns, u)
      /\ Cardinality(upto) = offset + limit \/ upto = RowsIn(txns, u)
  BY <1>1, TopsAreTyped
<1>3. /\ IsFiniteSet(page) /\ Cardinality(page) \in 0..limit
      /\ Cardinality(upto) = Cardinality(before) + Cardinality(page)
  <2>1. Cardinality(upto \ before) = Cardinality(upto) - Cardinality(upto \cap before)
    BY <1>2, FS_Difference, Zenon
  <2>2. upto \cap before = before
    BY <1>1
  <2>3. IsFiniteSet(page) /\ Cardinality(page) \in 0..limit
    BY PageSize
  <2>4. Cardinality(page) = Cardinality(upto) - Cardinality(before)
    BY <1>1, <2>1, <2>2
  <2> QED
    BY <1>2, <2>3, <2>4
<1>4. Rank(txns, u, i) \in Nat /\ i \in DOMAIN txns
  BY RowsAreTyped DEF RowsIn
<1>5. /\ i \in upto <=> Rank(txns, u, i) < offset + limit
      /\ i \in before <=> Rank(txns, u, i) < offset
  BY <1>1, TopsAreRanked
<1>6. ASSUME i \in page
      PROVE  Rank(txns, u, i) \in offset..(offset + Cardinality(page) - 1)
  <2>1. i \in upto /\ Rank(txns, u, i) >= offset
    BY <1>1, <1>4, <1>5, <1>6
  <2>2. LaterRows(txns, u, i) \subseteq upto
    <3>1. ASSUME NEW k \in LaterRows(txns, u, i) PROVE k \in upto
      <4>1. k \in RowsIn(txns, u) /\ i \in RowsIn(txns, u) /\ txns[k].at > txns[i].at
        BY DEF LaterRows
      <4>2. txns[k].at \in Int /\ txns[i].at \in Int
        BY <4>1, RowsAreTyped DEF RowsIn
      <4>3. \A o \in RowsIn(txns, u) \ upto : txns[i].at >= txns[o].at
        BY <1>1, <2>1 DEF Tops, RowsOf, RowsIn
      <4> QED
        BY <4>1, <4>2, <4>3
    <3> QED
      BY <3>1
  <2>3. Rank(txns, u, i) < Cardinality(upto)
    BY <1>2, <1>4, <2>1, <2>2, RankWithin
  <2>4. Cardinality(before) + Cardinality(page) <= offset + Cardinality(page)
    BY <1>2, <1>3
  <2>5. Rank(txns, u, i) < offset + Cardinality(page)
    BY <1>2, <1>3, <1>4, <2>3, <2>4
  <2> QED
    BY <1>3, <1>4, <2>1, <2>5
<1>7. ASSUME Rank(txns, u, i) \in offset..(offset + Cardinality(page) - 1)
      PROVE  i \in page
  BY <1>1, <1>3, <1>4, <1>5, <1>7
<1>8. ASSUME page = {}, limit > 0 PROVE Rank(txns, u, i) < offset
  <2>1. upto = before
    BY <1>1, <1>8
  <2>2. Cardinality(upto) # offset + limit
    BY <1>2, <1>8, <2>1
  <2> QED
    BY <1>2, <1>5, <2>1, <2>2
<1> QED
  BY <1>6, <1>7, <1>8
-----------------------------------------------------------------------------

(***************************************************************************)
(* The rows of a ledger that has become longer.                            *)
(***************************************************************************)
Extends(longer, ledger) ==
    /\ Len(ledger) <= Len(longer)
    /\ \A i \in DOMAIN ledger : longer[i] = ledger[i]

LEMMA Longer ==
    ASSUME NEW ledger \in Seq(Row), NEW longer \in Seq(Row),
           Extends(longer, ledger), NEW u, NEW n \in 0..Len(ledger)
    PROVE  /\ RowsIn(ledger, u) \subseteq RowsIn(longer, u)
           /\ \A i \in RowsIn(longer, u) : i <= n => i \in RowsIn(ledger, u)
           /\ Distinct(longer, u) => Distinct(ledger, u)
           /\ \A i \in DOMAIN ledger : Rank(ledger, u, i) <= Rank(longer, u, i)
           /\ (\A k \in RowsIn(longer, u) : k <= n) =>
                /\ \A k \in RowsIn(ledger, u) : k <= n
                /\ \A i \in DOMAIN ledger : Rank(longer, u, i) = Rank(ledger, u, i)
<1>1. /\ DOMAIN ledger = 1..Len(ledger) /\ Len(ledger) \in Nat
      /\ DOMAIN longer = 1..Len(longer) /\ Len(longer) \in Nat
      /\ DOMAIN ledger \subseteq DOMAIN longer
      /\ \A i \in DOMAIN ledger : longer[i] = ledger[i]
  BY DEF Extends
<1>2. RowsIn(ledger, u) \subseteq RowsIn(longer, u)
  BY <1>1 DEF RowsIn
<1>3. ASSUME NEW i \in RowsIn(longer, u), i <= n PROVE i \in RowsIn(ledger, u)
  <2>1. i \in DOMAIN ledger
    BY <1>1, <1>3 DEF RowsIn
  <2> QED
    BY <1>1, <2>1 DEF RowsIn
<1>4. Distinct(longer, u) => Distinct(ledger, u)
  <2>1. \A i \in RowsIn(ledger, u) : i \in DOMAIN ledger
    BY DEF RowsIn
  <2> QED
    BY <1>1, <1>2, <2>1 DEF Distinct
<1>5. ASSUME NEW i \in DOMAIN ledger
      PROVE  LaterRows(ledger, u, i) \subseteq LaterRows(longer, u, i)
  BY <1>1, <1>2 DEF LaterRows, RowsIn
<1>6. ASSUME NEW i \in DOMAIN ledger
      PROVE  Rank(ledger, u, i) <= Rank(longer, u, i)
  <2>1. IsFiniteSet(LaterRows(longer, u, i))
    BY RowsAreTyped
  <2> QED
    BY <1>5, <1>6, <2>1, FS_Subset DEF Rank
<1>7. ASSUME \A k \in RowsIn(longer, u) : k <= n, NEW i \in DOMAIN ledger
      PROVE  Rank(longer, u, i) = Rank(ledger, u, i)
  <2>1. RowsIn(longer, u) = RowsIn(ledger, u)
    BY <1>2, <1>3, <1>7
  <2>2. \A k \in RowsIn(ledger, u) : k \in DOMAIN ledger
    BY DEF RowsIn
  <2>3. LaterRows(longer, u, i) = LaterRows(ledger, u, i)
    BY <1>1, <1>7, <2>1, <2>2 DEF LaterRows
  <2> QED
    BY <2>3 DEF Rank
<1>8. (\A k \in RowsIn(longer, u) : k <= n) => \A k \in RowsIn(ledger, u) : k <= n
  BY <1>2
<1> QED
  BY <1>2, <1>3, <1>4, <1>6, <1>7, <1>8

LEMMA TxnsExtend ==
    ASSUME TypeOK, [Next]_vars
    PROVE  txns \in Seq(Row) /\ txns' \in Seq(Row) /\ Extends(txns', txns)
<1>1. txns \in Seq(Row) /\ LedgerGrows
  BY StepMoves DEF TypeOK, StoreTypeOK
<1>2. ASSUME NEW row \in Row, txns' = Append(txns, row)
      PROVE  txns' \in Seq(Row) /\ Extends(txns', txns)
  BY <1>1, <1>2 DEF Extends
<1>3. ASSUME txns' = txns PROVE txns' \in Seq(Row) /\ Extends(txns', txns)
  <2>1. Len(txns) \in Nat
    BY <1>1
  <2> QED
    BY <1>1, <1>3, <2>1 DEF Extends
<1> QED
  BY <1>1, <1>2, <1>3 DEF LedgerGrows

-----------------------------------------------------------------------------

(***************************************************************************)
(* int32(n) of what an offset or a limit can be.                           *)
(***************************************************************************)
LEMMA Wrapped ==
    ASSUME NEW h \in Nat \ {0}, NEW n \in 0..(2 * h - 1)
    PROVE  ((n + h) % (2 * h)) - h = IF n < h THEN n ELSE n - 2 * h
<1> DEFINE m == 2 * h
           k == n + h
<1>1. m \in Nat \ {0} /\ k \in Nat
  OBVIOUS
<1>2. CASE n < h
  <2>1. k < m
    BY <1>2
  <2>2. k % m = k
    <3> HIDE DEF m, k
    <3> QED
      BY <1>1, <2>1
  <2> QED
    BY <1>2, <2>2
<1>3. CASE n >= h
  <2>1. m <= k /\ k < 2 * m
    BY <1>3
  <2>2. k % m = k - m
    <3> HIDE DEF m, k
    <3> QED
      BY <1>1, <2>1
  <2> QED
    BY <1>3, <2>2
<1> QED
  BY <1>2, <1>3

Largest == Int32Size \div 2 - 1

LEMMA Int32 ==
    /\ Largest \in Nat /\ Int32Size = 2 * Largest + 2 /\ Int32Size \in Nat \ {0}
    /\ DefaultLimit \in 1..Largest
<1>1. /\ Int32Size \in Nat /\ Int32Size % 2 = 0 /\ 2 * DefaultLimit < Int32Size
      /\ DefaultLimit \in Nat \ {0}
  BY Int32Assumption, LimitsAssumption
<1> QED
  BY <1>1 DEF Largest

LEMMA FromIntBelow ==
    ASSUME NEW n \in Int
    PROVE  FromInt(n) \in Int /\ FromInt(n) <= Largest
<1>1. (n + Int32Size \div 2) % Int32Size \in 0..(Int32Size - 1)
  BY Int32 DEF Largest
<1> QED
  BY <1>1, Int32 DEF FromInt, Largest

LEMMA FromIntAgrees ==
    ASSUME NEW n \in 0..(Int32Size - 1)
    PROVE  /\ n <= Largest => FromInt(n) = n
           /\ FromInt(n) >= 0 => FromInt(n) = n
<1>1. PICK half \in Nat \ {0} :
        /\ Int32Size = 2 * half /\ Int32Size \div 2 = half /\ Largest = half - 1
  <2>1. /\ Int32Size \div 2 \in Nat \ {0} /\ Int32Size = 2 * (Int32Size \div 2)
        /\ Largest = Int32Size \div 2 - 1
    BY Int32 DEF Largest
  <2> QED
    BY <2>1
<1>2. FromInt(n) = IF n < half THEN n ELSE n - 2 * half
  <2>1. FromInt(n) = ((n + half) % (2 * half)) - half
    BY <1>1 DEF FromInt
  <2> QED
    BY <1>1, <2>1, Wrapped
<1> QED
  BY <1>1, <1>2
-----------------------------------------------------------------------------

(***************************************************************************)
(* The inductive invariant.  A client that still reads has every row that  *)
(* comes before its offset, new rows aside; as long as no row is new it    *)
(* has nothing else.  The offset fits into an int32, or into the next one. *)
(***************************************************************************)
Client ==
    [pc : {"reading", "done", "failed"}, user : Users, limit : Limits,
     offset : 0..(Int32Size - 1), seen : SUBSET Nat, first : Nat,
     repeated : BOOLEAN]

ReadSoFar(listing, ledger) ==
    /\ listing.first <= Len(ledger)
    /\ listing.seen \subseteq RowsIn(ledger, listing.user)

MissesNothing(listing, ledger) ==
    LET u == listing.user IN
    Distinct(ledger, u) =>
        /\ listing.pc = "reading" =>
             \A i \in RowsIn(ledger, u) :
                i <= listing.first /\ Rank(ledger, u, i) < listing.offset
                    => i \in listing.seen
        /\ listing.pc = "done" /\ Fits(listing.limit) =>
             \A i \in RowsIn(ledger, u) : i <= listing.first => i \in listing.seen

RepeatsNothing(listing, ledger) ==
    LET u == listing.user IN
    Distinct(ledger, u) /\ (\A i \in RowsIn(ledger, u) : i <= listing.first) =>
        /\ ~listing.repeated
        /\ \A i \in listing.seen : Rank(ledger, u, i) < listing.offset

Sound(listing, ledger) ==
    /\ ReadSoFar(listing, ledger)
    /\ MissesNothing(listing, ledger)
    /\ RepeatsNothing(listing, ledger)

ReadInv ==
    /\ TypeOK
    /\ listings \in [Readers -> {NoListing} \cup Client]
    /\ \A c \in Readers : listings[c] \in Client => Sound(listings[c], txns)

\* A longer ledger takes nothing back.
LEMMA SoundStays ==
    ASSUME NEW ledger \in Seq(Row), NEW longer \in Seq(Row),
           Extends(longer, ledger), NEW listing \in Client, Sound(listing, ledger)
    PROVE  Sound(listing, longer)
<1> DEFINE u == listing.user
           n == listing.first
<1>1. /\ Len(ledger) \in Nat /\ Len(longer) \in Nat /\ Len(ledger) <= Len(longer)
      /\ n \in 0..Len(ledger) /\ listing.offset \in Nat
      /\ listing.seen \subseteq RowsIn(ledger, u)
  BY Int32 DEF Sound, ReadSoFar, Client, Extends
<1>2. /\ RowsIn(ledger, u) \subseteq RowsIn(longer, u)
      /\ \A i \in RowsIn(longer, u) : i <= n => i \in RowsIn(ledger, u)
      /\ Distinct(longer, u) => Distinct(ledger, u)
      /\ \A i \in DOMAIN ledger : Rank(ledger, u, i) <= Rank(longer, u, i)
      /\ (\A k \in RowsIn(longer, u) : k <= n) =>
           /\ \A k \in RowsIn(ledger, u) : k <= n
           /\ \A i \in DOMAIN ledger : Rank(longer, u, i) = Rank(ledger, u, i)
  BY <1>1, Longer
<1>3. /\ \A i \in RowsIn(ledger, u) : i \in DOMAIN ledger
      /\ \A i : Rank(ledger, u, i) \in Nat /\ Rank(longer, u, i) \in Nat
  BY RowsAreTyped DEF RowsIn
<1>4. ReadSoFar(listing, longer)
  BY <1>1, <1>2 DEF ReadSoFar
<1>5. MissesNothing(listing, longer)
  <2> SUFFICES ASSUME Distinct(longer, u), NEW i \in RowsIn(longer, u), i <= n
               PROVE  /\ listing.pc = "reading" /\ Rank(longer, u, i) < listing.offset
                           => i \in listing.seen
                      /\ listing.pc = "done" /\ Fits(listing.limit)
                           => i \in listing.seen
    BY DEF MissesNothing
  <2>1. i \in RowsIn(ledger, u) /\ Distinct(ledger, u) /\ i \in DOMAIN ledger
    BY <1>2, <1>3
  <2>2. Rank(longer, u, i) < listing.offset => Rank(ledger, u, i) < listing.offset
    BY <1>1, <1>2, <1>3, <2>1
  <2> QED
    BY <2>1, <2>2 DEF Sound, MissesNothing
<1>6. RepeatsNothing(listing, longer)
  <2> SUFFICES ASSUME Distinct(longer, u), \A i \in RowsIn(longer, u) : i <= n
               PROVE  /\ ~listing.repeated
                      /\ \A i \in listing.seen : Rank(longer, u, i) < listing.offset
    BY DEF RepeatsNothing
  <2>1. /\ ~listing.repeated
        /\ \A i \in listing.seen : Rank(ledger, u, i) < listing.offset
    BY <1>2 DEF Sound, RepeatsNothing
  <2>2. \A i \in listing.seen : Rank(longer, u, i) = Rank(ledger, u, i)
    BY <1>1, <1>2, <1>3
  <2> QED
    BY <2>1, <2>2
<1> QED
  BY <1>4, <1>5, <1>6 DEF Sound

LEMMA BeginningIsSound ==
    ASSUME txns \in Seq(Row), NEW u \in Users, NEW limit \in Limits
    PROVE  LET listing == [pc |-> "reading", user |-> u, limit |-> limit,
                           offset |-> 0, seen |-> {}, first |-> Len(txns),
                           repeated |-> FALSE]
           IN  listing \in Client /\ Sound(listing, txns)
<1> DEFINE listing == [pc |-> "reading", user |-> u, limit |-> limit,
                       offset |-> 0, seen |-> {}, first |-> Len(txns),
                       repeated |-> FALSE]
<1>1. Len(txns) \in Nat
  OBVIOUS
<1>2. listing \in Client
  BY <1>1, Int32 DEF Client
<1>3. \A i : ~(Rank(txns, u, i) < 0)
  BY RowsAreTyped
<1>4. ReadSoFar(listing, txns) /\ RepeatsNothing(listing, txns)
  BY <1>1 DEF ReadSoFar, RepeatsNothing
<1>5. MissesNothing(listing, txns)
  BY <1>3 DEF MissesNothing
<1> QED
  BY <1>2, <1>4, <1>5 DEF Sound
\* A limit that fits is positive as an int32, too.
LEMMA FittingLimit ==
    ASSUME NEW listing \in Client, Fits(listing.limit)
    PROVE  LimitOf(listing) > 0
<1>1. listing.limit \in Int
  BY LimitsAssumption DEF Client
<1> DEFINE n == IF listing.limit > 0 THEN listing.limit ELSE DefaultLimit
<1>2. n \in 1..Largest
  BY <1>1, Int32 DEF Fits
<1>3. FromInt(n) = n
  <2> HIDE DEF n
  <2>1. n \in 0..(Int32Size - 1) /\ n <= Largest
    BY <1>2, Int32
  <2> QED
    BY <2>1, FromIntAgrees
<1> QED
  BY <1>2, <1>3 DEF LimitOf

\* The listing after one more page.
With(listing, page) ==
    [listing EXCEPT !.pc = IF page = {} THEN "done" ELSE "reading",
                    !.offset = @ + Cardinality(page),
                    !.seen = @ \cup page,
                    !.repeated = @ \/ page \cap listing.seen # {}]

LEMMA PageIsSound ==
    ASSUME txns \in Seq(Row), NEW listing \in Client, listing.pc = "reading",
           Sound(listing, txns), LimitOf(listing) >= 0, OffsetOf(listing) >= 0,
           NEW page \in Pages(listing.user, LimitOf(listing), OffsetOf(listing))
    PROVE  With(listing, page) \in Client /\ Sound(With(listing, page), txns)
<1> DEFINE u == listing.user
           next == With(listing, page)
           size == Cardinality(page)
<1>1. /\ listing.limit \in Int /\ listing.offset \in 0..(Int32Size - 1)
      /\ listing.seen \in SUBSET Nat /\ listing.first \in Nat
      /\ listing.repeated \in BOOLEAN
  BY LimitsAssumption DEF Client
<1>2. LimitOf(listing) \in 0..Largest
  <2> DEFINE n == IF listing.limit > 0 THEN listing.limit ELSE DefaultLimit
  <2>1. n \in Int
    BY <1>1, LimitsAssumption
  <2>2. LimitOf(listing) = FromInt(n)
    BY DEF LimitOf
  <2>3. FromInt(n) \in Int /\ FromInt(n) <= Largest
    <3> HIDE DEF n
    <3> QED
      BY <2>1, FromIntBelow
  <2> HIDE DEF n
  <2> QED
    BY <2>2, <2>3, Int32
<1>3. OffsetOf(listing) = listing.offset /\ listing.offset \in 0..Largest
  <2>1. FromInt(listing.offset) = listing.offset
    BY <1>1, FromIntAgrees DEF OffsetOf
  <2>2. FromInt(listing.offset) <= Largest
    <3>1. listing.offset \in Int
      BY <1>1, Int32
    <3> QED
      BY <3>1, FromIntBelow
  <2> QED
    BY <1>1, <2>1, <2>2 DEF OffsetOf
<1>4. /\ page \subseteq RowsIn(txns, u) /\ IsFiniteSet(page)
      /\ size \in 0..LimitOf(listing)
  <2>1. LimitOf(listing) \in Nat /\ OffsetOf(listing) \in Nat
    BY <1>2, <1>3, Int32
  <2> QED
    BY <2>1, PageSize
<1>5. listing.offset + size \in 0..(Int32Size - 1)
  BY <1>2, <1>3, <1>4, Int32
<1>6. page \subseteq Nat
  BY <1>4 DEF RowsIn
<1>7. /\ next.user = u /\ next.limit = listing.limit /\ next.first = listing.first
      /\ next.pc = IF page = {} THEN "done" ELSE "reading"
      /\ next.offset = listing.offset + size
      /\ next.seen = listing.seen \cup page
      /\ next.repeated = (listing.repeated \/ page \cap listing.seen # {})
  BY DEF With, Client
<1>8. next \in Client
  BY <1>1, <1>5, <1>6 DEF With, Client
<1>9. ReadSoFar(next, txns)
  BY <1>4, <1>7 DEF Sound, ReadSoFar
<1>10. ASSUME Distinct(txns, u), NEW i \in RowsIn(txns, u)
       PROVE  /\ Rank(txns, u, i) \in Nat
              /\ i \in page <=> /\ listing.offset <= Rank(txns, u, i)
                                /\ Rank(txns, u, i) < listing.offset + size
              /\ page = {} /\ LimitOf(listing) > 0
                   => Rank(txns, u, i) < listing.offset
  <2>1. Rank(txns, u, i) \in Nat
    BY RowsAreTyped
  <2>2. /\ i \in page <=> Rank(txns, u, i) \in listing.offset..(listing.offset + size - 1)
        /\ page = {} /\ LimitOf(listing) > 0 => Rank(txns, u, i) < listing.offset
    BY <1>2, <1>3, <1>10, PageRanks
  <2> QED
    BY <1>3, <1>4, <2>1, <2>2
<1>11. MissesNothing(next, txns)
  <2> SUFFICES ASSUME Distinct(txns, u), NEW i \in RowsIn(txns, u), i <= listing.first
               PROVE  /\ next.pc = "reading" /\ Rank(txns, u, i) < next.offset
                           => i \in next.seen
                      /\ next.pc = "done" /\ Fits(listing.limit) => i \in next.seen
    BY <1>7 DEF MissesNothing
  <2>1. Rank(txns, u, i) < listing.offset => i \in listing.seen
    BY DEF Sound, MissesNothing
  <2>2. Rank(txns, u, i) < listing.offset + size => i \in next.seen
    BY <1>3, <1>4, <1>7, <1>10, <2>1
  <2>3. page = {} /\ Fits(listing.limit) => i \in next.seen
    BY <1>7, <1>10, <2>1, FittingLimit
  <2> QED
    BY <1>7, <2>2, <2>3
<1>12. RepeatsNothing(next, txns)
  <2> SUFFICES ASSUME Distinct(txns, u), \A i \in RowsIn(txns, u) : i <= listing.first
               PROVE  /\ ~next.repeated
                      /\ \A i \in next.seen : Rank(txns, u, i) < listing.offset + size
    BY <1>7 DEF RepeatsNothing
  <2>1. /\ ~listing.repeated
        /\ \A i \in listing.seen : Rank(txns, u, i) < listing.offset
    BY DEF Sound, RepeatsNothing
  <2>2. \A i \in listing.seen : i \in RowsIn(txns, u)
    BY DEF Sound, ReadSoFar
  <2>3. page \cap listing.seen = {}
    BY <1>3, <1>4, <1>10, <2>1, <2>2
  <2>4. \A i \in listing.seen : Rank(txns, u, i) < listing.offset + size
    BY <1>3, <1>4, <1>10, <2>1, <2>2
  <2>5. \A i \in page : Rank(txns, u, i) < listing.offset + size
    BY <1>4, <1>10
  <2> QED
    BY <1>7, <2>1, <2>3, <2>4, <2>5
<1> QED
  BY <1>8, <1>9, <1>11, <1>12 DEF Sound

LEMMA ReadInvHolds == ReadSpec => []ReadInv
<1>1. ReadInit => ReadInv
  <2> SUFFICES ASSUME ReadInit PROVE ReadInv
    OBVIOUS
  <2>1. NoListing \notin Client
    BY DEF NoListing, Client
  <2> QED
    BY <2>1, InitTypeOK DEF ReadInit, ReadInv
<1>2. ReadInv /\ [ReadNext]_readVars => ReadInv'
  <2> SUFFICES ASSUME ReadInv, [ReadNext]_readVars PROVE ReadInv'
    OBVIOUS
  <2>1. /\ TypeOK /\ txns \in Seq(Row)
        /\ listings \in [Readers -> {NoListing} \cup Client]
        /\ \A c \in Readers : listings[c] \in Client => Sound(listings[c], txns)
    BY DEF ReadInv, TypeOK, StoreTypeOK
  <2>2. ASSUME [Next]_vars, UNCHANGED listings PROVE ReadInv'
    <3>1. TypeOK'
      BY <2>1, <2>2, NextTypeOK
    <3>2. txns' \in Seq(Row) /\ Extends(txns', txns)
      BY <2>1, <2>2, TxnsExtend
    <3>3. \A c \in Readers : listings[c] \in Client => Sound(listings[c], txns')
      BY <2>1, <3>2, SoundStays
    <3> QED
      BY <2>1, <2>2, <3>1, <3>3 DEF ReadInv
  <2>3. ASSUME UNCHANGED vars, NEW c \in Readers, NEW listing \in Client,
               Sound(listing, txns), listings' = [listings EXCEPT ![c] = listing]
        PROVE  ReadInv'
    <3>1. TypeOK' /\ txns' = txns
      BY <2>1, <2>3, NextTypeOK DEF vars, storeVars
    <3>2. listings' \in [Readers -> {NoListing} \cup Client]
      BY <2>1, <2>3
    <3>3. ASSUME NEW d \in Readers, listings'[d] \in Client
          PROVE  Sound(listings'[d], txns')
      BY <2>1, <2>3, <3>1, <3>3
    <3> QED
      BY <3>1, <3>2, <3>3 DEF ReadInv
  <2>4. ASSUME NEW c \in Readers, NEW u \in Users, NEW limit \in Limits,
               BeginListing(c, u, limit)
        PROVE  ReadInv'
    BY <2>1, <2>3, <2>4, BeginningIsSound DEF BeginListing
  <2>5. ASSUME NEW c \in Readers, GetTransactions(c) PROVE ReadInv'
    <3> DEFINE listing == listings[c]
    <3>1. UNCHANGED vars /\ listing \in Client /\ listing.pc = "reading"
          /\ Sound(listing, txns)
      BY <2>1, <2>5 DEF GetTransactions, NoListing
    <3>2. ASSUME LimitOf(listing) >= 0, OffsetOf(listing) >= 0,
                 NEW page \in Pages(listing.user, LimitOf(listing), OffsetOf(listing)),
                 TakePage(c, page)
          PROVE  ReadInv'
      <4>1. With(listing, page) \in Client /\ Sound(With(listing, page), txns)
        BY <2>1, <3>1, <3>2, PageIsSound
      <4>2. listings' = [listings EXCEPT ![c] = With(listing, page)]
        BY <3>2 DEF TakePage, With
      <4> QED
        BY <2>3, <3>1, <4>1, <4>2
    <3>3. ASSUME listings' = [listings EXCEPT ![c].pc = "failed"] PROVE ReadInv'
      <4> DEFINE failed == [listing EXCEPT !.pc = "failed"]
      <4>1. listings' = [listings EXCEPT ![c] = failed]
        BY <2>1, <3>3
      <4>2. failed \in Client /\ failed.pc = "failed"
        BY <3>1 DEF Client
      <4>3. /\ failed.user = listing.user /\ failed.limit = listing.limit
            /\ failed.offset = listing.offset /\ failed.seen = listing.seen
            /\ failed.first = listing.first /\ failed.repeated = listing.repeated
        BY <3>1 DEF Client
      <4>4. Sound(failed, txns)
        BY <3>1, <4>2, <4>3 DEF Sound, ReadSoFar, MissesNothing, RepeatsNothing
      <4> QED
        BY <2>3, <3>1, <4>1, <4>2, <4>4
    <3> QED
      BY <2>5, <3>2, <3>3 DEF GetTransactions
  <2>6. CASE UNCHANGED readVars
    BY <2>2, <2>6 DEF readVars
  <2> QED
    BY <2>2, <2>4, <2>5, <2>6 DEF ReadNext
<1> QED
  BY <1>1, <1>2, PTL DEF ReadSpec

-----------------------------------------------------------------------------

\* Clients that read are no part of the service: theorems about Spec hold.
LEMMA ReadersOnlyRead == ReadSpec => Spec
<1>1. ReadInit => Init
  BY DEF ReadInit
<1>2. [ReadNext]_readVars => [Next]_vars
  BY DEF ReadNext, BeginListing, GetTransactions, readVars
<1> QED
  BY <1>1, <1>2, PTL DEF ReadSpec, Spec

(***************************************************************************)
(* A client that reads on until nothing comes has got every transaction    *)
(* that was there when it began, if its limit fits into an int32 and the   *)
(* dates of its user's transactions differ: for any number of rows, any    *)
(* writers meanwhile, and however each page orders what is left open.      *)
(* (GetTransactions, transactions.sql.go:142-147.)                         *)
(***************************************************************************)
THEOREM NothingMissed == ReadSpec => []PagesMissNothing
<1>1. ReadInv => PagesMissNothing
  <2> SUFFICES ASSUME ReadInv, NEW c \in Readers, listings[c].pc = "done",
                      Fits(listings[c].limit), DistinctDates(listings[c].user)
               PROVE  {i \in RowsOf(listings[c].user) : i <= listings[c].first}
                        \subseteq listings[c].seen
    BY DEF PagesMissNothing
  <2>1. listings[c] \in Client /\ Sound(listings[c], txns)
    BY DEF ReadInv, NoListing
  <2>2. RowsOf(listings[c].user) = RowsIn(txns, listings[c].user)
    BY DEF RowsOf, RowsIn
  <2>3. Distinct(txns, listings[c].user)
    BY <2>2 DEF Distinct, DistinctDates
  <2> QED
    BY <2>1, <2>2, <2>3 DEF Sound, MissesNothing
<1> QED
  BY <1>1, ReadInvHolds, PTL

(***************************************************************************)
(* As long as no transaction of the user is new and their dates differ, no *)
(* page repeats one: consecutive pages are disjoint.  (GetTransactions.)   *)
(***************************************************************************)
THEOREM QuietPagesDiffer == ReadSpec => []QuietPagesRepeatNothing
<1>1. ReadInv => QuietPagesRepeatNothing
  <2> SUFFICES ASSUME ReadInv, NEW c \in Readers, listings[c].pc # "idle",
                      DistinctDates(listings[c].user),
                      \A i \in RowsOf(listings[c].user) : ~(i > listings[c].first)
               PROVE  ~listings[c].repeated
    BY DEF QuietPagesRepeatNothing
  <2>1. listings[c] \in Client /\ Sound(listings[c], txns)
    BY DEF ReadInv, NoListing
  <2>2. RowsOf(listings[c].user) = RowsIn(txns, listings[c].user)
    BY DEF RowsOf, RowsIn
  <2>3. Distinct(txns, listings[c].user)
    BY <2>2 DEF Distinct, DistinctDates
  <2>4. \A i \in RowsIn(txns, listings[c].user) : i <= listings[c].first
    <3>1. listings[c].first \in Nat
      BY <2>1 DEF Client
    <3>2. \A i \in RowsIn(txns, listings[c].user) : i \in Nat
      BY DEF RowsIn, ReadInv, TypeOK, StoreTypeOK
    <3> QED
      BY <2>2, <3>1, <3>2
  <2> QED
    BY <2>1, <2>3, <2>4 DEF Sound, RepeatsNothing
<1> QED
  BY <1>1, ReadInvHolds, PTL

-----------------------------------------------------------------------------

(***************************************************************************)
(* What holds of the end of the process, for every number of goroutines,   *)
(* days and rows.                                                          *)
(***************************************************************************)

NoJob == \A d \in Days : ~Running(d)

NoRequest ==
    /\ \A p \in Posts : posts[p].pc = "idle"
    /\ \A j \in Uploads : ~Busy(j)

\* NothingMeetsAClosedPool, with the phase before it, and with the phase that
\* a process starts in.
OrderlyEnd ==
    /\ ~up => phase = "serving"
    /\ up /\ phase \in {"draining", "closing"} => NoJob
    /\ up /\ phase = "closing" /\ ~cut => NoRequest

LEMMA OrderlyInit == LifeInit => OrderlyEnd
  BY DEF LifeInit, Init, OrderlyEnd

(***************************************************************************)
(* A job that is not running takes no step.                                *)
(***************************************************************************)
LEMMA StepsRun ==
  ASSUME NEW d \in Days, RebuildAdvances(d)
  PROVE  Running(d)
  BY DEF RebuildAdvances, RebuildNext, BeginRebuild, FailRebuild, CommitRebuild, Running

LEMMA OrderlyStep ==
  ASSUME OrderlyEnd, [LifeNext]_lifeVars
  PROVE  OrderlyEnd'
<1>1. CASE RequestArrives
  <2>1. phase # "closing" /\ phase' = phase /\ up' = up /\ rebuilds' = rebuilds
    BY <1>1 DEF RequestArrives, Accepting, PostArrives, UploadArrives
  <2> QED
    BY <2>1 DEF OrderlyEnd, NoJob, Running
<1>2. ASSUME NEW p \in Posts, LifePostAdvances(p)
      PROVE  OrderlyEnd'
  BY <1>2 DEF LifePostAdvances, PostAdvances, OrderlyEnd, NoJob, Running
<1>3. ASSUME NEW j \in Uploads, LifeUploadAdvances(j)
      PROVE  OrderlyEnd'
  <2>1. /\ up' = up /\ rebuilds' = rebuilds /\ phase' = phase /\ cut' = cut
        /\ phase # "closing" \/ uploads[j].pc = "store"
    BY <1>3 DEF LifeUploadAdvances, UploadAdvances
  <2>2. ~(up /\ phase = "closing" /\ ~cut)
    BY <2>1 DEF OrderlyEnd, NoRequest, Busy
  <2> QED
    BY <2>1, <2>2 DEF OrderlyEnd, NoJob, Running
<1>4. ASSUME NEW d \in Days, LifeRebuildAdvances(d)
      PROVE  OrderlyEnd'
  <2>1. Running(d) /\ up
    BY <1>4, StepsRun DEF LifeRebuildAdvances, RebuildAdvances
  <2>2. phase \notin {"draining", "closing"} /\ phase' = phase /\ up' = up
    BY <1>4, <2>1 DEF LifeRebuildAdvances, RebuildAdvances, OrderlyEnd, NoJob
  <2> QED
    BY <2>2 DEF OrderlyEnd
<1>5. CASE LifeTick
  <2>1. CASE phase = "serving"
    BY <1>5, <2>1 DEF LifeTick, OrderlyEnd
  <2>2. CASE phase # "serving"
    BY <1>5, <2>2 DEF LifeTick, OrderlyEnd, NoJob, NoRequest, Running, Busy, uploadVars
  <2> QED
    BY <2>1, <2>2
<1>6. CASE Signal
  BY <1>6 DEF Signal, OrderlyEnd, vars
<1>7. CASE StopServer
  BY <1>7 DEF StopServer, OrderlyEnd, NoJob, Running, vars
<1>8. CASE FinishDraining
  BY <1>8 DEF FinishDraining, OrderlyEnd, NoJob, NoRequest, Running, Busy, vars, uploadVars
<1>9. CASE Exit
  BY <1>9 DEF Exit, OrderlyEnd
<1>10. CASE LifeCrash
  BY <1>10 DEF LifeCrash, OrderlyEnd
<1>11. CASE LifeRestart
  <2>1. phase' = "serving"
    BY <1>11 DEF LifeRestart, Restart, OrderlyEnd
  <2> QED
    BY <2>1 DEF OrderlyEnd
<1>12. CASE LifeAwaitRequests
  BY <1>12 DEF LifeAwaitRequests, OrderlyEnd
<1>13. CASE UNCHANGED lifeVars
  BY <1>13 DEF lifeVars, vars, uploadVars, OrderlyEnd, NoJob, NoRequest, Running, Busy
<1> QED
  BY <1>1, <1>2, <1>3, <1>4, <1>5, <1>6, <1>7, <1>8, <1>9, <1>10, <1>11, <1>12, <1>13
     DEF LifeNext

(***************************************************************************)
(* Jobs have ended when the pools are closed, and so have the requests     *)
(* unless their time ran out.  (cmd/main.go:86-92.)                        *)
(***************************************************************************)
THEOREM ClosedPoolIsIdle == LifeSpec => []NothingMeetsAClosedPool
<1>1. OrderlyEnd => NothingMeetsAClosedPool
  BY DEF OrderlyEnd, NoJob, NoRequest, NothingMeetsAClosedPool
<1> QED
  BY OrderlyInit, OrderlyStep, <1>1, PTL DEF LifeSpec

-----------------------------------------------------------------------------

(***************************************************************************)
(* What a process that shuts down does to the tables and the requests is   *)
(* what FraudService does, but for two kinds of steps: it ends, which is   *)
(* a crash that is not counted, and midnights pass that start no job.      *)
(* Neither writes anything; both only lose what was in progress.           *)
(***************************************************************************)
Ends ==
    /\ up' = FALSE
    /\ posts' = [p \in Posts |-> NoPost]
    /\ uploads' = [j \in Uploads |-> NoUpload]
    /\ rebuilds' = [d \in Days |-> AbandonedRebuild(d)]
    /\ UNCHANGED <<storeVars, settled, crashes>>

Elapses ==
    /\ now' = now + 1
    /\ UNCHANGED <<txns, profiles, posts, uploadVars, rebuilds, up, crashes>>

LEMMA LifeSteps == [LifeNext]_lifeVars => [Next]_vars \/ Ends \/ Elapses
<1> SUFFICES ASSUME [LifeNext]_lifeVars PROVE [Next]_vars \/ Ends \/ Elapses
  OBVIOUS
<1>1. CASE RequestArrives
  BY <1>1 DEF RequestArrives, Next
<1>2. ASSUME NEW p \in Posts, LifePostAdvances(p) PROVE Next
  BY <1>2 DEF LifePostAdvances, Next
<1>3. ASSUME NEW j \in Uploads, LifeUploadAdvances(j) PROVE Next
  BY <1>3 DEF LifeUploadAdvances, Next
<1>4. ASSUME NEW d \in Days, LifeRebuildAdvances(d) PROVE Next
  BY <1>4 DEF LifeRebuildAdvances, Next
<1>5. CASE LifeTick
  BY <1>5 DEF LifeTick, Next, Elapses
<1>6. CASE Signal \/ StopServer \/ FinishDraining
  BY <1>6 DEF Signal, StopServer, FinishDraining
<1>7. CASE Exit
  BY <1>7 DEF Exit, Ends
<1>8. CASE LifeCrash
  BY <1>8 DEF LifeCrash, Next
<1>9. CASE LifeRestart
  BY <1>9 DEF LifeRestart, Next
<1>10. CASE LifeAwaitRequests
  BY <1>10 DEF LifeAwaitRequests, Next
<1>11. CASE UNCHANGED lifeVars
  BY <1>11 DEF lifeVars
<1> QED
  BY <1>1, <1>2, <1>3, <1>4, <1>5, <1>6, <1>7, <1>8, <1>9, <1>10, <1>11
  DEF LifeNext

LEMMA QuietTypeOK ==
    ASSUME TypeOK, Ends \/ Elapses
    PROVE  TypeOK'
<1>1. StoreTypeOK'
  <2>1. now' \in Nat /\ txns' = txns /\ profiles' = profiles
    BY DEF TypeOK, StoreTypeOK, Ends, Elapses, storeVars
  <2> QED
    BY <2>1 DEF TypeOK, StoreTypeOK
<1>2. PostTypeOK' /\ UploadTypeOK'
  BY DEF TypeOK, PostTypeOK, UploadTypeOK, Ends, Elapses, uploadVars
<1>3. RebuildTypeOK'
  <2>1. CASE Elapses
    BY <2>1 DEF TypeOK, RebuildTypeOK, Elapses
  <2>2. CASE Ends
    <3>1. \A d \in Days : AbandonedRebuild(d) \in RebuildJob
      <4> TAKE d \in Days
      <4>1. rebuilds[d] \in RebuildJob
        BY DEF TypeOK, RebuildTypeOK, RebuildJob
      <4>2. [rebuilds[d] EXCEPT !.pc = "missed"] \in RebuildJob
        BY <4>1 DEF RebuildJob
      <4> QED
        BY <4>1, <4>2 DEF AbandonedRebuild
    <3> QED
      BY <2>2, <3>1 DEF Ends, RebuildTypeOK, RebuildJob
  <2> QED
    BY <2>1, <2>2
<1>4. up' \in BOOLEAN /\ crashes' \in Nat
  BY DEF TypeOK, Ends, Elapses
<1> QED
  BY <1>1, <1>2, <1>3, <1>4 DEF TypeOK

Left(after, before) ==
    /\ after.snapshot = before.snapshot
    /\ after.existing = before.existing
    /\ after.beside = before.beside
    /\ \/ after.pc = before.pc
       \/ after.pc = "missed" /\ before.pc \in {"started", "store"}

\* What is left of the requests and the jobs, and of the clock.
LEMMA QuietSteps ==
    ASSUME TypeOK, Ends \/ Elapses
    PROVE  /\ UNCHANGED <<txns, profiles, settled>>
           /\ \A p \in Posts : posts'[p] # posts[p] => posts'[p] = NoPost
           /\ \A j \in Uploads : uploads'[j] # uploads[j] => uploads'[j] = NoUpload
           /\ \A d \in Days : Left(rebuilds'[d], rebuilds[d])
           /\ AppNow \in Int /\ AppNow' \in Int /\ AppNow <= AppNow'
<1>1. UNCHANGED <<txns, profiles, settled>>
  BY DEF Ends, Elapses, storeVars, uploadVars
<1>2. ASSUME NEW d \in Days
      PROVE  Left(rebuilds'[d], rebuilds[d])
  <2>1. rebuilds'[d] \in {rebuilds[d], AbandonedRebuild(d)}
    BY DEF Ends, Elapses
  <2>2. rebuilds[d] \in RebuildJob
    BY DEF TypeOK, RebuildTypeOK, RebuildJob
  <2>3. Running(d) => Left([rebuilds[d] EXCEPT !.pc = "missed"], rebuilds[d])
    BY <2>2 DEF RebuildJob, Running, Left
  <2>4. Left(rebuilds[d], rebuilds[d])
    BY DEF Left
  <2> QED
    BY <2>1, <2>3, <2>4 DEF AbandonedRebuild
<1>3. AppNow \in Int /\ AppNow' \in Int /\ AppNow <= AppNow'
  <2>1. now \in Int /\ now' \in {now, now + 1}
    BY DEF TypeOK, StoreTypeOK, Ends, Elapses, storeVars
  <2>2. Skew \in Int /\ AppNow = now + Skew /\ AppNow' = now' + Skew
    BY SkewAssumption DEF AppNow
  <2> HIDE DEF AppNow
  <2>3. CASE now' = now
    BY <2>1, <2>2, <2>3
  <2>4. CASE now' = now + 1
    BY <2>1, <2>2, <2>4
  <2> QED
    BY <2>1, <2>3, <2>4
<1>4. /\ \A p \in Posts : posts'[p] # posts[p] => posts'[p] = NoPost
      /\ \A j \in Uploads : uploads'[j] # uploads[j] => uploads'[j] = NoUpload
  BY DEF Ends, Elapses, uploadVars
<1> QED
  BY <1>1, <1>2, <1>3, <1>4

-----------------------------------------------------------------------------

(***************************************************************************)
(* The invariants of the proofs about Spec are kept.                       *)
(***************************************************************************)
LEMMA QuietKeeps ==
    ASSUME TypeOK, Ends \/ Elapses
    PROVE  /\ Accounts => Accounts'
           /\ SnapshotInv => SnapshotInv'
           /\ RecountReads => RecountReads'
           /\ SettledInv => SettledInv'
<1>1. /\ txns' = txns /\ profiles' = profiles /\ settled' = settled
      /\ \A p \in Posts : posts'[p].pc # "idle" => posts'[p] = posts[p]
      /\ \A j \in Uploads : uploads'[j].pc # "idle" => uploads'[j] = uploads[j]
      /\ \A d \in Days : /\ rebuilds'[d].snapshot = rebuilds[d].snapshot
                         /\ rebuilds'[d].pc = "store" => rebuilds[d].pc = "store"
  BY QuietSteps DEF NoPost, NoUpload, Left
<1>2. Accounts => Accounts'
  BY <1>1 DEF Accounts, Busy
<1>3. SnapshotInv => SnapshotInv'
  BY <1>1
  DEF SnapshotInv, StoredSnapshots, PostSnapshots, UploadSnapshots, RebuildReads,
      Busy
<1>4. RecountReads => RecountReads'
  BY <1>1 DEF RecountReads
<1>5. SettledInv => SettledInv'
  BY <1>1 DEF SettledInv, SettledUploadsCounted
<1> QED
  BY <1>2, <1>3, <1>4, <1>5

LEMMA QuietKeepsCounts ==
    ASSUME TypeOK, Arrived, Ends \/ Elapses
    PROVE  /\ Arrived'
           /\ EnoughInv => EnoughInv'
           /\ NoMoreInv => NoMoreInv'
<1>1. /\ txns' = txns /\ AppNow \in Int /\ AppNow' \in Int /\ AppNow <= AppNow'
      /\ \A p \in Posts : posts'[p].pc # "idle" => posts'[p] = posts[p]
  BY QuietSteps DEF NoPost
<1>2. txns \in Seq(Row) /\ Continues(txns, txns)
  BY DEF TypeOK, StoreTypeOK, Continues
<1>3. ASSUME NEW p \in Posts, posts'[p].pc # "idle"
      PROVE  /\ ArrivedBefore(posts'[p], txns, AppNow')
             /\ EnoughInv => CountedEnough(posts'[p], txns, AppNow')
             /\ NoMoreInv => CountedNoMore(posts'[p], txns)
  <2>1. posts'[p] = posts[p] /\ posts[p] \in Post
    BY <1>1, <1>3, ActivePost DEF TypeOK, PostTypeOK, NoPost
  <2>2. /\ ArrivedBefore(posts[p], txns, AppNow)
        /\ EnoughInv => CountedEnough(posts[p], txns, AppNow)
        /\ NoMoreInv => CountedNoMore(posts[p], txns)
    BY <1>3, <2>1 DEF Arrived, EnoughInv, NoMoreInv
  <2> QED
    BY <1>1, <1>2, <2>1, <2>2, RequestsKeep
<1>4. Arrived'
  BY <1>1, <1>3 DEF Arrived
<1>5. EnoughInv => EnoughInv'
  BY <1>1, <1>3 DEF EnoughInv
<1>6. NoMoreInv => NoMoreInv'
  BY <1>1, <1>3 DEF NoMoreInv
<1> QED
  BY <1>4, <1>5, <1>6

LEMMA QuietKeepsNights ==
    ASSUME TypeOK, NightInv, Ends \/ Elapses
    PROVE  NightInv'
<1>1. /\ txns' = txns /\ profiles' = profiles
      /\ \A j \in Uploads : uploads'[j].pc # "idle" => uploads'[j] = uploads[j]
      /\ \A d \in Days : Left(rebuilds'[d], rebuilds[d])
      /\ AppNow \in Int /\ AppNow' \in Int /\ AppNow <= AppNow'
  BY QuietSteps DEF NoUpload
<1>2. \A d \in Days : \A u :
        Dated(txns', u, rebuilds'[d].existing, Midnight(d)) = Night(d, u)
  BY <1>1 DEF Night, Dated, Past, Left
<1>3. NightsInOrder'
  <2> SUFFICES ASSUME NEW d \in Days
               PROVE  /\ rebuilds'[d].existing \in 0..Len(txns')
                      /\ rebuilds'[d].pc # "waiting" => Midnight(d) <= AppNow'
                      /\ rebuilds'[d].pc # "waiting" =>
                           \A e \in Days :
                             e < d /\ rebuilds'[e].pc \in {"started", "store"}
                               => e \in rebuilds'[d].beside
                      /\ \A e \in rebuilds'[d].beside : rebuilds'[e].pc # "waiting"
    BY DEF NightsInOrder, Running, Midnight
  <2>1. rebuilds'[d].existing \in 0..Len(txns')
    BY <1>1 DEF NightInv, NightsInOrder, Left
  <2>2. rebuilds[d].pc # "waiting" => Midnight(d) <= AppNow'
    <3>1. rebuilds[d].pc # "waiting" => Midnight(d) <= AppNow
      BY DEF NightInv, NightsInOrder
    <3>2. Midnight(d) \in Int
      BY DaysInOrder
    <3> QED
      BY <1>1, <3>1, <3>2
  <2>3. rebuilds'[d].pc # "waiting" => rebuilds[d].pc # "waiting"
    BY <1>1 DEF Left
  <2>4. \A e \in Days : ~Running(e) => rebuilds'[e].pc \notin {"started", "store"}
    BY <1>1 DEF Left, Running
  <2>5. rebuilds'[d].beside = rebuilds[d].beside /\ rebuilds[d].beside \subseteq Days
    BY <1>1 DEF Left, TypeOK, RebuildTypeOK
  <2>6. \A e \in rebuilds'[d].beside : rebuilds'[e].pc # "waiting"
    BY <1>1, <2>5 DEF NightInv, NightsInOrder, Left
  <2> QED
    BY <2>1, <2>2, <2>3, <2>4, <2>5, <2>6 DEF NightInv, NightsInOrder
<1>4. JobsCover'
  <2> SUFFICES ASSUME NEW d \in Days, NEW e \in Days, d <= e,
                      rebuilds'[e].pc = "store", NEW u \in Users
               PROVE  Dated(txns', u, rebuilds'[d].existing, Midnight(d))
                        \subseteq rebuilds'[e].snapshot[u]
    BY DEF JobsCover, Night, Midnight
  <2>1. rebuilds[e].pc = "store" /\ rebuilds'[e].snapshot = rebuilds[e].snapshot
    BY <1>1 DEF Left
  <2> QED
    BY <1>2, <2>1 DEF NightInv, JobsCover
<1>5. RecountsCover'
  <2> SUFFICES ASSUME NEW j \in Uploads, NEW d \in Days, uploads'[j].pc = "store"
               PROVE  Dated(txns', uploads'[j].user, rebuilds'[d].existing, Midnight(d))
                        \subseteq uploads'[j].snapshot
    BY DEF RecountsCover, Night, Midnight
  <2>1. uploads'[j] = uploads[j]
    BY <1>1
  <2> QED
    BY <1>2, <2>1 DEF NightInv, RecountsCover
<1>6. ProfilesCover'
  <2> DEFINE After(e, u) == Dated(txns', u, rebuilds'[e].existing, Midnight(e))
  <2> SUFFICES ASSUME NEW d \in Days, rebuilds'[d].pc = "done", NEW u \in Users
               PROVE  {i \in After(d, u) :
                         \A e \in rebuilds'[d].beside : i \in After(e, u)}
                        \subseteq profiles'[u].basis
    BY DEF ProfilesCover, Shared, Night, Midnight
  <2>1. /\ rebuilds[d].pc = "done" /\ rebuilds'[d].beside = rebuilds[d].beside
        /\ rebuilds[d].beside \subseteq Days
    BY <1>1 DEF Left, TypeOK, RebuildTypeOK
  <2>2. \A e \in Days : After(e, u) = Night(e, u)
    BY <1>2
  <2> HIDE DEF After
  <2>3. {i \in After(d, u) : \A e \in rebuilds'[d].beside : i \in After(e, u)}
          = Shared(d, u)
    BY <2>1, <2>2 DEF Shared
  <2> QED
    BY <1>1, <2>1, <2>3 DEF NightInv, ProfilesCover
<1> QED
  BY <1>3, <1>4, <1>5, <1>6 DEF NightInv

-----------------------------------------------------------------------------

LEMMA LifeInvariants == LifeSpec => [](TypeOK /\ Accounts /\ SnapshotInv /\ Arrived)
<1>1. LifeInit => TypeOK /\ Accounts /\ SnapshotInv /\ Arrived
  <2>1. LifeInit => Init
    BY DEF LifeInit
  <2>2. Init => Accounts
    BY DEF Init, UploadInit, NoUpload, Accounts, Busy
  <2> QED
    BY <2>1, <2>2, InitTypeOK, InitSnapshots, InitArrived
<1>2. TypeOK /\ [LifeNext]_lifeVars => TypeOK'
  BY LifeSteps, NextTypeOK, QuietTypeOK
<1>3. TypeOK /\ TypeOK' /\ Accounts /\ [LifeNext]_lifeVars => Accounts'
  BY LifeSteps, AccountsKeep, QuietKeeps
<1>4. TypeOK /\ SnapshotInv /\ [LifeNext]_lifeVars => SnapshotInv'
  <2>1. TypeOK /\ SnapshotInv /\ [Next]_vars => SnapshotInv'
    BY StoredKeep, PostsKeep, UploadsKeep, RebuildReadsKeep DEF SnapshotInv
  <2> QED
    BY <2>1, LifeSteps, QuietKeeps
<1>5. TypeOK /\ TypeOK' /\ Arrived /\ [LifeNext]_lifeVars => Arrived'
  BY LifeSteps, RequestsArrived, QuietKeepsCounts
<1> QED
  BY <1>1, <1>2, <1>3, <1>4, <1>5, PTL DEF LifeSpec

(***************************************************************************)
(* With shutdowns too, at any moment and whether or not their 30 seconds   *)
(* run out, everything has its type, the numbers of an upload are those of *)
(* what it did, and each group of columns of a profile is that of one      *)
(* moment.  (cmd/main.go:83-92; what a shutdown cuts off is lost, but no   *)
(* statement is half done.)                                                *)
(***************************************************************************)
THEOREM ShutdownHarmsNothing ==
    LifeSpec => [](TypeOK /\ UploadAccounting /\ ProfilesAreSnapshots)
<1>1. Accounts => UploadAccounting
  BY AccountsAreAccounting DEF Accounts
<1> QED
  BY <1>1, SnapshotInvSuffices, LifeInvariants, PTL

(***************************************************************************)
(* SettledCounted and OnlyRecentCounted with shutdowns: a request that     *)
(* goes on while the process stops is scored with no fewer of the rows     *)
(* that were there, and no more, for the same clocks.                      *)
(***************************************************************************)
THEOREM ShutdownKeepsCounts ==
    /\ Skew >= 0 /\ ~Fails("countRecent") => (LifeSpec => []SettledAreCounted)
    /\ Skew <= 0 => (LifeSpec => []OnlyRecentAreCounted)
<1>1. LifeInit => EnoughInv /\ NoMoreInv
  BY InitArrived DEF LifeInit
<1>2. ASSUME Skew >= 0, ~Fails("countRecent")
      PROVE  LifeSpec => []SettledAreCounted
  <2>1. TypeOK /\ TypeOK' /\ Arrived /\ EnoughInv /\ [LifeNext]_lifeVars => EnoughInv'
    <3> SUFFICES ASSUME TypeOK, TypeOK', Arrived, EnoughInv, [LifeNext]_lifeVars
                 PROVE  EnoughInv'
      OBVIOUS
    <3>1. CASE [Next]_vars
      <4>1. \A i \in DOMAIN txns' : SeenEnough(txns', i)
        BY <3>1, RowsKeepEnough
      <4>2. \A p \in Posts :
              posts'[p].pc # "idle" => CountedEnough(posts'[p], txns', AppNow')
        BY <1>2, <3>1, RequestsKeepEnough
      <4> QED
        BY <4>1, <4>2 DEF EnoughInv
    <3>2. CASE Ends \/ Elapses
      BY <3>2, QuietKeepsCounts
    <3> QED
      BY <3>1, <3>2, LifeSteps
  <2>2. EnoughInv => SettledAreCounted
    BY PropertiesByRow DEF EnoughInv
  <2> QED
    BY <1>1, <2>1, <2>2, LifeInvariants, PTL DEF LifeSpec
<1>3. ASSUME Skew <= 0
      PROVE  LifeSpec => []OnlyRecentAreCounted
  <2>1. TypeOK /\ TypeOK' /\ Arrived /\ NoMoreInv /\ [LifeNext]_lifeVars => NoMoreInv'
    <3> SUFFICES ASSUME TypeOK, TypeOK', Arrived, NoMoreInv, [LifeNext]_lifeVars
                 PROVE  NoMoreInv'
      OBVIOUS
    <3>1. CASE [Next]_vars
      <4>1. \A i \in DOMAIN txns' : SeenNoMore(txns', i)
        BY <3>1, RowsKeepNoMore
      <4>2. \A p \in Posts :
              posts'[p].pc # "idle" => CountedNoMore(posts'[p], txns')
        BY <1>3, <3>1, RequestsKeepNoMore
      <4> QED
        BY <4>1, <4>2 DEF NoMoreInv
    <3>2. CASE Ends \/ Elapses
      BY <3>2, QuietKeepsCounts
    <3> QED
      BY <3>1, <3>2, LifeSteps
  <2>2. NoMoreInv => OnlyRecentAreCounted
    BY PropertiesByRow DEF NoMoreInv
  <2> QED
    BY <1>1, <2>1, <2>2, LifeInvariants, PTL DEF LifeSpec
<1> QED
  BY <1>2, <1>3

(***************************************************************************)
(* A service that shuts down implements ProfileLedger as well, and takes   *)
(* no settled upload out of a profile, while no user has two uploads at a  *)
(* time: what was cut off shows as a statement that never came.            *)
(***************************************************************************)
THEOREM ShutdownImplementsLedger ==
    LifeSpec /\ []OneUploadPerUser => LedgerSpec /\ []SettledUploadsCounted
<1>1. LifeInit => SettledInv /\ RecountReads
  BY DEF LifeInit, Init, UploadInit, NoUpload, StoreInit, NoProfile, SettledInv,
         SettledUploadsCounted, RecountReads
<1>2. /\ TypeOK /\ OneUploadPerUser /\ SnapshotInv /\ RecountReads
      /\ [LifeNext]_lifeVars
      => RecountReads'
  BY LifeSteps, RecountReadsKeep, QuietKeeps
<1>3. SnapshotInv => RebuildReads
  BY DEF SnapshotInv
<1>4. /\ TypeOK /\ TypeOK' /\ Accounts /\ OneUploadPerUser /\ SettledInv
      /\ [LifeNext]_lifeVars
      => SettledInv'
  BY LifeSteps, SettledKeep, QuietKeeps
<1>5. TypeOK /\ RecountReads /\ RebuildReads /\ [LifeNext]_lifeVars
        => [Ledger!Next]_(Ledger!vars)
  BY LifeSteps, StepRefines, QuietSteps DEF Ledger!vars
<1>6. LifeInit => Ledger!Init
  BY DEF LifeInit, Init, StoreInit, NoProfile, Ledger!Init
<1>7. SettledInv => SettledUploadsCounted
  BY DEF SettledInv
<1> QED
  BY <1>1, <1>2, <1>3, <1>4, <1>5, <1>6, <1>7, LifeInvariants, PTL
  DEF LifeSpec, LedgerSpec, Ledger!Spec

(***************************************************************************)
(* NightlyCovers with shutdowns, and with the midnights that pass without  *)
(* a job while the process stops: they take nothing out of the averages.   *)
(***************************************************************************)
THEOREM ShutdownKeepsNights ==
    ASSUME Skew <= 0
    PROVE  LifeSpec /\ []Apart => []NightlyCoversYesterday
<1>1. LifeInit => NightInv
  BY InitNights DEF LifeInit
<1>2. TypeOK /\ TypeOK' /\ Apart' /\ NightInv /\ [LifeNext]_lifeVars => NightInv'
  <2>1. TypeOK /\ TypeOK' /\ Apart' /\ NightInv /\ [Next]_vars => NightInv'
    BY InOrderKeep, JobsCoverKeep, RecountsCoverKeep, ProfilesCoverKeep DEF NightInv
  <2> QED
    BY <2>1, LifeSteps, QuietKeepsNights
<1> QED
  BY <1>1, <1>2, NightInvSuffices, LifeInvariants, PTL DEF LifeSpec

(***************************************************************************)
(* BulkStaysFresh with shutdowns: an upload that is finished while the     *)
(* process stops is scored with a profile as fresh as any other's.         *)
(***************************************************************************)
THEOREM ShutdownKeepsBulkFresh ==
    ASSUME ~Fails("recalculate"), ~Fails("getProfile"), FALSE \notin Castable
    PROVE  LifeSpec /\ []Undisturbed => []BulkProfileFresh
<1>1. LifeInit => AllFit /\ AllFresh
  BY DEF LifeInit, Init, UploadInit, NoUpload, StoreInit, Busy, AllFit, AllFresh
<1>2. ASSUME TypeOK, Ends \/ Elapses
      PROVE  (AllFit => AllFit') /\ (AllFresh => AllFresh')
  <2>1. /\ txns' = txns /\ profiles' = profiles
        /\ \A j \in Uploads : uploads'[j].pc # "idle" => uploads'[j] = uploads[j]
    BY <1>2, QuietSteps DEF NoUpload
  <2> QED
    BY <2>1 DEF AllFit, AllFresh, Busy
<1>3. TypeOK /\ AllFit /\ [LifeNext]_lifeVars => AllFit'
  BY <1>2, LifeSteps, FitsKeep
<1>4. TypeOK /\ Accounts /\ AllFit /\ Undisturbed /\ AllFresh /\ [LifeNext]_lifeVars
        => AllFresh'
  BY <1>2, LifeSteps, FreshKeep
<1>5. TypeOK /\ Accounts /\ AllFresh => BulkProfileFresh
  BY FreshSuffices
<1> QED
  BY <1>1, <1>3, <1>4, <1>5, LifeInvariants, PTL DEF LifeSpec
=============================================================================
