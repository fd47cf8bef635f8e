--------------------------- MODULE ProofListingProofs ---------------------------
(***************************************************************************)
(* Proofs about ProofListing, for any page size, any precision of dates    *)
(* and any filters.                                                        *)
(*                                                                         *)
(* A page is found by counting the rows that are newer.  The invariant     *)
(* says that a row the client is owed and has not seen has at least all    *)
(* the rows of the pages read before it (Owed), a count that only grows    *)
(* while no row stops matching.  Between the two queries of a page, the    *)
(* rows that match and those that slipped away since are together at least *)
(* those of the page and of the pages before it (Filled).                  *)
(***************************************************************************)
EXTENDS ProofListing, FiniteSetTheorems, TLAPS

Newer(S, t) == Cardinality({u \in S : u > t})

Matched == Matching(query, status, asked)

\* The pages read, the one at hand included once its rows are there.
Read == IF pc \in {"total", "done"} THEN page ELSE page - 1

Owed ==
    /\ expected \subseteq Matched
    /\ ~shrunk => \A t \in expected : t \in seen \/ Newer(Matched, t) >= Read * Limit
    /\ NoneMissed

Filled ==
    /\ pc = "total" /\ data # {} =>
           Cardinality(Matched \cup slipped) >= (page - 1) * Limit + Cardinality(data)
    /\ query.status = Null => slipped = {}
    /\ PageWithinTotal

Begun == pc = "idle" => page = 1 /\ expected = {} /\ data = {}

IInv == TypeOK /\ Begun /\ Owed /\ Filled

-----------------------------------------------------------------------------
(* Numbers.                                                                 *)

\* The number of pages: enough for all rows, and none of them empty.
LEMMA PagesOfRows ==
    ASSUME NEW n \in Nat
    PROVE  /\ Pages(n) \in 0..n
           /\ n <= Pages(n) * Limit
           /\ \A p \in Nat \ {0} : n >= (p - 1) * Limit + 1 => p <= Pages(n)
<1>. USE LimitAssumption DEF Pages
<1>1. Pages(n) \in Nat /\ n <= Pages(n) * Limit
  OBVIOUS
<1>2. Pages(n) <= n
  <2>1. CASE n = 0
    BY <2>1
  <2>2. CASE n # 0
    <3>1. n + Limit - 1 <= n * Limit
      BY <2>2
    <3>. QED
      BY <3>1
  <2>. QED
    BY <2>1, <2>2
<1>3. ASSUME NEW p \in Nat \ {0}, n >= (p - 1) * Limit + 1
      PROVE  p <= Pages(n)
  BY <1>3
<1>. QED
  BY <1>1, <1>2, <1>3

\* A Date keeps the order of times.
LEMMA ShownMonotone ==
    ASSUME NEW t \in Nat, NEW u \in Nat, t <= u
    PROVE  Shown(t) \in Nat /\ Shown(t) <= Shown(u)
<1>1. ASSUME NEW v \in Nat
      PROVE  \E a \in Nat, r \in 0..Milli - 1 : Shown(v) = Milli * a /\ v = Milli * a + r
  <2>1. /\ v \div Milli \in Nat /\ v % Milli \in 0..Milli - 1
        /\ v = Milli * (v \div Milli) + (v % Milli)
    BY LimitAssumption
  <2>2. Shown(v) = Milli * (v \div Milli)
    BY <2>1, LimitAssumption DEF Shown
  <2>. QED
    BY <2>1, <2>2
<1>2. PICK a \in Nat, r \in 0..Milli - 1 : Shown(t) = Milli * a /\ t = Milli * a + r
  BY <1>1
<1>3. PICK b \in Nat, s \in 0..Milli - 1 : Shown(u) = Milli * b /\ u = Milli * b + s
  BY <1>1
<1>4. a <= b
  BY <1>2, <1>3, LimitAssumption
<1>5. Milli * a \in Nat /\ Milli * a <= Milli * b
  BY <1>4, LimitAssumption
<1>. QED
  BY <1>2, <1>3, <1>5

-----------------------------------------------------------------------------
(* Rows and pages.                                                          *)

LEMMA WindowMonotone ==
    ASSUME NEW q \in Queries, NEW t \in Nat, NEW u \in Nat, t <= u
    PROVE  Window(q, t) \subseteq Window(q, u)
<1>1. q.fromDate = Null \/ q.fromDate \in Int
  BY QueryAssumption DEF Instants
<1>2. Shown(t) \in Nat /\ Shown(u) \in Nat /\ Shown(t) <= Shown(u)
  BY ShownMonotone
<1>3. q.toDate = Null \/ q.toDate \in Int
  BY QueryAssumption DEF Instants
<1>. QED
  BY <1>1, <1>2, <1>3 DEF Window

\* Sets of rows are finite.
LEMMA FiniteRows ==
    ASSUME NEW n \in Nat, NEW S, S \subseteq 1..n
    PROVE  IsFiniteSet(S) /\ Cardinality(S) \in Nat
<1>1. IsFiniteSet(1..n)
  BY FS_Interval
<1>2. IsFiniteSet(S)
  BY <1>1, FS_Subset
<1>. QED
  BY <1>2, FS_CardinalityType

LEMMA MatchingRows ==
    ASSUME NEW n \in Nat, NEW rows, DOMAIN rows \subseteq 1..n, NEW q, NEW time
    PROVE  /\ Matching(q, rows, time) \in SUBSET (1..n)
           /\ IsFiniteSet(Matching(q, rows, time))
           /\ Cardinality(Matching(q, rows, time)) \in 0..n
<1>1. Matching(q, rows, time) \in SUBSET (1..n)
  BY DEF Matching
<1>2. IsFiniteSet(1..n) /\ Cardinality(1..n) = n
  BY FS_Interval
<1>. QED
  BY <1>1, <1>2, FS_Subset, FS_CardinalityType

LEMMA NewerRows ==
    ASSUME NEW n \in Nat, NEW S \in SUBSET (1..n), NEW t \in 1..n
    PROVE  /\ Newer(S, t) \in Nat
           /\ t \in S => Newer(S, t) + 1 <= Cardinality(S)
           /\ \A T \in SUBSET S : Newer(T, t) <= Newer(S, t)
           /\ \A u \in S : u > t => Newer(S, u) < Newer(S, t)
<1>1. IsFiniteSet(S)
  <2>1. IsFiniteSet(1..n)
    BY FS_Interval
  <2>. QED
    BY <2>1, FS_Subset
<1>2. ASSUME NEW v PROVE /\ {u \in S : u > v} \in SUBSET S
                         /\ IsFiniteSet({u \in S : u > v})
                         /\ Newer(S, v) \in Nat
  BY <1>1, FS_Subset, FS_CardinalityType DEF Newer
<1>3. ASSUME t \in S PROVE Newer(S, t) + 1 <= Cardinality(S)
  <2>1. {u \in S : u > t} \cup {t} \in SUBSET S /\ t \notin {u \in S : u > t}
    BY <1>3
  <2>2. Cardinality({u \in S : u > t} \cup {t}) = Newer(S, t) + 1
    BY <1>2, <2>1, FS_AddElement DEF Newer
  <2>. QED
    BY <1>1, <2>1, <2>2, FS_Subset
<1>4. ASSUME NEW T \in SUBSET S PROVE Newer(T, t) <= Newer(S, t)
  <2>1. {u \in T : u > t} \in SUBSET {u \in S : u > t}
    OBVIOUS
  <2>. QED
    BY <1>2, <2>1, FS_Subset DEF Newer
<1>5. ASSUME NEW u \in S, u > t PROVE Newer(S, u) < Newer(S, t)
  <2>. t \in Int /\ u \in Int /\ \A v \in S : v \in Int
    OBVIOUS
  <2>1. {v \in S : v > u} \in SUBSET {v \in S : v > t}
    <3>1. ASSUME NEW v \in S, v > u PROVE v > t
      BY <1>5, <3>1
    <3>. QED
      BY <3>1
  <2>2. {v \in S : v > u} # {v \in S : v > t}
    <3>1. u \in {v \in S : v > t} /\ u \notin {v \in S : v > u}
      BY <1>5
    <3>. QED
      BY <3>1
  <2>3. Cardinality({v \in S : v > u}) <= Cardinality({v \in S : v > t})
    BY <1>2, <2>1, FS_Subset
  <2>4. Cardinality({v \in S : v > u}) # Cardinality({v \in S : v > t})
    BY <1>2, <2>1, <2>2, FS_Subset
  <2>. QED
    BY <1>2, <2>3, <2>4 DEF Newer
<1>. QED
  BY <1>2, <1>3, <1>4, <1>5

LEMMA PageOfRows ==
    ASSUME NEW n \in Nat, NEW S \in SUBSET (1..n), NEW p \in Nat \ {0}
    PROVE  /\ Page(S, p) = {t \in S : Newer(S, t) \in (p - 1) * Limit .. p * Limit - 1}
           /\ IsFiniteSet(Page(S, p))
           /\ Cardinality(Page(S, p)) \in 0..Limit
           /\ Page(S, p) # {} => Cardinality(S) >= (p - 1) * Limit + Cardinality(Page(S, p))
<1>1. Page(S, p) = {t \in S : Newer(S, t) \in (p - 1) * Limit .. p * Limit - 1}
  BY DEF Page, Newer
<1>2. PICK a \in Nat, b \in Nat : a = (p - 1) * Limit /\ b = p * Limit - 1 /\ b - a + 1 = Limit
  <2>1. (p - 1) * Limit \in Nat /\ p * Limit - 1 \in Nat
    BY LimitAssumption
  <2>2. p * Limit - 1 - (p - 1) * Limit + 1 = Limit
    BY LimitAssumption
  <2>. QED
    BY <2>1, <2>2
<1>3. IsFiniteSet(a..b) /\ Cardinality(a..b) = Limit
  <2>1. a <= b
    BY <1>2, LimitAssumption
  <2>. QED
    BY <1>2, <2>1, FS_Interval
<1>. DEFINE f == [t \in Page(S, p) |-> Newer(S, t)]
<1>4. f \in [Page(S, p) -> a..b]
  BY <1>1, <1>2
<1>5. ASSUME NEW t \in Page(S, p), NEW u \in Page(S, p), t # u
      PROVE  f[t] # f[u]
  <2>1. t \in S /\ u \in S /\ t \in 1..n /\ u \in 1..n
    BY <1>1
  <2>2. Newer(S, t) \in Nat /\ Newer(S, u) \in Nat
    BY <2>1, NewerRows
  <2>3. Newer(S, t) < Newer(S, u) \/ Newer(S, u) < Newer(S, t)
    BY <1>5, <2>1, NewerRows
  <2>. QED
    BY <2>2, <2>3
<1>. HIDE DEF f
<1>6. f \in Injection(Page(S, p), a..b)
  BY <1>4, <1>5 DEF Injection, IsInjective
<1>7. IsFiniteSet(Page(S, p)) /\ Cardinality(Page(S, p)) \in 0..Limit
  BY <1>3, <1>6, FS_Injection, FS_CardinalityType
<1>8. ASSUME Page(S, p) # {}
      PROVE  Cardinality(S) >= a + Cardinality(Page(S, p))
  <2>1. PICK c \in Nat : c = Cardinality(S)
    BY FiniteRows
  <2>2. ASSUME NEW t \in Page(S, p) PROVE f[t] \in a..(c - 1)
    <3>1. t \in S /\ t \in 1..n /\ f[t] = Newer(S, t) /\ f[t] \in a..b
      BY <1>1, <1>4 DEF f
    <3>2. Newer(S, t) \in Nat /\ Newer(S, t) + 1 <= Cardinality(S)
      BY <3>1, NewerRows
    <3>. QED
      BY <1>2, <2>1, <3>1, <3>2
  <2>3. a <= c - 1
    BY <1>2, <1>8, <2>1, <2>2
  <2>4. IsFiniteSet(a..(c - 1)) /\ Cardinality(a..(c - 1)) = c - a
    <3>1. c - 1 \in Int /\ a \in Int /\ (c - 1) - a + 1 = c - a
      BY <1>2, <2>1
    <3>. QED
      BY <2>3, <3>1, FS_Interval
  <2>5. f \in Injection(Page(S, p), a..(c - 1))
    BY <1>4, <1>5, <2>2 DEF Injection, IsInjective
  <2>6. Cardinality(Page(S, p)) <= c - a
    BY <2>4, <2>5, FS_Injection
  <2>. QED
    BY <1>2, <1>7, <2>1, <2>6
<1>. QED
  BY <1>1, <1>2, <1>7, <1>8

-----------------------------------------------------------------------------
(* The invariant.                                                           *)

\* What matches is finite, within the rows there are.
LEMMA MatchedRows ==
    ASSUME TypeOK
    PROVE  /\ now \in Nat /\ now <= MaxTime
           /\ Matched \in SUBSET (1..now)
           /\ IsFiniteSet(Matched)
           /\ Cardinality(Matched) \in 0..MaxTime
<1>1. now \in Nat /\ now <= MaxTime /\ DOMAIN status \subseteq 1..now
  BY LimitAssumption DEF TypeOK
<1>2. /\ Matched \in SUBSET (1..now) /\ IsFiniteSet(Matched)
      /\ Cardinality(Matched) \in 0..now
  BY <1>1, MatchingRows DEF Matched
<1>. QED
  BY <1>1, <1>2, LimitAssumption

LEMMA InitIInv == Init => IInv
<1> SUFFICES ASSUME Init PROVE IInv
  OBVIOUS
<1>. USE LimitAssumption DEF Init
<1>1. TypeOK
  <2>1. DOMAIN status = {} /\ now \in 0..MaxTime /\ asked \in 0..now /\ page \in 1..(MaxTime + 1)
    OBVIOUS
  <2>2. Cardinality(data) <= Limit
    BY FS_EmptySet
  <2>. QED
    BY <2>1, <2>2 DEF TypeOK
<1>2. Begun /\ Owed /\ Filled
  BY DEF Begun, Owed, NoneMissed, Filled, PageWithinTotal
<1>. QED
  BY <1>1, <1>2 DEF IInv

LEMMA BeginKeepsIInv == ASSUME IInv, Begin PROVE IInv'
<1>1. /\ pc = "idle" /\ pc' = "rows" /\ page' = 1 /\ data' = {} /\ asked' = now
      /\ expected' = Matched'
      /\ UNCHANGED <<now, status, query, page, data, totalPages, seen, shrunk, slipped>>
  BY DEF Begin, IInv, Begun, Matched
<1>2. TypeOK'
  <2>1. expected' \subseteq 1..now
    BY <1>1, MatchedRows, MatchingRows DEF IInv, TypeOK, Matched
  <2>2. now \in 0..now
    BY MatchedRows DEF IInv
  <2>. QED
    BY <1>1, <2>1, <2>2 DEF IInv, TypeOK
<1>3. Owed'
  <2>1. ASSUME NEW t \in expected' PROVE Newer(Matched', t) \in Nat
    <3>1. /\ now \in Nat /\ DOMAIN status \subseteq 1..now
          /\ Matched' = Matching(query, status, now)
      BY <1>1, MatchedRows DEF IInv, TypeOK, Matched
    <3>2. Matched' \in SUBSET (1..now)
      BY <3>1, MatchingRows
    <3>. QED
      BY <1>1, <2>1, <3>1, <3>2, NewerRows
  <2>2. Read' * Limit = 0
    BY <1>1, LimitAssumption DEF Read
  <2>. QED
    BY <1>1, <2>1, <2>2 DEF Owed, NoneMissed, Newer
<1>4. Begun' /\ Filled'
  BY <1>1 DEF IInv, Begun, Filled, PageWithinTotal
<1>. QED
  BY <1>2, <1>3, <1>4 DEF IInv

LEMMA FindRowsKeepsIInv == ASSUME IInv, FindRows PROVE IInv'
<1>1. /\ pc = "rows" /\ pc' = "total"
      /\ data' = Page(Matched, page) /\ seen' = seen \cup data' /\ slipped' = {}
      /\ UNCHANGED <<now, status, query, page, asked, totalPages, expected, shrunk>>
  BY DEF FindRows, Matched
<1>2. /\ now \in Nat /\ Matched \in SUBSET (1..now) /\ IsFiniteSet(Matched)
      /\ Cardinality(Matched) \in Nat /\ page \in Nat \ {0}
  BY MatchedRows, LimitAssumption DEF IInv, TypeOK
<1>3. /\ data' = {t \in Matched : Newer(Matched, t) \in (page - 1) * Limit .. page * Limit - 1}
      /\ Cardinality(data') <= Limit
      /\ data' # {} => Cardinality(Matched) >= (page - 1) * Limit + Cardinality(data')
  BY <1>1, <1>2, PageOfRows
<1>4. \A t \in Matched : Newer(Matched, t) \in Nat /\ Newer(Matched, t) + 1 <= Cardinality(Matched)
  BY <1>2, NewerRows
<1>5. (page - 1) * Limit \in Nat /\ page * Limit \in Nat
  BY <1>2, LimitAssumption
<1>6. TypeOK'
  BY <1>1, <1>2, <1>3 DEF IInv, TypeOK
<1>7. Matched' = Matched
  BY <1>1 DEF Matched
<1>8. ASSUME ~shrunk, NEW t \in expected, t \notin seen'
      PROVE  Newer(Matched, t) >= page * Limit
  <2>1. t \in Matched /\ Newer(Matched, t) >= (page - 1) * Limit
    BY <1>1, <1>8 DEF IInv, Owed, Read
  <2>2. t \notin data'
    BY <1>1, <1>8
  <2>. QED
    BY <1>3, <1>4, <1>5, <2>1, <2>2
<1>9. Owed'
  BY <1>1, <1>7, <1>8 DEF IInv, Owed, Read, NoneMissed, Newer
<1>10. Begun' /\ Filled'
  <2>1. Matched' \cup slipped' = Matched
    BY <1>1, <1>7
  <2>. QED
    BY <1>1, <1>3, <2>1 DEF Begun, Filled, PageWithinTotal
<1>. QED
  BY <1>6, <1>9, <1>10 DEF IInv

LEMMA CountKeepsIInv == ASSUME IInv, Count PROVE IInv'
<1>1. /\ pc = "total" /\ pc' = "done"
      /\ totalPages' = Pages(Cardinality(Matched))
      /\ UNCHANGED <<now, status, query, page, asked, data, seen, expected, shrunk, slipped>>
  BY DEF Count, Matched
<1>2. /\ now \in Nat /\ Matched \in SUBSET (1..now) /\ page \in Nat \ {0}
      /\ Cardinality(Matched) \in 0..MaxTime
  BY MatchedRows, LimitAssumption DEF IInv, TypeOK
<1>3. /\ totalPages' \in 0..Cardinality(Matched)
      /\ Cardinality(Matched) <= totalPages' * Limit
      /\ Cardinality(Matched) >= (page - 1) * Limit + 1 => page <= totalPages'
  BY <1>1, <1>2, PagesOfRows
<1>4. TypeOK'
  BY <1>1, <1>2, <1>3, LimitAssumption DEF IInv, TypeOK
<1>5. Matched' = Matched
  BY <1>1 DEF Matched
<1>6. ASSUME page >= totalPages', ~shrunk, NEW t \in expected PROVE t \in seen
  <2>1. t \in Matched /\ (t \in seen \/ Newer(Matched, t) >= page * Limit)
    BY <1>1, <1>6 DEF IInv, Owed, Read
  <2>2. Newer(Matched, t) \in Nat /\ Newer(Matched, t) + 1 <= Cardinality(Matched)
    BY <1>2, <2>1, NewerRows
  <2>3. totalPages' * Limit <= page * Limit /\ totalPages' * Limit \in Nat /\ page * Limit \in Nat
    <3>1. /\ totalPages' \in Nat /\ page \in Nat /\ page >= totalPages'
          /\ Limit \in Nat
      BY <1>2, <1>3, <1>6, LimitAssumption
    <3>2. ASSUME NEW a \in Nat, NEW b \in Nat, b >= a
          PROVE  a * Limit <= b * Limit /\ a * Limit \in Nat /\ b * Limit \in Nat
      BY <3>1, <3>2
    <3>. QED
      BY <3>1, <3>2
  <2>. QED
    BY <1>2, <1>3, <2>1, <2>2, <2>3
<1>7. Owed'
  BY <1>1, <1>5, <1>6 DEF IInv, Owed, Read, NoneMissed, Newer
<1>8. PageWithinTotal'
  <2>. SUFFICES ASSUME data # {}
                PROVE  /\ (page - 1) * Limit + Cardinality(data)
                              <= totalPages' * Limit + Cardinality(slipped)
                       /\ query.status = Null => page <= totalPages'
    BY <1>1 DEF PageWithinTotal
  <2>1. IsFiniteSet(Matched) /\ IsFiniteSet(slipped) /\ IsFiniteSet(data)
    <3>1. Matched \subseteq 1..now /\ slipped \subseteq 1..now /\ data \subseteq 1..now
      BY <1>2 DEF IInv, TypeOK
    <3>. QED
      BY <1>2, <3>1, FiniteRows
  <2>2. PICK a \in Nat, m \in Nat, s \in Nat, d \in Nat \ {0} :
            /\ a = (page - 1) * Limit
            /\ m = Cardinality(Matched) /\ s = Cardinality(slipped) /\ d = Cardinality(data)
    <3>1. (page - 1) * Limit \in Nat
      BY <1>2, LimitAssumption
    <3>2. Cardinality(data) # 0
      BY <2>1, FS_EmptySet
    <3>. QED
      BY <2>1, <3>1, <3>2, FS_CardinalityType
  <2>3. Cardinality(Matched \cup slipped) \in Nat /\ Cardinality(Matched \cup slipped) <= m + s
    <3>1. /\ Cardinality(Matched \cup slipped) = m + s - Cardinality(Matched \cap slipped)
          /\ IsFiniteSet(Matched \cup slipped) /\ IsFiniteSet(Matched \cap slipped)
      BY <2>1, <2>2, FS_Union, FS_Intersection
    <3>2. Cardinality(Matched \cup slipped) \in Nat /\ Cardinality(Matched \cap slipped) \in Nat
      BY <3>1, FS_CardinalityType
    <3>. QED
      BY <2>2, <3>1, <3>2
  <2>4. Cardinality(Matched \cup slipped) >= a + d
    BY <1>1, <2>2 DEF IInv, Filled
  <2>5. PICK w \in Nat : w = totalPages' * Limit /\ m <= w
    <3>1. totalPages' \in Nat
      BY <1>2, <1>3
    <3>2. totalPages' * Limit \in Nat
      <4>1. \A k \in Nat : k * Limit \in Nat
        BY LimitAssumption
      <4>. QED
        BY <3>1, <4>1
    <3>. QED
      BY <1>3, <2>2, <3>2
  <2>6. a + d <= w + s
    BY <2>2, <2>3, <2>4, <2>5
  <2>7. ASSUME query.status = Null PROVE page <= totalPages'
    <3>1. Matched \cup slipped = Matched
      BY <2>7 DEF IInv, Filled
    <3>2. m >= a + d
      BY <2>2, <2>4, <3>1
    <3>3. m >= a + 1
      BY <2>2, <3>2
    <3>. QED
      BY <1>3, <2>2, <3>3
  <2>. QED
    BY <2>2, <2>5, <2>6, <2>7
<1>9. Begun' /\ Filled'
  BY <1>1, <1>8 DEF IInv, Begun, Filled
<1>. QED
  BY <1>4, <1>7, <1>9 DEF IInv

\* The counts of the rows that match only grow with them.
LEMMA MoreMatched ==
    ASSUME IInv, TypeOK', Matched \subseteq Matched', UNCHANGED expected, NEW t \in expected
    PROVE  Newer(Matched, t) \in Nat /\ Newer(Matched', t) \in Nat
           /\ Newer(Matched, t) <= Newer(Matched', t)
<1>1. now' \in Nat /\ DOMAIN status' \subseteq 1..now'
  BY LimitAssumption DEF TypeOK
<1>2. Matched' \in SUBSET (1..now')
  BY <1>1, MatchingRows DEF Matched
<1>3. t \in Matched /\ t \in Matched' /\ Matched \in SUBSET Matched'
  BY DEF IInv, Owed
<1>4. Newer(Matched', t) \in Nat /\ Newer(Matched, t) <= Newer(Matched', t)
  BY <1>1, <1>2, <1>3, NewerRows
<1>5. Newer(Matched, t) \in Nat
  BY <1>1, <1>2, <1>3, NewerRows
<1>. QED
  BY <1>4, <1>5

LEMMA NextPageKeepsIInv == ASSUME IInv, NextPage PROVE IInv'
<1>1. /\ pc = "done" /\ page < totalPages /\ pc' = "rows" /\ page' = page + 1 /\ asked' = now
      /\ slipped' = {}
      /\ UNCHANGED <<now, status, query, data, totalPages, seen, expected, shrunk>>
  BY DEF NextPage
<1>2. TypeOK'
  BY <1>1, LimitAssumption DEF IInv, TypeOK
<1>3. Matched \subseteq Matched'
  <2>1. Window(query, asked) \subseteq Window(query, now)
    BY WindowMonotone, MatchedRows DEF IInv, TypeOK
  <2>. QED
    BY <1>1, <2>1 DEF Matched, Matching
<1>4. Owed'
  <2>1. Read' = Read /\ Read * Limit \in Nat
    BY <1>1, LimitAssumption DEF Read, IInv, TypeOK
  <2>2. ASSUME ~shrunk, NEW t \in expected, t \notin seen
        PROVE  Newer(Matched', t) >= Read * Limit
    BY <1>1, <1>2, <1>3, <2>1, <2>2, MoreMatched DEF IInv, Owed
  <2>. QED
    BY <1>1, <1>3, <2>1, <2>2 DEF IInv, Owed, NoneMissed, Newer
<1>5. Begun' /\ Filled'
  BY <1>1 DEF Begun, Filled, PageWithinTotal
<1>. QED
  BY <1>2, <1>4, <1>5 DEF IInv

\* The rows change.  Unless a row stops matching, all that matched still does.
LEMMA RewriteKeepsIInv ==
    ASSUME IInv, NEW rows, DOMAIN status \subseteq DOMAIN rows, DOMAIN rows \subseteq 1..now,
           \A t \in DOMAIN rows : rows[t] \in Statuses, Rewrite(rows)
    PROVE  IInv'
<1>1. /\ UNCHANGED <<now, pc, query, page, asked, data, totalPages, seen>>
      /\ status' = rows /\ Matched' = Matching(query, rows, asked)
      /\ expected' = expected \cap Matched'
      /\ shrunk' = (shrunk \/ (pc # "idle" /\ ~(Matched \subseteq Matched')))
      /\ slipped' = IF pc = "total" THEN slipped \cup (Matched \ Matched') ELSE slipped
  BY DEF Rewrite, client, Matched
<1>2. TypeOK'
  BY <1>1, MatchedRows DEF IInv, TypeOK
<1>3. Begun'
  BY <1>1 DEF IInv, Begun
<1>4. Filled'
  <2>1. query.status = Null => slipped' = {}
    <3>1. query.status = Null => Matched \subseteq Matched'
      BY <1>1 DEF Matched, Matching
    <3>. QED
      BY <1>1, <3>1 DEF IInv, Filled
  <2>2. PageWithinTotal'
    BY <1>1 DEF IInv, Filled, PageWithinTotal
  <2>3. ASSUME pc = "total", data # {}
        PROVE  Cardinality(Matched' \cup slipped') >= (page - 1) * Limit + Cardinality(data)
    <3>1. Matched \cup slipped \subseteq Matched' \cup slipped'
      BY <1>1, <2>3
    <3>2. Matched' \cup slipped' \subseteq 1..now /\ now \in Nat
      BY <1>1, <1>2, MatchedRows DEF IInv, TypeOK, Matched, Matching
    <3>3. IsFiniteSet(Matched' \cup slipped')
      BY <3>2, FiniteRows
    <3>4. IsFiniteSet(Matched \cup slipped)
          /\ Cardinality(Matched \cup slipped) <= Cardinality(Matched' \cup slipped')
      BY <3>1, <3>3, FS_Subset
    <3>5. PICK n \in Nat, k \in Nat, b \in Nat :
              /\ n = Cardinality(Matched \cup slipped) /\ k = Cardinality(Matched' \cup slipped')
              /\ b = (page - 1) * Limit + Cardinality(data)
      <4>1. (page - 1) * Limit \in Nat /\ Cardinality(data) \in Nat
        <5>1. data \subseteq 1..now /\ page \in 1..(MaxTime + 1)
          BY DEF IInv, TypeOK
        <5>2. Cardinality(data) \in Nat
          BY <3>2, <5>1, FiniteRows
        <5>3. (page - 1) * Limit \in Nat
          BY <5>1, LimitAssumption
        <5>. QED
          BY <5>2, <5>3
      <4>. QED
        BY <3>3, <3>4, <4>1, FS_CardinalityType
    <3>. QED
      BY <2>3, <3>4, <3>5 DEF IInv, Filled
  <2>. QED
    BY <1>1, <2>1, <2>2, <2>3 DEF Filled
<1>5. CASE pc = "idle"
  BY <1>1, <1>2, <1>3, <1>5, <1>4 DEF IInv, Begun, Owed, NoneMissed
<1>6. CASE shrunk'
  BY <1>1, <1>2, <1>3, <1>6, <1>4 DEF IInv, Owed, NoneMissed
<1>7. CASE pc # "idle" /\ ~shrunk'
  <2>1. Matched \subseteq Matched' /\ ~shrunk
    BY <1>1, <1>7
  <2>2. expected \subseteq Matched /\ UNCHANGED expected
    BY <1>1, <2>1 DEF IInv, Owed
  <2>3. Read' = Read /\ Read * Limit \in Nat
    BY <1>1, LimitAssumption DEF Read, IInv, TypeOK
  <2>4. ASSUME NEW t \in expected, t \notin seen
        PROVE  Newer(Matched', t) >= Read * Limit
    BY <1>2, <2>1, <2>2, <2>3, <2>4, MoreMatched DEF IInv, Owed
  <2>5. Owed'
    BY <1>1, <2>1, <2>2, <2>3, <2>4 DEF IInv, Owed, NoneMissed, Newer
  <2>. QED
    BY <1>2, <1>3, <1>4, <2>5 DEF IInv
<1>. QED
  BY <1>5, <1>6, <1>7

LEMMA InsertKeepsIInv ==
    ASSUME IInv, NEW t \in Times, NEW s \in Statuses, Insert(t, s)
    PROVE  IInv'
<1>. DEFINE rows == [u \in DOMAIN status \cup {t} |-> IF u = t THEN s ELSE status[u]]
<1>1. Rewrite(rows) /\ t \in 1..now
  BY DEF Insert
<1>2. /\ DOMAIN status \subseteq DOMAIN rows /\ DOMAIN rows \subseteq 1..now
      /\ \A u \in DOMAIN rows : rows[u] \in Statuses
  BY <1>1 DEF IInv, TypeOK
<1>. HIDE DEF rows
<1>. QED
  BY <1>1, <1>2, RewriteKeepsIInv

LEMMA ChangeStatusKeepsIInv ==
    ASSUME IInv, NEW t \in Times, NEW s \in Statuses, ChangeStatus(t, s)
    PROVE  IInv'
<1>. DEFINE rows == [status EXCEPT ![t] = s]
<1>1. Rewrite(rows)
  BY DEF ChangeStatus
<1>2. /\ DOMAIN status \subseteq DOMAIN rows /\ DOMAIN rows \subseteq 1..now
      /\ \A u \in DOMAIN rows : rows[u] \in Statuses
  BY DEF IInv, TypeOK
<1>. HIDE DEF rows
<1>. QED
  BY <1>1, <1>2, RewriteKeepsIInv

LEMMA TickKeepsIInv == ASSUME IInv, Tick PROVE IInv'
<1>1. /\ now < MaxTime /\ now' = now + 1
      /\ UNCHANGED <<status, pc, query, page, asked, data, totalPages, seen, expected, shrunk,
                     slipped>>
  BY DEF Tick, client
<1>2. now \in Nat /\ now' \in 0..MaxTime /\ 1..now \subseteq 1..now' /\ 0..now \subseteq 0..now'
  BY <1>1, LimitAssumption DEF IInv, TypeOK
<1>3. TypeOK'
  BY <1>1, <1>2 DEF IInv, TypeOK
<1>. QED
  BY <1>1, <1>3 DEF IInv, Begun, Owed, Filled, NoneMissed, PageWithinTotal, Matched, Read, Newer

LEMMA NextKeepsIInv == IInv /\ [Next]_vars => IInv'
<1> SUFFICES ASSUME IInv, [Next]_vars PROVE IInv'
  OBVIOUS
<1>1. CASE UNCHANGED vars
  BY <1>1 DEF vars, client, IInv, TypeOK, Begun, Owed, Filled, NoneMissed, PageWithinTotal,
              Matched, Read, Newer
<1>2. CASE Next
  BY <1>2, BeginKeepsIInv, FindRowsKeepsIInv, CountKeepsIInv, NextPageKeepsIInv, TickKeepsIInv,
     InsertKeepsIInv, ChangeStatusKeepsIInv DEF Next
<1>. QED
  BY <1>1, <1>2

LEMMA SpecIInv == Spec => []IInv
BY InitIInv, NextKeepsIInv, PTL DEF Spec

-----------------------------------------------------------------------------
(* The theorems.                                                            *)

\* What the server answers stays within its types: no page has more rows than
\* asked for, and there are no more pages than rows (getUserProofs 78-100).
THEOREM ListingTypeCorrect == Spec => []TypeOK
<1>1. IInv => TypeOK
  BY DEF IInv
<1>. QED
  BY <1>1, SpecIInv, PTL

\* A walk over the pages misses no proof that matched all along, however many
\* are inserted meanwhile (getUserProofs 56-94).
THEOREM NoneEverMissed == Spec => []NoneMissed
<1>1. IInv => NoneMissed
  BY DEF IInv, Owed
<1>. QED
  BY <1>1, SpecIInv, PTL

\* The total of a response falls short of its page by no more rows than stopped
\* matching between the two queries, and without a status filter a page with rows
\* is always one of the pages counted (getUserProofs 78-92).
THEOREM PagesAlwaysWithinTotal == Spec => []PageWithinTotal
<1>1. IInv => PageWithinTotal
  BY DEF IInv, Filled
<1>. QED
  BY <1>1, SpecIInv, PTL
=============================================================================
