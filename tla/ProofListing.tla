----------------------------- MODULE ProofListing -----------------------------
(***************************************************************************)
(* GET /proofs: a client reads a user's proofs page by page, newest first, *)
(* while rows are inserted and change status.  Each page is two queries    *)
(* (findAndCount: the rows, then how many there are), and nothing holds    *)
(* the table still between them or between pages.                          *)
(*                                                                         *)
(* A row is named by its createdAt in microseconds, the precision of the   *)
(* column; JavaScript's Date, which queries and responses go through, has  *)
(* the milliseconds only.                                                  *)
(***************************************************************************)
EXTENDS Naturals, FiniteSets

CONSTANTS Statuses,
          Queries,      \* the filters a client may walk with
          Limit,        \* records per page
          Milli,        \* microseconds per millisecond, 1000 in the code
          MaxTime,      \* bound on time
          Null

Times == 1..MaxTime

Instants == {t \in 0..MaxTime : t % Milli = 0}

ASSUME LimitAssumption == Limit \in Nat \ {0} /\ Milli \in Nat \ {0} /\ MaxTime \in Nat

ASSUME QueryAssumption ==
    Queries \subseteq [status : Statuses \cup {Null},
                       fromDate : Instants \cup {Null}, toDate : Instants \cup {Null}]

VARIABLES
    now,        \* the time
    status,     \* the status of each row there is
    pc,         \* what the client waits for
    query,      \* its filters
    page,       \* the page it is at
    asked,      \* when its last request arrived
    data,       \* the rows of its last response
    totalPages, \* the number of pages of its last response
    seen,       \* all the rows it was shown
    expected,   \* the rows that matched when it began and ever since
    shrunk,     \* whether a row stopped matching since
    slipped     \* those that did between the two queries of its last response

client == <<pc, query, page, asked, data, totalPages, seen>>
vars   == <<now, status, client, expected, shrunk, slipped>>

TypeOK ==
    /\ now        \in 0..MaxTime
    /\ DOMAIN status \subseteq 1..now
    /\ \A t \in DOMAIN status : status[t] \in Statuses
    /\ pc         \in {"idle", "rows", "total", "done"}
    /\ query      \in Queries
    /\ page       \in 1..(MaxTime + 1)
    /\ asked      \in 0..now
    /\ data       \subseteq 1..now
    /\ Cardinality(data) <= Limit
    /\ totalPages \in 0..MaxTime
    /\ seen       \subseteq 1..now
    /\ expected   \subseteq 1..now
    /\ shrunk     \in BOOLEAN
    /\ slipped    \subseteq 1..now

Init ==
    /\ now        = 0
    /\ status     = <<>>
    /\ pc         = "idle"
    /\ query      \in Queries
    /\ page       = 1
    /\ asked      = 0
    /\ data       = {}
    /\ totalPages = 0
    /\ seen       = {}
    /\ expected   = {}
    /\ shrunk     = FALSE
    /\ slipped    = {}

-----------------------------------------------------------------------------
(* The query.                                                               *)

\* What a Date keeps of a time.
Shown(t) == t - (t % Milli)

\* One date given: the other is 1970 or the time of the request.
Window(q, time) ==
    IF q.fromDate = Null /\ q.toDate = Null THEN Times
    ELSE (IF q.fromDate = Null THEN 0 ELSE q.fromDate)
         .. (IF q.toDate = Null THEN Shown(time) ELSE q.toDate)

Matching(q, rows, time) ==
    {t \in DOMAIN rows \cap Window(q, time) : q.status \in {Null, rows[t]}}

\* Mutant: the last row is one too many, as with BETWEEN.
PageInclusive(S, p) ==
    LET newer(t) == Cardinality({u \in S : u > t})
    IN  {t \in S : newer(t) \in (p - 1) * Limit .. p * Limit}

\* Mutant: the offset counts from one.
PageSkippingOne(S, p) ==
    LET newer(t) == Cardinality({u \in S : u > t})
    IN  {t \in S : newer(t) \in (p - 1) * Limit + 1 .. p * Limit}

\* ORDER BY createdAt DESC OFFSET (p - 1) * limit LIMIT limit.
Page(S, p) ==
    LET newer(t) == Cardinality({u \in S : u > t})
    IN  {t \in S : newer(t) \in (p - 1) * Limit .. p * Limit - 1}

\* Mutant: the quotient is rounded down.
PagesRoundedDown(total) == total \div Limit

Pages(total) == (total + Limit - 1) \div Limit

-----------------------------------------------------------------------------
(* The client: page after page, until totalPages.                           *)

Begin ==
    /\ pc = "idle"
    /\ pc' = "rows"
    /\ asked' = now
    /\ expected' = Matching(query, status, now)
    /\ UNCHANGED <<now, status, query, page, data, totalPages, seen, shrunk, slipped>>

FindRows ==
    /\ pc = "rows"
    /\ pc' = "total"
    /\ data' = Page(Matching(query, status, asked), page)
    /\ seen' = seen \cup data'
    /\ slipped' = {}
    /\ UNCHANGED <<now, status, query, page, asked, totalPages, expected, shrunk>>

Count ==
    /\ pc = "total"
    /\ pc' = "done"
    /\ totalPages' = Pages(Cardinality(Matching(query, status, asked)))
    /\ UNCHANGED <<now, status, query, page, asked, data, seen, expected, shrunk, slipped>>

NextPage ==
    /\ pc = "done"
    /\ page < totalPages
    /\ pc' = "rows"
    /\ page' = page + 1
    /\ asked' = now
    /\ slipped' = {}
    /\ UNCHANGED <<now, status, query, data, totalPages, seen, expected, shrunk>>

-----------------------------------------------------------------------------
(* The table.                                                               *)

\* The rows that match change: what the client can still be owed.
Rewrite(rows) ==
    LET before == Matching(query, status, asked)
        after  == Matching(query, rows, asked)
    IN  /\ status' = rows
        /\ expected' = expected \cap after
        /\ shrunk' = (shrunk \/ (pc # "idle" /\ ~(before \subseteq after)))
        /\ slipped' = IF pc = "total" THEN slipped \cup (before \ after) ELSE slipped
        /\ UNCHANGED <<now, client>>

\* createdAt is when the transaction began: a row may appear among older ones.
Insert(t, s) ==
    /\ t \in 1..now \ DOMAIN status
    /\ Rewrite([u \in DOMAIN status \cup {t} |-> IF u = t THEN s ELSE status[u]])

ChangeStatus(t, s) ==
    /\ t \in DOMAIN status
    /\ Rewrite([status EXCEPT ![t] = s])

Tick ==
    /\ now < MaxTime
    /\ now' = now + 1
    /\ UNCHANGED <<status, client, expected, shrunk, slipped>>

Next ==
    \/ Begin \/ FindRows \/ Count \/ NextPage \/ Tick
    \/ \E t \in Times, s \in Statuses : Insert(t, s) \/ ChangeStatus(t, s)

Spec == Init /\ [][Next]_vars

-----------------------------------------------------------------------------
(* Properties.                                                              *)

\* A client that has read the last page was shown every proof that matched all
\* along, whatever was inserted or began to match meanwhile: unless a row
\* stopped matching, which moves later rows to a page already read
\* (getUserProofs 56-94).
NoneMissed ==
    pc = "done" /\ page >= totalPages /\ ~shrunk => expected \subseteq seen

\* The total of a response falls short of its own page, and of the pages before
\* it, by no more rows than stopped matching between its two queries: so a page that
\* has rows may lie beyond its own totalPages, but only if the client asks for a
\* status and a row changed it at that moment (78-92).  Whatever happened earlier
\* in the walk does not matter.
PageWithinTotal ==
    pc = "done" /\ data # {} =>
        /\ (page - 1) * Limit + Cardinality(data) <= totalPages * Limit + Cardinality(slipped)
        /\ query.status = Null => page <= totalPages

\* FINDING, violated.  Dates are inclusive (PROOFS_API.md:200-201): a proof
\* whose createdAt, as responses show it, is within both dates is one of those listed.
DatesInclusive ==
    pc = "rows" => \A t \in DOMAIN status :
        /\ t <= asked
        /\ query.status \in {Null, status[t]}
        /\ query.fromDate # Null => query.fromDate <= Shown(t)
        /\ query.toDate # Null => Shown(t) <= query.toDate
        => t \in Matching(query, status, asked)
=============================================================================
