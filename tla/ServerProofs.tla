----------------------------- MODULE ServerProofs -----------------------------
(***************************************************************************)
(* Proofs about Server, for any number of requests, sockets and attempts.  *)
(*                                                                         *)
(* The invariant says where the start is between two attempts (Pausing)    *)
(* and what it paused for so far (Spent), what a request has at each stage *)
(* (Placed), and that the counters count the requests that are labelled    *)
(* (Counted).                                                              *)
(***************************************************************************)
EXTENDS Server, FiniteSetTheorems, TLAPS

Pausing ==
    /\ phase = "create" => attempt = 0
    /\ phase = "connect" => attempt < Retries
    /\ phase = "pause" =>
           /\ attempt \in 1..Retries - 1
           /\ upFor + wait <= ExponentialDelay(attempt)

\* What n attempts pause for, all of the delays after them included.
Pauses(n) == Delay * (2^(n + 1) - 2)

\* The pauses so far are those of the attempts that failed.
Spent ==
    /\ phase \in {"create", "connect"} => paused = Pauses(attempt)
    /\ phase = "pause" => paused + wait = Pauses(attempt)
    /\ OutagesOutlived

\* What the checks of a request found was so at some moment of them.
Found(r, p) == checks[r][p] \in {"up", "down"} /\ <<p, checks[r][p]>> \in seen[r]

Placed(r) ==
    /\ pc[r] # "idle" => id[r] \in Ids
    /\ pc[r] \in {"database", "rpc"} =>
           route[r] = "health" /\ {<<"database", db>>, <<"stellarRpc", rpc>>} \subseteq seen[r]
    /\ pc[r] = "rpc" => Found(r, "database")
    /\ pc[r] = "handler" => route[r] \in Known \ {"health"}
    /\ pc[r] = "returned" =>
           /\ route[r] \in Known
           /\ route[r] = "health" => \A p \in Parts : Found(r, p)
    /\ pc[r] = "threw" => route[r] \in Known
    /\ pc[r] \in {"threw", "filter"} => thrown[r] # Null
    /\ pc[r] \in {"idle", "received", "database", "rpc", "handler", "returned"} => thrown[r] = Null
    /\ pc[r] = "done" =>
           /\ thrown[r] # Null => errorId[r] = id[r]
           /\ thrown[r] = Null /\ route[r] = "health" => \A p \in Parts : Found(r, p)
    /\ pc[r] \in {"idle", "received"} => r \notin entered
    /\ pc[r] \in {"database", "rpc", "handler", "returned", "threw"} => r \in entered
    /\ label[r] # Null <=> r \in entered /\ pc[r] \in {"filter", "done"}

Labelled == {r \in Requests : label[r] # Null}
With(p, s) == {r \in Requests : route[r] = p /\ label[r] = s}
Timed(p) == {r \in Requests : route[r] = p /\ label[r] # Null /\ thrown[r] = Null}

Counted ==
    /\ total  = Cardinality(Labelled)
    /\ \A p \in Known, s \in Statuses : counted[<<p, s>>] = Cardinality(With(p, s))
    /\ \A p \in Proofs : observed[p] = Cardinality(Timed(p))

IInv ==
    /\ TypeOK
    /\ Pausing
    /\ Spent
    /\ \A r \in Requests : Placed(r)
    /\ Counted
    /\ gauge = Cardinality(open)

-----------------------------------------------------------------------------
(* Powers of two.                                                           *)

\* With one element more a set has twice as many subsets.
LEMMA SubsetsDouble ==
    ASSUME NEW A, IsFiniteSet(A), NEW x, x \notin A
    PROVE  /\ Cardinality(SUBSET A) \in Nat
           /\ Cardinality(SUBSET (A \cup {x})) = 2 * Cardinality(SUBSET A)
<1>. DEFINE S == SUBSET A
            T == {B \in SUBSET (A \cup {x}) : x \in B}
            f == [B \in S |-> B \cup {x}]
<1>1. IsFiniteSet(S) /\ Cardinality(S) \in Nat
  BY FS_SUBSET, FS_CardinalityType
<1>2. SUBSET (A \cup {x}) = S \cup T /\ S \cap T = {}
  OBVIOUS
<1>3. f \in Bijection(S, T)
  <2>1. f \in [S -> T]
    OBVIOUS
  <2>2. ASSUME NEW B \in S, NEW C \in S, f[B] = f[C] PROVE B = C
    <3>1. x \notin B /\ x \notin C /\ B \cup {x} = C \cup {x}
      BY <2>2
    <3>. QED
      BY <3>1
  <2>3. ASSUME NEW C \in T PROVE \E B \in S : f[B] = C
    <3>1. C \ {x} \in S /\ (C \ {x}) \cup {x} = C
      OBVIOUS
    <3>. QED
      BY <3>1
  <2>. HIDE DEF f, S, T
  <2>. QED
    BY <2>1, <2>2, <2>3 DEF Bijection, Injection, IsInjective, Surjection
<1>. HIDE DEF f
<1>4. IsFiniteSet(T) /\ Cardinality(T) = Cardinality(S)
  BY <1>1, <1>3, FS_Bijection DEF ExistsBijection
<1>. HIDE DEF S, T
<1>5. Cardinality(S \cup T) = Cardinality(S) + Cardinality(T) - Cardinality(S \cap T)
  BY <1>1, <1>4, FS_Union
<1>6. Cardinality(S \cap T) = 0
  BY <1>2, FS_EmptySet
<1>7. SUBSET (A \cup {x}) = S \cup T
  BY <1>2
<1>8. Cardinality(S \cup T) = 2 * Cardinality(S)
  BY <1>1, <1>4, <1>5, <1>6
<1>. QED
  BY <1>1, <1>7, <1>8 DEF S

\* What is needed of powers, from the number of subsets of an interval.
LEMMA PowersOfTwo ==
    ASSUME NEW n \in Nat
    PROVE  2^n \in Nat /\ 2^(n + 1) = 2 * 2^n
<1>1. ASSUME NEW k \in Nat
      PROVE  /\ IsFiniteSet(1..k)
             /\ Cardinality(SUBSET (1..k)) = 2^k
  <2>1. IsFiniteSet(1..k) /\ Cardinality(1..k) = k
    BY FS_Interval
  <2>. QED
    BY <2>1, FS_SUBSET
<1>2. 1..(n + 1) = (1..n) \cup {n + 1} /\ n + 1 \notin 1..n
  OBVIOUS
<1>3. Cardinality(SUBSET (1..(n + 1))) = 2 * Cardinality(SUBSET (1..n))
      /\ Cardinality(SUBSET (1..n)) \in Nat
  BY <1>1, <1>2, SubsetsDouble
<1>4. n + 1 \in Nat
  OBVIOUS
<1>. QED
  BY <1>1, <1>3, <1>4

LEMMA PowersGrow ==
    ASSUME NEW m \in Nat, NEW n \in Nat, m <= n
    PROVE  2^m <= 2^n
<1>1. IsFiniteSet(SUBSET (1..n)) /\ Cardinality(SUBSET (1..n)) = 2^n /\ Cardinality(SUBSET (1..m)) = 2^m
  <2>1. ASSUME NEW k \in Nat 
        PROVE IsFiniteSet(1..k) /\ Cardinality(1..k) = k
    BY FS_Interval
  <2>. QED
    BY <2>1, FS_SUBSET
<1>2. SUBSET (1..m) \in SUBSET (SUBSET (1..n))
  <2>1. 1..m \subseteq 1..n
    OBVIOUS
  <2>. QED
    BY <2>1
<1>. QED
  BY <1>1, <1>2, FS_Subset

\* Every delay is a whole number of units, and the last is the longest.
LEMMA DelaysGrow ==
    ASSUME NEW n \in 1..Retries - 1
    PROVE  ExponentialDelay(n) \in 0..ExponentialDelay(Retries - 1)
<1>1. n \in Nat /\ Retries - 1 \in Nat /\ n <= Retries - 1
  BY RetryAssumption
<1>2. PICK a \in Nat, b \in Nat : a = 2^n /\ b = 2^(Retries - 1) /\ a <= b
  BY <1>1, PowersOfTwo, PowersGrow
<1>3. Delay * a \in Nat /\ Delay * b \in Nat /\ Delay * a <= Delay * b
  BY <1>2, DelayAssumption
<1>. QED
  BY <1>2, <1>3 DEF ExponentialDelay

\* One attempt more pauses for one delay more.
LEMMA PausesAddUp ==
    /\ Pauses(0) = 0
    /\ \A n \in Nat : /\ Pauses(n) \in Int
                     /\ ExponentialDelay(n + 1) \in Int
                     /\ Pauses(n + 1) = Pauses(n) + ExponentialDelay(n + 1)
<1>1. Pauses(0) = 0
  <2>1. 2^(0 + 1) - 2 = 0
    <3>1. 2^0 = 1 /\ 2^(0 + 1) = 2 * 2^0
      BY PowersOfTwo
    <3>. QED
      BY <3>1
  <2>. QED
    BY <2>1, DelayAssumption DEF Pauses
<1>2. ASSUME NEW n \in Nat
      PROVE  /\ Pauses(n) \in Int /\ ExponentialDelay(n + 1) \in Int
             /\ Pauses(n + 1) = Pauses(n) + ExponentialDelay(n + 1)
  <2>1. PICK p \in Nat : p = 2^(n + 1) /\ 2^((n + 1) + 1) = 2 * p
    <3>1. n + 1 \in Nat
      OBVIOUS
    <3>. QED
      BY <3>1, PowersOfTwo
  <2>2. /\ Delay * (2 * p - 2) = Delay * (p - 2) + Delay * p
        /\ Delay * (p - 2) \in Int /\ Delay * p \in Int
    BY DelayAssumption
  <2>. QED
    BY <2>1, <2>2 DEF Pauses, ExponentialDelay
<1>. QED
  BY <1>1, <1>2

-----------------------------------------------------------------------------
LEMMA InitIInv == Init => IInv
<1> SUFFICES ASSUME Init PROVE IInv
  OBVIOUS
<1>1. TypeOK
  BY RetryAssumption DEF Init, StartInit, TypeOK, StartTypeOK, Phases, Labels, Parts, Findings,
     Statuses
<1>2. Pausing
  BY DEF Init, StartInit, Pausing
<1>3. \A r \in Requests : Placed(r)
  BY DEF Init, Placed
<1>4. /\ Labelled = {}
      /\ \A p \in Known, s \in Statuses : With(p, s) = {}
      /\ \A p \in Proofs : Timed(p) = {}
  BY NullAssumption DEF Init, Labelled, With, Timed
<1>5. Counted /\ gauge = Cardinality(open)
  BY <1>4, FS_EmptySet DEF Init, Counted, Known, Proofs
<1>6. Spent
  BY RetryAssumption, PausesAddUp DEF Init, StartInit, Spent, OutagesOutlived
<1>. QED
  BY <1>1, <1>2, <1>3, <1>5, <1>6 DEF IInv

-----------------------------------------------------------------------------
(* The start.                                                               *)

LEMMA StartKeepsPausing ==
    ASSUME StartTypeOK, Pausing, StartNext
    PROVE  StartTypeOK' /\ Pausing'
<1>. USE RetryAssumption DEF StartTypeOK, Pausing, Phases
<1>1. CASE Create
  BY <1>1 DEF Create
<1>2. CASE Connect
  BY <1>2 DEF Connect
<1>3. CASE ConnectFails
  <2>1. attempt' \in 1..Retries
    BY <1>3 DEF ConnectFails
  <2>2. CASE attempt' >= Retries
    BY <1>3, <2>1, <2>2 DEF ConnectFails
  <2>3. CASE ~(attempt' >= Retries)
    <3>1. attempt' \in 1..Retries - 1
      BY <2>1, <2>3
    <3>2. ExponentialDelay(attempt') \in Nat
      BY <3>1, DelaysGrow
    <3>3. wait' = ExponentialDelay(attempt') /\ upFor' = 0 /\ phase' = "pause"
          /\ UNCHANGED <<db, redis, paused>>
      BY <1>3, <2>3 DEF ConnectFails
    <3>4. upFor' + wait' <= ExponentialDelay(attempt')
      BY <3>2, <3>3
    <3>. QED
      BY <3>1, <3>2, <3>3, <3>4
  <2>. QED
    BY <2>2, <2>3
<1>4. CASE Tick
  <2>1. PICK e \in Nat : e = ExponentialDelay(attempt) /\ upFor + wait <= e
    BY <1>4, DelaysGrow DEF Tick
  <2>2. /\ wait \in Nat /\ upFor \in Nat /\ wait > 0 /\ wait' = wait - 1
        /\ upFor' = upFor + 1 \/ upFor' = 0
    BY <1>4 DEF Tick
  <2>3. wait' \in Nat /\ upFor' \in Nat /\ upFor' + wait' <= e
    <3>1. CASE upFor' = 0
      BY <2>1, <2>2, <3>1
    <3>2. CASE upFor' = upFor + 1
      BY <2>1, <2>2, <3>2
    <3>. QED
      BY <2>2, <3>1, <3>2
  <2>4. ExponentialDelay(attempt)' = ExponentialDelay(attempt)
    BY <1>4 DEF Tick, ExponentialDelay
  <2>. QED
    BY <1>4, <2>1, <2>2, <2>3, <2>4 DEF Tick
<1>5. CASE Retry
  BY <1>5 DEF Retry
<1>6. CASE QueueSettles
  BY <1>6 DEF QueueSettles
<1>7. CASE DatabaseChanges \/ RedisChanges
  <2>1. /\ db' \in {"up", "down"} /\ redis' \in {"up", "down", "unfit"}
        /\ upFor' \in {0, upFor}
        /\ UNCHANGED <<phase, attempt, wait, paused>>
    BY <1>7 DEF DatabaseChanges, RedisChanges
  <2>2. phase = "pause" => upFor' + wait <= ExponentialDelay(attempt)
    <3>1. ASSUME phase = "pause" PROVE ExponentialDelay(attempt) \in Nat
      BY <3>1, DelaysGrow
    <3>. QED
      BY <2>1, <3>1
  <2>3. ExponentialDelay(attempt)' = ExponentialDelay(attempt)
    BY <2>1 DEF ExponentialDelay
  <2>. QED
    BY <2>1, <2>2, <2>3
<1>8. CASE Signal
  BY <1>8 DEF Signal
<1>. QED
  BY <1>1, <1>2, <1>3, <1>4, <1>5, <1>6, <1>7, <1>8 DEF StartNext, Bootstrap

LEMMA StartKeepsSpent ==
    ASSUME StartTypeOK, Pausing, Spent, StartNext
    PROVE  Spent'
<1>. USE RetryAssumption DEF StartTypeOK, Pausing, Phases
<1>1. \A n \in Nat : Pauses(n) \in Int
  BY PausesAddUp
<1>2. CASE Create
  BY <1>2 DEF Create, Spent, OutagesOutlived, Pauses
<1>3. CASE Connect
  BY <1>3, PausesAddUp DEF Connect, Spent, OutagesOutlived
<1>4. CASE ConnectFails
  <2>1. /\ attempt \in Nat /\ attempt < Retries /\ attempt' = attempt + 1
        /\ paused' = paused /\ paused = Pauses(attempt)
    BY <1>4 DEF ConnectFails, Spent
  <2>2. Pauses(attempt') = paused + ExponentialDelay(attempt') /\ ExponentialDelay(attempt') \in Int
    BY <2>1, PausesAddUp
  <2>3. CASE attempt' >= Retries
    <3>1. attempt' = Retries /\ phase' = "ended"
      BY <1>4, <2>1, <2>3 DEF ConnectFails
    <3>2. paused = Delay * (2^Retries - 2)
      BY <2>1, <3>1 DEF Pauses
    <3>. QED
      BY <2>1, <3>1, <3>2 DEF Spent, OutagesOutlived
  <2>4. CASE ~(attempt' >= Retries)
    <3>1. phase' = "pause" /\ wait' = ExponentialDelay(attempt') /\ attempt' # Retries
      BY <1>4, <2>1, <2>4 DEF ConnectFails
    <3>2. paused' + wait' = Pauses(attempt')
      BY <2>1, <2>2, <3>1
    <3>3. Pauses(attempt)' = Pauses(attempt')
      BY DEF Pauses
    <3>. QED
      BY <3>1, <3>2, <3>3 DEF Spent, OutagesOutlived
  <2>. QED
    BY <2>3, <2>4
<1>5. CASE Tick \/ Retry
  <2>1. /\ phase = "pause" /\ attempt \in Nat /\ attempt # Retries /\ UNCHANGED attempt
        /\ paused + wait = Pauses(attempt)
    BY <1>5 DEF Tick, Retry, Spent
  <2>2. /\ phase' = "pause" => paused' + wait' = paused + wait
        /\ phase' \in {"create", "connect"} => paused' = paused + wait
        /\ phase' \in {"pause", "connect"}
    BY <1>5 DEF Tick, Retry
  <2>3. Pauses(attempt)' = Pauses(attempt)
    BY <2>1 DEF Pauses
  <2>. QED
    BY <2>1, <2>2, <2>3 DEF Spent, OutagesOutlived
<1>6. CASE QueueSettles \/ DatabaseChanges \/ RedisChanges \/ Signal
  <2>1. /\ UNCHANGED <<attempt, wait, paused>>
        /\ phase' \in {phase, "listening", "ended"}
    BY <1>6 DEF QueueSettles, DatabaseChanges, RedisChanges, Signal
  <2>2. Pauses(attempt)' = Pauses(attempt)
    BY <2>1 DEF Pauses
  <2>. QED
    BY <2>1, <2>2 DEF Spent, OutagesOutlived
<1>. QED
  BY <1>2, <1>3, <1>4, <1>5, <1>6 DEF StartNext, Bootstrap

LEMMA StartUnchanged ==
    ASSUME StartTypeOK, Pausing, Spent, UNCHANGED startVars
    PROVE  StartTypeOK' /\ Pausing' /\ Spent'
  BY DEF StartTypeOK, Pausing, Spent, OutagesOutlived, Pauses, ExponentialDelay, startVars

-----------------------------------------------------------------------------
(* A step of the environment leaves every request where it is.              *)

\* The interceptor is called by Enter.
LEMMA EnteredChange ==
    ASSUME Watch, NEW q \in Requests
    PROVE  q \in entered' <=> q \in entered \/ pc'[q] \in {"database", "handler"}
  BY DEF Watch

LEMMA WatchedStaysPlaced ==
    ASSUME IInv, NEW q \in Requests, Watch,
           pc'[q] = pc[q], route'[q] = route[q], id'[q] = id[q], thrown'[q] = thrown[q],
           errorId'[q] = errorId[q], checks'[q] = checks[q], label'[q] = label[q]
    PROVE  Placed(q)'
<1>1. seen'[q] = IF pc'[q] \in {"database", "rpc"}
                 THEN seen[q] \cup {<<"database", db'>>, <<"stellarRpc", rpc'>>}
                 ELSE seen[q]
  BY DEF Watch
<1>2. Placed(q)
  BY DEF IInv
<1>3. \A p \in Parts : Found(q, p) => Found(q, p)'
  BY <1>1 DEF Found
<1>4. q \in entered' <=> q \in entered
  BY <1>2, EnteredChange DEF Placed
<1>. QED
  BY <1>1, <1>2, <1>3, <1>4 DEF Placed, Parts

LEMMA WatchTyped ==
    ASSUME IInv, Watch, db' \in {"up", "down"}, rpc' \in {"up", "down"}
    PROVE  /\ seen' \in [Requests -> SUBSET (Parts \X Findings)]
           /\ entered' \subseteq Requests
  BY DEF IInv, TypeOK, Watch, Parts, Findings

LEMMA StillCounted ==
    ASSUME IInv, UNCHANGED <<label, metricVars>>,
           \A q \in Requests : label[q] # Null => route'[q] = route[q] /\ thrown'[q] = thrown[q]
    PROVE  Counted'
<1>1. Labelled' = Labelled
  BY DEF Labelled
<1>2. \A p \in Known, s \in Statuses : With(p, s)' = With(p, s)
  BY NullAssumption DEF With
<1>3. \A p \in Proofs : Timed(p)' = Timed(p)
  BY DEF Timed
<1>. QED
  BY <1>1, <1>2, <1>3 DEF IInv, Counted, metricVars

LEMMA SurroundingsKeepIInv ==
    ASSUME IInv, Watch, StartTypeOK', Pausing', Spent', rpc' \in {"up", "down"},
           UNCHANGED <<progressVars, metricVars>>,
           open' \subseteq Sockets, gauge' \in Nat, gauge' = Cardinality(open')
    PROVE  IInv'
<1>1. \A r \in Requests : Placed(r)'
  BY WatchedStaysPlaced DEF progressVars
<1>2. Counted'
  BY StillCounted DEF progressVars
<1>3. TypeOK'
  BY WatchTyped DEF IInv, TypeOK, progressVars, metricVars, StartTypeOK
<1>. QED
  BY <1>1, <1>2, <1>3 DEF IInv

LEMMA SocketsKeepIInv ==
    ASSUME IInv, SocketNext, Watch
    PROVE  IInv'
<1>1. open' \subseteq Sockets /\ gauge' = Cardinality(open')
  BY DEF SocketNext, Open, Close, IInv, TypeOK
<1>2. gauge' \in Nat
  BY <1>1, FinitenessAssumption, FS_Subset, FS_CardinalityType
<1>3. UNCHANGED <<startVars, rpc, progressVars, metricVars>>
  BY DEF SocketNext
<1>4. StartTypeOK' /\ Pausing' /\ Spent'
  BY <1>3, StartUnchanged DEF IInv, TypeOK
<1>5. rpc' \in {"up", "down"}
  BY <1>3 DEF IInv, TypeOK
<1>. QED
  BY <1>1, <1>2, <1>3, <1>4, <1>5, SurroundingsKeepIInv

-----------------------------------------------------------------------------
(* A step of one request.                                                   *)

ProgressTypeOK ==
    /\ pc      \in [Requests -> Labels]
    /\ route   \in [Requests -> Routes \cup {Null}]
    /\ id      \in [Requests -> Ids \cup {Null}]
    /\ code    \in [Requests -> Statuses]
    /\ thrown  \in [Requests -> Statuses \cup {Null}]
    /\ errorId \in [Requests -> Ids \cup {Null}]
    /\ checks  \in [Requests -> [Parts -> Findings]]
    /\ label   \in [Requests -> Statuses \cup {Null}]

MetricTypeOK ==
    /\ total    \in Nat
    /\ errors   \in 0..total
    /\ counted  \in [Known \X Statuses -> 0..total]
    /\ observed \in [Known -> 0..total]

LEMMA StepKeepsIInv ==
    ASSUME IInv, NEW r \in Requests, Watch, UNCHANGED <<startVars, rpc, socketVars>>,
           ProgressTypeOK', MetricTypeOK', Placed(r)', Counted',
           \A q \in Requests \ {r} :
               /\ pc'[q] = pc[q] /\ route'[q] = route[q] /\ id'[q] = id[q]
               /\ thrown'[q] = thrown[q] /\ errorId'[q] = errorId[q]
               /\ checks'[q] = checks[q] /\ label'[q] = label[q]
    PROVE  IInv'
<1>1. \A q \in Requests : Placed(q)'
  <2> SUFFICES ASSUME NEW q \in Requests, q # r PROVE Placed(q)'
    OBVIOUS
  <2>. QED
    BY WatchedStaysPlaced
<1>2. StartTypeOK' /\ Pausing' /\ Spent'
  BY StartUnchanged DEF IInv, TypeOK
<1>3. db' \in {"up", "down"} /\ rpc' \in {"up", "down"}
  BY DEF IInv, TypeOK, StartTypeOK, startVars
<1>4. seen' \in [Requests -> SUBSET (Parts \X Findings)] /\ entered' \subseteq Requests
  BY <1>3, WatchTyped
<1>5. open' \subseteq Sockets /\ gauge' \in Nat /\ gauge' = Cardinality(open')
  BY DEF IInv, TypeOK, socketVars
<1>6. TypeOK'
  BY <1>2, <1>3, <1>4, <1>5 DEF TypeOK, ProgressTypeOK, MetricTypeOK
<1>. QED
  BY <1>1, <1>2, <1>5, <1>6 DEF IInv

\* One that counts nothing.
LEMMA QuietStepKeepsIInv ==
    ASSUME IInv, NEW r \in Requests, Watch, UNCHANGED <<startVars, rpc, socketVars>>,
           UNCHANGED <<label, metricVars>>, ProgressTypeOK', Placed(r)',
           (route'[r] = route[r] /\ thrown'[r] = thrown[r]) \/ label[r] = Null,
           \A q \in Requests \ {r} :
               /\ pc'[q] = pc[q] /\ route'[q] = route[q] /\ id'[q] = id[q]
               /\ thrown'[q] = thrown[q] /\ errorId'[q] = errorId[q]
               /\ checks'[q] = checks[q]
    PROVE  IInv'
<1>1. Counted'
  BY StillCounted
<1>2. MetricTypeOK'
  BY DEF IInv, TypeOK, MetricTypeOK, metricVars
<1>. QED
  BY <1>1, <1>2, StepKeepsIInv

LEMMA ReceiveKeepsIInv ==
    ASSUME IInv, NEW r \in Requests, Receive(r), Watch, UNCHANGED <<startVars, rpc, socketVars>>
    PROVE  IInv'
<1>1. PICK rt \in Routes, i \in Ids :
          route' = [route EXCEPT ![r] = rt] /\ id' = [id EXCEPT ![r] = i]
  BY DEF Receive
<1>2. /\ pc[r] = "idle" /\ pc' = [pc EXCEPT ![r] = "received"]
      /\ UNCHANGED <<code, thrown, errorId, checks, label, metricVars>>
  BY DEF Receive, Goto
<1>3. ProgressTypeOK'
  BY <1>1, <1>2 DEF IInv, TypeOK, ProgressTypeOK, Labels
<1>4. Placed(r)'
  BY <1>1, <1>2, EnteredChange DEF IInv, TypeOK, Placed
<1>5. label[r] = Null
  BY <1>2 DEF IInv, Placed
<1>. QED
  BY <1>1, <1>2, <1>3, <1>4, <1>5, QuietStepKeepsIInv DEF IInv, TypeOK

LEMMA TurnKeepsIInv ==
    ASSUME IInv, NEW r \in Requests, Turn(r), Watch, UNCHANGED <<startVars, rpc, socketVars>>
    PROVE  IInv'
<1>1. PICK s \in Statuses : thrown' = [thrown EXCEPT ![r] = s]
  <2>1. PICK s \in {400, 500} \cup (IF route[r] = "nowhere" THEN {404} ELSE {}) :
            thrown' = [thrown EXCEPT ![r] = s]
    BY DEF Turn
  <2>2. s \in Statuses
    BY <2>1 DEF Statuses
  <2>. QED
    BY <2>1, <2>2
<1>2. /\ pc[r] = "received" /\ pc' = [pc EXCEPT ![r] = "filter"]
      /\ UNCHANGED <<route, id, code, errorId, checks, label, metricVars>>
  BY DEF Turn, Goto
<1>3. ProgressTypeOK'
  BY <1>1, <1>2 DEF IInv, TypeOK, ProgressTypeOK, Labels
<1>4. Placed(r)'
  BY <1>1, <1>2, NullAssumption, EnteredChange DEF IInv, TypeOK, Placed
<1>5. label[r] = Null
  BY <1>2 DEF IInv, Placed
<1>. QED
  BY <1>1, <1>2, <1>3, <1>4, <1>5, QuietStepKeepsIInv DEF IInv, TypeOK

LEMMA EnterKeepsIInv ==
    ASSUME IInv, NEW r \in Requests, Enter(r), Watch, UNCHANGED <<startVars, rpc, socketVars>>
    PROVE  IInv'
<1>1. PICK l \in {"database", "handler"} :
          /\ l = "database" <=> route[r] = "health"
          /\ pc' = [pc EXCEPT ![r] = l]
  BY DEF Enter, Goto
<1>2. /\ pc[r] = "received" /\ route[r] \in Known
      /\ code' = [code EXCEPT ![r] = SuccessStatus(route[r])]
      /\ UNCHANGED <<route, id, thrown, errorId, checks, label, metricVars>>
  BY DEF Enter
<1>3. ProgressTypeOK'
  BY <1>1, <1>2 DEF IInv, TypeOK, ProgressTypeOK, Labels, SuccessStatus, Statuses
<1>4. l = "database" => {<<"database", db'>>, <<"stellarRpc", rpc'>>} \subseteq seen'[r]
  BY <1>1 DEF Watch, IInv, TypeOK
<1>5. Placed(r)'
  BY <1>1, <1>2, <1>4, EnteredChange DEF IInv, TypeOK, Placed
<1>. QED
  BY <1>1, <1>2, <1>3, <1>5, QuietStepKeepsIInv DEF IInv, TypeOK

LEMMA ProbeDatabaseKeepsIInv ==
    ASSUME IInv, NEW r \in Requests, ProbeDatabase(r), Watch,
           UNCHANGED <<startVars, rpc, socketVars>>
    PROVE  IInv'
<1>1. /\ pc[r] = "database" /\ pc' = [pc EXCEPT ![r] = "rpc"]
      /\ checks' = [checks EXCEPT ![r]["database"] = db]
      /\ UNCHANGED <<route, id, code, thrown, errorId, label, metricVars>>
  BY DEF ProbeDatabase, Goto
<1>2. db \in {"up", "down"}
  BY DEF IInv, TypeOK, StartTypeOK
<1>3. ProgressTypeOK'
  BY <1>1, <1>2 DEF IInv, TypeOK, ProgressTypeOK, Labels, Findings
<1>4. {<<"database", db'>>, <<"stellarRpc", rpc'>>} \subseteq seen'[r] /\ db' = db
  BY <1>1 DEF Watch, IInv, TypeOK, startVars
<1>5. checks'[r]["database"] = db
  BY <1>1 DEF IInv, TypeOK, Parts
<1>6. Found(r, "database")'
  BY <1>2, <1>4, <1>5 DEF Found
<1>7. Placed(r)'
  BY <1>1, <1>4, <1>6, EnteredChange DEF IInv, TypeOK, Placed
<1>. QED
  BY <1>1, <1>3, <1>7, QuietStepKeepsIInv DEF IInv, TypeOK

LEMMA ProbeRpcKeepsIInv ==
    ASSUME IInv, NEW r \in Requests, ProbeRpc(r), Watch, UNCHANGED <<startVars, rpc, socketVars>>
    PROVE  IInv'
<1>1. /\ pc[r] = "rpc" /\ pc' = [pc EXCEPT ![r] = "returned"]
      /\ checks' = [checks EXCEPT ![r]["stellarRpc"] = rpc]
      /\ UNCHANGED <<route, id, code, thrown, errorId, label, metricVars>>
  BY DEF ProbeRpc, Goto
<1>2. rpc \in {"up", "down"}
  BY DEF IInv, TypeOK
<1>3. ProgressTypeOK'
  BY <1>1, <1>2 DEF IInv, TypeOK, ProgressTypeOK, Labels, Findings
<1>4. seen'[r] = seen[r]
  BY <1>1 DEF Watch, IInv, TypeOK
<1>5. checks'[r]["stellarRpc"] = rpc /\ checks'[r]["database"] = checks[r]["database"]
  BY <1>1 DEF IInv, TypeOK, Parts
<1>6. \A p \in Parts : Found(r, p)'
  BY <1>1, <1>2, <1>4, <1>5 DEF IInv, Placed, Found, Parts
<1>7. Placed(r)'
  BY <1>1, <1>6, EnteredChange DEF IInv, TypeOK, Placed, Known
<1>. QED
  BY <1>1, <1>3, <1>7, QuietStepKeepsIInv DEF IInv, TypeOK

LEMMA ReturnKeepsIInv ==
    ASSUME IInv, NEW r \in Requests, Return(r), Watch, UNCHANGED <<startVars, rpc, socketVars>>
    PROVE  IInv'
<1>1. /\ pc[r] = "handler" /\ pc' = [pc EXCEPT ![r] = "returned"]
      /\ UNCHANGED <<route, id, code, thrown, errorId, checks, label, metricVars>>
  BY DEF Return, Goto
<1>2. ProgressTypeOK'
  BY <1>1 DEF IInv, TypeOK, ProgressTypeOK, Labels
<1>3. Placed(r)'
  BY <1>1, EnteredChange DEF IInv, TypeOK, Placed
<1>. QED
  BY <1>1, <1>2, <1>3, QuietStepKeepsIInv DEF IInv, TypeOK

LEMMA ThrowKeepsIInv ==
    ASSUME IInv, NEW r \in Requests, Throw(r), Watch, UNCHANGED <<startVars, rpc, socketVars>>
    PROVE  IInv'
<1>1. PICK s \in Failures(route[r]) : thrown' = [thrown EXCEPT ![r] = s]
  BY DEF Throw
<1>2. s \in Statuses
  BY <1>1 DEF Failures, GetProofs, GetProofById, VerifyProof, GenerateProof, Unauthorized, Statuses
<1>3. /\ pc[r] = "handler" /\ pc' = [pc EXCEPT ![r] = "threw"]
      /\ UNCHANGED <<route, id, code, errorId, checks, label, metricVars>>
  BY DEF Throw, Goto
<1>4. ProgressTypeOK'
  BY <1>1, <1>2, <1>3 DEF IInv, TypeOK, ProgressTypeOK, Labels
<1>5. Placed(r)'
  BY <1>1, <1>2, <1>3, NullAssumption, EnteredChange DEF IInv, TypeOK, Placed
<1>6. label[r] = Null
  BY <1>3 DEF IInv, Placed
<1>. QED
  BY <1>1, <1>3, <1>4, <1>5, <1>6, QuietStepKeepsIInv DEF IInv, TypeOK

LEMMA FilterKeepsIInv ==
    ASSUME IInv, NEW r \in Requests, Filter(r), Watch, UNCHANGED <<startVars, rpc, socketVars>>
    PROVE  IInv'
<1>1. /\ pc[r] = "filter" /\ pc' = [pc EXCEPT ![r] = "done"]
      /\ code' = [code EXCEPT ![r] = thrown[r]]
      /\ errorId' = [errorId EXCEPT ![r] = id[r]]
      /\ UNCHANGED <<route, id, thrown, checks, label, metricVars>>
  BY DEF Filter, Goto
<1>2. thrown[r] \in Statuses /\ thrown[r] # Null /\ id[r] \in Ids
  BY <1>1 DEF IInv, Placed, TypeOK
<1>3. ProgressTypeOK'
  BY <1>1, <1>2 DEF IInv, TypeOK, ProgressTypeOK, Labels
<1>4. Placed(r)'
  BY <1>1, <1>2, EnteredChange DEF IInv, TypeOK, Placed
<1>. QED
  BY <1>1, <1>3, <1>4, QuietStepKeepsIInv DEF IInv, TypeOK

-----------------------------------------------------------------------------
(* The two branches of the interceptor.                                     *)

LEMMA CountKeepsCounted ==
    ASSUME IInv, NEW r \in Requests, label[r] = Null, route[r] \in Known, Count(r),
           UNCHANGED <<route, thrown>>,
           observed' = IF route[r] \in Proofs /\ thrown[r] = Null
                       THEN [observed EXCEPT ![route[r]] = @ + 1] ELSE observed
    PROVE  /\ Counted'
           /\ total' = total + 1
           /\ errors' \in 0..total'
           /\ counted' \in [Known \X Statuses -> 0..total']
<1>1. /\ label' = [label EXCEPT ![r] = code[r]]
      /\ total' = total + 1
      /\ errors' = IF code[r] >= 500 THEN errors + 1 ELSE errors
      /\ counted' = [counted EXCEPT ![<<route[r], code[r]>>] = @ + 1]
  BY DEF Count
<1>2. /\ code[r] \in Statuses /\ label \in [Requests -> Statuses \cup {Null}]
      /\ total \in Nat /\ errors \in 0..total
      /\ counted \in [Known \X Statuses -> 0..total]
  BY DEF IInv, TypeOK
<1>3. \A q \in Requests : label'[q] = IF q = r THEN code[r] ELSE label[q]
  BY <1>1, <1>2
<1>4. ASSUME NEW T \in SUBSET Requests, r \notin T
      PROVE  /\ Cardinality(T) \in Nat
             /\ Cardinality(T \cup {r}) = Cardinality(T) + 1
  BY <1>4, FinitenessAssumption, FS_Subset, FS_CardinalityType, FS_AddElement
<1>5. Labelled' = Labelled \cup {r} /\ r \notin Labelled
  BY <1>2, <1>3, NullAssumption DEF Labelled
<1>6. total' = Cardinality(Labelled')
  BY <1>1, <1>4, <1>5 DEF IInv, Counted, Labelled
<1>8. ASSUME NEW p \in Known, NEW s \in Statuses
      PROVE  counted'[<<p, s>>] = Cardinality(With(p, s)')
  <2>1. counted[<<p, s>>] = Cardinality(With(p, s))
    BY DEF IInv, Counted
  <2>2. CASE p = route[r] /\ s = code[r]
    <3>1. With(p, s)' = With(p, s) \cup {r} /\ r \notin With(p, s)
      BY <1>3, <2>2, NullAssumption DEF With
    <3>2. counted'[<<p, s>>] = counted[<<p, s>>] + 1
      BY <1>1, <1>2, <2>2
    <3>. QED
      BY <1>4, <2>1, <3>1, <3>2 DEF With
  <2>3. CASE ~(p = route[r] /\ s = code[r])
    <3>1. With(p, s)' = With(p, s)
      BY <1>3, <2>3, NullAssumption DEF With
    <3>2. counted'[<<p, s>>] = counted[<<p, s>>]
      BY <1>1, <1>2, <2>3
    <3>. QED
      BY <2>1, <3>1, <3>2
  <2>. QED
    BY <2>2, <2>3
<1>9. ASSUME NEW p \in Proofs
      PROVE  observed'[p] = Cardinality(Timed(p)')
  <2>1. observed \in [Known -> 0..total] /\ observed[p] = Cardinality(Timed(p)) /\ p \in Known
    BY DEF IInv, TypeOK, Counted, Known, Proofs
  <2>2. CASE p = route[r] /\ thrown[r] = Null
    <3>1. Timed(p)' = Timed(p) \cup {r} /\ r \notin Timed(p)
      BY <1>2, <1>3, <2>2, NullAssumption DEF Timed
    <3>2. observed'[p] = observed[p] + 1
      BY <2>1, <2>2
    <3>. QED
      BY <1>4, <2>1, <3>1, <3>2 DEF Timed
  <2>3. CASE ~(p = route[r] /\ thrown[r] = Null)
    <3>1. Timed(p)' = Timed(p)
      BY <1>3, <2>3 DEF Timed
    <3>2. observed'[p] = observed[p]
      BY <2>1, <2>3
    <3>. QED
      BY <2>1, <3>1, <3>2
  <2>. QED
    BY <2>2, <2>3
<1>12. Counted'
  BY <1>6, <1>8, <1>9 DEF Counted
<1>10. errors' \in 0..total'
  BY <1>1, <1>2
<1>11. counted' \in [Known \X Statuses -> 0..total']
  BY <1>1, <1>2
<1>. QED
  BY <1>1, <1>10, <1>11, <1>12

LEMMA TapNextKeepsIInv ==
    ASSUME IInv, NEW r \in Requests, TapNext(r), Watch, UNCHANGED <<startVars, rpc, socketVars>>
    PROVE  IInv'
<1>1. /\ pc[r] = "returned" /\ pc' = [pc EXCEPT ![r] = "done"]
      /\ label' = [label EXCEPT ![r] = code[r]]
      /\ UNCHANGED <<route, id, code, thrown, errorId, checks>>
  BY DEF TapNext, Count, Goto
<1>2. label[r] = Null /\ route[r] \in Known /\ thrown[r] = Null
  BY <1>1 DEF IInv, Placed
<1>3. Counted' /\ total' = total + 1 /\ errors' \in 0..total'
      /\ counted' \in [Known \X Statuses -> 0..total']
  BY <1>1, <1>2, CountKeepsCounted DEF TapNext
<1>4. observed' \in [Known -> 0..total']
  <2>1. observed \in [Known -> 0..total] /\ total \in Nat
    BY DEF IInv, TypeOK
  <2>2. observed' = observed \/ observed' = [observed EXCEPT ![route[r]] = @ + 1]
    BY DEF TapNext
  <2>. QED
    BY <1>2, <1>3, <2>1, <2>2
<1>5. MetricTypeOK'
  BY <1>3, <1>4 DEF IInv, TypeOK, MetricTypeOK
<1>6. ProgressTypeOK'
  BY <1>1 DEF IInv, TypeOK, ProgressTypeOK, Labels
<1>7. seen'[r] = seen[r]
  BY <1>1 DEF Watch, IInv, TypeOK
<1>8. \A p \in Parts : Found(r, p) => Found(r, p)'
  BY <1>1, <1>7 DEF Found
<1>9. Placed(r)'
  BY <1>1, <1>8, NullAssumption, EnteredChange DEF IInv, TypeOK, Placed
<1>. QED
  BY <1>1, <1>3, <1>5, <1>6, <1>9, StepKeepsIInv DEF IInv, TypeOK

LEMMA TapErrorKeepsIInv ==
    ASSUME IInv, NEW r \in Requests, TapError(r), Watch, UNCHANGED <<startVars, rpc, socketVars>>
    PROVE  IInv'
<1>1. /\ pc[r] = "threw" /\ pc' = [pc EXCEPT ![r] = "filter"]
      /\ label' = [label EXCEPT ![r] = code[r]]
      /\ UNCHANGED <<route, id, code, thrown, errorId, checks, observed>>
  BY DEF TapError, Count, Goto
<1>2. label[r] = Null /\ route[r] \in Known /\ thrown[r] # Null
  BY <1>1 DEF IInv, Placed
<1>3. Counted' /\ total' = total + 1 /\ errors' \in 0..total'
      /\ counted' \in [Known \X Statuses -> 0..total']
  BY <1>1, <1>2, CountKeepsCounted DEF TapError
<1>4. MetricTypeOK'
  <2>1. observed \in [Known -> 0..total] /\ total \in Nat
    BY DEF IInv, TypeOK
  <2>2. 0..total \subseteq 0..total'
    BY <1>3, <2>1
  <2>. QED
    BY <1>1, <1>3, <2>1, <2>2 DEF MetricTypeOK
<1>5. ProgressTypeOK'
  BY <1>1 DEF IInv, TypeOK, ProgressTypeOK, Labels
<1>6. Placed(r)'
  <2>1. r \in entered'
    BY <1>1, EnteredChange DEF IInv, Placed
  <2>2. label'[r] # Null
    BY <1>1, NullAssumption DEF IInv, TypeOK
  <2>3. id[r] \in Ids /\ pc'[r] = "filter" /\ UNCHANGED <<id, thrown>>
    BY <1>1 DEF IInv, TypeOK, Placed
  <2>. QED
    BY <1>2, <2>1, <2>2, <2>3 DEF Placed
<1>. QED
  BY <1>1, <1>3, <1>4, <1>5, <1>6, StepKeepsIInv DEF IInv, TypeOK

-----------------------------------------------------------------------------
(* The invariant, and the theorems.                                         *)

LEMMA NextKeepsIInv == IInv /\ [Next]_vars => IInv'
<1> SUFFICES ASSUME IInv, [Next]_vars PROVE IInv'
  OBVIOUS
<1>1. CASE UNCHANGED vars
  <2>1. TypeOK'
    BY <1>1 DEF vars, startVars, progressVars, metricVars, socketVars, IInv, TypeOK, StartTypeOK
  <2>2. Pausing' /\ Spent'
    BY <1>1, StartUnchanged DEF vars, IInv, TypeOK
  <2>3. \A r \in Requests : Placed(r)'
    BY <1>1 DEF vars, startVars, progressVars, IInv, Placed, Found
  <2>4. Counted'
    BY <1>1, StillCounted DEF vars, progressVars
  <2>5. gauge' = Cardinality(open')
    BY <1>1 DEF vars, socketVars, IInv
  <2>. QED
    BY <2>1, <2>2, <2>3, <2>4, <2>5 DEF IInv
<1>2. ASSUME Watch, NEW r \in Requests, Receive(r) \/ Proceed(r),
             UNCHANGED <<startVars, rpc, socketVars>>
      PROVE  IInv'
  BY <1>2, ReceiveKeepsIInv, TurnKeepsIInv, EnterKeepsIInv, ProbeDatabaseKeepsIInv,
     ProbeRpcKeepsIInv, ReturnKeepsIInv, ThrowKeepsIInv, TapNextKeepsIInv, TapErrorKeepsIInv,
     FilterKeepsIInv DEF Proceed
<1>3. ASSUME Watch, StartNext, UNCHANGED <<rpc, progressVars, metricVars, socketVars>>
      PROVE  IInv'
  <2>1. StartTypeOK' /\ Pausing' /\ Spent'
    BY <1>3, StartKeepsPausing, StartKeepsSpent DEF IInv, TypeOK
  <2>. QED
    BY <1>3, <2>1, SurroundingsKeepIInv DEF IInv, TypeOK, socketVars
<1>4. ASSUME Watch, RpcChanges, UNCHANGED <<startVars, progressVars, metricVars, socketVars>>
      PROVE  IInv'
  <2>1. StartTypeOK' /\ Pausing' /\ Spent'
    BY <1>4, StartUnchanged DEF IInv, TypeOK
  <2>2. rpc' \in {"up", "down"}
    BY <1>4 DEF RpcChanges
  <2>. QED
    BY <1>4, <2>1, <2>2, SurroundingsKeepIInv DEF IInv, TypeOK, socketVars
<1>. QED
  BY <1>1, <1>2, <1>3, <1>4, SocketsKeepIInv DEF Next, RequestNext

LEMMA SpecIInv == Spec => []IInv
  BY InitIInv, NextKeepsIInv, PTL DEF Spec

\* The start and the server are well typed, for any delays and any requests.
THEOREM ServerTypeCorrect == Spec => []TypeOK
  BY SpecIInv, PTL DEF IInv

\* connectWithRetry never pauses on for longer than its longest delay while the
\* database can be reached.
THEOREM RetriesAlwaysInTime == Spec => []RetriesInTime
<1>1. IInv => RetriesInTime
  <2> SUFFICES ASSUME IInv, phase = "pause"
               PROVE  upFor <= Delay * 2^(Retries - 1)
    BY DEF RetriesInTime
  <2>1. /\ attempt \in 1..Retries - 1 /\ upFor \in Nat /\ wait \in Nat
        /\ upFor + wait <= ExponentialDelay(attempt)
    BY DEF IInv, Pausing, TypeOK, StartTypeOK
  <2>2. ExponentialDelay(attempt) \in 0..ExponentialDelay(Retries - 1)
    BY <2>1, DelaysGrow
  <2>3. ExponentialDelay(Retries - 1) \in Int
    <3>1. Retries - 1 \in 1..Retries - 1
      BY <2>1, RetryAssumption
    <3>. QED
      BY <3>1, DelaysGrow
  <2>4. upFor <= ExponentialDelay(Retries - 1)
    BY <2>1, <2>2, <2>3
  <2>. QED
    BY <2>4 DEF ExponentialDelay
<1>. QED
  BY <1>1, SpecIInv, PTL

\* The start gives the database up after all of its pauses, 6 + 12 + 24 + 48
\* seconds with the code's five attempts, neither earlier nor later.
THEOREM OutagesAlwaysOutlived == Spec => []OutagesOutlived
<1>1. IInv => OutagesOutlived
  BY DEF IInv, Spent
<1>. QED
  BY <1>1, SpecIInv, PTL

\* A health check found what it answers, each part at some moment of the check.
THEOREM HealthAlwaysTruthful == Spec => []HealthTruthful
<1>1. ASSUME IInv PROVE HealthTruthful
  <2> SUFFICES ASSUME NEW r \in Requests, pc[r] = "done", route[r] = "health", thrown[r] = Null
               PROVE  IF Health(r) = "ok" THEN \A p \in Parts : <<p, "up">> \in seen[r]
                                          ELSE \E p \in Parts : <<p, "down">> \in seen[r]
    BY DEF HealthTruthful
  <2>1. \A p \in Parts : Found(r, p)
    BY <1>1 DEF IInv, Placed
  <2>. QED
    BY <2>1 DEF Found, Health
<1>. QED
  BY <1>1, SpecIInv, PTL

\* An error reply carries the id of its request, whatever failed.
THEOREM ErrorsAlwaysTraceable == Spec => []ErrorsTraceable
<1>1. IInv => ErrorsTraceable
  BY NullAssumption DEF IInv, Placed, ErrorsTraceable
<1>. QED
  BY <1>1, SpecIInv, PTL

\* Every request that reached the interceptor is counted when its handler ends, once,
\* whichever branch it takes, and no other is.
THEOREM CountersAlwaysAddUp == Spec => []CountersAddUp
<1>1. ASSUME IInv PROVE CountersAddUp
  <2>1. \A r \in Requests : label[r] # Null <=> r \in Handled
    BY <1>1 DEF IInv, Placed, Handled
  <2>2. entered \subseteq Requests
    BY <1>1 DEF IInv, TypeOK
  <2>3. Handled = Labelled
    BY <2>1, <2>2 DEF Handled, Labelled
  <2>4. \A p \in Known, s \in Statuses :
            {r \in Handled : route[r] = p /\ label[r] = s} = With(p, s)
    BY <2>1, <2>2, NullAssumption DEF With, Handled
  <2>5. \A p \in Proofs : {r \in Handled : route[r] = p /\ thrown[r] = Null} = Timed(p)
    BY <2>3 DEF Labelled, Timed
  <2>. QED
    BY <1>1, <2>1, <2>3, <2>4, <2>5 DEF IInv, Counted, CountersAddUp
<1>. QED
  BY <1>1, SpecIInv, PTL
=============================================================================
