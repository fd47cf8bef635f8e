----------------------------- MODULE ServerStart -----------------------------
(***************************************************************************)
(* The start of the server: bootstrap creates the application, and listen  *)
(* waits for the database (connectWithRetry) and then for the queue's      *)
(* connections to Redis, while either may come and go.                     *)
(*                                                                         *)
(* Time is counted in units of connectWithRetry's first delay, 3 seconds,  *)
(* and only where the code looks at it: in the pauses between attempts.    *)
(***************************************************************************)
EXTENDS Integers

CONSTANTS Retries,  \* attempts to connect, 5
          Delay     \* connectWithRetry's delay in units, 1

VARIABLES
    db,       \* whether PostgreSQL can be reached
    redis,    \* whether Redis can be reached, and is fit for BullMQ
    phase,    \* how far the start has come
    attempt,  \* failed attempts to connect, while it tries
    wait,     \* what is left of the pause before the next
    upFor,    \* how long of that pause the database could be reached at a stretch
    paused    \* the time it has spent in pauses

startVars == <<db, redis, phase, attempt, wait, upFor, paused>>

Phases == {"create", "connect", "pause", "queue", "listening", "ended"}

\* Mutant: the delay is used before it is doubled.
DelayUndoubled(n) == Delay * 2^(n - 1)

\* The pause after n failed attempts.
ExponentialDelay(n) == Delay * 2^n

ASSUME RetryAssumption == Retries \in Nat \ {0}

ASSUME DelayAssumption == Delay \in Nat

StartTypeOK ==
    /\ db      \in {"up", "down"}
    /\ redis   \in {"up", "down", "unfit"}
    /\ phase   \in Phases
    /\ attempt \in 0..Retries
    /\ wait    \in Nat
    /\ upFor   \in Nat
    /\ paused  \in Nat

StartInit ==
    /\ db      \in {"up", "down"}
    /\ redis   \in {"up", "down", "unfit"}
    /\ phase   = "create"
    /\ attempt = 0
    /\ wait    = 0
    /\ upFor   = 0
    /\ paused  = 0

-----------------------------------------------------------------------------
(* bootstrap and the hooks that listen waits for.                           *)

\* NestFactory.create constructs every provider; TypeORM's connects, after
\* retries of its own, or the process ends.
Create ==
    /\ phase = "create"
    /\ phase' = IF db = "up" THEN "connect" ELSE "ended"
    /\ UNCHANGED <<db, redis, attempt, wait, upFor, paused>>

\* Prisma's module is global, so its hook comes first; attempt is a local of it.
Connect ==
    /\ phase = "connect"
    /\ db = "up"
    /\ phase' = "queue"
    /\ attempt' = 0
    /\ paused' = 0
    /\ UNCHANGED <<db, redis, wait, upFor>>

\* Mutant: the attempt is counted after it is compared.
ConnectFailsOnceMore ==
    /\ phase = "connect"
    /\ db = "down"
    /\ attempt' = attempt + 1
    /\ IF attempt >= Retries
       THEN phase' = "ended" /\ UNCHANGED wait
       ELSE phase' = "pause" /\ wait' = ExponentialDelay(attempt')
    /\ upFor' = 0
    /\ UNCHANGED <<db, redis, paused>>

\* An attempt failed: pause, or throw, which ends the process.
ConnectFails ==
    /\ phase = "connect"
    /\ db = "down"
    /\ attempt' = attempt + 1
    /\ IF attempt' >= Retries
       THEN phase' = "ended" /\ UNCHANGED wait
       ELSE phase' = "pause" /\ wait' = ExponentialDelay(attempt')
    /\ upFor' = 0
    /\ UNCHANGED <<db, redis, paused>>

Tick ==
    /\ phase = "pause"
    /\ wait > 0
    /\ wait' = wait - 1
    /\ paused' = paused + 1
    /\ upFor' = IF db = "up" THEN upFor + 1 ELSE 0
    /\ UNCHANGED <<db, redis, phase, attempt>>

Retry ==
    /\ phase = "pause"
    /\ wait = 0
    /\ phase' = "connect"
    /\ upFor' = 0
    /\ UNCHANGED <<db, redis, attempt, wait, paused>>

\* Mutant: the start goes on only when Redis is well.
QueueReadyOnly ==
    /\ phase = "queue"
    /\ redis = "up"
    /\ phase' = "listening"
    /\ UNCHANGED <<db, redis, attempt, wait, upFor, paused>>

\* The queue's hook: its three connections are ready, or BullMQ refuses the
\* Redis it finds, which is a warning.  One that cannot be reached is neither:
\* the connections are tried again for ever.  Then the server listens.
QueueSettles ==
    /\ phase = "queue"
    /\ redis # "down"
    /\ phase' = "listening"
    /\ UNCHANGED <<db, redis, attempt, wait, upFor, paused>>

Bootstrap ==
    Create \/ Connect \/ ConnectFails \/ Tick \/ Retry \/ QueueSettles

-----------------------------------------------------------------------------
(* Around the process.                                                      *)

DatabaseChanges ==
    /\ phase # "ended"
    /\ db' \in {"up", "down"} \ {db}
    /\ upFor' = 0
    /\ UNCHANGED <<redis, phase, attempt, wait, paused>>

\* Redis matters here until the server listens.
RedisChanges ==
    /\ phase \notin {"listening", "ended"}
    /\ redis' \in {"up", "down", "unfit"} \ {redis}
    /\ UNCHANGED <<db, phase, attempt, wait, upFor, paused>>

\* A signal ends the process where it is: the only hook waits for beforeExit,
\* which is not emitted then, nor while sockets and timers are open.
Signal ==
    /\ phase # "ended"
    /\ phase' = "ended"
    /\ UNCHANGED <<db, redis, attempt, wait, upFor, paused>>

StartNext == Bootstrap \/ DatabaseChanges \/ RedisChanges \/ Signal

-----------------------------------------------------------------------------
(* Properties.                                                              *)

\* However the database comes and goes, the start never goes on pausing while
\* it has been reachable for longer than the longest pause, 48 seconds
\* (connectWithRetry 47-57).
RetriesInTime ==
    phase = "pause" => upFor <= Delay * 2^(Retries - 1)

\* The start gives the database up after 6 + 12 + 24 + 48 seconds, neither
\* earlier nor later: an outage shorter than that, once the application is
\* created, never ends it (connectWithRetry 24-58).
OutagesOutlived ==
    attempt = Retries => paused = Delay * (2^Retries - 2)

\* The start ends one way or the other, if Redis can be reached in the end: if
\* it never can, the server never listens, whatever the warning of the queue's
\* hook is for (onModuleInit of both services, main.ts 96).
StartEnds ==
    <>[](redis # "down") => <>(phase \in {"listening", "ended"})
=============================================================================
