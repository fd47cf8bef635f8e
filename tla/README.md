# Shieldpoint backend: specifications, checks and proofs

This directory keeps the formal models of the Shieldpoint backend, a NestJS
server that stores balance proofs, submits them to a Soroban contract on the
Stellar network, and answers whether they were verified. The models are TLA+
modules; TLC checks them on small instances and TLAPS proves the most important
properties for every value of the constants.

Source paths below are relative to `src/` of the repository (the application's
own code is under `src/src/`).

Contents

1. The system: components, state, operations, interaction
2. Reading this source: merge artefacts and conventions
3. What is hard here
4. The modules, and how they correspond to the code
5. What TLC checks: runs, bounds, fairness
6. Where the code and its documents disagree
7. What is proved
8. What is not modelled, and the plan

---

## 1. The system

| Component | Code | State it keeps | Operations |
|---|---|---|---|
| Proof generation | `proofs.service.ts` 107-151, 278-331; `proofs.controller.ts` 221-237 | none of its own: one row in PostgreSQL, one job in Redis | look up the user, read the balance from Horizon, compare, make a payload, insert, enqueue |
| Proof-generation queue and worker | `proof-generation.queue.ts` | jobs in Redis: state, attempts, stalls, lock | `enqueueProofJob`; `processJob`: load the row, merge a stamp into its metadata, save |
| Proof verification | `proofs.service.ts` 169-273; `proofs.controller.ts` 160-219 | the row's status, hash, time, message | check the row, call the verifier contract, wait, mark verified or failed |
| Proof record | `entities/proof.entity.ts`, TypeORM's `save` | a row of `proofs` | insert, load, diff and update |
| Contract calls | `modules/stellar/stellar.service.ts` 71-225 | none between calls; the signer's account on chain is shared by all | load account, sign, send up to 3 times, poll up to 5 |
| Proof listing, one proof | `proofs.service.ts` 56-105, 333-361 | none | pages by offset, filters; explorer link |
| Metrics, logging, filter, request ids | `common/` | counters in the process | count requests, server errors, RPC errors, connections; turn what was thrown into a reply |
| Start and stop | `main.ts`, `database/prisma.service.ts` | connections, attempts | connect with retries, initialise the queue, listen, close |
| Health | `modules/health/` | none | two probes in turn |
| JWT guard | `common/guards/jwt-auth.guard.ts` | none | user id of a token, or 401 |
| Wallet authentication | `src/src/auth/` | rows of Prisma's `users` and `refresh_tokens`; challenges are random and not stored, and log-in reads neither challenge nor signature | log in, log out. Mounted nowhere: `app.module.ts` imports the empty `modules/auth/auth.module.ts` |

How they interact:

```
 POST /proofs/generate           POST /proofs/:id/verify          GET /proofs
        |                                 |                           |
  users + Horizon balance                 |                           |
        |                                 |                           |
        +--insert--> [ proofs table, PostgreSQL ] <--load, save-------+ (reads)
        |                  ^              |
        +--add--> [ Redis ]|              +--sign, send, poll--> [ Stellar network ]
                      |    |                                     one signing account
                    worker-+  load, stamp, save
```

Nothing holds a lock. Three stores (PostgreSQL, Redis, the ledger) share no
transaction; requests, worker deliveries and the network interleave at every
`await`; several server processes may run beside each other.

What makes each part correct:

- *Verification*: a row says `verified` only if the contract accepted this
  proof's data; the hash and the message it quotes are true; a caller told
  success was told the truth; a verdict nobody is working on any more is final;
  a proof that expired is verified afterwards only by a request admitted before,
  and one without data by none; every request ends.
- *Contract calls*: one call changes the chain at most once, however often it
  is sent; SUCCESS and FAILED are reported truthfully; giving up says nothing
  about the envelope; retries and polls are bounded.
- *Generation and queue*: 201 means a stored proof of at least the threshold
  and a job; a job's row exists before the job; a completed job was processed;
  a job is given up only after its attempts or too many stalls, and in the end
  it is one or the other, for good.
- *Listing*: a walk over the pages misses nothing that was there all along, and
  the total of a response falls short of its page by no more rows than stopped
  matching between its two queries (by none, without a status filter).
- *Start*: an outage of the database shorter than its pauses together never ends
  it, and no pause outlasts the outage by more than the longest delay.
- *Serving*: every request is answered, an error with its request's id, except
  that one to generate may wait for Redis; each request that reached the
  interceptor is counted once, whichever of its branches it takes, and none that
  was refused before; a health check answers what it found.
- *Authentication*: a wallet has one user; a token given out is stored; a logout
  revokes the tokens its user had, and no other user's.

## 2. Reading this source

Several files of this commit are the concatenation of two branches of a merge.
The models take the union of what the two sides define, and read each
definition as its body says:

- `proofs.service.ts` imports some names twice and declares `proofRepository`,
  `configService` and `stellarService` twice in the constructor. The method
  bodies are disjoint (verification from one side, generation from the other).
- `proofs.controller.ts` has the decorators of `verify` and `generate`
  interleaved (160-220); both handlers' bodies are whole.
- `modules/stellar/stellar.service.ts` holds two classes named
  `StellarService`: contract calls and `getAccountBalance` in the first,
  `getBalance` in the second. Generation calls `getBalance`, verification the
  first class's methods.
- `package.json` asks for bullmq ^2.14, which has no `QueueScheduler` any more.
  The queue is modelled with the API it is written for: the scheduler promotes
  delayed jobs and detects stalled ones. (In the newer versions the worker does
  both, which changes no property here.)
- `prisma/schema.prisma` describes another `Proof` table than the TypeORM
  entity. The services use the entity; the schema counts as documentation.

Conventions of the models:

- An action is what the code does between two awaits, and includes every
  assignment made in between. An await that can settle in several ways is
  several actions, or an action with a disjunction.
- TypeORM's `repository.save(entity)` is two statements: a SELECT of the row as
  it is now, which decides the dirty columns by comparison with the entity, and
  an UPDATE of those columns. The entity may be much older than the SELECT. This
  is the source of most of what is interesting in the proofs table, so the two
  halves (`Compare`, `Update`) are separate actions.
- A database, Redis or RPC call may fail with or without effect; where the
  effect matters, both are modelled (`UpdateUnacknowledged`, `Insert`,
  `Enqueue`, `Throw`).
- An envelope stands for its own hash. The payload and what the signer adds to
  it (sequence number, time bound) determine it.
- Definitions marked *Mutant* in the modules are the plausible bugs that each
  property was shown to detect: with the mutant in the place of the definition
  that follows it, the property fails.

## 3. What is hard here

`PROJECT.json` lists each hazard with its line and the properties that cover
it. In short:

- **Stale copies.** The `VERIFIED` check (`proofs.service.ts:228`) is made
  seconds before the outcome is written. `updateProofVerified`,
  `updateProofFailed` and `processJob` each save a copy that other actors may
  have overtaken, and `save` writes back columns its caller never touched.
- **Ambiguous failures.** A POST that threw may have arrived; five polls end
  long before the 180 seconds for which the envelope stays valid; a commit's
  acknowledgement may be lost.
- **One signing account.** Overlapping calls load the same sequence number and
  sign competing envelopes.
- **Three stores without a transaction.** A row without a job, a 400 with a
  stored row, a job whose stamp was stored and whose delivery failed.
- **At-least-once delivery.** A stalled delivery goes on while the job is
  delivered again.
- **Offset pages over a table that changes**, and microsecond columns compared
  with millisecond dates.
- **A start that waits.** `listen` waits for the hooks of two services: five
  attempts at the database with delays that double, and three Redis connections
  that are tried for ever.
- **Counters between two layers.** The interceptor counts a request in one of two
  branches; the filter sets the status of an error only after that. What fails
  before the router passes the filter and no interceptor.
- **Two probes in turn.** A health check may answer ok though the two
  dependencies were never up together.
- **Overlapping logins and logouts** of one wallet, with errors between the
  statement and the answer.

## 4. The modules

```
 TransactionLedger      what the network does with an envelope (external)
      |
 ContractCall           what a verification relies on         (abstract)
      |  \
      |   StellarSubmission   ... and how the code provides it (implements it)
      |
 ProofRecord            columns of a row, and save
      |
 ProofVerification      verification beside the worker         (implements both)
      |
 ProofLifecycle         what a status promises                 (abstract)

 ProofGeneration        request, row, job, deliveries
      |
 ProofProcessing        what generating a proof promises       (abstract)

 ProofListing           pages over a changing table

 ServerStart            bootstrap and the hooks that listen waits for
      |
 Server                 requests from middleware to filter, metrics, health

 AuthSessions           users and refresh tokens of wallets
```

| Module | Kind | EXTENDS / INSTANCE |
|---|---|---|
| `TransactionLedger` | external component | |
| `ProofRecord` | operators | |
| `ContractCall` | abstract specification | INSTANCE `TransactionLedger` |
| `ProofLifecycle`, `ProofProcessing` | abstract specifications | |
| `ProofVerification` | detailed, core | EXTENDS `ProofRecord`; INSTANCE `TransactionLedger`, `ProofLifecycle`, `ContractCall` |
| `StellarSubmission` | detailed | INSTANCE `TransactionLedger`, `ContractCall` |
| `ProofGeneration` | detailed | INSTANCE `ProofProcessing` |
| `ProofListing`, `AuthSessions` | detailed | |
| `ServerStart` | detailed, part of `Server` | |
| `Server` | detailed | EXTENDS `ServerStart` |
| `MC*` | instances for TLC | EXTENDS the module each is named after |
| `*Proofs`, `ProofVerificationRefinement`, `ProofVerificationStability` | proofs | EXTENDS the module and TLAPS |

### TransactionLedger

`ledger[t]` is `unsent`, `sent`, or one of the final fates `success`, `failed`,
`dropped`. `sendTransaction`'s status is never read by the code, so an envelope
that is refused simply stays `unsent`. Dropped stands for a used sequence
number or a time bound that has passed.

### ProofRecord

The five columns that change after the insert. `MarkedVerified`, `MarkedFailed`
and `Stamped` are the changes of `updateProofVerified` (182-184),
`updateProofFailed` (206-207) and `processJob` (83-93); `Dirty` and
`Overwritten` are the two halves of TypeORM's `save`. `verifiedAt` is named by
the request that took the time, `metadata` by the delivery whose stamp it
carries. `updatedAt` follows from the others and is left out.

### ProofVerification

A *request* is one call of the endpoint, a *run* one delivery of a job.

| Code | Actions |
|---|---|
| 217-230: `findOne`, not found, already verified | `FindNothing`, `RejectVerified` |
| 232-240: expired or blank, marked failed before the 400 | `RejectUnfit`, then the failing path |
| 249-250: configuration, `loadAccount`, sign | `BuildFails`, `Build` |
| 250: `submitTransactionWithRetry` | `SendReturns`, `SendThrows` |
| 251: `waitForTransactionConfirmation` | `Confirm`, `PollFailed`, `PollGivesUp` |
| 258, 174-184: load the row and change the copy | `MarkVerified` |
| 264-271, 198-207: the catch clause | `MarkFailed` |
| 190, 209: `save` | `Compare`, `Update` |
| a database error, in the try block or in the catch clause | `DatabaseFails`, `UpdateUnacknowledged`, `Rescue` |
| `processJob` 78-95 | `RunFind`, `Compare`, `RunUpdate`, `RunFails` |
| the process ends | `Die` |
| `expiresAt` passes; the network | `Expire`, `Network` |

`Outcome` is the reply: 200, the 400 of an unfit proof, or the 500 of the
catch clause. The branch at 253-256 is dead, because
`waitForTransactionConfirmation` throws for every status but SUCCESS; the model
follows the throws. The proofs, who owns them and what is in them never change;
a request for somebody else's proof is `FindNothing`. The return value of the
contract is ignored by the code and absent here.

### StellarSubmission

`invokeContract` and `waitForTransactionConfirmation` in detail: the sequence
number that Horizon tells (`Build`: any number up to the current one, because
Horizon may be behind), one action for each outcome of a POST (`Respond`, and
`Throw`, which leaves the envelope in `transit` to arrive later or never), the
delay (`Retry`), the polls. The network applies envelopes of the account in
the order of their numbers (`Include`) and drops those whose number is used or
whose time passed (`Expel`).

`ProofVerification` keeps only `Build`, `SendReturns`, `SendThrows` and the
three outcomes of polling. That this is a fair summary is what `ContractCall`
is for: both modules implement it.

### ProofGeneration

Rows and jobs are named by their request. `pc` goes through the four awaits of
`generateBalanceProof`; every await may settle well, fail (`Refuse`: the
controller answers 400 to everything but 401 and 404), or be the last
(`Die`). `Insert` and `Enqueue` take effect and may report an error all the
same. The queue is BullMQ as the service uses it: `Take` counts the attempt and
takes the lock; `Complete` and `Fail` count only for the owner of the lock;
`Promote` ends a backoff; `Stall` takes the lock from a worker that died or is
late (which goes on). `MaxStalls` is BullMQ's `maxStalledCount`, 1. A worker
process that restarts is a new member of `Workers`. `Account` is the set of
what a look-up of a user may find (no row, a row without an account, one with),
because the row may change between two requests. Of a payload the balance is
kept, which is what the threshold was compared with.

### ProofProcessing

The abstract specification of the above, as a caller and an operator see it:
which requests have a row (`stored`), which were told 201 (`promised`), whether
a job is `open` or how it was settled (`phase`), how often it was handed out
(`delivered`), and whose stamp is stored (`done`). There are no workers, locks,
backoffs or stalls: a waiting, an active and a delayed job are all open. What
remains is the order the code owes: stored, then queued, then promised; a job
is handed out at most `MaxAttempts + MaxStalls` times, completed only once some
delivery did its work, given up only after `MaxAttempts` or `MaxStalls + 1`
deliveries, whichever is less, and settled once. `ProofGeneration` implements it
(`ImplementsProcessing`) with the abstract variables computed from its own.

### ProofListing

Rows are named by `createdAt` in microseconds. A page is two queries,
`FindRows` and `Count` (`findAndCount`), at different moments; `Shown` is the
loss of precision of a JavaScript `Date`. A row may be inserted with an earlier
`createdAt` than rows already there, because PostgreSQL's `now()` is the time
the transaction began. `expected`, `shrunk` and `slipped` are history variables
of the properties: which rows the walk owes the client, whether some row stopped
matching, and which rows did so between the two queries of the last response. `Statuses` has two of the four values (a filter tells only equal from
different), `Milli` is 2 instead of 1000.

### ServerStart

| Code | Actions |
|---|---|
| `NestFactory.create`, which constructs the providers (TypeORM's connects) | `Create` |
| `connectWithRetry` 28-41: an attempt | `Connect`, `ConnectFails` |
| 47-57: the delay, doubled before it is used | `Tick`, `Retry` |
| `proof-generation.queue.ts` 45-56: `waitUntilReady`, and its warning | `QueueSettles` |
| `main.ts` 96: `listen` returns | `QueueSettles` (phase `listening`) |
| a signal; `beforeExit`, which is not emitted then | `Signal` |
| PostgreSQL and Redis come and go | `DatabaseChanges`, `RedisChanges` |

Time is counted in units of the first delay, 3 seconds, and passes only in the
pauses, where the code looks at it. An attempt is a moment: it succeeds if the
database can be reached then. A Redis that is `unfit` (too old, or with an
eviction policy BullMQ refuses) makes the hook warn and go on; one that cannot
be reached makes it wait. `upFor` and `paused` are history variables. Redis
changes before the server listens only: what it does to requests afterwards is in
`ProofGeneration`.

### Server

A request goes through the stages that Nest and Express give it, each an action:

| Code | Actions |
|---|---|
| `requestIdMiddleware`, `main.ts` 41 | `Receive` |
| body parser and router, before any interceptor | `Turn`, `Enter` |
| `getHealth` 14-54, `checkRpcHealth` | `ProbeDatabase`, `ProbeRpc`, `Health` |
| a handler, as the rest of the server sees it | `Return`, `Throw` with `Failures(route)` |
| `LoggingInterceptor` 41-89, next | `TapNext` |
| 90-107, error | `TapError` |
| `AllExceptionsFilter` 15-61 | `Filter` |
| `recordHttpRequest`, `trackConnections` | `Count`, `Open`, `Close` |

`Failures` holds the statuses a handler's catch clause lets through: both
reading handlers and `generate` turn every error they do not know into 400, the
database's included; `verify` passes an internal error on as 500. The error
branch of the interceptor counts with the status the response has *then*, which
is that of a success. Only the paths of proofs observe a duration, and only in
the next branch. The path label is the pattern of the route
(`request.route.path`), so a route stands for its label. `seen`, `entered` and
`label` are history variables: what a check could have found while it ran, which
requests reached the interceptor, and the status a request was counted with.
`CountersAddUp` compares the last two, so that a branch that does not count, or
counts what was refused before, is found.

### AuthSessions

| Code | Actions |
|---|---|
| `auth.service.ts` 44-57: upsert by address | `Upsert` |
| 59-97: sign both tokens, hash, store the row | `CreateToken` |
| 99-103: the reply | `Answer` |
| `auth.controller.ts` 38-44: the guard, and the call | `Call` |
| `auth.service.ts` 106-115: `updateMany` | `Revoke` |
| an error of the database, before or after its statement; the process ends | `Fail`, and the second disjunct of `Upsert` |

A login stores at most one row, so rows are named by their login and users by
the login that created them. `owed` is the history variable of
`LogoutInvalidates`: the logins that had been answered when a logout was called.
That an access token outlives its logout until it expires is the code's
intention; a login under way when a logout is called stores a token that
survives it, which the property grants.

## 5. What TLC checks

States are distinct states.

| Run | Configuration | States | What it shows |
|---|---|---|---|
| `verify_safety` | 1 queued proof that may expire, 2 requests (symmetric), 1 run, 2 nonces | 651 198 | `TypeOK`, `VerifiedOnChain`, `QuotesAreTrue`, `OkReplyConfirmed`, `VerifiedSettles` |
| `verify_unfit` | 2 proofs, one queued that may expire and one blank, 2 requests, 1 run, 1 nonce | 417 794 | `UnfitStaysUnverified`, `ImplementsLifecycle`, `ImplementsContractCall`, `ActorsAdvance`, `ActorsEnd` |
| `submit` | 2 calls with different payloads, 3 attempts, 5 polls, 2 sequence numbers, 1 time bound | 428 269 | `TypeOK`, `CollidingCallsNotBothConfirmed`, `RpcErrorsCounted`, `ImplementsContractCall`, `CallsAdvance`, `CallsEnd` |
| `generate` | 2 requests of a user whose row may be missing, unset or set, 2 workers, 3 attempts, 1 stall, balances none or 1, thresholds 0 and 1 | 765 134 | `TypeOK`, `CreatedIsComplete`, `DeliveriesFindTheirRow`, `CompletedWasProcessed`, `GivenUpAfterRetries`, `ImplementsProcessing`, `JobsAdvance`, `JobsSettle` |
| `list_safety` | up to 5 rows, pages of 2, four kinds of filter | 4 122 682 | `TypeOK`, `NoneMissed`, `PageWithinTotal` |
| `server` | 2 requests (health, verify, an unknown path), 1 socket, 5 attempts | 712 026 | `TypeOK`, `RetriesInTime`, `OutagesOutlived`, `CountersAddUp`, `HealthTruthful`, `ErrorsTraceable`, `StartEnds`, `RequestsEnd` |
| `auth_sessions` | 3 logins of one wallet, 1 of another, 2 logouts | 211 031 | `TypeOK`, `OneUserPerWallet`, `AnsweredIsStored`, `LogoutInvalidates`, `RevokedByItsUser` |
| `failed_but_on_chain`, `success_taken_back`, `refused_but_stored`, `dates_not_inclusive`, `status_miscounted` | one or two actors | - | one violated statement each, section 6 |

**Why these bounds are enough to be interesting.** Two requests and one
delivery on one row are the smallest set with every overlap the code has:
request against request, request against delivery, and a third copy older than
both. Two nonces let the requests sign the same envelope or different ones. In
`submit`, attempts and polls have the code's own values (3 and 5), two calls
compete for two sequence numbers, and the time bound may pass at any moment. In
`generate` two workers are what overlapping deliveries of one job take,
and 3 attempts and 1 stall are the code's and BullMQ's values. In `list_safety`
five rows in pages of two make three pages, of which the last is not full. In
`server` five attempts are the code's, with the pauses they make, and two
requests are the least that can overlap; the three routes have a probe, every
status a handler throws, and no handler at all (the other routes differ in what
they may throw, which the theorems cover). In `auth_sessions` three logins of one
wallet make one before, one during and one after a logout, and the fourth is
another user's. The theorems of section 7 remove the bounds for the properties they state.

**Symmetry** is used in `verify_safety` only, which checks no liveness;
requests there differ in nothing but their names.

**Deadlock** is not checked: every system here may stop. All requests are
answered, nothing is queued, and the network is quiet.

**Fairness.** `FairSpec` of `ProofVerification` and of `StellarSubmission`
assumes that an await of a call under way settles, one way or another: HTTP
clients and database drivers answer or throw. Which way is not assumed, so
fairness is on the disjunction `RequestStep(r)`, `RunStep(w)` or `CallStep(c)`,
never on an outcome, and it begins only once a call is under way. Nothing is
assumed of the network, of time or of crashes: `ActorsEnd` and `CallsEnd` hold
although no envelope need ever be applied, because five polls end by
themselves. In `ProofGeneration` the awaits of a delivery settle, BullMQ
promotes delayed jobs, finds those whose worker is down, and hands out waiting
jobs as long as an idle worker is left. Nothing is assumed of requests:
`queue.add` waits as long as Redis cannot be reached. `JobsSettle` therefore
speaks of jobs that were added, and excepts the case that every worker is down.
In `Server`, weak fairness is on `Bootstrap` (timers fire, and an attempt to
connect ends) and on `Proceed(r)`, any stage of a request, unless it is the
handler of generate (`AwaitsRedis`), where `queue.add` may wait for ever. Nothing
is assumed of the database, of Redis or of signals: `StartEnds` supposes that Redis
can, in the end, always be reached, because `QueueSettles` needs it, and says
nothing of a Redis that never can, with which the server does not start.
`RequestsEnd` excepts the end of the process and a request that waits in the
handler of generate.

## 6. Where the code and its documents disagree

Each is a run that finds the statement violated; `PROJECT.json` quotes the text.

| Run | Statement | What happens |
|---|---|---|
| `failed_but_on_chain` | `failed` means that verification failed (`PROOFS_API.md:197`) | the row is marked failed on every error after signing: sends that threw although one got through, five polls without an answer, a database error after a confirmed transaction |
| `success_taken_back` | verification updates the status (`proofs.controller.ts:164`) | the worker loaded the row before the verification and saves its copy afterwards: status `generated`, no hash, after the caller was told success |
| `refused_but_stored` | 400 is an invalid request (`proofs.controller.ts:219`) | a valid request whose row is stored and whose job could not be added is answered 400 |
| `dates_not_inclusive` | dates are inclusive (`PROOFS_API.md:200-201`) | microseconds of `createdAt` against a `Date` in milliseconds |
| `status_miscounted` | requests are counted by their status (`metrics.service.ts:21-22`) | the interceptor's error branch runs before the exception filter: a request that throws is counted as a success, and `isErrorRateHigh` never holds |

Observed while modelling, and stated by no run, because the repository does not
say otherwise of the code that is used: `updateProofVerified` leaves the
message of an earlier failed attempt in the row; the commitment hash has no nonce,
so that two requests in one millisecond share it (unique only in a table of
`schema.prisma` the services do not use); requests refused by the body parser
or the router are not counted at all; a database outage is answered 400 by the
handlers that read proofs.

## 7. What is proved

Every theorem is of the form `Spec => ...` for all values of the constants that
satisfy the named `ASSUME`s of the module. The assumptions are of types (each
proof has a payload, limits are numbers), of disjoint names (requests are not
runs), that `Null` is none of the values it is told from, and, where something is
counted over all requests, that there are finitely many. TLC evaluates them
in every run. None of the theorems assumes fairness.

| Module | Theorem | States |
|---|---|---|
| `ProofVerificationProofs` | `TypeCorrect` | `TypeOK` |
| | `VerifiedIsOnChain` | `VerifiedOnChain` |
| | `QuotesAreAlwaysTrue` | `QuotesAreTrue` |
| | `OkIsConfirmed` | `OkReplyConfirmed` |
| `ProofVerificationRefinement` | `VerificationImplementsLifecycle` | `ImplementsLifecycle` |
| | `VerificationImplementsContractCall` | `ImplementsContractCall` |
| `ProofVerificationStability` | `UnfitIsNeverVerified` | `UnfitStaysUnverified` |
| | `SettledIsFinal` | `VerifiedSettles` |
| | `ActorsAlwaysAdvance` | `ActorsAdvance` |
| `StellarSubmissionProofs` | `SubmissionTypeCorrect` | `TypeOK` |
| | `SubmissionImplementsContractCall` | `ImplementsContractCall` |
| | `CollidingCallsNeverBothConfirmed` | `CollidingCallsNotBothConfirmed` |
| | `RpcErrorsAlwaysCounted` | `RpcErrorsCounted` |
| | `CallsAlwaysAdvance` | `CallsAdvance` |
| `ProofGenerationProofs` | `GenerationTypeCorrect` | `TypeOK` |
| | `CreatedIsAlwaysComplete` | `CreatedIsComplete` |
| | `DeliveriesAlwaysFindTheirRow` | `DeliveriesFindTheirRow` |
| | `CompletedWasAlwaysProcessed` | `CompletedWasProcessed` |
| | `GivenUpOnlyAfterRetries` | `GivenUpAfterRetries` |
| | `GenerationImplementsProcessing` | `ImplementsProcessing` |
| | `JobsAlwaysAdvance` | `JobsAdvance` |
| `ProofListingProofs` | `ListingTypeCorrect` | `TypeOK` |
| | `NoneEverMissed` | `NoneMissed` |
| | `PagesAlwaysWithinTotal` | `PageWithinTotal` |
| `ServerProofs` | `ServerTypeCorrect` | `TypeOK` |
| | `RetriesAlwaysInTime` | `RetriesInTime` |
| | `OutagesAlwaysOutlived` | `OutagesOutlived` |
| | `CountersAlwaysAddUp` | `CountersAddUp` |
| | `HealthAlwaysTruthful` | `HealthTruthful` |
| | `ErrorsAlwaysTraceable` | `ErrorsTraceable` |
| `AuthSessionsProofs` | `AuthTypeCorrect` | `TypeOK` |
| | `OneUserPerWalletAlways` | `OneUserPerWallet` |
| | `AnsweredIsAlwaysStored` | `AnsweredIsStored` |
| | `LogoutAlwaysInvalidates` | `LogoutInvalidates` |
| | `RevokedOnlyByItsUser` | `RevokedByItsUser` |

**Verification.** `VerifiedOnChain` speaks of rows, and is not inductive: a save
writes columns that were read at any earlier time. The invariant `SafetyInv`
says the same of every *copy* of a row (`SoundCopies`), and says it of each
column by itself (`Sound`), so that every mixture of fresh and stale columns is
sound too (`SoundSave`). Two more things are needed: the ledger takes nothing
back (`LedgerFinality`), so an old copy stays sound (`SoundStable`); and what a
request knows of its envelope where it is (`Informed`), so the copy it makes is
sound to begin with (`SoundMarks`). `TypeInv` adds to `TypeOK` which local
variables are set at which `pc` (`Placed`).

**The status lifecycle.** Beyond that invariant, `StatusInv`: a request's copy
says verified or failed, a run's copy is of a queued row, and nothing of a
queued row is pending. Every step then saves one row, moves the ledger, or
stutters (`SaveOrLedger`), and each maps to a step of `ProofLifecycle`.

**Contract calls.** In `ProofVerification` a case analysis on what a step does
to the phase of a call (`PhaseChange`), with `CallInv`: no envelope before
signing, one reply. In `StellarSubmission` the invariant is `TypeInv`, whose
part `Placed` bounds attempts and polls where they are compared and says that
whatever is in transit was signed by some call.

For `CollidingCallsNeverBothConfirmed`, `UsedOnce` adds that an applied
envelope used its number, alone: the network applies the next number only.

`RpcErrorsCounted` is stated as the cardinality of a set, the pairs of a call and
one of its attempts that threw (`Thrown`), so that no sum over calls is needed:
`ThrowAddsOne` shows that a POST that throws adds exactly one pair, and
`SameFailures` that nothing else changes the set. That the set is finite is part
of the invariant (`ErrorsCounted`) and not assumed: it grows by one pair at a time.

**Running down.** `ActorsAdvance`, `CallsAdvance` and `JobsAdvance` are the part of
`ActorsEnd`, `CallsEnd` and `JobsSettle` that needs no fairness. Each gives a
measure of what a request, a call or a job may still do (`StepsLeft`, `AwaitsLeft`,
`ChangesLeft`), and says that every step that touches it makes the measure
smaller. The theorems add that the measure is a number with a fixed upper bound,
so no sequence of lost answers, stalls and retries is endless. For `ActorsAdvance`
the catch clause is what matters, which saves again after a save that failed: an
error of that second save leaves `verifyProof` and is not caught again. For `JobsAdvance` it is
`Counted`: a waiting job has a delivery left.

**What is never taken back.** The two action properties need `TypeInv` and no
other invariant; the work is in what each actor holds (`ActorChange`). For
`UnfitStaysUnverified` it is who may still mark the row (`Verifiers`): the check at
232 lets no request join them once the proof is unfit (`NoRequestJoins`), a run
joins only with a copy of a verified row (`RunsJoinByCopy`), and a row becomes
verified only by one of them. A request admitted before the expiry is one of them,
and may verify the proof later: `expiresAt` is compared once. For `VerifiedSettles`,
`Settled` is preserved by every step from every well-typed state. The proof shows
why `Settled` must speak of copies: a run whose copy is of this very verdict may
save it, and `SameVerdict` says that this changes the stamp at most.

**Generation.** `IInv` follows a request from store to store (`Stored`), counts
how often a job in each state can have been delivered (`Counted`; the bound on
deliveries in `TypeOK` is a consequence of it), and says that what a worker
works on was delivered, and is done when it returns (`Working`).

For the refinement of `ProofProcessing` the count has a lower bound too: a job
that stalled was delivered at least as often, so one that is given up for its
stalls was delivered more than `MaxStalls` times. Every step of the queue maps to
`Deliver`, to a settling of an open job, or to nothing (`StateImplements`); that a
worker that lost its lock maps to nothing is `FinishImplements`, and that its late
save is the work of a job that *was* delivered is `RunImplements`.

**Listing.** A page is found by counting newer rows, so the invariant counts: a
row the client is owed and has not seen has at least `Read * Limit` newer
matching rows, where `Read` is the number of pages read (`Owed`), and while a
page has rows, the rows that match, with those that stopped matching since the
page was read, are at least the rows of the page and of those before it
(`Filled`). The first count only grows while no row stops matching, whichever rows
are inserted (`MoreMatched`); the second counts what stopped, so it never shrinks;
and a later request's window contains the earlier one's, because a `Date` keeps
the order of times (`ShownMonotone`). `PageOfRows` shows that a page has at most
`Limit` rows, for rows of a page have different numbers of newer rows; and
`PagesOfRows` that `totalPages` pages have room for all rows, and the last is not
empty.

**The start.** The delays are `Delay * 2^n`, of which the prover knows nothing,
and induction over the exponent is out of its reach. `PowersOfTwo` gets
`2^(n + 1) = 2 * 2^n` by counting: a set of `n` elements has `2^n` subsets
(`FS_SUBSET` of the library), and with one element more each subset occurs with
it and without it (`SubsetsDouble`). `PowersGrow`, that the last delay is the
longest, counts likewise. `Spent` then says at every stage what was paused for so
far; together with what is left of a pause it is what the attempts made so far
pause for, which is `OutagesOutlived` at the last.

**The server.** `Pausing` bounds what is left of a pause together with how long
the database has been up in it, which is what `RetriesInTime` needs. `Placed`
says what a request has at each stage: an id from the middleware on, an
exception exactly on the way to the filter, and of each check a result that was
so at some moment. `Counted` states each counter as the number of requests with
that label, so that counting one more request is adding one element to a set. That
the requests with a label are those whose handler has ended (`Handled`) is part of
`Placed`: `entered` tells a request the interceptor saw from one the parser or the
router refused, though both go to the filter.

**Authentication.** `Granted` follows a login from the user it found to the row
it stored; `Settled` says that the logins a logout owes are answered, of its user,
and revoked once it has. `OneUserPerWallet` is part of the invariant, since `Upsert`
would otherwise have a choice of users.

**Only model-checked.** Liveness (`ActorsEnd`, `CallsEnd`, `JobsSettle`,
`StartEnds`, `RequestsEnd`), which is beyond the prover. Every other property of a
passing run is stated by a theorem.

## 8. What is not modelled, and the plan

Abstracted in the modules above:

- The content of a payload, of metadata and of messages, logging, and the
  formatting of links. A payload that is not JSON is submitted as a string and
  is a payload like another.
- How many polls the SDK makes, and how long it sleeps, in `ProofVerification`.
- `createProof`, which no route calls, appears as the source of pending rows;
  `invokeRegistryContract` and `submitTransaction`, which nothing calls, are the
  same calls as those modelled.
- Two rows with the same `createdAt`: `ProofListing` names rows by it.
- Fractions. The DTO lets `page=1.5` through; numbers are integers here, and what
  PostgreSQL does with a fractional offset is not this code's.
- The rounding of Horizon's decimal balances to doubles.
- Deletion of rows and users: the code has none.
- Durations and the buckets of histograms; only how many observations there are.
- The expiry of tokens, which no code of the server reads again, and the challenge.
  `verifyWalletSignature` reads neither its challenge nor its signature, so a login in
  `AuthSessions` begins with the upsert, as it does in the code.
- What a request still does after its process was told to end.

Not modelled, and why:

- The DTO of one proof and its explorer link: fields of a row, copied and joined
  to a URL. The request itself is one of `Server`.
- Which tokens the JWT guard admits: a library's business. That it may answer
  401 is in `Server`.
- `getAccountBalance` and the URL helpers of the first `StellarService`: the one
  has no caller, the others format strings at construction.
- `retry.util.ts`, which nothing imports.
- Module wiring, configuration and Swagger: declarations without behaviour.

Left to prove: measures like `StepsLeft` for the start and the requests of
`Server`, as the parts of `StartEnds` and `RequestsEnd` that need no fairness.
