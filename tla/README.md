# TLA+ verification of the !thute platform services

This directory models the concurrent core of the repository: services that
exchange messages, keep queues in PostgreSQL, run workers and agents beside their
APIs, and let overlapping requests change the same rows. TLC checks every model on
small instances; TLAPS proves the central safety properties and refinements of fifteen
components for all instances. `PROJECT.json` maps every definition to the lines it models and
lists components, runs, mutants, findings, hazards and theorems.

## Inventory

| Part | State | Operations | Talks to | What makes it hard |
|---|---|---|---|---|
| Auth (`platform/ithute-auth`) | accounts, applications, sessions, codes, `auth_event_outbox` | sign-in, token exchange, refresh, recovery, disable, revoke; outbox workers claim, post, settle | posts lifecycle events to Push | leases, lost answers, two workers on one row, a hook inside a flush, counters read and written back |
| Push (`platform/ithute-push`) | account and application status, revoked sessions, endpoints, messages, deliveries | apply lifecycle event, register and revoke devices, queue messages, worker batches | FCM, APNs, Web Push | overlapping READ COMMITTED requests, stale ORM copies, one commit per batch |
| Notification (`platform/ithute-notification`) | notifications, deliveries per channel | create, deliver, aggregate | mail, Push, SMS providers | two lock levels, retries, crash before commit |
| Realtime (`platform/ithute-realtime`) | conversations, messages, receipts, durable events, recipients, sockets | send, edit, delete, read, publish, deliver, replay | Push as the fallback, Redis fan-out | rows shared by API and worker, cursors, reconnects, commit and announcement as two steps |
| Hosting (`apps/backend`, `infrastructure/hosting-*`) | projects, deployments, operations, nodes, reservations, databases, backups, sources, builds, failover attempts | place, deploy, roll back, fail over, build, upload, back up, restore | agents and builders poll over HTTP | agent crashes, lost reports, relocation while the source recovers, capacity shared by four paths |
| Mail (`apps/backend`, `infrastructure/mail-node-agent`) | scheduled mail, nodes, accounts, commands, backups, approvals | schedule, claim and send, provision, fail over, restore, approve | mail nodes, SMTP | claims with timeouts, commands that carry old rows, two-person approval |
| Money (`apps/backend`) | subscription, invoices, payments, refunds, bank rows, periods | pay, reconcile, refund, cancel, lock a period, bill, renew | payment provider webhooks, DPO | balances read without locks, usage committed in the middle of billing, repeated callbacks |
| Console sign-in (`apps/backend`) | account, devices, sessions, recovery codes, reset links, step-up codes in Redis | sign in, step up, refresh, reset, change, revoke | Auth, mail, Redis | two stores, unlocked single-use rows, a version that is read and written back |
| Engines, hardware intelligence, DNS, frontend, operations scripts | little protocol state | computation, reports, rendering | the parts above | not concurrent protocols |

What makes each part correct: Auth's outbox tells its whole status and loses no
row; Push ends with the newest status and never forgets a revocation; a queue entry
ends once, and as delivered only when a provider took it; an event is given up only
after its attempts and a reconnecting client misses nothing; a running project has a
release, its data stays where its owner wants it, and capacity is not given out
twice; an engine's databases are what the control plane says; books balance and
locked months stay; a change of credentials ends old access.

## Modules

| Module | Models |
|---|---|
| `LifecycleEvents` | the events Auth and Push share: kinds, subjects, `occurred_at` |
| `AuthOutbox` | `push_event_worker.py` and the `before_flush` hook of `models.py` |
| `PushLifecycle` | `apply_auth_event`, `register_device`, `revoke_device`, read and commit as separate steps |
| `PushSerial` | the properties of Push that hold while no two requests have overlapped |
| `LifecyclePropagation` | the two composed: `applied` of the outbox is `seen` of Push; several Push threads |
| `DeliveryQueue` | abstract: a job is open, then delivered or unsuccessful, once; delivered only if handed over |
| `PushDelivery`, `Notification` | the queues of Push and of the gateway; both implement `DeliveryQueue` |
| `ScheduledMail` | scheduled webmail: claim, takeover of stale claims, cancel, retry, stops |
| `RealtimeEvents` | durable events, worker, replay and one recipient's socket |
| `RealtimeChat` | messages, edits, deletions, receipts and members of one conversation |
| `AuthSessions` | one central account: sign-in, lockout, codes, refresh on both endpoints, recovery, administration |
| `ConsoleSessions` | one console account: password, passkey and step-up sign-in, refresh, recovery codes, resets, changes |
| `HostingFailover` | deployments, the node agent, node health, failover attempts, edge check, cutover, retirement |
| `HostingDatabases` | placement under the node lock, reservations, databases, backups, restores, their agent |
| `HostingBuilds` | build requests, webhook pushes, builders, upload tickets and the verified store |
| `Hosting` | the three hosting modules side by side, with the properties of the last two |
| `MailNodes` | mail accounts and the files a node keeps of them, commands, backups with their retention, failover with and without dual control, the approvals it consumes |
| `Finance` | one invoice's ledger, bank rows, expenses, accounting periods |
| `Billing` | one tenant's subscription: invoices, webhooks, DPO, hand payments, the billing cycle, the owner's changes of the contract |
| `ConsoleAccount`, `Books`, `MailFleet` | instances of `ConsoleSessions`, of `Finance` and `Billing`, and of `MailNodes` beside other components: names told apart, the assumptions on the constants, the properties restated |
| `AuthOutboxProofs`, `PushLifecycleProofs`, `LifecyclePropagationProofs`, `PushDeliveryProofs`, `NotificationProofs`, `RealtimeEventsProofs`, `AccountProofs`, `HostingProofs` | theorems |
| `MC...` | the TLC instances |

How state corresponds. A table is a function from its key to the columns that
control flow reads. Times become an order (`occurred_at`, cursors) or membership of
a set or phase (`due`, `stale`, `when`). A database session that holds rows across a
step is a record of the actor (`worker[w].mem`, `thread[t]`, `clerk[c]`): what was
loaded stays as it was, and only columns that differ from it are written. Whether
rows are read again after a commit follows each service's `expire_on_commit`. `FOR
UPDATE` is a guard on rows that others hold, `SKIP LOCKED` skips them. A unique
column makes the second insert fail. A crash resets the actor and keeps what was
committed; networks lose, delay and repeat. A provider may accept a message and its
answer be lost: the code takes the timeout for a failure and sends again. Variables marked "history" record what
properties speak of and guard nothing. Definitions whose comment begins with
"Mutant" are deliberate errors: each is put in place of a definition to show that a
property notices it, and none is part of a specification.

Where a step stands for more. `created_at` of outbox rows and mail commands is taken to
be in commit order; it is set when the row is flushed (outbox) or when its transaction
begins (commands), so this is exact for transactions that do not overlap.
`HostingFailover` claims a deployment in one step, although
`hosting_operations.py:912-938` loads and commits without a lock, and a failover pass is
one step, although it commits in the middle (`hosting_failover.py:420`). `Finance` finds
the rows that a deletion touches at the flush, although some were loaded before, and
merges a payment's own flush with the one at commit; both differ only while requests
overlap. `RealtimeEvents` leaves out the second delivery of an event found under its
idempotency key (`main.py:349`) and events scheduled for later (`events.py:172-175`); the
first needs two requests with one key that overlap.

Two modules in one run. `MCNotification`, `MCRealtimeEvents`, `MCHostingDatabases`,
`MCPushLifecycle` and `MCFinance` each explore a second module that shares no state
with the first (`ScheduledMail`, `RealtimeChat`, `HostingBuilds`, `ConsoleSessions`,
`Billing`). A behaviour belongs to one of them, chosen in its initial state; the
other stays there, where none of its fair actions is enabled, so the liveness
properties of both are checked as they stand.

## Runs

| Run | Instance | States | Shows |
|---|---|---|---|
| `auth_outbox` | 1 account, application, session; 1 transaction, 2 workers and every failure, or 2 transactions and 1 worker; fair | @auth_outbox | the outbox tells Auth's status, delivered rows were committed by Push, the outbox drains |
| `push_lifecycle` | 2 accounts, 2 sessions, 2 tokens, 3 transactions, 2 threads; 2 console visits, 1 reset link, 1 step-up, 2 changes | @push_lifecycle | a revocation sticks; one request at a time, the newest event wins and the registry is sound. A change of credentials ends what was signed in before; step-up guesses are bounded |
| `lifecycle_propagation` | 1 account, application, session, device; 2 transactions; 2 Push threads | @lifecycle_propagation | once all is delivered Auth and Push agree on revocations, and on the rest unless Push's requests overlapped; the composition implements `AuthOutbox` |
| `push_delivery` | 1 message, 2 endpoints, 2 workers, 2 attempts, 1 crash, 1 lost answer, rotated tokens; fair | @push_delivery | final status true, one hand-over plus one per crash or lost answer, implements `DeliveryQueue`, every delivery ends |
| `notification` | 1 notification, 3 channels, 2 workers, 2 attempts, 1 crash, 1 lost answer; 1 mail, 2 senders, 2 requests, 1 stop; fair | @notification | aggregate never stale, one hand-over plus one per crash or lost answer, implements `DeliveryQueue`, every notification and mail ends, one hand-over per claim |
| `realtime` | 2 events, 2 actors, 2 attempts, 1 crash; 2 users, 1 message, 2 bodies, 4 requests; fair | @realtime | never given up early, events end, replay after a cursor catches up, clients are told of what is stored, nothing is taken back |
| `hosting_failover` | 2 nodes, 2 releases, 1 move, 1 operation, the switch turned once | @hosting_failover | a running project has a live release; a project without opt-in is never moved and keeps its data |
| `hosting_restore` | 2 releases, no move | - | violated: a failed activation removes the container that ran |
| `hosting_databases` | 2 projects, 1 reservation, 1 database, 2 capacities, 2 faults, 6 requests; 2 builders, 2 uploads, 3 pushes, 3 builds | @hosting_databases | placements fit, engine and control plane agree, no push is forgotten, only registered bytes are built |
| `auth_sessions` | 2 threads, 3 failures to the lockout, 2 sessions, 1 code, 3 tokens | @auth_sessions | a code is used once, a change ends sessions, guesses are bounded, refresh with a lock is exclusive |
| `finance` | 2 threads, 2 months, 2 payments, 1 refund, 1 credit, a total of 0 or 2, 6 requests; 2 clerks, 3 webhooks, 2 periods, 2 invoices, charges of 0 to 2, 5 requests | @finance | books balance one request at a time, locked months stay; only paid periods are renewed, credit is spent once |
| `mail_nodes` | 2 nodes, 2 mailboxes, 2 owners, 1 approval, 3 snapshots, 1 fault, with and without dual control | @mail_nodes | accounts follow the control plane, storage moves on a report and under dual control with approval only |

Why the bounds are enough. Nearly every hazard here is a race of two actors over one
row, so two workers, threads or visits, one subject and two rows reach it. Two
attempts reach both outcomes of a retry test, one crash reaches every point between
two commits, two transactions give an older and a newer event of one subject, and two
periods give one that ends and one that follows. Three failures before the lockout
(the code's default is five) let two overlapping requests lose a count and still be
locked out later. Three tokens let a session rotate twice, so that a token another request
has rotated can be redeemed. Seven MC modules cut their instance further where everything would be
full at once, by a bound that is named and stated where it is declared: `MaxBusy` on
rows and failed sign-ins together (`MCAuthSessions`), on moves, operations and manual
changes (`MCHostingFailover`), on snapshots and faults (`MCMailNodes`, `MaxKept` where there are no mailboxes), on changes and
stops of scheduled mail (`MCNotification`) and on ledger requests once two have
overlapped (`MCFinance`); `MaxRows` on the rows of a session store, refresh tokens
included (`MCAuthSessions`, `MCPushLifecycle`); no crash once there are two events (`MCRealtimeEvents`). Each pair
of these still occurs. Three explore an instance in parts, chosen in the initial state:
`MCAuthOutbox` one transaction with two workers and every failure, or two transactions, so
that a subject goes off and on again, with one worker and no failure beyond repeated posts;
`MCLifecyclePropagation` requests of Push one at a time with two posts on the network, or
overlapping ones with one post and no registration, about which nothing is claimed once
requests have overlapped; `MCMailNodes` two mailboxes on one node, failovers of one
mailbox, or backups enough for the retention to delete one. Where two modules share a run, the actors of both are the same
model values, so one symmetry set serves both. Every other bound is a constant of its
module.
What does not depend on the number of actors is proved without bounds.

Deadlock checking is off where a model may stop because a bound is used up or all
work is done; that is the case in every run.

Fairness. Workers run in a loop and `compose.production.yml` restarts them
(`restart: unless-stopped`), so a worker's enabled step is weakly fair. Backoff,
lease and claim times pass. In `AuthOutbox` the POST, its answer and the settling
are strongly fair: a crash or a lost answer may interrupt one try after another, but
not every try for ever. In `Notification` the parent lock is granted by a strongly
fair step, because PostgreSQL queues waiters. Customers, administrators, callers and
faults are never fair.

## What the code does differently from what is said of it

`infrastructure/hosting-agent/README.md:39` says "If activation or acknowledgement
fails, the candidate is removed and the previous container is restored."
`restore_previous` (`agent.py:307`) removes whatever has the project's name before it
looks for the backup. When `activate` fails before the rename, that is the previous
container itself: it is removed and nothing is started. `hosting_restore` shows it.

Stronger forms of several properties are refuted by TLC. The runs check what remains
true; the exceptions in the properties are exactly these.

* Push and Notification. A provider that accepts and answers too late is asked again
  (`providers.py:117-120,170-183`), so a device or a recipient may get a message twice
  without any crash.
* Push. With two overlapping lifecycle requests the newest event need not win: the
  row is read without a lock, and `changed_at` and `active` may even come from
  different events. Two registrations may keep one token. Two workers that finish the
  last two deliveries of a message both see the other's as waiting, and the message
  stays `processing`. A worker switches off, at the end of its batch, an endpoint
  that has a new token by then.
* Realtime. An event whose process dies after committing `publishing` is selected by
  no query again. A replay skips an event that is published below a cursor the client
  has seen, and a socket that connects without a cursor gets no replay. A message whose request dies after the commit is announced to nobody. A
  receipt may go back from read to delivered, `last_read` may move backwards, and an
  older edit may be announced after the newer one.
* Scheduled mail. `webmail_productivity.py:406` says that several replicas are safe.
  Taking over a stale claim changes no column, so `updated_at` stays stale and a third
  process claims and sends the same message. A slow sender may overwrite `sent` with
  `failed`; cancel and retry that overlap leave a cancelled row with its secret, which
  `models/webmail_next.py:107` says is erased.
* Auth. Wrong passwords under way at the same time lose counts. With n of them and a
  limit of m the bound is choose(m - 1 + n, n) - 1 guesses, not m; the same holds of
  step-up codes of the console. The first-party refresh endpoint does not lock, so one
  token may be rotated twice. A sign-in that overlaps a disable, a password change or
  a sign-out everywhere keeps its session.
* Console. A reset link, a recovery code and a step-up code are read without a lock
  and may be used by two overlapping requests (`auth.py:569` says a link can be used
  once). `session_version` is read and written back, so two overlapping changes raise
  it once. After too many wrong codes no new code is mailed until the mark expires.
  `mfa_setup` overlapping `mfa_enable` may leave MFA on with an unverified secret.
* Hosting. `hosting_webhooks.py:20` says one builder works on a source: a queued build
  and a webhook delivery lock different rows, so two may be queued and claimed. A push
  recorded while the last build reports success stays pending until the next push. A
  ready ZIP source may lack its archive when the answer of the completion is lost.
  Resumed projects, deletions that start, capacity cuts and the second target of one
  failover pass take capacity without a check. Claimed rows have no lease.
* Mail nodes. Commands carry the row as it was loaded; a claimed backup of a dead
  agent blocks further ones; a deletion reported as failed returns a snapshot to
  `ready` although its archive is gone. Every command rewrites the whole accounts and quotas
  files in place: one that fails or crashes meanwhile loses the accounts of other
  mailboxes, until their next command. The retention does not see the snapshot that has
  just become ready (`autoflush=False`) and keeps one more than configured. A completion
  the agent gave up waiting for may still be committed, and move mailboxes to a node
  whose storage is another snapshot by then. Dual control is off by default
  (`config.py:37`); a failover then needs no approval. `docs/SECURITY_BACKUP_AND_DUAL_CONTROL.md`
  says approvals are single-use: two overlapping requests may both consume one (a late
  second approval sets the row to approved again, but `consumed_at` stays and is refused). Failovers
  of one source to two targets, each approved, may take turns with a mailbox: each report
  moves what it found on the source, and the last to commit keeps it.
* Finance. Overlapping payments overpay an invoice, and a payment that overlaps a
  cancellation un-cancels it. An invoice for nothing is never settled: `sync_invoice_payment_status`
  leaves it draft or sent. A period may be locked between the guard and the commit,
  and refunds that the database deletes with their payment pass no guard.
* Billing. Overlapping generation bills one period twice and uses one credit twice, and an owner's change of the contract that overlaps it writes back
  credit that has been used. A
  webhook that failed is answered as a duplicate when it comes again, and never
  applied. A second checkout hides the first transaction, whose payment is then not
  found. A repeated callback of an old paid transaction reactivates a subscription
  that has been cancelled or is overdue, and the cycle turns a cancelled subscription
  with an unpaid period into an overdue one with a new grace time.

Read in the code on the way, outside the models: `hosting_operations.py` uses five
functions of the node health service it does not import; `_finalize_attempt` takes a
suspended project out of suspension; a failed failover is never tried again by the
daemon; a bank row stays matched after its payment is deleted; an invoice of a locked
period is mailed before the request is refused; the recurring-invoice advisory lock
belongs to a pooled connection; the login risk score never reaches the value that
blocks; a mail migration of a dead process blocks further ones.

## Proofs

Each proof module follows one argument: an inductive invariant, checked by TLC on the
component's run first unless it asks for a function that exists (`Spread`), one lemma or
step per action, and a last temporal step. The theorems hold for any number of rows, actors, attempts, crashes and requests.

* `AuthOutboxProofs`. `TypeCorrect`, `DeliverySound` (`DeliveredWasApplied`),
  `DeliveryFinal` (a delivered row is never reopened or claimed), `StatusRowsOrdered`
  and `OutboxComplete` (`OutboxTellsStatus`). `DeliveredWasApplied` is not inductive: a
  worker that has its 2xx answer settles later, so `DeliveryInv` adds that the event of
  every worker past its answer has been applied. `OutboxTellsStatus` needs `StatusInv`:
  no row is newer than the last transaction.
* `PushLifecycleProofs`. `PushTypeCorrect`, `RevocationNeverLost` (`RevocationSticks`)
  for overlapping threads, and two theorems about behaviours in which no two requests
  have overlapped so far: `SerialStatusSound` (`SerialNewestWins`) and `SerialRegistry`
  (`SerialRegistrySound`). They rest on what a single request has loaded still being what
  the table holds. Their hypothesis `PostedOnce` is that one Auth transaction writes one
  event per subject; `StatusRowsOrdered` proves that of the outbox.
* `LifecyclePropagationProofs`. `CompositionIsOutbox` (`ImplementsOutbox`): every step of
  Auth's workers and of Push's own read and commit steps is a step of `AuthOutbox`, whose
  environment commits atomically, or a stutter. `RevocationAgreement` and `Agreement` (`AgreeWhenDelivered`), for any number of
  threads: revocations agree however requests overlapped, accounts, applications and
  endpoints as long as none did; overlaps really lose updates of these. Each step is also a
  step of `PushLifecycle`, so the theorems of both components carry over; once every row
  is delivered, Push has seen exactly the rows Auth wrote, and both derive the status
  from them.
* `PushDeliveryProofs`. `FinalStatusIsTrue` (`FinalStatusTrue`), `SentOnce`
  (`SentOncePerLoss`) and `PushIsQueue` (`ImplementsQueue`). The invariant says that
  no two workers hold one delivery, that what a worker holds of its batch is the stored
  row or what an outcome made of it, that its copy of a sibling is stale only in one
  direction (it is seen as waiting though it has ended), and that an acceptance which no
  transaction remembers was lost by a crash or with the provider's answer.
* `NotificationProofs`. `StatusIsTrue` (`StatusTrue`), `SentOnce` (`SentOncePerLoss`) and
  `GatewayIsQueue` (`ImplementsQueue`). The invariant adds that a parent lock has one
  holder, and that the statuses its holder aggregates are those in the table, with the
  answer it got in place of the row it handles. Its last part is about an instance of
  `ScheduledMail`: `MailSentOnce` (`SentOncePerClaim`). Requests commit rows they loaded
  earlier, so the invariant counts: the hand-overs made, the senders that may still make
  one, and one for a message that waits in the queue are within the claims
  (`HandOversFit`); a claim under way has its row locked and as it loaded it. Its last
  part is about the mail nodes of `MailFleet`. `MovesApproved` (`MoveApproved`): whoever
  decides an approval is not its requester (`VerdictsSound`); a failover under way and a queued restore carry the approval row that
  grants exactly this source, target and snapshot, unless there was no dual control, and
  a consumed approval is used again only by requests that had read it before
  (`FailoversSound`, `RestoresSound`); an agent works on a claimed row of its own, and while it waits for the
  answer its storage is the snapshot it restored (`AgentsSound`); reports that are still
  to be committed are of restores (`ReportsSound`). `AccountsAlwaysFollow`
  (`AccountsFollow`): an agent takes commands in order (`CommandsOrdered`), and the last
  command written for a mailbox is what both files say, as long as the later commands of
  the node wait or were written whole (`FilesSound`); the last command for a mailbox on
  its node says what the row says (`LastSound`), because a request that nothing
  overlapped has loaded the row as it is (`AloneSound`).
* `RealtimeEventsProofs`. `GivesUpOnlyAfterMaxAttempts` (`NeverGivesUpEarly`). The
  invariant says that neither the table nor any stale copy counts more attempts than were
  begun, and that an actor past `hub.publish` holds a published event. `ReplayIsComplete`
  (`ReplayCatchesUp`): a cursor the client holds is that of an event it received, and
  what was published in order and it lacks lies beyond the cursor of its next replay
  (`CaughtUp`). This needs that cursors number the stored events without repetition
  (`Cursors`), and that an event, once given up within its attempts, is in nobody's hands
  who could open it to replays again: while one actor delivers it, all others count fewer
  attempts than were begun (`Flight`). Its last part is
  about an instance of `RealtimeChat`: `ClientsAreTold` (`ClientsTold`) and
  `NothingIsTakenBack` (`NothingTakenBack`). The invariant says that the time of an edit
  to come is no other's (`EditFresh`), so a copy told with the edit time of the row has its
  text (`CopySound`) and an event refused for its key would have said what the stored one
  says, and that what nobody was told yet has a request that will (`ToldOnce`, `TextTold`,
  `DeletionTold`). Nothing is taken back because a request writes only what it changed.
* `AccountProofs`. `GrantsUsedOnce` (`GrantUsedOnce`), `ChangesEndSessions`
  (`ChangeEndsSessions`) and `RefreshesExclusive` (`RefreshExclusive`) of central
  accounts. The invariant says that the holder of a row lock holds it alone and has the
  row as it is, that a row that still works was never used, and that a change which has
  selected the sessions to end has selected every live one whose sign-in does not overlap
  it. `ConsoleChangesEnd` (`ChangeEndsAccess`) says the like of the console's accounts,
  whose version is read and written back. The second part is about `Books`.
  `BillsStaySound` (`BillsSound`): a renewed period has a paid invoice whatever webhooks,
  callbacks and hand payments overlap and, one request at a time, no period is billed
  twice and the balance is the credit granted less what was drawn, whatever the owner
  changes in the contract. `LockedPeriodsKept` (`LockedPeriodKept`): a request commits only
  rows of months that its flush found open, with the exceptions the property names.
  `LedgerBalances` (`SerialLedgerSound`): the balance and status of the invoice are those
  of its payments, refunds and credits, for totals of zero too, in behaviours in which no two requests have
  overlapped. The sums run over finite sets of rows, in an order that the definition
  leaves open; that a sum does not depend on it, and what adding, changing and deleting a
  row does to it, is shown by a least counterexample, since induction is not at hand.
  The last part bounds what the stale counters let by: `LockoutsBounded`
  (`LockoutBounded`) and `StepUpsBounded` (`StepUpGuessesBounded`). A failure that had
  read the count j puts the counter at j + 1, and a request can fail at j only while the
  counter, or the count it holds, is at j or below. The invariant (`Spread`) asks for
  numbers h[0] = 0 up to h[limit] = the failures so far, where h[j + 1] exceeds h[j] by at
  most the lattice paths that the requests above j can still have made (`Paths`). A
  failure at j moves one request above j, which Pascal's rule pays for. The factorial of
  the bound is a recursive function: that it exists, that the division is exact and
  Pascal's rule are lemmas, again by a least counterexample.
* `HostingProofs`. `RunningSound` (`RunningHasRelease`) and `DataKept`
  (`DataKeptWithoutOptIn`). The daemon commits rows it loaded earlier, so the invariant
  speaks of stored and of loaded attempts alike (`RowSound`): a healthy release stays
  healthy, before the first healthy one every release is on the project's own node, and
  an attempt that has a release or waits for one implies that the owner opted in. Its
  second part is about an instance of `HostingDatabases`: `PlacementsFit`
  (`PlacementFits`) and `EngineSound` (`EngineMatches`). For the first, one request at a
  time is past the node lock, and what it is about to place fits beside what is committed
  (`PlacingSound`); for the second, a queued operation finds the role in the state it
  expects, and what the agent has done but not reported is what the report will write
  (`QueuedSound`, `DoneSound`). Its last part is about an instance of `HostingBuilds`.
  `RegisteredBytesBuilt` (`OnlyRegisteredBuilt`): with a registered checksum the control
  plane asks every upload for it, so what passes the service's check, the store and every
  checkout have those bytes (`BytesInv`). `PushesRemembered` (`NoPushForgotten`): rows and
  the webhook's lock have one holder; while no push is remembered every build under way
  has all that were taken or is still to check out, and so have those beside which a
  delivery or a report will queue another (`BuildsFresh`, `DeliveryFresh`, `ReportFresh`).
  A claim gives a build up only while another is at work or the source has failed
  (`SourceBusy`, `BuildOwed`), which keeps the last build from vanishing.

The assumptions are those named in the modules: positive limits, finite sets and
disjoint identifiers. TLC evaluates them in the runs.

Only model-checked is liveness under fairness (`EveryEventDelivered`, `DeliverySettles`,
`NotificationCompletes`, `MailEnds`, `EventEnds`), which is beyond the prover. Every
safety property of the passing runs is a theorem.

## Not modelled

Cryptography, signatures, token verification, payload formats and rate limits;
provider, mail and registrar protocols (their outcomes are nondeterministic choices);
requests that write one row in one transaction and are read by nothing modelled
(push receipts, reactions, pins, domain orders, most of the catalogue); plan, add-on,
overage and tax arithmetic; mail migrations and invitations; Realtime presence keys
and connection limits; governance approvals of finance; DNS, DNSSEC and deliverability
readings; infrastructure telemetry and its reports; hardware statistics and
prediction; the engines, which are pure functions with a fallback; the frontend;
deployment scripts. Of the 87,881 lines of the implementation most are of these kinds,
a quarter of them the frontend alone: the map covers the protocols, about a ninth.

## Plan

1. Done: lifecycle propagation, the delivery queues, Realtime events and replay, the
   first theorems; then central and console sign-in, chat, scheduled mail, hosting
   (failover, databases, builds), mail nodes with approvals, the ledger and billing.
2. Done: proofs of the outbox, the Push registry, their composition, the three
   delivery queues with their refinements, scheduled mail, replay, chat, central and
   console sessions with the bounds on guessing, the ledger and billing, mail nodes,
   hosting failover, capacity, databases and builds.
3. Further models: presence keys with their time to live and the connection limit,
   invitations, mail migrations, governance approvals.
