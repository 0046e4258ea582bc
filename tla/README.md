# A TLA+ verification of the Enjin wallet daemon

The wallet daemon signs transactions for the Enjin Platform. It learns from a
Pusher WebSocket that there is work, fetches the pending rows over GraphQL,
signs them with keys derived from a local seed, and sends the signatures back.
This directory holds TLA+ models of its core, the TLC configurations that check
them, and TLAPS proofs of what matters most. All line numbers refer to the
files under `src/`; a name like `transaction.rs:462` is `src/src/transaction.rs`.

## 1. The system

### Components

| Component | State it keeps | Operations |
|---|---|---|
| **WorkTrigger** (`work_trigger.rs`) | generation, generation of the current lookup, capped pending count, forced flag, debounce deadline, all behind one mutex; a tokio `Notify` with one permit | `record_event`, `force` (reader); `wait_until_ready`, `wait_for_new_event`, `begin_fresh_lookup`, `finish_batch`, `finish_empty_lookup` (worker) |
| **Transaction poller** (`TransactionJob`, `transaction.rs:48-673`) | page cursor, chains of the previous and of the current scan, owed retry, unproductive pages, failure count | `start_polling`, `batch_step`, `complete_chain_scan`, `finish_scan_retry`, `send_tick_and_wait` |
| **Transaction processor** (`transaction.rs:735-1190`) | nonce cache per (network, chain, signer), kept over batches | `launch_job_scheduler`, `transaction_handler` with its prefetch, signing loop, submission and evictions |
| **Platform client** (`platform_client.rs`, `utils.rs`) | none | `sign_transactions`, `populate_managed_wallets`, `execute_query` with transport retries |
| **Retry policy** (`retry.rs`) | none | `should_continue_empty_drain`, `jittered_exponential_delay` |
| **PusherAwarePoller, PusherStatus** (`work_trigger.rs:15-89`) | connected flag, fallback deadline | `tick`, `set_connected` |
| **Wallet poller and processor** (`wallet.rs`) | as the transaction poller, without idle chains | `start_polling`, `wallet_step`, `empty_scan_step`, `send_batch_and_wait` |
| **Pusher client** (`websocket.rs`) | connection, reconnection delay, keepalive deadlines | `run`, `connect_and_subscribe`, `listen` |
| **Wallet loader, importer, crypto** (`wallet_loader.rs`, `importer.rs`, `crypto.rs`) | the seed file, v1 key files | `resolve_seed_path`, `load_seed` with its migration, `write_mnemonic`, the `import` and `print-seed` commands |
| **Fuel tank dispatch** (`transaction/fuel_tank.rs`) | none | `sign_dispatch`: finds the inner call and the settings of a dispatch by the runtime's metadata, signs the one into the other |
| **Chain information** (`chain_info.rs`, `global.rs`, `substrate_client.rs`) | `METADATA`: a client per (network, chain) | block, metadata and nonce queries, extrinsic encoding |
| **Supervisor** (`main.rs`) | the tasks | start-up; exits when any task ends |
| Registration, environment, GraphQL types, fixtures | none | start-up only |

### Interactions

The WebSocket reader shares one `WorkTrigger` with each poller. A poller sleeps
in its trigger, then runs a *cursor scan*: it requests one page after another
and sends each as a *tick* through a channel of capacity one, with a one-shot
channel on which it awaits the outcome. So one page is in flight at a time. The
processor signs the page and submits the signatures. On any return from a task
`main` exits, and the container's supervisor restarts the process with only the
seed file left.

### What is hard

* **Interleaving.** The reader records and notifies in two steps, the worker
  checks and sleeps in two steps, and either may fall between the other's.
* **Liveness.** Each event postpones the debounce deadline; the count limit is
  what keeps a steady stream from postponing the lookup for ever.
* **Retry bookkeeping.** A scan runs over many pages. What one page owes must
  survive the success of the others, and no combination of replies may make the
  loop spin without a pause.
* **Stale state.** The nonce cache outlives batches while the Platform's nonce
  moves by acceptances, failures and other users of the account.
* **Unreliable delivery.** A submission may be accepted although its response
  never arrives; it is then retried, and later the row may be fetched again.
* **Crash.** The process may die between signing and acknowledgement, and between
  any two steps on the seed file, on which the daemon's identity depends.
* **Upgrades.** A chain's runtime changes under cached metadata and under rows
  that were encoded for the one before, whose fields have other sizes.

### What makes each component correct

* WorkTrigger: no recorded event is slept through or forgotten; deferred work is
  reported exactly; a failure delay is cut short only by something new.
* Pollers: an owed retry is never parked; requests that achieve nothing are
  bounded between pauses; the escalation survives partial success; a chain is
  idle only if a whole scan did not show it.
* Processor: no row is signed again after acceptance; the nonces of an account
  are used in order, without gaps or repetition, over losses and crashes.
* Pusher client: after every reconnection a lookup is forced; a silent peer is
  noticed.
* Wallet loader: a crash never loses a seed in use, no migration and no import changes
  the identity behind a running daemon, and the identity a deployment has from
  its phrase comes back after every interrupted migration.
* Fuel tank and chain information: a row is signed with the metadata of its own
  chain and block or of a later runtime; what is sent means to the runtime what
  was signed, and nothing is signed that is then refused.

`PROJECT.json` lists each of the hazards behind these at its line.

## 2. The modules

### `WorkTrigger`

The trigger's struct is the record `trigger`, with the same fields; the mutex
makes `RecordEvent`, `ForceLookup`, `BeginFreshLookup`, `FinishBatch` and
`FinishEmptyLookup` one step each. `notify_one` is a step of its own (`NotifyOne`)
because it runs after the lock is released. The worker's two waits are split
where the code can be interrupted: look under the lock (`ReadyCheck`,
`NewCheck`), poll the `notified()` future (`Park`), wake by permit or timer
(`ReadyWake`, `NewWake`). `WaitCancelled` is another branch of the caller's
`select!` winning: the fallback poll, or an elapsed retry delay.

Time is the state of the debounce deadline, `none`, `armed` or `due`, and of the
deadline a parked worker captured: an event that arrives while the worker
sleeps moves the trigger's deadline but not the sleeper's (`timer = "stale"`).
The history variables `recorded` and `news` say what was recorded since the
latest fresh lookup and since the current delay began; nothing reads them but
the properties.

### `TransactionScan`

Extends `WorkTrigger` with the poller's scan. An action is one reply of the
Platform or one outcome of the processor with everything the loop does about it
up to its next await: `NoTransactions`, `FetchFails`, `DrainPage`, `AbandonScan`
and `PageRows` for a requested page, `AckProgress`, `AckSkippedPage`,
`AckRetryFresh` and `AckIdle` for an acknowledgement, `DispatchFails` for a
processor that is gone, `FinishScan` for a scan that ended without rows. Replies
and outcomes are arbitrary: that covers every Platform and every processor.
The step actions of the trigger are used as they stand, so the composition is
by conjunction, and `FollowsTriggerProtocol` says that the poller is one of the
workers `WorkTrigger` describes.

The value of a delay is not modelled, only that there is one (`"newStart"`) and
the failure count that its exponent comes from.

### `WalletScan`

The wallet poller on the same trigger. `WalletStep` and `EmptyScanStep` are the
code's pure functions `wallet_step` and `empty_scan_step`, `ApplyStep` and `PlaceAfter`
what `apply_step` and the head of the loop do with their result. A page has
three replies (`DrainPage`, `EndWithoutWallets`, `PageOfWallets`, each with or without
rows that do not convert), a lookup may fail (`FetchFails`), and a page sent to the
processor comes back populated or failed (`Acknowledged`).

What it does differently is `RequestNextPage`: after a failed page the poller waits
out a delay *within* the scan and goes on without telling the trigger. The
trigger's specification allows that (`ResumeScan`) only while the lookup is open,
and `LookupStaysOpen` is why the poller satisfies it.

### `TransactionProcessor` and `SigningLedger`

The processor's handler is a program counter `phase`: `recv`, `prefetch`, `sign`,
`submit`. Any subset of the batch's chains and keys may fail in `Prefetch`; rows
are signed or skipped one by one in any order (`SignRow`, `SkipRow`: missing
metadata, a fuel-tank error, a payload or signature error); `AttemptLost` is a
transport error before or after the Platform took the request, repeated up to
the retry limit with the same body; then `SubmissionSucceeds`,
`SubmissionFails` (with eviction) or `SubmissionRefused`. `Restart` may happen
in any state and loses all of it but the Platform's. The poller is reduced to
`SendTick`: any page of pending rows, any idle set, one tick in flight.

`SigningLedger` is what all this promises: rows accepted at most once, each
batch using exactly the next nonces of each account. `ImplementsLedger`
instantiates it over the Platform's two variables.

The Platform is external. It is modelled from how the code uses it:
a mutation is accepted as a whole or not at all; rows of it already accepted are
ignored. `GetAccountNonce` lags behind what was accepted: for an account that has a
slot in the cache it may answer any nonce from the chain's own (`onChain`) up to
the one after the highest accepted (`MayAnswer`). That is the case `rebase_slot` exists
for (`transaction.rs:821-823`, and the test at 1446-1479, "the common case for
back-to-back pages"), and both of its branches are taken in the runs: the slot
wins over a late answer, and the answer wins when the account was used elsewhere.

Four things are assumed of the Platform and its users that the code cannot enforce:
a request is not processed after its last attempt has been given up; the account
is used elsewhere only while no tick is in flight, and what it is used for is on the chain by
the next nonce query, with everything accepted before it; submitted extrinsics are
not dropped; and an account *without* a slot (never seen, evicted, or after a restart) is
answered with the nonce after its highest accepted one. The cache has nothing to
set against a late answer there, and the comments at 815-817 and 1084-1092 rely on
the Platform for it. Hazards without a property name what happens otherwise.

`Process` is a step of the processor's own task; `FairSpec` makes it fair, and
`EveryTickAcknowledged` is the liveness of the pair of tasks: the poller, which
waits without a timeout, always gets its answer.

`MCTransactionProcessor` fixes the instance for TLC.

### `MetadataCache`

The prefetch of a batch asks each chain for its block (`BlockAnswered`,
`BlockFails`) and, if the cached client is missing or older than the block,
for its metadata (`MetadataAnswered`, `MetadataFails`); then each row of a chain
that did not fail is signed with the chain's cached client (`SignRow`). `Upgrade`
may fall between any two of these, and `Restart` empties the cache. `SignDispatch`
and `KnownCall`, what is made of a payload under a runtime, are parameters, so
what is proved here holds for any of them. Assumed of the Platform: it answers
with the runtime the chain has, and runtimes are not rolled back.

### `FuelTank` and `DispatchSigning`

`FuelTank` holds the functions of `fuel_tank.rs` under their names. `Measure` is the
visitor that finds where a value ends: `Visit` is one step of it, `VisitItems` one
level of nesting, and level after level says where a value of each type ends from
each position, or `Refused`. `Decoded` is the loop over the call's arguments, `dispatch_settings`
and `encode_settings` decode and re-encode the settings, `Refuses` are the checks on
the way, and `sign_dispatch` returns what was signed and what is sent. A call
is a sequence of tokens, each a byte or a value of fixed width that nobody
looks into. The registry `TypeOf` has four layouts: the legacy and the current one,
for which the repository has fixtures, and the two its tests make up, a settings
field without a known default and a signature field that cannot hold one. A settings
layout without any signature field, which the code refuses with an error of its own
(`fuel_tank.rs:72-75`), is not among them.

`DispatchSigning` puts these functions into `MetadataCache` and states what they
are for against a grammar: `CallEnds` is the set of places where a call can end, `SettingsStarts`
where settings can start that a runtime would accept, `SettingsAt` what they can
say. The grammar is set-valued, and has none of the registry, the order of the visits or
the early errors that the code's walk is made of.
`MCDispatchSigning` enumerates the rows: each is well formed for one of the
layouts, whichever the chain has by then, or truncated, extended or garbled.
`MAX_NESTING` is a constant, 128 in the code and 5 in the run, so that rows on both
sides of it exist.

### `WalletLoader`

`load_seed` is the program counter `stage`: `Start` (the daemon, or `print-seed`), the look
at the directory (`FindSeed`, `FindV1`, `Generate`), `OpenSeed` and `FillSeed`, which
are the two halves of `fs::write`, `Verify` and `RemoveV1` of the migration, and
`LoadSeed`. The import command is another process: `ImportPrompts`, which may stay
open for hours, then `ImportLooks` (the check of `write_mnemonic`), `ImportOpens` and
`ImportFills`. Either process may die between any two steps (`LoaderDies`, `ImporterDies`).

What a start makes of an incomplete `wallet.seed` depends on how incomplete it is. One
filled in part is neither JSON nor a phrase, and the start panics; that is `LoaderDies`.
An *empty* one does not stop it: `get_keys` reads it as a plain file,
makes `///KEY_PASS` of it, `SecretUri` takes its development phrase (`DevPhrase`), and
the daemon runs and signs with that key (`LoadEmptySeed`), until the operator stops it
and deletes the file (`DeleteEmptySeed`). Finding 3 shows what this does to an interrupted
migration. `IdentityReturns` is what holds nevertheless: the identities that
come from a phrase are one until an import, so the deployment's own comes back
after `DeleteEmptySeed`, because the v1 key file is still there.

The two processes take no lock. If an import and a `load_seed` are at the file
together, between the look and the last write, one may write over the other's file and a
phrase in use is lost. The actions allow this; `overlapped` records that
it happened, and from then on the properties claim nothing. One `load_seed` and one import run
at a time: two first starts in one directory, which may each draw a phrase, are left out. What remains, and matters in practice, is the prompt: an import
left there while a daemon starts, draws a phrase and signs.

The disk is `seedPath` (what `SEED_PATH` is), `seed` and `v1`; a key is a phrase with the
password that v1 appends to it; the history variables `established` and `signedAs` are the
phrases in use and the identities since the last import. A crash after the migration's write
leaves both files, and the v1 one is not removed later.
`OneIdentity` and `IdentityReturns` speak of the deployment's own `KEY_PASS`: a migration
under a wrong one gives another identity, as v1 itself would have.

### `PusherConnection`

One attempt of `run` goes through the values of `phase`: `connect`
(`Established`), `confirm` (`IgnoreFrame`, `Confirmed`, or `AttemptFails` at any
point), `announce` (`ForceLookup` for one trigger after the other, while the server may
already be sending), `listen`, and `delay`. In `listen`, `Receive` handles a frame,
`Ping` and `PingTimesOut` are the two outcomes of the elapsed deadline, and
`PingTimesOut`, `ReceiveFatal` and `SocketFails` end it; all of them do with
`Disconnect` what `run` does next: drop the socket, publish the state, raise the
failure count. `SetConnected` is the watch channel, and `TakeStatus`,
`PollElapses` and `Tick` are the fallback polls that read it, one for each trigger.

The server and the network are external: a subscribed socket on a live link gets
each event in order, nothing is replayed, and a link may die without either side
being told (`LinkDies`). Deadlines are reduced to whether they have passed, and
a trigger to whether all work created so far was announced to it (`unseen`); an
announcement covers everything created before it, because it leads to a fresh
lookup, which `WorkTrigger` shows. One announcement is weaker than that: a fallback
poll (`Tick`) that falls into a wallet poller's delay within a scan only resumes the
scan at its cursor. The fresh lookup is then the one that scan owes, and `WalletScan`'s
`LeftWorkIsLookedUp` is what shows that it comes.

## 3. The runs

| Run | Shows | Distinct states |
|---|---|---|
| `work_trigger` | No wake-up lost in either wait, deferred work reported exactly, delays not cut short by known work, and every event eventually looked up | 12,018 |
| `transaction_scan` | Owed retries are not parked, seen chains are not idle, no request storm, sticky escalation, the refinement of the trigger, and what a scan left behind is looked up by a fresh one | 767,612 |
| `wallet_scan` | The poller settles only after a scan that left nothing behind, keeps its lookup open over delays within a scan, no request storm, sticky escalation, the refinement of the trigger, and what a scan left behind is looked up by a fresh one | 165,688 |
| `nonce_processor` | With a Platform that accepts what it says it does, however late its nonce queries: no slot past the next free nonce, no gap in what is submitted, refinement of the ledger (each row accepted once), every tick acknowledged | 330,220 |
| `nonce_processor_refusals` | When the mutation may answer `false`: still no re-signing and no nonce used twice | 1,022,922 |
| `pusher_connection` | A listening client on a live link has announced or has in flight everything created, fallback intervals follow the state, backoff grows until a stable subscription, only a silent peer is given up, a half-open link is always left, all work is announced sooner or later | 332,776 |
| `wallet_loader` | Until an import and a start overlap at the file: no phrase in use is lost, a running daemon restarts as itself, and a deployment's identity comes back after every interruption | 221,139 |
| `dispatch_signing` | Rows signed with their own chain's metadata, fuel tank calls that read as they were signed, refusals only where due and before signing | 367,134 |
| `nonce_drift_on_false`, `scan_abandoned`, `seed_empty_file`, `wallet_bad_row` | Findings, see below | |

Bounds, and why they suffice:

* `EventTriggerLimit = 2`: one event below the limit and one that reaches it.
  `Generations = 3` (2 under the scans): the counter wraps within a scan, so the
  comparison of generations is exercised where it is wrong by itself.
* `Cursors = {k1, k2}` and `MaxEmptyPages = 2`: a new cursor, a repeated one, none;
  a drain that continues, one that stops at the bound. The Platform may hand out
  cursors for ever, so scans have any length. `Chains = {c1, c2}` lets one chain
  go idle while the other is active. `MaxFailures = 2` distinguishes reset, one
  step and saturation.
* Two rows with one signer, a row of a second signer on the same chain, a third
  on another chain: a skipped row before or after a signed one of the same
  account, eviction of a chain with two keys, batches over two chains.
  `MaxAttempts = 2` has a lost attempt followed by a final one.
  `MaxNonce` is 2 for the account with two rows, which may move outside the daemon before
  and after an accepted row, so that the query can lag by one nonce and by two; it is 1 for the others.
  `PageSize = 3` is less than the four rows, so a page need not be everything.

* `Kinds = {tx, wallet}`: one trigger is forced before the other, and events of both
  are in flight. `MaxInbox = 2` holds a confirmation with an event before or
  after it, and two events of one kind. The server then waits, which only
  delays what it sends.
* `Phrases = {p, q, r}`, `Passes = {k, w}`: a v1 phrase beside a new and an imported
  one, several v1 key files, the deployment's password and a wrong one. `DevPhrase = dev`
  is none of them.
* One chain is upgraded through all four layouts and another to the second, so the
  client of one chain is never right for the other. Inner calls are
  empty, flat, batched and nested up to and over the bound; settings are absent, or
  present with and without a signature; rule sets have each of their sizes.

No symmetry is used, and one state constraint, `NotOverlapped` in the two runs of
`WalletLoader`: states after an overlap are not explored further. That hides
nothing, since every property there is conditional on `~overlapped`, and no step resets it. Deadlock is checked in every run.

### Fairness

Five runs have liveness properties. `work_trigger` assumes weak fairness of
`NotifyOne` (the reader does not block between unlock and notify), weak fairness
of the worker's own steps (the runtime polls a woken task, and a scan's requests
all have timeouts), and strong fairness of cancelling a failure delay: the delay
is a fixed deadline, and a `select!` that is woken again and again by
notifications still finds it elapsed. Strong fairness of `BeginFreshLookup` says
that scans end, also those that are resumed after delays: the Platform runs out of
pages. The debounce deadline is sure to pass only
if events stop; when they do not, the count limit must do. So the assumption is
`WF(DebounceElapses)` *or* infinitely many events, which covers both. The fallback
poll is given no fairness: `EveryEventIsLookedUp` does not need it.

`pusher_connection` assumes weak fairness of the client's own steps, of the
handshake (each of its waits has a timeout, so it succeeds or fails) and of the
listening loop: its deadline passes unless a frame arrives first. A fallback
deadline is sure to pass, *or* its poller takes infinitely many state
transitions, each of which restarts it. Nothing is assumed of the server,
of the link, or of the reconnection delay.

`nonce_processor` assumes weak fairness of `Process` only: the processor is a task
that waits for nothing but requests, and each of these is answered or fails after
the client's timeout of 30 s (`global.rs:8-14`). Which answer it gets is not subject
to fairness.

`transaction_scan` and `wallet_scan` assume weak fairness of the worker's own steps (each
request is answered or fails within the same timeout, and the processor acknowledges
every batch, as `EveryTickAcknowledged` shows, or is gone), strong fairness of `LastRequest` (the Platform
runs out of pages, or does not answer, sooner or later) and, as in `work_trigger`,
strong fairness of the end of a failure delay. Events and fallback polls are given
none, so `LeftWorkIsLookedUp` shows that the retry does not depend on them.

### Findings

1. **A refused batch leaves the nonce cache ahead** (`nonce_drift_on_false`).
   `sign_transactions` (`platform_client.rs:71-84`) ignores the Boolean that
   `SignTransactions` answers. On `false` the handler reports a completed batch
   and keeps the advanced slots, which is the drift that the comment at
   `transaction.rs:1089-1092` describes. Only an idle-chain eviction, a failed
   batch or a restart removes it.
2. **An abandoned scan counts as a completed one** (`scan_abandoned`). Comments at
   `transaction.rs:139-142` and `349-350` say only a completed scan decides which
   chains are idle. A drain given up with pages left calls
   `complete_chain_scan` too. The eviction is harmless to nonces (the slot is
   seeded again; the other processor properties hold under arbitrary idle sets).
3. **An empty seed file is a second identity** (`seed_empty_file`). A crash between the
   two halves of `fs::write` in a migration leaves `wallet.seed` empty. The next start finds
   it (`wallet_loader.rs:69`), does not look at the v1 key file, and runs under the
   development phrase with `KEY_PASS` as its password (126-132), without a
   warning. The migration's own check (111-113) and the test at 280-284 say the key stays
   what it was. The v1 file is kept, so nothing is lost: see `IdentityReturns`.
4. **A wallet row that never converts resets the backoff** (`wallet_bad_row`).
   `wallet.rs:302-305` says such a row drives the retry delay to its cap. On the
   last page it is taken for an empty scan and beside a convertible row for a
   completed page; both reset the failure count, and the poller parks.
   The transaction poller drops rows that do not convert in the same way.

Not a run: `transaction.rs:571-573` says a pending trigger bypasses the retry
delay. The code, and the comment at 592-594, do the opposite: an owed retry waits
out its delay unless something *new* arrives. The model follows the code.

Not a run either: `transaction.rs:605-607` says the failure count is never reset while a
scan leaves work behind. A `PartialProgress` page resets it (477-478) before it notes its own retry
(486). `EscalationIsSticky` is the weaker property that does hold.

## 4. The proofs

TLAPS checks, for every value of the constants that satisfies the modules'
named assumptions:

* `WorkTrigger_proofs`. The invariant `TriggerInv` strengthens the two sleep
  properties to hold in every place between the check and the sleep: a
  worker that has looked and not yet slept has either nothing to see, or a
  permit, or a reader between its update and its notification. Neither
  property is inductive alone, since it says nothing of the state the worker
  falls asleep from. A second part relates `recorded` to the three fields
  `Deferred` reads, which is what makes a wrap of the generation harmless: the
  pending count is positive whenever an event was recorded.
  Theorems: `TriggerTypeCorrect`, `NoWakeupIsLost`, `NoNewsIsLost`, `DeferredWorkIsExact`,
  `DelayIsHonoured`.
* `TransactionScan_proofs`. `PollerFollowsProtocol` maps every step of the poller to
  a step of the trigger or a stutter, so the trigger's theorems apply to it
  (`PollerLosesNoWakeup`) without being proved again. `ScanInv` adds that each
  debt is recorded in `required` while the scan lasts (`DebtIsKnown`), that the
  current chains are exactly those seen (`CurrentIsSeen`), and the
  budget of unproductive requests in each place of the loop (`RequestBudget`),
  from which `OwedRetriesAreKept`, `OnlyUnseenChainsAreIdle`, `RequestsArePaced`,
  `ScanTypeCorrect` and `EscalationSticks` follow.
* `WalletScan_proofs`. The same plan for the wallet poller. Here the refinement is
  not independent of the invariant: a resumed scan is a step of the trigger only
  because `LookupStaysOpen` holds, and the invariant in turn needs that a delay
  interrupts only scans that owe a retry (`DebtIsKnown`). Theorems:
  `WalletPollerFollowsProtocol`, `WalletPollerLosesNoWakeup`, `OwedScansAreKept`,
  `LookupIsKeptOpen`, `WalletRequestsArePaced`, `WalletEscalationSticks`.
* `PusherConnection_proofs`. `NothingMissedWhileListening` speaks of the listening
  client only; `ConnectionInv` carries it back to the confirmation: from there on
  work is still to be forced or in flight (`NothingSkipped`), because only a
  server that has the subscription confirms it (`SubscribedWhenConfirmed`). With
  two lemmas on sequences and one lemma per group of actions it gives
  `NothingIsMissed`, `IntervalsFollowState`, `BackoffIsHonest` and
  `OnlySilentPeersAreDropped`.
* `TransactionProcessor_proofs`. `ProcessorInv` says where the nonces of a batch
  lie: while nothing is accepted, the signed rows of a key are numbered without
  gap from its next nonce up to its slot; once a lost attempt was accepted, the
  slot is exactly the key's next nonce. `CacheNeverAhead` by itself says nothing
  of a batch in flight, hence this. `SlotOrChain` is why late answers do no harm: a slot can
  be behind the next nonce only where the chain itself has moved on, and there the
  answer is not late; any other slot is at the next nonce and wins. From it follow `CacheIsNeverAhead`,
  `SubmissionsLeaveNoGap` and the refinement `LedgerImplemented`. All assume
  `MayAnswerFalse = FALSE`, and finding 1 shows that the first would be false
  without it; and all rest on the four assumptions of section 2, of which that on
  accounts without a slot is about the nonce query. Its answers for all others
  are arbitrary between the chain's nonce and the next free one.
* `UniqueNonces_proofs` drops that assumption. When a refusal lets the cache drift
  ahead, what a batch submits may have gaps, but its slots were rebased to the next
  nonce or above (`SlotsNotBehind`), the signed rows of a key have distinct nonces
  below the slot (`SignedOnce`), and accepted ones lie below the next nonce
  (`AcceptedBelow`). A lost attempt splits the request in two cases, all of
  its rows pending or none (`FreshRequest`, `AcceptedRequest`). Hence `NoncesAreUnique`,
  `NothingIsSignedTwice` and `ProcessorTypeCorrect`.
* `WalletLoader_proofs`. The properties speak of the disk between commands, and say
  too little inside one. `StageInv` adds what the disk holds at each stage of a start and
  of an import: no `wallet.seed` before it is opened, the drafted v1 phrase still beside an empty
  one, and before the v1 file goes, `wallet.seed` with its phrase, marked as
  imported. `IdentityOnDisk` ties the identities so far that came from a phrase to the
  seed file, or where that is not complete to the only v1 key file. Both hold only until
  an import and a start overlap (`Undisturbed`), which is the condition of all three
  theorems: `SeedsAreKept`, `RunningKeyIsDurable`, `IdentityComesBack`.
* `DispatchSigning_proofs`. `CacheInv` relates the cache to the blocks of the batch
  while its chains are prefetched one by one, and gives `RowsUseTheBlocksClient`. The
  rest is about what the functions of `FuelTank` compute, for payloads of any length.
  Induction is over sets of numbers (`SetInduction`): the recursive functions of
  walk and grammar first get the equations that define them, one lemma each. `CallWalk`
  then follows the visitor through the three types a call is made of, and `CallsAgree`
  shows level by level that the walk ends a call where the grammar does or
  refuses it where the grammar has no end; `RowsAgree` is its step over a batch.
  The fields after the call are of fixed size and are compared token by
  token (`FieldsWalk`, `SettingsRead`, `RuleSetEnds`, `ArgsEnd`). `ReadIsAccepted` and `AcceptedIsRead` join
  both: the code accepts exactly what has a reading. Hence `ReadIsSigned` (a readable
  call with room for a signature is signed as it is read) and
  `UnreadIsRefused` (any other is refused, and nothing signed). The rows carry this into
  the state (`RowSigned`), which with `CacheInv` gives `DispatchesReadAsSigned` and
  `RefusalsAreUnsigned`. That the sent bytes still start as the same call (`StaysTheCall`)
  is what keeps `from_bytes` from dropping a row after its signer has signed.
  Assumed: payloads are token sequences (`PayloadAssumption`), at least four levels of nesting
  (`NestingAssumption`, what the settings take), and that rows are signed
  with `FuelTank`'s functions (`SigningAssumption`: the parameters of `MetadataCache` have
  these values, as in the run).

Every safety invariant, action property and refinement that a passing run checks is
stated by a theorem. Only model-checked are the liveness properties
`EveryEventIsLookedUp`, `DeadLinkNoticed`, `WorkIsNoticed`, `EveryTickAcknowledged` and
`LeftWorkIsLookedUp` (of both scans): they rest on fairness, which is out of the prover's reach.

## 5. Not modelled, and the plan

| # | Module | What it adds | State |
|---|---|---|---|
| 1 | `WorkTrigger` | wake-up protocol | checked, proved |
| 2 | `TransactionScan` | poller on the trigger | checked, proved |
| 3 | `SigningLedger`, `TransactionProcessor` | nonces over losses and restarts | checked, proved |
| 4 | `WalletScan` | wallet poller on the same trigger: scans that go on after a failed page | checked, proved |
| 5 | `PusherConnection` | `run`, `connect_and_subscribe`, `listen`: keepalive, reconnection, a forced lookup after every gap; the fallback polls | checked, safety proved |
| 6 | `WalletLoader` | the seed over crashes, migration and import | checked, proved |
| 7 | `MetadataCache` | the client of each chain over upgrades and failed queries | checked, proved (in `DispatchSigning_proofs`) |
| 8 | `FuelTank`, `DispatchSigning` | the dispatch layouts in that cache, against a grammar | checked, proved |
| 9 | liveness of the processor, `UniqueNonces` without the assumption on answers | every tick acknowledged; nonce uniqueness for every instance | checked; proved |

Not modelled, with the reason:

* **A Platform with a queue of pages.** Which rows a page holds and in which order
  pages come is the Platform's choice, so it is arbitrary here. That every healthy
  row is signed in the end would be a statement about that choice; the scans show
  what the daemon contributes (nothing owed is parked, the scan goes on).
* **Requests that outlive their last attempt, nonces that fall back, late nonce answers
  for accounts without a slot.** What the Platform does about them is not visible in the repository; assuming it refuses
  them would prove the assumption.
* **The exponential delay and its jitter** (`retry.rs:33-50`): arithmetic on a capped
  count, tested over its range by the repository; the models need only that the delay
  is finite.
* **Multitenant registration** (`multitenant.rs`): one mutation before any task runs,
  which ends the process if it fails.
* **Environment, GraphQL types, fixtures, command line, log wording**: configuration
  and generated code without behaviour over time.
* **Cryptography, SCALE and JSON encodings**: which password opens a file, which key
  comes of which phrase and how long a value is are modelled; the ciphers and
  the bytes are not.
* **A seed file that was written but not synced** when the v1 file is removed: the
  code calls no `fsync`, and what a file system then keeps after a power failure is
  not the program's to say. The crashes here are those of the process.

One abstraction deserves a note. The fallback deadline of a poller may already
lie in the past when a failure delay starts, because it is not reset by a scan;
then the delay is cut to nothing (`WaitCancelled` from `"newStart"`).
`NoRequestStorm` counts entering a wait as a pause; the code's interval
of 6 s (180 s while connected) bounds how often this can happen, and the model
has no clock to say so.
