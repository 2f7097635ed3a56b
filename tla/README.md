# TLA+ models of zkAPI

zkAPI lets a client pay for LLM requests from a private note. The note is
deposited in a vault contract; each request proves in zero knowledge that the
note's current state covers a worst-case charge, reveals a one-time nullifier of
that state, and gets back a state signed by the server with the real charge
deducted. This directory holds TLA+ models of the parts of the repository that
keep state, TLC configurations that check them on small instances, and TLAPS
proofs for every size.

Paths below are relative to the repository. `PROJECT.json` maps every definition
to the lines it models.

## 1. Inventory

| Component | State | Operations | Interacts with |
|---|---|---|---|
| nullifier store (`crates/zkapi-serverd/src/nullifier_store.rs`) | SQLite tables `nullifiers` and `openrouter_leases`, one connection behind a mutex | `reserve_v2`, `reserve_openrouter_lease`, `reserve_clearance`, `finalize`, lookups; lease rows: create, time, activate, finalize, remove | called by the processor; survives crashes |
| request processor (`processor_v2.rs`, `routes.rs`) | `current_root`, two async locks, configuration | `process_request`, `process_clearance`, `recover_by_*`, `update_root` | paid upstream, indexer (root), store, many concurrent HTTP handlers |
| lease processor (`processor_v2.rs`, `openrouter.rs`, `oa_org.rs`) | lease rows, keys at the provider, `lease_issue_lock`, `lease_settlement_lock` | `issue_openrouter_lease`, `settle_due_openrouter_leases`, `retire_openrouter_lease` | OpenRouter Management API or the OA org; shares the nullifier table |
| metered provider, pricing (`metered_provider.rs`, `pricing.rs`, `provider.rs`) | price tables | routing, upstream call, conversion of usage to a charge | request processor |
| OA refusals (`oa_org.rs`, `routes.rs`) | none | reading a refusal of the OA org, reporting it to the daemon | OA org, lease processor, client daemon |
| watcher (`watcher.rs`) | none | builds a challenge from the archived inputs of a finalized row | nullifier store, vault |
| dashboard | ring buffer | display | none that decides anything |
| indexer daemon (`crates/zkapi-indexerd`) | tree mirror, readiness flag, cursor, checkpoint file | `poll_once`, `persist_checkpoint`, restart, HTTP reads | chain RPC, server's root poller, clients |
| client daemon (`crates/zkapi-clientd`) | wallet file, pending request, direct lease (its key in memory only), withdrawal plan | deposit, request, lease, reconcile, recover, withdraw | server, indexer, vault |
| client daemon gateway (`crates/zkapi-clientd/src/compat.rs`, `routes.rs`, the direct path of `service.rs`) | one call: attempt, key, stream converter | OpenAI, Responses, Ollama and inference endpoints; retries; streams | applications, OpenRouter, protocol server |
| command line (`crates/zkapi-cli/src/main.rs`) | the process; files of the wallet in `retired/` and `archive/` | `zkapi client` (rotate, fund, serve), `zkapi withdraw` (settle, prepare, send, wait, reset, finalize) | daemon, cast, vault, indexer |
| browser wallet and client (`sdk/services`) | IndexedDB: notes, leases, pending submissions, withdrawal claims | the same operations across tabs and reloads | server, indexer, vault |
| blind authentication, signers | none | curve arithmetic | all |
| vault contract, protocol crates | the note tree | events | outside the repository's files (submodule) |

What is hard to get right here:

* **Concurrency at one nullifier.** Handlers await the network between the
  reservation, the paid call and the finalization; retries, conflicting requests
  and a clearance can arrive in any of these gaps. The properties: one request is
  served per nullifier, closing excludes spending, one next state.
* **Retry after loss.** Responses, processes and connections are lost at every
  step. A reservation must not be a dead end, and an exact retry must not be
  charged or served as a new request.
* **Two tables and an external provider that no transaction spans.** A lease is a
  row, a key at the provider and a transcript; a crash or a hang-up can fall
  between any two. The properties: a key in a client's hands is accounted for, the
  charge is the key's usage, every active lease is settled.
* **Stale inputs.** Root and clock move between attempts; usage lags behind; a
  restarted indexer has an old tree.
* **Client-side durability** (client daemon, browser wallet): what must be on disk
  before a message leaves, and what two sessions or two tabs may do at once.
* **Processes that end half-way** (command line): a funding or a withdrawal is a
  chain of files, daemon calls and transactions; a transaction outlives the
  process that sent it, and somebody else may use the daemon or the vault between
  any two links. The properties: the secret of an open note is never lost, what a
  command reports has happened, a retired note is in its last state.
* **Dialects and byte streams** (gateway): four request formats become one, event
  streams are cut into chunks anywhere, a retry races the expiry of its key.

The complete list is under `hazards` in `PROJECT.json`, each with its line and the
properties that cover it.

## 2. Modules

```
NullifierStore  <-  RequestProcessor  <-  LeaseProcessor
                           |                   |
                           +----- refine ------+--->  SpendOnce
                           |                   |
             RequestProcessorProofs  <-  LeaseProcessorProofs
IndexerMirror  <-  IndexerMirrorProofs
ClientDaemon   <-  ClientDaemonProofs
CommandLine    <-  CommandLineProofs
Compatibility  <-  Pricing  <-  Gateway  --instances-->  OllamaStream, OaRateLimit
                      |            |
                PricingProofs <- GatewayProofs  <-  GatewayStreamProofs
```

`A <- B` means that B extends A. Each specification has an `MC` module that defines
its instances; the `.cfg` files give the constants their values.

**NullifierStore.** The `nullifiers` table as a function from nullifiers to rows.
Each SQL statement runs under the connection mutex and is durable, so each is one
atomic operator: an INSERT with its primary-key condition (`CanInsert`), the
conditional UPDATE of `finalize` (`CanFinalize`), and the comparison that decides
whether a row belongs to a retry (`SameRequest`). A request is a record of what
the code compares: nullifier, client id, payload, root, time, bound, and two
Booleans for "parses and hashes correctly" and "proof, tag and key verify". The
digest of a request is an injective constructor: hash collisions are excluded.
`finalize` also stores the inputs of the request (`archive`), and the watcher's
`finalized_transcript` and `build_challenge_action` read them. Two things of the
store are left out: a SELECT that fails (`lookup_by_nullifier` answers None, so a
first attempt goes on to the INSERT, whose primary key still decides), and the
conversion of a charge to `i64`, which is exact below 2^63 credits.

**RequestProcessor.** The handlers of `POST /v2/requests`, the clearance endpoint,
the recovery endpoints, the root poller, the clock and crashes. A handler is cut
where it touches the store or awaits: `lookup`, `checks`, `reserve`, `execute`,
`await`, `finalize` (and `clear_lookup`, `clear_reserve`). `upstream`, `replies`
and `cleared` are history variables for what left the server. A response may be
lost (`Deliver` is a choice). A hang-up drops the handler's future at its await
(`ProviderFails`), as axum does. The signature over a next state is an id drawn
fresh per finalization. The caps of the configuration are arbitrary numbers, in any
order, as in `config.rs:168-172`; they are those of one deployment: a restart with
other caps between a reservation and its finalization is not modelled.

**SpendOnce.** The promise to the vault and to clients: a nullifier is unused,
reserved, spent with one outcome, or closed; only the stored outcome of a spent
nullifier is answered; only a closed nullifier is released. It knows nothing of
handlers, roots or crashes.

**LeaseProcessor.** Extends RequestProcessor with the lease table, the provider's
keys, the issuing handler (`start`, `reconcile`, `create`, `creating`) and the
settlement (`start`, `usage`, `finalize`, `lease_row`, `delete`). The two async
locks are modelled by who is inside: a handler of kind `openrouter_lease`, and
the record `settlement`. Both key sources are one module with the constant
`Source`. `HasBudget` is the refusal of a zero limit, which comes after the
reservation (`processor_v2.rs:242`): such a nullifier stays reserved, so
`LeaseReservationResolves` is about positive bounds. The lease row's timing and its
activation, two statements without an await between them, are one step, and the
credits of a settlement are those of the usage. Times are the seconds left. The provider is external: a created key may
be unknown to the server (ambiguous create), OpenRouter's aggregate usage may lag
by up to the grace period, an OA station closes a key when a receipt is asked for.

**IndexerMirror.** The poller's loop (`fetch_block_number`, `fetch_logs`, one step
per event, checkpoint), the mirror, the checkpoint file, the readiness flag, RPC,
decoding and disk errors, and restarts. A Merkle root is represented by the set of
non-zero leaves. An endpoint's answer is one read of the mirror; `handle_note_path`
takes the lock twice, for the leaf and for its path. The chain is external; it does not reorganise, and `eth_getLogs`
(`LogsOf`) answers with the events of a range of blocks, in their order.

**ClientDaemon.** The local wallet daemon `zkapi-clientd`. Its state is the wallet
files (`wallet`: the note's current state and the journal of the one outstanding
request), the withdrawal plan in memory and on disk (`plan`, `planFile`), the
lease whose key is in memory only (`lease`), and the calls in progress (`task`).
A call is cut at every await; what it does under `wallet_mutex` and the lock file
is one step. The other locks follow from where the calls are: `direct_request_mutex`
(`HoldsRead`, `HoldsWrite`), the lease slot's (`HoldsSlot`) and the plan's
(`HoldsPlan`). The actions are the routes (inference through the proxy and through
a lease, recover, settle, withdraw, confirm, reset, deposit), the five-second
reconciliation, and a restart. The server is reduced to one row per state, as
SpendOnce promises and RequestProcessor and LeaseProcessor are shown to keep it. The
vault and the wallet library are external: the vault closes a note for a plan it was
given, and a challenge needs a finalized spend. The three attempts of
`find_direct_lease_for_withdrawal` with the clearing of an orphan after them, and the
clearing of a request refused for its root, are one step with the answer they follow.
A fault is a lost message or answer, a provider's error or a failed write, and can
strike at every await. Assumptions: `request_mode` is the same across restarts; a
deposit is mined later than the calls running when it was made return;
`/wallet/reset` is used as its comment demands, after the note is closed; and a
request is delivered before its call returns, or never.

**CommandLine.** The processes of the `zkapi` command against a daemon whose
handlers are single steps here. `client` is the `zkapi client` process: it rotates a
note that cannot pay the next request to `retired/`, draws a secret, sends the
deposit, waits for the indexer, confirms and then serves. `cmd` are `zkapi withdraw`
processes: settle, prepare, send, wait for the note's status, reset the wallet, or
finalize an escape. A process may end at every step, for any of the reasons that
leave its function by `?`; an end after a step is a lost answer, and what it
broadcast stays in `mempool`. An application uses the same daemon, other people
deposit and others challenge or claim. Assumptions: `cast send` exits with an error
when its transaction reverts; one `zkapi client` per state directory (its lock file);
a deposit is confirmed into an empty wallet. The deposit of an application is one
step from its plan to its confirmation; the steps are those of `client`.

**Gateway.** One application call after another: `Receive` shapes the body, then
either a lease is obtained and the body posted to OpenRouter (`Post`,
`OpenRouterRefuses`, `Wake`, `ReplaceKey`, streams), or the call goes through the
server's provider (echo, HTTP proxy, metered). The wallet and the locks are
ClientDaemon's. Time is counted in quarters of a second because the retry rule
compares whole seconds with a fractional clock. The parts of the gateway that are
functions are modules of their own:

* **Compatibility**: the request and response shims of `compat.rs` on JSON objects
  represented as functions from keys to values. A field no property tells apart is
  represented by `temperature`.
* **OllamaStream**: the converter of an event stream into Ollama's JSON lines. A line
  is a few pieces of bytes, so that a chunk may end inside a line, a payload or a line
  break. `Translation` is the reference it is compared with: the messages of the
  complete lines.
  `consume_complete_lines` is written piece by piece: between two calls the buffered
  input of an unfinished stream holds no line break, so searching it for one and
  looking at each new byte are the same.
* **Pricing**: routing, the price table with its prefix rule, rounding and clamping.
  Money is counted in hundredths of a credit; a double is represented by the integers
  it may round to.
* **OaRateLimit**: how a refusal of the OA org is read (reason, wait) and reported. A
  body is a sequence of objects, each nested in the one before under `detail`, to any
  depth; arrays, and objects under other keys, are left out.

**The modules named `...Proofs`.** The TLAPS proofs, section 5. PricingProofs also
holds the lemmas on the shims of Compatibility.

Operators named `X_Something` directly before `X` are mutants: deliberate bugs in
the modelled code that a property must detect (`PROJECT.json`, `mutants`). Nothing
in a specification uses them.

## 3. Runs

| Run | Shows | Bounds |
|---|---|---|
| `request` | Two handlers and two note states: conflicting requests, exact retries, a re-proved and a forged request, a clearance, charges at, between and above the caps, moving root and clock, lost responses, a crash. `NoDoubleService`, `CloseExcludesSpend`, `OneNextState`, `ChargeWithinProof`, `SpentStateIsChallengeable`, `StoreOnlyMovesForward`, and the refinement `KeepsPromise`. | 2 handlers, 2 nullifiers, 5 requests, 2 roots, 1 crash, 3 signed states |
| `request_live` | A deployment with inverted caps (`PolicyCap` 1, `RequestCap` 2, proofs of 1). `ReservedRequestIsAnswered`: a client that repeats its request gets its response. The inductive invariant `IInv` (with `TypeOK`), here with charges of 2 on proofs of 1. | 2 handlers, 2 requests, 1 crash |
| `lease_openrouter` | Two handlers and the settler on a directly managed key, next to proxy and clearance: `HeldKeyIsAccounted`, `SettledUsageIsCharged`, `SettledLeaseMatchesTranscript`, `EndpointsExclusive`, `LockHoldersSucceed`. | 1 lease, 3 keys, usage up to 1 past the limit, 1 crash |
| `lease_oa_org` | OA keys, a scan over several due leases, and two requests under one client id: the inductive invariant `LeaseInv` (with `LeaseTypeOK`), and the refinement `LeasesKeepPromise`. | 2 nullifiers, 4 requests (one with a bound of 0, no charge cap), 2 lease rows, 2 keys |
| `lease_live` | `ActiveLeaseSettles` and `LeaseReservationResolves` for directly managed keys. | 1 lease, 1 crash |
| `client` | Two calls of two sessions, leases one after another, expiry, withdrawals and a restart at any point: `ReservationIsJournalled`, `RetirementExcludesUse`, `KeyServesOneSession`. | 2 calls, 2 sessions, 1 note of 2 spends, 1 restart |
| `client_live` | The same with a fault at any point instead: the inductive invariant `ClientInv` (with `ClientTypeOK`), `MutualPlanIsFinal`, `FinalizedRequestIsInstalled`. | 2 calls, 1 note of 1 spend, 2 proofs, 1 fault |
| `cli` | A client that is funded, serves, is killed and rotated, a withdrawal command and an application on its daemon, other depositors, challenges and claims: `EscrowedSecretIsKept`, the inductive invariant `CliInv` (with `FundedNoteIsOurs` and `CliTypeOK`), `ReportedPayout`, `SentForSettledNote`, `RetiredStateIsCurrent`. | 1 command, 1 destination, 2 secrets, deposits of 2 credits, cap 1, 2 notes, 1 orphaned transaction |
| `gateway` | Every endpoint, dialect and provider: `RequestReachesUpstream`, `StreamIsFaithful`, the inductive invariant `GatewayInv` (with `RetryBeforeExpiry`, `RetryFits`, `RequestIsKept` and `GatewayTypeOK`), `FairCharge`, `TextReachesCaller`, `RateLimitIsReported`, `EveryCallIsAnswered`. | streams of 3 lines cut anywhere, keys of 1, 2 and 4 seconds, wake-ups up to a second late |
| `lease_resume`, `client_guard` | Findings, section 6. | |
| `indexer` | `ServedRootExisted` over restarts in the middle of a catch-up, `CheckpointMatchesVault` when a batch fails half-way and is applied again, `MirrorCatchesUp`, and the inductive invariant `IndexerInv` (with `IndexerTypeOK`). | 2 notes, 3 blocks in batches of 2, 3 events, 1 restart, 1 failed write, 2 undecodable answers |

Why the bounds are enough. A nullifier's row moves at most twice and the table has
no operation that relates two nullifiers, so two handlers (a winner and a loser of
the INSERT, or a spend and a clearance; a finished handler takes the next call)
exhibit every race at one nullifier; the second nullifier is there for sharing of
states and client ids. Two roots and a clock of three values make each freshness
check pass and fail. One crash reaches every pair of steps; behaviours after it
start from a table state that is also reachable otherwise. The proofs of section 5
remove these bounds for the safety properties of the two processors, the indexer,
the daemon, the command line and the gateway. For the indexer, batches of two blocks in three
blocks give a catch-up of two batches, and three events include deposit, initiation
and challenge of one note, or the deposits of two; a batch may fail half-way twice.
For the daemon, two calls meet at every lock; two spends of one note give a lease
after a lease, the second proof after a cleared one needs a second request; one
fault or one restart strikes at every await. For the command line, a second note is
what an interrupted funding or a rotation leaves behind and what another depositor
may take; a deposit of two credits, the least that is accepted, is rotated after one
charged request. For the gateway, three lines hold a message, an end and something
after it; the key lifetimes lie before, at and after the points where the first and
the second retry still fit.

The indexer run switches off deadlock checking: at the last block with all faults
spent, only the poller's idle tick remains, and it changes nothing. So does the run of
the command line: with both notes used up and no process running, the system may stop.

## 4. Fairness

* A handler that is not waiting for the network, the settler and the poller make
  progress: they are tokio tasks (weak fairness on `HandlerStep`, `IssueHandler`,
  `SettlementStep`, `SweepStarts`, `PollStep`).
* A call to the upstream or the provider returns, possibly with an error: HTTP
  clients have timeouts (weak fairness on the failures).
* A client without a response keeps sending its exact request; an upstream or
  provider that is asked again and again answers in the end, within the
  deployment's cap (strong fairness on these, since failures and crashes disable
  them again and again). This is an assumption on other parties, stated in
  `Fairness` and `LeaseFairness`; without it no server could promise an answer.
* A poller's RPC endpoint answers in the end (strong fairness on `fetch_logs`);
  blocks are mined.

* The daemon's calls run to their end (weak fairness on `Continue`: awaits have
  timeouts, streams end) and its ticker keeps ticking (weak fairness on
  `reconcile_direct_openrouter`); nothing is assumed of new calls, key expiry,
  the server's sweep or the vault.

* The gateway goes on with a call (weak fairness on `Post`, `Wake`, `ReplaceKey`,
  `Deliver`, `StreamEnds`), and what it waits for fails in the end if it does not
  answer (weak fairness on `LeaseFails(502)`, `OpenRouterFails`, `UpstreamBreaks`,
  `ProviderFails`): its HTTP client has a timeout of 180 seconds that includes the
  body (`service.rs:494-495`). Nothing is assumed of an upstream's answers.

Crashes, hang-ups, lost responses and usage of keys have no fairness.

## 5. Proofs

Every bound of the runs is a constant of the specifications, and the theorems hold
for every value of them: any number of handlers, calls, commands, requests, notes,
keys, sessions, faults, crashes, lines and chunks. Each component has an invariant
that is inductive, `XInv`, checked by TLC in a run before it was proved:
`Init => XInv`, one lemma per action for `XInv /\ [Next]_vars => XInv'`, and a lemma
`XInv => Property` for each property. The one invariant TLC does not evaluate is
`StreamInv` of GatewayStreamProofs, which says that an index of the text exists; TLC
checks the property it is for.

### Request processor

| Theorem | Statement |
|---|---|
| `Invariance` | `Spec => []IInv` |
| `TypeCorrect` | `Spec => []TypeOK` |
| `NeverServedTwice` | `Spec => []NoDoubleService` |
| `ClosedOrSpent` | `Spec => []CloseExcludesSpend` |
| `UniqueSuccessor` | `Spec => []OneNextState` |
| `ChargesAreCovered` | `Spec => []ChargeWithinProof` |
| `CapsDecideCoverage` | for a proof of `RequiredSolvency`: every `ChargeCap` is within it `<=> ~CapsInverted` |
| `EscapeFromSpentIsChallengeable` | `Spec => []SpentStateIsChallengeable` |
| `HistoryIsNeverRewritten` | `Spec => StoreOnlyMovesForward` |
| `ImplementsSpendOnce` | `Spec => KeepsPromise` |

Assumptions: `CapsAssumption`, `RequestsAssumption`, `NoneAssumption` and
`BoundsAssumption`, all of them types. In particular nothing is assumed of the order
of the two caps, and the code does not check it. With policy enabled the solvency
check uses only the policy cap, while `finalize_request` holds a response without a
policy reason to the request cap. `ChargesAreCovered` therefore says: a charge is
within the bound of its proof, unless the caps are inverted (`CapsInverted`: policy
enabled with `policy_charge_cap < request_charge_cap`), the request was proxied, and
the charge is within the request cap. `CapsDecideCoverage` says that this exception
cannot be made smaller: a proof of the least accepted bound is covered by both caps
if and only if they are not inverted. A lease is always covered.

None of the properties is inductive. That nothing is served twice depends on a
handler past the INSERT still owning the row when it calls the upstream; that a
charge is covered depends on a check the handler made before the INSERT, of a
request that a retry never checks again. `IInv` says so:

* `HandlersWellFormed`: what a handler carries at each point;
* `HandlersOwnRows`: a handler past the INSERT works for the request and the
  endpoint its row is bound to, and one about to INSERT has passed the solvency
  check;
* `RowsHaveOwners`: a row in use belongs to one solvent request of one endpoint,
  which covers its charge (`ChargeCovered`, with the exception of inverted caps);
* `StatesAreFresh`: state ids are never shared and exist only in finalized rows;
* `HistoryIsDurable`: everything that left the server is on disk.

`IInv` speaks of both endpoints, so that the lease processor's proof uses it
unchanged.

`EscapeFromSpentIsChallengeable` needs one more, `ArchiveIsServed`, inductive relative
to `IInv`: a handler that is about to finalize has sent its request, so the inputs
archived in a finalized row are those of a request that was served. Together with
`HistoryIsDurable` it says that the watcher can build the challenge from the moment a
caller holds a response, and never for a cleared state.

The step is proved action by action; rows only change in the three statements of
the store, and `BoundTo` is stable under all of them. The refinement follows from
the same invariant: every step maps to a step of SpendOnce or a stutter.

### Lease processor

| Theorem | Statement |
|---|---|
| `LeaseInvariance` | `LeaseSpec => []LeaseInv` |
| `LeaseHeldKeyIsAccounted` | `LeaseSpec => []HeldKeyIsAccounted` |
| `LeaseMatchesTranscript` | `LeaseSpec => []SettledLeaseMatchesTranscript` |
| `LeaseUsageIsCharged` | `LeaseSpec => []SettledUsageIsCharged` |
| `LeaseEndpointsExclusive` | `LeaseSpec => []EndpointsExclusive` |
| `LeaseLockHoldersSucceed` | `LeaseSpec => []LockHoldersSucceed` |
| `LeasesAreSafe` | `LeaseSpec => [](NoDoubleService /\ CloseExcludesSpend /\ OneNextState /\ ChargeWithinProof)` |
| `LeasesImplementSpendOnce` | `LeaseSpec => LeasesKeepPromise` |

Here two tables, a provider and a transcript have to agree although no transaction
spans them, so each part of `LeaseInv` relates two of them, for every point at which
a handler or the settler may stop: `IssuerOwnsLease` (the lock excludes, and the
issuing handler's row is the one it left), `LeasesHaveOwners` and `KeysHaveOwners`
(rows and keys belong to the one request that reserved the nullifier for a lease),
`HeldKeysAreLeased`, `SpentLeasesAreSettled` (only a settlement finalizes such a
nullifier, and the row takes over its charge), `SettlerOwnsLease` and
`TranscriptChargesUsage` (a charge stored when the usage could no longer change is
that usage). The last one carries the argument about time: until an OpenRouter lease
is due, the expiry of its key and the delay of the provider's aggregate both end no
later than `settleIn`. The steps of the proxy and of clearances are those of the
request processor; the lemmas of RequestProcessorProofs show that they keep `IInv`,
and a few lemmas here that they touch no row that a lease relies on.

### Client daemon

| Theorem | Statement |
|---|---|
| `ClientInvariance` | `ClientSpec => []ClientInv` |
| `ClientKeepsReservation` | `ClientSpec => []ReservationIsJournalled` |
| `ClientMutualPlanIsFinal` | `ClientSpec => []MutualPlanIsFinal` |
| `ClientRetirementExcludesUse` | `ClientSpec => []RetirementExcludesUse` |
| `ClientKeyServesOneSession` | `ClientSpec => []KeyServesOneSession` |

`ReservationIsJournalled` depends on what every call that is under way may still do:
send a request, give one up, install a response, forget the wallet. `ClientInv` adds
what each of them relies on after its await (`CallIsFormed`, `CallIsCovered`), that
the journal and the server's rows are about the wallet's own state
(`JournalIsCurrent`, `RowsAnswerRequests`), that a plan, in memory, on disk or on
its way there, binds its state (`Binding`), what is known of the key in memory
(`KeyIsLeased`), and that the locks, which the model derives from where the calls
are, do exclude (`LocksExclude`). The proof names what no step takes back (proved
requests, leases, expiry, a closed note: `Grows`) and what the wallet keeps
(`JournalKept`), so that calls which do not move are covered by one argument for all
actions. The assumptions of the model (section 2) are the guards of its actions.

The proof corrected a property. `RetirementExcludesUse` used to except only expired
keys. That holds for two calls, as TLC had found, and fails for three:
`confirm_withdrawal` on a closed note forgets the key (`service.rs:2070-2072`) before
it resets the wallet, and a call in between finds the journal without its key, takes
the key for lost and retires it under a third call that still streams with it. The
note is closed then, so nothing is lost but the rest of that answer. The property
now excepts keys of closed notes.

### Command line

| Theorem | Statement |
|---|---|
| `CliInvariance` | `CliSpec => []CliInv` |
| `CliEscrowedSecretIsKept` | `CliSpec => []EscrowedSecretIsKept` |
| `CliReportedPayout` | `CliSpec => []ReportedPayout` |
| `CliSentForSettledNote` | `CliSpec => []SentForSettledNote` |
| `CliRetiredStateIsCurrent` | `CliSpec => []RetiredStateIsCurrent` |

A transaction may be mined after its process has ended, and by then the daemon's
wallet, its plan and the vault have moved. `CliInv` therefore says what a transaction
in the mempool stands for (`MempoolWellFormed`), what a process at each point knows
of its own note (`CommandsWellFormed`), that a secret is drawn afresh and is for one
note (`FundingIsFresh`), where the wallet's note comes from (`WalletIsKnown`), and
that note ids leave no gap (`NotesAreDense`), on which the guess of the next id in
`prepare_deposit` rests. `CommandLineAssumption` gives the types of the constants and
that the names `"client"` and `Nobody` are no names of commands.

### Indexer

| Theorem | Statement |
|---|---|
| `IndexerInvariance` | `IndexerSpec => []IndexerInv` |
| `IndexerCheckpointMatchesVault` | `IndexerSpec => []CheckpointMatchesVault` |
| `IndexerServedRootExisted` | `IndexerSpec => []ServedRootExisted` |

A batch that fails to decode half-way leaves its first events in the mirror and the
cursor before them; the next poll applies them again, perhaps with more blocks. The
mirror is then no tree the vault ever had, and an invariant that says it is would be
false. `Follows(m, k, q)` says what is true: m has the leaf of every note as the vault
had it after k events, except of notes that an event after k and up to q touches,
and those will be set when that event is applied. At the end of the batch k = q and
nothing is excepted, which is what `persist_checkpoint` stores (`CheckpointFollows`)
and a restart loads. With no such failure there is no exception either, and a reader
between two events of a batch sees the vault's tree between them.

Two facts about the vault's log would need induction over it: that the tree changes
between two points only in notes which an event between them touches, and that the
events of the blocks before b are a prefix of the log. Both are carried as conjuncts
of the invariant (`RootsDifferByEvents`, `LogIsOrdered`) and kept by every new event.
`IndexerAssumption` says that the note ids are 0..n, finitely many, and gives the
types of the bounds.

### Gateway

| Theorem | Statement |
|---|---|
| `GatewayInvariance` | `Spec => []GatewayInv` |
| `GatewayRequestReachesUpstream` | `Spec => []RequestReachesUpstream` |
| `GatewayTextReachesCaller` | `Spec => []TextReachesCaller` |
| `GatewayFairCharge` | `Spec => []FairCharge` |
| `GatewayRateLimitIsReported` | `Spec => []RateLimitIsReported` |
| `GatewayStreamIsFaithful` | `Spec => []StreamIsFaithful` |
| `PriceIsMostSpecific` | the walk of `openai_price` ends with the most specific entry for any model id |
| `ChargeIsFair` | every charge of `MeteredCharges` is fair, for any usage, cost and cap |

*The invariant of a call.* What reaches OpenRouter is looked at when it is posted,
long after it was shaped and perhaps with a second key, so `RequestIsKept` carries
the shaped request through every attempt. `RetryFits` carries the comparison of
`retry_fits_lease` from the moment it is made to the moment the daemon wakes up: from
`now div 4 + ceil(delay / 4) + 1 < expires_at` follows
`now + delay + 4 < 4 * expires_at` in quarters of a second, so a retry is sent before
its key expires as long as the wake-up is at most a second late. The bound is tight,
and the wake-up is the only assumption about time.

*Functions.* `RequestReachesUpstream` needs to know which keys a clean request has
and where each value comes from, for every body (lemmas of PricingProofs on
`OrCopy` and `CleanRequest`). The walk over the price table and the search for a
reason in a refusal are recursive functions; what they return is proved by taking
the least point at which the claim fails. `RateLimitIsReported` holds for a refusal
nested to any depth.

*Streams.* `StreamInv` indexes the text of the lines written so far by where each of
them ends. It says that the stream has come to a position of that text: a chat client
has got the text up to there; for an Ollama client the converter has translated the
lines that are complete at that position (`Converted`), keeps the beginning of the
next one in its input (`Reading`), or has terminated there (`ClosedAt`). Another piece
moves the position by one (`PieceConsumed`, in which a line break completes a line,
`LineConsumed`); a chunk is a run of pieces (`ChunkConsumed`, again with the least
point of failure); a line that is written later does not disturb what was read
(`ReadingGrows`). `LineClosed` goes through every prefix of a line, with either line
break, at which the connection may close. At last `NewLinesCount` says that the
position agrees with the number of complete lines that the property counts.

`GatewayAssumption` gives the types of the constants (the sets from which calls,
answers, refusals and lines are taken), that `None` is no value of an optional field,
and that `Overruns` is at most a second.

The attempts corrected two statements. `FairCharge` demanded that a caller pays at most
a credit more than the cost whatever the cost is; an upstream that reports less than
minus one credit is charged 0, which is more. The property now asks for a charge of 0
there and for the two bounds of positive costs only. The end of `Translation` was chosen by cases with overlapping guards, one of
which looked at a line that need not exist; it is now only looked at if a line has
ended the stream. `IsBody`, `consume_complete_lines` and the doubling of the backoff
were rewritten without changing what they say, so that they can be reasoned about.

### Only model-checked

The liveness properties (`ReservedRequestIsAnswered`, `ActiveLeaseSettles`,
`LeaseReservationResolves`, `MirrorCatchesUp`, `FinalizedRequestIsInstalled`,
`EveryCallIsAnswered`), which are outside the prover's reach; and the two runs of
section 6, whose properties do not hold. Every invariant and every action property of
the passing runs is proved.

## 6. Findings

* `lease_resume` violates `LeaseReservationResolves`. A comment in
  processor_v2.rs:283 calls OA issuance replay-safe. `validate_response` accepts a
  key only if it expires within 30 seconds of now + ttl, so the same key returned
  to a later retry is refused every time: the lease stays `provisioning` and the
  nullifier `Reserved` for ever.

* `client_guard` violates `NoLeaseAfterPlan`. `create_withdrawal` holds the plan's
  lock so that no request "can pass the withdrawal guard and open a competing
  lease". A request that passed the guard earlier is not stopped: it opens its
  lease after the escape plan was made, on the state the plan proves. A mutual
  plan is safe, because the server has cleared the state (`MutualPlanIsFinal`).

Known divergences that no run checks:

* docs-site/content/docs/protocol.mdx:63 says "The client proves solvency against a
  pessimistic cap C_max; serverd deducts the actual Δ ≤ C_max." With policy enabled and
  `policy_charge_cap < request_charge_cap`, which no code refuses (the policy cap keeps
  its default of 10,000,000 when only `--request-charge-cap` is raised above it),
  `processor_v2.rs:728-732` asks for a proof of the policy cap and `781-787` lets an
  ordinary response cost the request cap. `request_live` runs in such a deployment and
  stores charges of 2 on proofs of 1; `CapsDecideCoverage` says exactly when.
* docs/api-spec.md:124 says a retirement disables a directly managed key before it
  reads the usage. `processor_v2.rs:616` reads first, finalizes, and deletes last and
  as best effort, so usage after the read is not charged. After expiry and grace the
  charge is right (`SettledUsageIsCharged`).
* docs/api-spec.md:20 says preparing a withdrawal persists the proof.
  `create_withdrawal` (`service.rs:2051`) sets the plan in memory first; after a failed
  write the repeated call returns it from memory, and a restart forgets it.
* docs/architecture.md:49-51 and docs/api-spec.md:21: `confirm_withdrawal`
  (`service.rs:2072`) archives the wallet for a vault answer about the note it read
  before; a note funded meanwhile is archived with it. Its secret is kept
  (`EscrowedSecretIsKept` counts `archive/`), but the wallet is empty. No property
  says that only closed notes are archived: it does not hold.

Observed without a claim to compare it with: a batch that fails to decode half-way
is applied again from its first event, and until it is through the indexer serves
trees the vault never had (`ServedRootExisted` excepts that case).
The checkpoint is not affected. The demo route `/funding/api/request/submit` has no
withdrawal guard. An escape plan confirmed before its transaction is mined is taken
for a challenged one and forgotten: both models have the step, and no property forbids
it. A `zkapi client` that is killed after it sent a deposit and before it confirmed it
loses the note's secret: `EscrowedSecretIsKept` excepts that case (`abandoned`).
In the gateway: `/v1/responses` and the inference
endpoint with `stream: true` wait for a JSON answer and get an event stream; an error
status of a proxied upstream is answered with 200; the metered provider does not
forward `max_output_tokens` and `max_completion_tokens`; an upstream that reports no
usage is charged 0; an Ollama stream that its upstream closes early ends with `done`
and the reason `stop`.

## 7. Not modelled

* Cryptography (hashes, Groth16, blind Schnorr, anchors): represented by what it
  decides. Floating-point prices and USD conversion: a charge is a number of
  credits.
* The v1 processor and signer: `lib.rs` compiles `processor_v2.rs` and
  `signer_v2.rs` under their names. Blind authentication: a reference crate of which
  the daemons use only the kind enum.
* The browser wallet and client in the SDK: planned, section 8.
* The dashboard (a display no decision reads), the docs site's faucet, and the
  subcommands of the command line that make one call and print.
* The vault contract and the protocol crates: a submodule outside the repository's
  files; the events it emits are an external part of IndexerMirror, a note's
  status an external part of ClientDaemon.
* Chain reorganisations and inconsistent RPC endpoints: the poller has no code for
  them.
* The schema migration at the server's start.

## 8. Plan

1. Done: NullifierStore with the watcher, RequestProcessor, SpendOnce, LeaseProcessor,
   IndexerMirror, ClientDaemon, CommandLine, and Gateway with its modules; the proofs
   of all their safety properties.
2. Models still missing:
   * BrowserWallet: submissions and withdrawal claims of the SDK in IndexedDB, over
     several tabs and reloads. Properties: one claim per withdrawal, no second
     deposit for one intent, no spend after a claim.
   * Withdrawal: the vault's closing, escape and challenge composed with the server's
     clearances: an honest wallet's escape of its latest state is not challenged.
   * ClientDaemon with delayed delivery of a request, and with a deposit that
     overlaps the calls before it (both assumed away today).
