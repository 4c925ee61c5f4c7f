# Criptotrade: TLA+ models, checks and proofs

Criptotrade is a paper/live crypto trading desk: a trading loop proposes orders, a
human may have to approve them, and an API and console show and steer what it does.
This directory models the parts where that can go wrong across processes, failures
and restarts. Paths are relative to `src/` of the repository's package (`src/src/`).

## 1. The system

Two operating-system processes share a SQLite file and an append-only ledger:

- the **API** (`api/`), one uvicorn worker with async handlers. Store calls are
  synchronous, so a handler is interrupted only where it awaits; a crash can hit it
  between any two store calls;
- the **trading loop** (`orchestration/main_loop.py`), one coroutine that runs a cycle
  for each operated pair in turn and sleeps.

Every store method opens its own connection and is one transaction (`core/db.py`).
The two processes see each other only through tables and the ledger. Memory is lost
at a restart and rebuilt, or not, from tables.

### Components

| Component | State | Operations | What must be right |
|---|---|---|---|
| Order bridge (`hitl/orders.py`, order routes) | table `orders`; ledger events | submit with guardrails and automatic fill, decide, poll and time out, cancel, mark filled | no trade without sanction; a refusal stands; filled means traded; one undecided order does not stop the loop |
| Autonomy configuration (`hitl/config.py`) | level in API memory; environment of the loop | set level, thresholds | the level the operator sets is the one orders are held to |
| Trading cycle (`orchestration/squad_orchestrator.py`) | position book in memory | exits, gates, execution, netting | long only; slots; first in first out; quantities balance with the ledger |
| Position mirror (`orchestration/position_store.py`) | tables `open_positions`, `circuit_breaker_state` | upsert, delete, load; errors swallowed | a restart loses as little as possible |
| Circuit breaker (`CircuitBreaker`) | loss streak, daily loss, trip time | feed, trip, cool down, reload | does not forget losses; stops trading once tripped |
| Loop scheduler (`orchestrator_loop.py`, `heartbeat.py`) | pair list, heartbeat file | one cycle of all pairs, errors caught per pair | one failing pair does not stop the others; pauses take effect |
| Exchange connections (`exchanges/`, `core/exchange_factory.py`) | table `exchange_connections`; one client per process | create, test, rotate, activate, revoke, build client | one active connection; live trading only on tested credentials |
| Notification dispatcher (`notifications/`) | byte cursor over `alerts.jsonl`, group windows in memory | claim a batch, route, deliver with retries | no double delivery; loss only by a restart |
| Accounts and sessions (`auth/`, user routes) | users, invites, resets, sessions | log in, refresh, revoke, invite, reset, suspend | reuse of a refresh token kills its family; an administrator remains |
| Operated pairs (`core/pairs*.py`) | table `operated_pairs`, environment fallback | add (seeds on first), remove, pause | the table, the effective set and what the loop trades agree |
| Backtest jobs (`api/routes/backtest.py`) | table `backtest_jobs`, tasks in memory | start, finish, reconcile orphans | no job runs for ever after a restart |
| Rate limiter (`core/ratelimit.py`) | buckets in memory or Redis | allow | never above the limit in a window; never blocked for ever |
| Notification channels, rules, settings (`notifications/store.py`, its routes) | tables, secrets encrypted | create, edit with masked secrets, test, delete | what comes back masked never becomes the secret |
| Signal pipeline (`agents/strategy_agent.py`, `strategies/`, `agents/risk_agent.py`, `safety/guardrails.py`) | none between cycles | analyse, ask a language model, judge | only trades with a stop on the right side reach the risk agent |
| Order placement (`core/exchange_client.py`, `agents/execution_agent.py`) | paper orders in memory; orders at the exchange | execute, create, cancel | one order per task; the exchange sees live processes only; the answer agrees with what was placed |
| Ledger, audit trail, alert history (`core/ledger.py`, `audit/`, `core/alerts.py`) | append-only table and file | append, page, export, detail, history | pages and exports show what was written of the kinds asked for, and leave nothing out |
| Portfolio and risk screens (`core/metrics.py`, `risk.py`, `metrics.py`, `desk.py`, `trades.py`) | none: they read the ledger and the table of lots | compute | the figures of one answer agree with each other while the loop goes on |
| Market screens (`api/routes/market.py`, `analysis/`) | none | signal, regime, confluence, volume profile | an answer is explained by the factors it lists |
| Runtime configuration (`api/routes/config.py`, `risk.py`) | a YAML file, memory of the API | patch, read | the diffs in the ledger explain what is in force |
| Onboarding guide (`onboarding/`) | one row | detect, mark, skip, dismiss | a guide that was completed never opens again |
| Journals (`journal/`, `api/routes/journal.py`) | a JSON file; a table | record, close, reload; entries and their metrics | what was said to be saved is read back; the figures add up |
| Migrations (`core/db.py`) | the schema and `schema_migrations` | bring up to date at boot, from two processes | who is up works on the whole schema |
| Agent cycles (`agents/registry.py`) | table `cycle_events`, counters in memory | record, prune, status | the count of a day is the count of its cycles |
| Other agents, planning, second orchestrator, tools, dashboard, scripts | files, reads, pure functions | see `PROJECT.json` | see `PROJECT.json` |

How they interact: the loop calls the strategy and risk agents, submits to the order
bridge, waits for a decision written by the API, executes, nets the fill against the
book, writes the mirror, the ledger and the breaker. Alerts are appended to a log that
the dispatcher reads and delivers. Both processes build their exchange client from the active
connection. `PROJECT.json` lists every component with its status, and under `hazards`
each place in the code that is hard to test.

What makes it hard: unguarded read-then-write between the two processes
(`orders.py:244`); closes that are four writes in three stores with a swallowed error in
between (`squad_orchestrator.py:697`); the state read before an awaited probe and
written after it (`api/routes/exchanges.py:130`); two copies of one setting in two
processes; a five minute wait in the middle of a cycle.

## 2. The modules

| Module | Models |
|---|---|
| `OrderBridge` | the table `orders`, one API handler and one loop cycle in progress, the level, the ledger events of orders |
| `ExecutionGate` | the abstract specification: an order is sanctioned, and a sanctioned order is executed once at most |
| `OrderBridgeProofs` | theorems about `OrderBridge`, and that it implements `ExecutionGate` |
| `SquadOrchestrator` | the cycle, the book, its mirror, closed quantities in the ledger, the breaker and its saved copy |
| `SquadOrchestratorProofs` | theorems about `SquadOrchestrator`: its types, books and accounts; what it keeps through failures and restarts |
| `ExchangeConnections` | the table of connections, tests in progress, the client of each process |
| `ExchangeConnectionsProofs` | theorems about `ExchangeConnections` |
| `Dispatcher` | the alert log, the cursor, the pass of each worker, deliveries |
| `DispatcherProofs` | theorems about `Dispatcher` |
| `Accounts` | users, sessions, resets, invitations, challenges of the second factor, and the requests between middleware and handler |
| `AccountsProofs` | theorems about `Accounts` |
| `OperatedPairs` | the table of pairs, additions in progress, and what the loop has read of it |
| `Backtests` | the table of jobs with their tasks; one replay of the engine |
| `RequestGate` | the two rate limiters; who is served with which deployment, credential and permission |
| `SignalPipeline` | one pass from the market to the verdict of the risk agent |
| `NotificationChannels` | channels with their secrets, rules and settings, edited by two workers |
| `AuditTrail` | the ledger as the audit screen reads it; the alert history |
| `PortfolioViews` | closes and lots as the loop writes them, and the figures computed from what a request has read |
| `Onboarding`, `MarketViews`, `OrderPlacement`, `RuntimeConfig`, `Journals`, `Migrations`, `AgentCycles` | as in the table of components |
| `Sums` | sums and maxima over the first elements of a list, as recursive functions; shared by the modules that compute figures |
| `MC*` | the small instances TLC checks; `MCControlPlane` composes the services from `Accounts` on |
| `ServicesProofs` | theorems about `OperatedPairs`, `OrderPlacement`, `SignalPipeline`, `NotificationChannels`, `Onboarding`, `RuntimeConfig` |
| `FiguresProofs` | lemmas about sums, maxima and quotients; theorems about `RequestGate`, `Backtests`, `Journals`, `Migrations`, `AgentCycles`, `AuditTrail`, `PortfolioViews`, `MarketViews` |
| `ControlPlaneProofs` | every behaviour of `MCControlPlane` is one of each service, and so each of its fourteen properties is a theorem |

Definitions named `Action_Something` are deviations of `Action` that a plausible bug
would introduce. Each property is accompanied by one that breaks it (`mutants` in
`PROJECT.json`), to show that the property depends on the code. Where a property is a
conjunction over several services, that is a deviation of one of them.

### OrderBridge

An action is the code between two accesses to shared state. `row[o]` is the status
column. `apiPc`, `apiOrder`, `apiDecision` are the API handler in progress: its order
handlers contain no await, so there is one at most. `loopPc`, `loopOrder` are the cycle
in progress. `paper[o]` counts executed trades, `fillLog[o]` and `yesLog[o]` the events
of the ledger.

| Action | Code |
|---|---|
| `ApiSubmit`, `ApiRiskReject`, `ApiAutoFill`, `ApiLeavePending`, `ApiLogFill` | `create_order`, `OrderStore.submit`, `_risk_ok`, `_do_fill` |
| `ApiDecideRead`, `ApiDecideWrite`, `ApiAnswer` | `decide_order`, `OrderStore.resolve`: read and test, unguarded `_update`, answer 200 |
| `SetLevel` | `HITLConfigStore.set_level`: memory of the API only |
| `LoopSubmit`, `LoopAutoFill`, `LoopLeavePending`, `LoopLogFill` | `make_approval_handler` and `submit` |
| `LoopPollGranted`, `LoopPollDenied`, `LoopDeadline` | one poll of `wait_for_decision`; its deadline |
| `LoopExpireRead`, `LoopCancelWrite` | `cancel`: read and test, unguarded `_update` |
| `LoopGranted`, `LoopExecute`, `LoopMarkFilled`, `LoopLogMark` | `analyze_and_trade` after the approval; `mark_filled` with its `WHERE status='approved'` |
| `ApiFail`, `LoopFail` | a crash, or an exception, of either process between any two steps; the API also forgets the level |

Time is not modelled: the deadline may come at any poll, so every race of the timeout
with a decision is included. A fault of a process clears its program counter and its
memory and leaves the table.

`ExecutionGate` keeps two variables. The refinement mapping takes `sanctioned` to the
orders an operator's PATCH approved and those of the loop within its threshold, and
`executed` to `paper`. The property `GateSpec` says that every step of the bridge is a
sanction, the single execution of a sanctioned order, or a stutter.

### SquadOrchestrator

A lot is known by the number of the fill that opened it; smaller is older. `book` is
`_open_positions`, `disk` the table `open_positions`, `closed` the quantity in
`position_closed` events, `breaker` and `saved` the circuit breaker in memory and in its
table. `pc` and `step` say where the cycle and `_record_close` are, so that a restart can
come between any two of: pop the lot, delete the row, log the close, feed the breaker,
save it, shrink the lot.

| Action | Code |
|---|---|
| `CycleBlocked`, `CycleStart` | `CircuitBreaker.is_open`, the early return and the start of a cycle |
| `ExitLot`, `CloseWhole`, `LogClose`, `LogCloseError`, `FeedBreaker`, `ExitsDone` | `_check_open_positions`, `_record_close`, `record_trade_result` |
| `ExecuteOrder`, `CycleEnd` | gates, slot cap, execution and recording of the fill; or any end without an order |
| `NetOldest`, `ShrinkLot`, `OpenResidue` | `_match_or_open`: first in first out over whole and partial lots, then the residue |
| `Crash`, `CrashUnreadable` | a restart of the loop, with the mirror readable or not |
| `Cooldown` | 24 hours pass; the next `is_open` resets the breaker |

Prices are left out: any subset of a pair's lots may be beyond its stop or target, and a
close earns any percentage of a small set. A mirror write that fails is swallowed, as in
the code; a ledger write that fails raises out of the cycle.

### ExchangeConnections

Handlers without an await are one action each (`Create`, `Rotate`, `Activate`, `Revoke`).
The test is two: `TestStart` reads the row, `TestDone` writes the outcome to it after the
awaited probe. `BuildLive` is the gate of `build_exchange_client` with
`ORDER_ROUTING=live`, `BuildPaper` the other branch, `Stop` the end of a process; the tests
in progress are lost with the API. Histories: `vetted` are the connections with credentials
that passed a probe, `crossed` those with credentials rotated in while others were being
probed. The paper client, which only reads prices, keeps no credentials in the model.
Encryption, masking, labels and the choice of testnet are left out.

### Dispatcher

`alerts.jsonl` is the interval of alert numbers `base + 1 .. written`; a line is two units
long and `torn` is 1 while half of one is there, so that the offsets of the code (`size`,
`cursor`, `pos`, `top`) keep their arithmetic and a torn line can be met. `pc` says where each worker's pass
is; `next .. last` are the alerts of its batch still to be routed, `chans` the channels left of the alert
before `next`.

| Action | Code |
|---|---|
| `BeginLine`, `EndLine`, `Shrink` | `AlertStore.append`; truncation from outside |
| `Boot`, `FirstBoot` | `ensure_initialized`: `has_cursor`, then size and unconditional `reset_cursor` |
| `Stat`, `ReadCursor`, `Reset`, `Claim` | `dispatch_pending` up to the claim; `advance_cursor` with its `WHERE pos = expected` |
| `Route`, `Mute`, `Begin`, `RouteDone` | `_route`: rules, quiet hours, group window |
| `SendOk`, `SendFails`, `SentButFailed` | one attempt of `_deliver`: the channel takes the alert and the attempt counts as made; it does not get it; it takes it, and the attempt raises after that (a late or broken answer, `raise_for_status`, QUIT, or the ledger entry, which is inside the same `try`) |
| `WindowOver` | the group window passes between two passes |
| `Abort`, `Restart` | an exception caught by `_notify_loop`; the process dies, and with it `_groups` |

The rules are a constant: which channels a kind of alert (type, severity and pair) goes to. How many alerts a
window muted is left out. `sent` counts the deliveries of an alert to a channel that succeeded, `unsure` the failed attempts that
brought it there all the same. Histories: `booted`, `routed`, `start`, `backs`.

### The services around the loop

These modules keep one grain: a handler without an await is one action; a handler that awaits
is split at the await; where a process may die between two transactions of a handler, the action
takes a *cut*, the number of transactions it gets to. A screen that issues two statements reads
in two actions.

- **`Accounts`** (`auth/store.py`, the routes `auth.py`, `users.py`, `account.py`, `security.py`).
  `Admit` is the middleware: it resolves the session to a user and a role, and the request waits in
  `admitted` while others are served; the handler then acts on what was resolved, as the code does.
  `Cuts(n)` is how far a handler of `n` transactions gets, `Dies` the death with it. A session counts the
  password it was opened with (`pw`); `late` marks one whose second factor was asked for before the
  password changed, `torn` the users whose change did not get as far as the revocation. Deadlines pass at any moment.
- **`OperatedPairs`**: `AskAdd`, `BeginAdd`, `Seed`, `FinishAdd` are the addition around its awaited look-up,
  row by row; `BootLoop`, `StartCycle`, `TradePair`, `EndCycle` what the loop reads and when. `Reads` is a read of the table
  as its readers see it: all rows, or, when it fails, none (`pairs_store.py:41`, `orchestrator_loop.py:73`).
- **`Backtests`**: `RunBacktest`, `EndJob`, `LoseJob`, `RestartJobs` with `Reconciled`; `ReplayCandle` is one turn of
  `BacktestEngine.run`, on any candle, `EndReplay` its end.
- **`RequestGate`**: `IncrFirst`, `IncrAgain`, `Pexpire` are the two calls to Redis, `IncrFails` and `PexpireLost` what happens when either
  raises (the request is let through; the INCR may have counted it or not), `Tick` one step of time.
  `Redeploy` starts the API in any setting `Starts` accepts, `Serve` sends one request through both middlewares
  and the dependencies of the route.
- **`SignalPipeline`**: an indicator is the class of values the code tells apart, a confidence is in ten-thousandths, a price in tenths of a
  cent. What the strategies pass through `round(x, 2)` (grid levels, the averages of the DCA entries, stops, targets) is rounded to the cent by
  `Nearest`, either way at the midpoint;
  `Analyse` runs the strategy the regime selects and the agent's own score, `Assess` the language model, `Validate`
  the guardrails and the review.
- **`NotificationChannels`**: `ReadChannel` and `WriteChannel` are the two transactions of a PATCH, of two workers;
  `shown` is what a form has been given. `ChangeKey` is a new `AUTH_SECRET_KEY`.
- **`AuditTrail`**: one action per kind of entry the code writes; a question (`Questions`) is answered page by page
  (`CountPage`, `ReadPage`), in batches (`FetchBatch`) or by id. `TearAlert` leaves half a line in `alerts.jsonl`.
- **`PortfolioViews`**: the loop takes a lot out of its `memory`, deletes its row and then writes its close, or writes a part and then shrinks
  the row; a view reads the ledger (`ReadLedger`) and then the table (`ReadPositions`). Every write to the table and every read of it may
  fail unnoticed (`Mirrored`, `Loaded`); `LoopRestarts` takes the table for the memory; `undeleted` are the lots whose row outlived their close.
- **`OrderPlacement`**: `BuildClient` is a (re)start in any environment, `Execute` the agent, `CreateOrder` the routing,
  where a live answer may be lost; cancellations and the exchange's own doing cross it.
- **`Onboarding`**, **`RuntimeConfig`**, **`MarketViews`**, **`AgentCycles`**: one action per handler. A death may come
  between the stamp of the guide and its event, between the truncation of the YAML file and its writing, between the counter
  of a cycle and its row. A change of the configuration is in force first and then told to the ledger, whose insert may
  fail (`InForce`).
- **`Journals`**: `Save` truncates and then writes; `RestartJournal` loads what is there.
- **`Migrations`**: `ReadDone`, `Statement`, `Record`, `Commit` for each process. Python's `sqlite3` opens a transaction at
  the first INSERT, so statements before it are committed one by one (`tx`).

**`MCControlPlane`** is a sum: these services share no state (each writes its own tables, files or
memory, and reads nothing another one writes), so whatever a behaviour of all of them shows of one
service is also a behaviour of that service with the others at rest. (The first half of this is proved: the lemmas
`AccountsRun` to `MigrationsRun` of `ControlPlaneProofs`.) The variable `part` says which one moves.
`PartView` tells states apart by the part and its variables, which is sound because all others keep, in every behaviour of that part, the
one value they start with. (`Init` leaves a choice to the settings of the gate and to the
schema only where their part moves.) What crosses services, for instance the roles that both `Accounts` and `RequestGate`
know or the operated pairs that decide what the desk shows, is an input of either module, over all its values.

## 3. The runs

| Run | Result | Shows |
|---|---|---|
| `order_bridge` | passes | ten properties of the bridge with one failure: sanction, refusal, fills, refinement of `ExecutionGate`, and three liveness properties |
| `squad_orchestrator` | passes, 2.3 million states | eight properties of the desk with up to two failures |
| `exchange_connections` | passes, 1.0 million states | four properties of the connections with two overlapping tests |
| `dispatcher` | passes, 1.3 million states | four properties of two workers over one cursor, with one trouble at any point and attempts that fail before or after delivery; the cursor keeps up |
| `control_plane` | passes, 0.8 million states | fourteen properties of the services around the loop (below) |
| `lifecycle_race` | violation | the documented lifecycle of orders does not hold when the timeout and a decision cross |
| `manual_level_ignored` | violation | level 0 set by the operator does not reach the loop |
| `approved_not_executed` | violation | an approved order no loop waits for is never executed |
| `stops_unmanaged` | violation | with the breaker open, stops and targets are not looked at |
| `daily_loss_not_reset` | violation | the daily loss is never reset; a winning trade trips the breaker |
| `rotated_not_retested` | violation | the late outcome of a test marks rotated credentials as tested |
| `two_workers_redeliver` | violation | with two workers an unconditional reset moves the cursor back and an alert is delivered twice |

The seven violations are disagreements between a statement of the repository and what the
code does. Each is a finding in `PROJECT.json` with both places quoted. In each of these runs
the property under test is the statement; the passing run of the same module says what
does hold in its place. For instance a live client has credentials that passed a probe *or*
were rotated in during one, and an answered approval can be undone by the timeout only.
The dispatcher makes each delivery at most once as long as no reset moves the cursor back, and always when it is
alone, as deployed. A delivery is up to `Attempts` attempts, each of which may bring the alert there: see section 5. TLC shows the race at the very first boot; in an instance that starts with a cursor it finds the same through
`dispatch_pending` (`dispatcher.py:87-92`), where the size is read before the cursor.

### What `control_plane` shows

| Property | Of | Says |
|---|---|---|
| `AdminRemains` | `Accounts` | no order of demotions, suspensions and deletions by administrators who lose their own rights meanwhile removes the last active administrator |
| `FamilyIsOneChain` | `Accounts` | at most one session of a login is not revoked, and none once a refresh token was used again |
| `OnlyActiveHoldSessions` | `Accounts` | a suspended or deleted account holds no session, wherever the handler is cut |
| `AccountFlowsHold` | `Accounts` | a session that can be refreshed was opened with the present password, with the two exceptions the code has (`late`, `torn`); an invitation makes one account at most |
| `PairsHold` | `OperatedPairs` | the first addition drops no pair that was operated; a pair paused before a cycle opens nothing in it, unless the cycle could not read what is paused |
| `ReplayHolds` | `Backtests` | a row that says running has a task; the replay holds one position at a time and its curve is the sum of its closes |
| `GateHolds` | `RequestGate` | no replica on its own memory admits more than the limit in a window, all of them on Redis not more than twice the limit and one request for every call that failed; no key is stranded unless one did; a production deployment serves nobody without the permission |
| `TradesAreStopped` | `SignalPipeline` | only a trade with a stop gets to the risk agent; of a coin of 25 cents or more the stop is on the losing side, and only of one below 0.6 cents can it be 0.0 |
| `TrailTellsAll` | `AuditTrail`, `RuntimeConfig` | pages, exports and details show entries of the kinds asked for only, and leave none of them out though others are written meanwhile; the diffs in the ledger explain the configuration in force, but for the keys whose last change could not be logged |
| `ScreensAddUp` | `PortfolioViews`, `MarketViews`, `Journals`, `AgentCycles` | the figures of an answer agree with each other and with what was read; a lot is told closed and open at once only if its row could not be deleted |
| `PlacedAsAnswered` | `OrderPlacement` | one order for a task at most, the exchange has orders of live processes only, the answer agrees with what was placed |
| `DiskIsWhole` | `Journals`, `Migrations` | a journal reads back what it said it saved; a version on record is wholly applied, and who is up has them all; without an overlap or a death within `init_db` no boot fails |
| `StoredOutlivesEdits` | `NotificationChannels`, `Onboarding` | a secret outlives the echo of its mask; a finished guide stays finished |
| `TypeOK` | all | types |

### Bounds, and why they are enough

- `order_bridge`: four orders, one per interesting combination: of the loop, exactly at the
  threshold; of the loop, within it but critical; of a client, one dollar above; of a client,
  refused by the guardrails. Levels 1 and 2, one failure. One order of the loop is in progress
  at a time in the code, so a second waiting order adds nothing but interference through the
  API, which is there.
- `squad_orchestrator`: two pairs, two slots, three executed orders of one or two units, two
  failures. This gives a fill over two lots, partial closes, a residue that is dropped, competition
  for the slots and a failure during the recovery from another. The loss limit is 2 instead of 3 so that a
  streak fits. Pairs are symmetric; TLC uses it. (No liveness is checked in a run with symmetry.)
- `exchange_connections`: two connections, a good and a bad secret, two tests, one process with a
  client; clients do not influence each other. Symmetric in connections and tests.
- `dispatcher`: two workers, two alerts, one channel, two attempts instead of three, one trouble: a restart, an aborted pass or
  a truncation, at any point. Attempts fail as often as they are made, before or after the channel took the alert. Two alerts fit one
  batch or two; the claim of one worker crosses the reads of the other.

- `control_plane`: two users of two roles, two sessions, one invitation, one reset, one change of password, one death. The accounts
  run three times: one request at a time, with a death and links to reset a password (part `accounts`); two that wait at a time, with
  neither (part `crowd`: what interleavings of administrators can do); and one at a time with a death and the second factor, which the first
  administrator sets up, so that the other session is the one it opens (part `factor`; all are administrators there and only a challenge expires).
  Three pairs, one of them in the environment and not allowed, one allowed and not in the environment, and one addition that
  waits for the exchange at a time (`MaxAdding`: waiting changes nothing but that it waits, so a second one would only be a later one);
  two replicas, a limit of two, two failing calls; prices of 0.1, 0.5, 0.6, 5, 16 and 25 cents, on both sides of where the rounding of stops
  begins to tell, and of 5000 dollars; two workers that edit one channel whose two secrets have different masks; two ledger entries, or three alerts, read page by page with pages of one; two lots
  and two closes over two days, with one access to the table of lots that fails; two jobs; three candles of three prices; two steps of the guide marked by hand at a time; three scripts, one of each form `migrations/` has, two processes and two
  deaths; two cycles over three days. Each interesting crossing (an operation of one actor inside another's) needs two of each kind, which is what there is.

Unbounded counters are bounded by the constants named `Max...` (and `LastDay`, `LastCycleDay`), which stand in the guards.
`LoopDeadline` needs no bound: it is a choice, not a counter.

Deadlock is checked in every run but `control_plane`: there the bounded services stop (an agent whose days are over, a ledger that
is full).

### Fairness

`OrderBridge` and `Dispatcher` state liveness; the other runs check safety only. `FairSpec` of the bridge asks weak fairness of `ApiHandlerStep` (uvicorn
finishes a handler it has begun) and of `LoopCycleStep` (the event loop resumes the coroutine;
`wait_for_decision` compares with its deadline at every poll, so the deadline, enabled for as long as the
order is pending, is taken). Clients, operators, strategy and failures have none: nobody has to submit or
decide. `LoopUnblocks` holds even when a process fails; `LoopOrderDecided` and `GrantIsCompleted`
assume that nothing fails, because a loop that dies while it waits leaves its order pending
(`orders.py:141` speaks of an automatic cancellation that nothing performs).

`FairSpec` of the dispatcher asks weak fairness of `WorkerStep` of each worker: `_notify_loop` runs again after every interval
and survives any exception, and a sender times out, so that an attempt ends one way or the other. `KeepsUp` needs it of the worker that
finds the log shrunk. Writers, truncation, restarts and the passing of a window have none. With the troubles bounded, `KeepsUp` speaks
of the time after the last of them.

## 4. The theorems

All proofs are checked by TLAPS for any values of the constants that satisfy the module's `ASSUME` (`OrderAssumption`,
`DeskAssumption`, `PortfolioAssumption`, ...; each module has one): any number of orders, pairs, fills, failures, connections, tests, workers,
alerts, users, sessions, requests, tasks, candles, scripts, entries, lots, bars. The assumptions say that a bound is a number, that a set of
inputs is of the right kind (`Results \subseteq Int`), finite where the code lists it, and that names are distinct where the code keeps them
apart (a secret is not a mask, a key of the file is not one of the environment). The proofs use the specifications without fairness.

Sums and lists are where the prover has no induction of its own: an induction theorem takes an operator as its parameter. `SetInduction` and
`UpTo` (in `FiguresProofs`) state induction for a *set* of numbers instead, from a least element (`LeastElement`), which comes from the
library's fact that finite sets are well-founded under inclusion. On it rest the recursion equations of `SumTo` and `MaxTo` (`SumNext`, `MaxToIs`) and
everything said of a figure below.

**OrderBridge.** `TypeCorrect`, `ExecutionIsSanctioned`, `FilledWasTraded`, `RefusalHolds`,
`ApprovalHolds`, `FillsAreLoggedOnce`, and `BridgeImplementsGate`, the refinement. None of the
invariants is inductive: each speaks of the table and a history only, while a step depends on
what a process has read. The inductive invariant is the type invariant with three parts. `GateInv`: what
the loop has been granted is sanctioned, and what it has not executed yet has not been traded.
`DecisionInv`: an
order that was decided or answered is no longer pending and no gate of `submit` still holds it; a handler about
to answer "approved" has it approved, filled or cancelled, and what was refused no human has approved. `FillInv`:
how often the fill of an order was logged, at each position of the two processes. Each is preserved action by action; `BridgeImplementsGate` needs `GateInv` only.

**SquadOrchestrator.** `DeskTypeCorrect`: no quantity is ever negative or larger than an
order's, whatever fails. `LongOnly`: no lot is ever opened by a sell. Both rest on `IInv`: the type invariant, `Lots`
(a lot, in memory or on disk, is part of a buy) and `Closing` (the lot of a whole close is out of the
book, that of a partial one is larger than what is closed).
`BooksBalance`: while neither a restart nor a ledger error has interrupted a close, open plus closed is what each
buy brought, whatever happens to the mirror. `BookBalanced` is stated between bookings; in the middle of one
it is false, and in opposite ways for whole closes (out of the book before it is in the ledger) and for
partial ones (in the ledger first). `Accounts` states what is still under way, and is inductive with `IInv`.

**ExchangeConnections.** `ConnectionsTypeCorrect`, `ActiveIsUnique`, `RevocationHolds` and
`LiveGateHolds`. For the last, `LiveIsVetted` needs `TestedIsVetted` (a row marked tested has
credentials that passed a probe, or crossed one), which needs `ProbeIsCurrent`: a test in progress probes
the credentials of the row, unless those of the row were rotated in meanwhile. The case that matters is the late
end of a test; the exception `crossed` in it is exactly the finding of `rotated_not_retested`.

**Dispatcher.** `DispatcherTypeCorrect`, with `HasCursor` (a worker past its boot has a cursor to read; a line that was
begun has a number). `DeliveryIsAtMostOnce`: `AtMostOnce` counts deliveries only, while a step depends on what was read long before. Its
inductive invariant `OnceInv` says, unless the cursor was moved back, that a delivery made or to come has one
owner and the cursor has passed it (`Owned`), that what is still to be delivered came only as often as the attempts made so far (`Pending`),
and that a claim whose `pos` is still the cursor is for alerts nobody has taken (`FreshClaim`). The cases that matter are `ReadCursor`, where a chunk begins behind everything taken, `Claim`, where it moves the cursor strictly
forward and so spoils every other claim for the same place, and the three ends of an attempt (`AttemptStep`). Every other step is quiet (`NoNewWork`, `QuietStep`): it gives no worker more to
deliver, changes no claim and does not move the cursor back.
`DeliveryFollowsLog` proves the two halves of `LogIsFollowed` from two invariants of their own. `AloneInv`, for a worker that is the only
one that ever ran: what it has taken is in the log before the cursor, and the cursor is not beyond the log, or else it is gone
from the log (`Behind`). So a reset, which needs a log that ends before the cursor, comes after a truncation only, and gives back
nothing that was taken; and a claim never fails and is for new alerts (`NextClaim`). `Followed`, for any number of workers while no
pass fails and the log is whole: every alert the cursor has passed, or that the size at a reset to come would pass, was routed or is in a batch, and a claim
covers all there is between its ends. It has to count an alert the cursor lies within as passed, because the next chunk begins after it.

**Accounts.** `AccountsTypeCorrect`, `AccountsKeepAnAdmin`, `AccountsFamilies`, `AccountsHolders`, and the two parts of
`AccountFlowsHold`, `AccountsPasswords` and `AccountsInvitations`. The shape of the
tables is `Shape`: types, every waiting request names a session that exists, and every burnt family a login that took place.
All handlers do one of few things to the table of sessions (`RowsStep`: keep its rows while closing some, open one at the
end, or rotate one), whatever they are cut at; so the step lemmas speak of `RowsStep` instead of thirty handlers.
`FamilyStep` is the argument for the chain: a rotation revokes the presented row before it makes
its successor, so that a cut leaves none rather than two. `DeactivationStep` says that an account which
stops being active loses its sessions in the same step; `HoldersStep` adds that only an active account opens one.
`AdminStep` needs nothing of the requests: the check for another administrator is made against the table in the
handler and not against what the middleware saw, which is why administrators who lose their own rights
meanwhile do no harm. `PasswordStep` needs `OnlyActiveHoldSessions`: a new account starts with a password of its own, and
no session is there that was opened with another. `KeptFollows` is its argument: rows lose credentials at most, and the
password of a row that is kept stays, or its user is marked `torn`. `InviteStep` is the only part that looks at the invites.

**SquadOrchestrator, its recovery.** `MirrorIsExact`, `BreakerIsHeld`, `NettingIsFifo`, `SlotsAreCapped` and `FailuresSpoilFew`.
`Mirrored` says of every moment what `MirrorExact` says between cycles. `Remembers` follows a loss from
the ledger to the breaker to its saved copy: it is one behind in between, and each failure costs one. `Trips`: a trip that the
saved copy does not have was missed, and a cycle opens one lot, so that each order opened after a trip but one has a
miss that pays for it. (Without misses that is one order, the one of the cycle in which the breaker tripped.) `InOrder`: in the middle
of a close no older lot of the pair is left. `Slots` counts, besides the lots in memory, those that only the disk still has, one per
failed deletion: they are what a restart brings back. It needs that a buy which is being booked had a free slot, which
holds because all lots are buys, so that a buy closes none. `FewSpoiled` counts the lots whose account is wrong *or* whose row is not
what memory holds: every step keeps the account of each lot (`AccountStep`), and a failure catches at most the lot
being closed or the one being opened, never both (`OneLotIsCaught`).

**OrderPlacement.** `PlacementAnswers`. An answer can be wrong about an order only if there is a second one, so `PlacementInv` adds
that tasks to come have no order and that the one being placed has none yet and a client that exists. A task therefore meets its
first order with its answer; cancellations and fills change neither the task nor the mode of an order (`SameOrders`).

**OperatedPairs.** `PairsAdditionOnlyAdds` and `PairsPauseHolds`, the two parts of `PairsHold`. The first speaks of an addition that is over, while
the table is written row by row: `PromiseOK` says that what was promised is in the table or among the rows still to write, also when
the reads of the addition failed, because then it writes the pairs of the environment besides. For
the second, `LoopOK` relates what the cycle skips to what it has read, if it has read anything.

**SignalPipeline.** `SignalTradesAreStopped`. The strategy, the score of the agent and the language model are each shown to give a signal of a known shape
(`GridOK`, `DcaOK`, `AnswersOK`, `AgentScoreOK`), whatever the opinions. `NearestTo` bounds a rounding by half a cent; `GridStopOK` and `DcaStopOK` carry that
through the two roundings of a grid stop and the four of a DCA stop, which is where the 25 cents and the 0.6 cents come from: the stop is a
tenth or 4% away from the price, and the roundings move it by a cent at most.

**NotificationChannels, Onboarding, RuntimeConfig.** `ChannelEchoKeepsSecret`: a PATCH merges what it read with what the form sends, and writes
later. `ChannelInv` follows two things through that gap, while others edit, delete or change the key: a view of the row as it is shows the mask of what the row
decrypts to (`Told`), and an edit that echoes such a view writes back what was there (`Based`). `rev` is what tells that the row is still that one.
`GuideStays`: `GuideInv` keeps the stamp of whoever was told that the guide is finished. `ConfigDiffsExplain`: the file, the overrides
and the memory share one log, which is why the three sets of keys have to be apart. `InForceStep` is the one argument for all patches: a key is
explained after it if it was before and was not changed, or if the ledger was told.

**RequestGate.** `RequestWithinWindow`, `RequestProductionIsClosed`. The property sums the hits of the last ticks, the code counts under a key that expires. `Split(k)` says where the
present key began: its hits are those of the last `k` ticks and do not exceed its counter, and all before belong to one other key. `Tick`, with the
expiry, is the case that matters; a key stranded without an expiry is the exception the property names. Requests let through because
the INCR raised are counted apart (`missed`) and paid for by `errors`; such a call may also have begun the key, so `Split` speaks of the counter and of
the hits it admitted, never of all that passed (`IncrFailsOK`).

**Backtests.** `BacktestsRunningIsAlive`, `BacktestsRunIsSound`. `ReplayOK` carries the whole list of trades through `ReplayCandle`: they do not overlap, none but the last is closed by the
end of the data, the curve is the running sum of the gains, and an open position begins no earlier than the last close.

**Journals, AgentCycles, Migrations.** `JournalSavedIsReadBack`, `JournalFiguresAddUp` (the bands of emotions are a partition, so the counts add up to the
total), `CyclesCounted`, `MigrationsBooted`. The last needs `RecordsOf` (what is on record was applied, in the schema or in the open transaction), `Halfway` (how far a process has come
in its script, with what it has not committed yet) and `Orderly` (without deaths and overlap, nothing is applied that is not on record
but the statements of the script that is run), which is the half of the property that says a clean boot does not fail. A process that dies when
it is up leaves nothing behind (`UpDies`), so it is no excuse for a boot that fails.

**AuditTrail.** `AuditTrailIsComplete`. Paging is by offset in a list, newest first, that grows at its head. `PagesInOrder` says of every entry that was there when the
reader began and was not shown yet that its place is beyond the offset; entries written meanwhile only move it further. `ShownInOrder` has no gap
in what was shown, `ExportInOrder` the same of the rows an export has fetched and not yet returned. `NewestFirst` is a
`CHOOSE`; `NewestFirstOK` proves that there is such a list, and `PlaceOK` what place an entry has in it.

**PortfolioViews.** `PortfolioViewsAgree`. `PortfolioInv` says of the loop that a closed lot is gone from its memory and from the table, unless its row could not be deleted,
that the days of the closes follow each other and that the close under way fits both; and of a request that the closes it has read are how the ledger began, and that a lot closed in them
is not in the table it read afterwards. This is why the order of the two reads is right. The rest speaks of lists of closes alone: a profit splits over days, pairs
and signs (`ProfitSplits`), the streak is the longest losing end of
the list (`StreakIs`, `BreakerIsTheStreak`), the level of protection is that of the fall up to half a millionth of the capital (`RoundedReaches`, `ProtectionIsTheFall`), and Kelly advises a position only on a gain (`KellyOnlyOnGain`).

**MarketViews.** `MarketExplains`: rounded figures stay within their tolerance (`RoundedNear`), and the value area grows from the heaviest bin to its share
and no further (`WidenedOK`, `ValueAreaOK`), for any profile.

**The services together.** `ControlPlaneTypes`, `ControlPlaneAccounts`, `ControlPlaneAccountFlows`, `ControlPlanePairs`, `ControlPlaneReplays`, `ControlPlaneGate`,
`ControlPlaneTradesAreStopped`, `ControlPlanePlacement`, `ControlPlaneStored`, `ControlPlaneTrail`, `ControlPlaneScreens`, `ControlPlaneDisk`: the properties as
the run `control_plane` states them. One lemma for each service says that a behaviour of all is one of it; the theorem then joins what the services promise.

**Only model-checked.** The liveness properties of `order_bridge` and `dispatcher` (`LoopUnblocks`, `LoopOrderDecided`, `GrantIsCompleted`, `KeepsUp`), which are out of the
prover's reach; and the violations, which are single behaviours. Every other property of a passing run is a theorem.

## 5. Not modelled

`PROJECT.json` gives the reason for each component. Within the modelled ones, what is left out, and what a reader
of the code may want to know because the modules include it:

- **Bridge.** An approval is logged up to three times (`hitl_approval` by the store, the handler and the cycle), so that
  the counter `human_approved_today` overstates. The bridge counts the loop's event only.
- **Desk.** The entry fee of a lot is not in the mirror and is lost at a restart; fees and prices are abstracted.
  A deletion of the mirror whose error was swallowed brings the lot back at the next restart. This is modelled: it is why
  `SlotCap` and `FailureSpoilsOneLot` count failures. So is a restart that cannot read the mirror: it forgets the book
  and the streak until the next one, and the properties exclude it by name. `CircuitBreaker.reset_daily` has no caller in
  the running system, hence no action. `OrderStore.clear`, `PositionStore.clear` and the other offline scripts run with the
  loop stopped. A ledger failure at the start of a cycle, or in the `except` branch of one, escapes and ends the loop.
- **Heartbeat.** A cycle waits up to 300 s per order while the health check allows 180 s (or three intervals).
  This needs a clock and no module has one.
- **Dispatcher.** An attempt can raise after the channel took the alert: the answer comes after the 10 s of `senders.py`, is an error or no JSON, the SMTP
  server fails at QUIT, or the entry in the ledger does, which shares the `try` (`dispatcher.py:188-199`). The alert is then sent again, up to
  `Attempts` times (3 in the code), by a single worker, without a crash and with a working ledger. "At most once" (`dispatcher.py:11-15`) is true of
  deliveries, not of attempts: `AtMostOnce` and `LogIsFollowed` bound the copies of an alert by the attempts of one delivery. `OneDelivery`,
  the statement about N workers, sets those copies aside and is refuted without them. The number of alerts a group window muted goes into the text of the next delivery. If that delivery is
  given up, the number is lost (`dispatcher.py:165` resets it first). Counting it needs a third alert and is left out.
- **Accounts.** The sessions are those of `AUTH_MODE` other than `off`; profile and preferences are left out. The two exceptions of
  `SessionsFollowPassword` are behaviours of the code: a second factor asked for before a change of password is
  honoured after it (`late`), and a death between the change and the revocation leaves the old sessions (`torn`).
- **Operated pairs.** A read of the table that fails is an empty table to its reader. A cycle that cannot read the flags trades the paused pairs
  (`orchestrator_loop.py:62-75`, `pairs_store.py:41`); `PauseHolds` excepts it. A loop that boots on such a read trades the pairs of the environment until
  it is restarted, and an addition may put those into the table, removed ones among them. A pair paused while a cycle is running is
  traded in that cycle: `PauseHolds` speaks of pairs paused before it. Removing the last row falls back to the environment; removing a paused pair un-pauses it for the running
  loop until its restart; a pair of the environment only cannot be paused (404); a loop that boots while the first
  addition seeds the table reads a part of it. All are steps of the module.
- **Backtests.** `_SimpleStrategy` calls `.get` on what is a dataclass or `None`, so that it never trades; the replay is modelled with
  signals from outside. A stop is filled at its own price on a gap, and the drawdown leaves out the trade that ends the data.
  Monte Carlo and walk-forward are statistics and not modelled.
- **Rate limiter.** An INCR that raises lets the request through without a count, and no other limiter takes over: `ratelimit.py:65-67`, while
  `ratelimit.py:7-8` and `api/main.py:173` speak of in-memory counting. That fallback is chosen at the start of a replica only (`build_rate_limiter`). `GateHolds`
  allows one request for each call that failed; while Redis is away there is no limit. Clocks of the replicas agree.
- **Signal pipeline.** The branch of `mean_reversion` is never reached; the orders of the DCA strategy are all refused by
  the reward rule at its default entries, but for the cheapest coins, where the rounding moves the ratio; the branch for more than two warnings cannot be reached.
  Stops are rounded to cents (`grid_trading.py:78`, `dca_optimized.py:125`): of a coin for 16 cents or less the stop may be at the price or past it, and
  that of a BUY below 0.6 cents may be 0.0. The first is refused by the guardrails (`guardrails.py:82-85`), the second passes them, because 0.0 is not `None` and
  is below the entry. Prices below a tenth of a cent, fractions of it, and a price of 0 are not modelled.
- **Notification channels.** A PATCH has no validation of required fields; a deleted channel leaves the rules that name
  it; saving a form with a blank secret after a change of the key wipes what was stored.
- **Audit trail.** Filters by entity and time are left out. Total and rows are two statements, and paging by offset shows an entry
  twice when others are written meanwhile: the property asks that none is left out of those that were there when paging began.
  The server-sent events of alerts listen to a bus nobody in the API publishes to. A torn last line of
  `alerts.jsonl` makes the history raise from then on.
- **Portfolio.** A lot whose row could not be deleted (`position_store.py:76-82`) is logged as closed all the same and shown as open from then on, and a restart takes it
  up again; `NoLotTwice` excepts these (`undeleted`), and the table the loop mirrors may lag behind its memory by any write that failed. The daily loss of the breaker
  screen is always 0: `_daily_loss_pct` ("Compute today's realised loss", `risk.py:99-111`) looks for `data.timestamp`, which `log_position_closed`
  does not write (`Stamped`), so the screen's breaker is triggered by a losing streak only. The drawdown is not modelled; results are whole cents. A lot gone from the table but not yet in the ledger is in neither, and one being closed partly is in both,
  for the moment between two writes; the property allows what is under way. The capital shown by
  the desk leaves out lots of pairs that are no longer operated. Clock steps and imported history are left out, and so is the
  cache of candles.
- **Market screens.** Prices are small integers. With four bins TLC never sees more than five thin ones, so the cut to five (`LowVolume`) is covered by the proof only. Rounding to two decimals (`market.py:509`) can put a stop on the wrong side
  for a cheap coin; this needs decimals. Ticker, indicators, levels and candle patterns are not modelled.
- **Order placement.** The docstring says an agent's order is always a paper one, while `create_order` follows the client's routing;
  "open" counts as a success; a paper process cancels an unknown id at the real exchange; paper limit orders never
  fill; after a restart the paper orders are forgotten.
- **Runtime configuration.** A change is in force before its diff is written (`config.py:91-96`, `115-118`, `160-162`; `risk.py:338-357`). If the insert raises, the
  administrator gets an error, the value stays in force and the ledger has no diff of it, until a later change of that key is logged; `DiffsExplainConfig` excepts such keys (`mishaps.unlogged`). What was patched in memory is lost at a restart without an entry in the ledger and differs between
  workers of the API, of which one is deployed; `kelly_fraction` is accepted and ignored.
- **Journals.** Only tests construct `TradeJournal`. A file that was cut loads as empty, and the next save overwrites it.
- **Onboarding.** Loading and saving are not one transaction: with several API workers
  (`docs/architecture/arquitetura.md:372`) a stamp could be erased. One worker is modelled, as deployed.
- **Migrations.** Python's `sqlite3` commits each DDL statement before the first INSERT by itself. So `db.py:197-199` ("Safe
  to call from both processes ... rolls back atomically") does not hold on SQLite: a death between two ALTERs of a script leaves a
  "duplicate column" at every later boot, and of two processes that boot at once one may fail. `DiskIsWhole` says what
  does hold: nobody is *up* on half a schema. PostgreSQL is not modelled.
- **Agent cycles.** The status is two statements, with midnight possibly between them; if the insert fails the count in memory is one
  more than the table.

## 6. Plan

1. *Done*: the order bridge with its abstract gate; the desk; the exchange connections; the dispatcher; accounts; the
   services of `MCControlPlane`.
2. A composition of the bridge with the desk: the bridge's `LoopExecute` is the desk's `ExecuteOrder`, so that what is
   sanctioned in one is what enters the book of the other.
3. A clock, for the heartbeat against the health check and for the loop scheduler's intervals, and a fault of Redis
   that lasts for the rate limiter.
4. More proofs: that `Dispatcher` and `Accounts` implement abstract specifications of their own (a log delivered once; a set of
   rights with their holders), as `OrderBridge` implements `ExecutionGate`; and the step from the desk to the screens, that the closes
   `SquadOrchestrator` writes are those `PortfolioViews` reads.
