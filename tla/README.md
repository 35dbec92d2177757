# A TLA+ verification of the strategy runtime

The repository is a trading terminal for a prediction market (Polymarket): users
write strategies ("if the price stays below 40¢ for ten minutes, buy"), a worker
watches the market and places the orders, and an HTTP API lets the users place,
confirm, dismiss, pause and cancel. Money moves when the code is right about the
order of its own steps: a commit before an order, a claim before a submit, a
watermark before a window. This directory models those steps in TLA+, checks them
with TLC on small instances and proves what matters most with TLAPS.

Paths below are relative to the repository (`src/` here is its root).

## 1. Inventory

### 1.1 Processes

| process | code | state it keeps |
| --- | --- | --- |
| worker | `apps/worker` | one Node process (decision D-001; `rule-evaluator.ts:73`, `docs/adr/0014`): rules in memory, price windows, books, resting quotes, timers |
| API | `apps/api` | Fastify handlers, stateless but for the event bus and rate limiters |
| Postgres | `packages/db` | every durable row; the stores' statements are the atomic steps |
| CLOB, relayer, bridge, Telegram | external | orders, fills, transfers, messages |
| web | `apps/web` | the user interface; talks to the API only |

The worker and the API share nothing but Postgres. A handler of either is a
sequence of awaited statements and upstream calls, and any step of the other
process, or of another async task of the same process, can run between two of
them. Almost every hazard of this code is of that kind.

### 1.2 Components

**Order execution** (`auto-executor.ts`, `auto-retry-sweeper.ts`,
`executing-recovery.ts`, `trigger-commit.ts`, `conditional-store.ts`,
`trading-store.ts`, `routes/trade.ts`, `routes/rules.ts`).
State: the rule row and its status, the trigger rows (status, retry deadline,
executed and failed stamps), the order intents under their idempotency keys, the
lifetime notional. Operations: commit a trigger, attempt an order, retry it, sweep
a rule stranded in EXECUTING, place a manual order for a trigger, confirm, dismiss,
pause, resume, cancel. Hard: four actors interleave statement by statement; the
CLOB may register an order and answer an error; the worker may die anywhere.
Correct when no trigger gets two orders, the ledger never contradicts the rule's
verdict, a final status is final, a schedule ends when the user acts, no rule stays
in EXECUTING, and the caps hold.

**Strategy state machine** (`packages/rules/src/state-machine-v2.ts`,
`evaluate-v2.ts`, `types-v2.ts`).
State, the `StrategyRuntime`: status, `trueSinceMs`, `staleSinceMs`,
`lastEventTimeMs`, trailing watermarks, `triggerCount`, `cooldownUntilMs`.
Events: book and tick (with or without views), reconnect, tick-size change, market
status, pause, resume, cancel, expire. A pure function of (runtime, event). Hard: the
hold window under stale gaps, cooldown and repeat bookkeeping, comparisons at
boundaries. Correct when a trigger is paid for by a whole window of satisfied time
that dark time never adds to, triggers keep apart by the cooldown, repeats never
exceed `maxRepeats`, and a trailing watermark never gives way.

**Rule evaluator** (`rule-evaluator.ts`, `series.ts`). State: the active rules in
memory (runtime, last series window, write chain), the cached views. Operations:
reload the list, add and remove a rule, apply an event, persist (state or trigger),
retry a failed write once and then drop the rule, resolve, claim and skip the window
of a rolling series. Hard: memory is ahead of the database; a queued write outlives
the entry that queued it; the list is read, then applied; the API writes the same
row; the worker restarts in the middle of a window. Correct when an armed row is
always evaluated, the row counts the triggers that exist, a window of the series is
entered once, and the row follows the order of the events.

**Order sync** (`order-sync.ts`, `trading-store.ts`, `DELETE /api/trade/orders/:id`).
State: an intent's status and filled size, the order and its fills at the venue.
Operations: list the intents to poll, read open orders, read trades, write a fill,
a cancellation or a completion; the user's cancel. Hard: two reads of the venue at
different times, an order that fills between them, a cancel that races the poll.
Correct when the stored fill never exceeds or regresses behind the venue, a final
status is true of the venue, and every order is eventually settled.

**Maker-loop quoter** (`quoter/engine.ts`, `quoter/manager.ts`, `executor*.ts`,
`quoter-store.ts`, `routes/quoter.ts`, `docs/rfc/0003`). State: the session row
(status, mode, pending batch and approval, inventory, pnl) and, in memory, the
resting quotes and the baseline of every order's fills. Operations: the cycle
(re-read, kill switches, merges, fills, gate, caps, diff, approval, cancel, place,
persist), halt, resume, approve, change mode, the rewards poller. Hard: the cycle
takes seconds and writes its verdict at the end; the user halts, approves or changes
mode in the middle; a crash loses the memory half of a pair. Correct when a halted
session places nothing and stays halted, a live batch was approved as it is
executed, inventory agrees with the fills, and no quote is forgotten on the book.

**Notification outbox** (`notification-dispatcher.ts`, `notification-store.ts`,
`telegram-bot.ts`, `sign-token` links). State: outbox rows (status, attempts,
next attempt), channels, link codes. Operations: enqueue under a dedupe key, claim
due rows, send to every channel, mark sent, failed or skipped. Hard: the send is
not transactional with the mark; one failing channel re-sends them all. Correct
when every row is eventually sent, skipped or failed after a bounded number of
attempts, and nothing is lost.

**Market data** (`market-feed.ts`, `polymarket-client/src/ws/market-client.ts`,
`price-window.ts`, `price-seeder.ts`, `market-status-poller.ts`). State: the socket
and its subscription set, book snapshots with their timestamps, per-token price
windows with gaps. Operations: open, close, error, subscribe, unsubscribe, liveness
timeout, reconnect; push, seed, mark a gap, evict. Hard: callbacks of a dead socket,
read-modify-write of a snapshot across an await, history merged under live samples.
Correct when the subscription set is what the live socket was told, a window holds
no sample older than its gap, and a snapshot never goes back in time.

**Bridge and withdrawals** (`bridge-poller.ts`, `bridge-store.ts`,
`withdrawal-store.ts`, `routes/trading-wallet.ts`, `routes/funds.ts`). State:
addresses of the bridge, deposits and withdrawals with their ranked states, the
relayer's transactions. Operations: request a withdrawal (quote, address, batch),
poll the bridge's status of an address, poll the relayer, the stuck flag; for
deposits, upsert, reconciliation with the chain, expiry. Hard: two legs by two
services, worker and API both writing what they learn, a batch that is out behind
an error. Correct when funds leave once per request, completed means delivered,
failed means recoverable, and what has arrived is settled.

**Accounts** (`auth-store.ts`, `invite-store.ts`, `referral-store.ts`,
`draft-store.ts`, `routes/{auth,profile,trading-accounts,trading-wallet,drafts,
referrals}.ts`). State: sessions, invites and their uses, referral codes, wallets
and their credentials. Hard: an invite redeemed at its limit by two requests.

**Strategy analysis** (`simulate.ts`, `replay.ts`, `proximity.ts`, `validate-v2.ts`,
`compat.ts`, `fees.ts`, `series.ts`, `templates`): pure functions over data.

**The rest**: discovery, feeds and ranking, the AI copilot, volume and Dune exports,
admin pages, configuration, observability, the CLOB and Gamma clients, signing, and
the web application. They hold no protocol state of the strategy runtime.

### 1.3 How the components interact

```
 market data ──events──▶ rule evaluator ──transition──▶ state machine (pure)
                             │ write chain
                             ▼
          Postgres: rule row · trigger rows · intents · outbox · sessions
             ▲   ▲        │ commit          ▲            ▲          ▲
             │   │        ▼                 │            │          │
     API ────┘   └── auto-executor ──▶ CLOB ──▶ order sync   quoter  dispatcher
  (submit, confirm,    retry sweeper, recovery               (cycle)  (send)
   dismiss, pause …)
```

### 1.4 Hazards

`PROJECT.json` lists them at their lines, each with the properties that would catch
it going wrong.
## 2. Plan

| module | what | state |
| --- | --- | --- |
| `Execution`, `MCExecution`, `ExecutionProofs` | the order path of one strategy | done |
| `StrategyMachine`, `HoldWindow`, `StrategyRun`, `MCStrategyRun`, `StrategyProofs` | the state machine, and the abstract hold window it implements | done |
| `RuleEvaluator`, `MCRuleEvaluator`, `RuleEvaluatorProofs` | memory, row and write chain of one strategy; extends `StrategyMachine` | done |
| `OrderSync`, `MCOrderSync`, `OrderSyncProofs` | polling of intents against orders and trades, and the user's cancel | done |
| `QuoteLoop`, `MCQuoteLoop`, `QuoteLoopProofs` | the quoter's cycle against halts, approvals, mode changes and crashes | done |
| `Outbox`, `MCOutbox`, `OutboxProofs` | enqueue, claim, send, retry | done |
| `MarketSocket`, `MCMarketSocket`, `MarketSocketProofs` | the socket's life cycle and subscriptions | done |
| `Withdrawals`, `MCWithdrawals`, `WithdrawalsProofs` | the two-leg ledger of cross-chain withdrawals | done |
| `Deposits` | a deposit's ranked states under three writers | to do |
| `PriceWindow` | the price window under pushes, seeds and gaps | to do |
| `Evaluate` | the expression tree against a reference definition | to do |
| `Accounts` | invites and links at their limits | to do |

Only `RuleEvaluator` extends another component; the others meet in the database
rows they share: `Execution` takes from the evaluator that a trigger commits,
`OrderSync` from `Execution` that an order was submitted, `Outbox` from all of
them that something is enqueued.

## 3. Modules and code

A step is one awaited database statement or one upstream call; between two steps
any other actor may run. What an actor has read and will use later is a field of
its own variable (`at`, `pass`, `cycle`, `poll`), so that it can be stale.
Variables or fields called *history* are of no consequence to the code; they
remember what a property is about. A definition marked `Bug` or named for one
(`…Never`, `…Twice`) is a plausible mistake that the checks put in the place of
its neighbour, to see that a property notices.

### 3.1 Execution

One automatic strategy.

| actor | actions | code |
| --- | --- | --- |
| write chains (`Chains`) | `CommitTrigger`, `EvaluatorEnds` | `trigger-commit.ts`, `updateEvaluationState`, run by `rule-evaluator.ts` |
| attempts, one for each chain and one of the sweeper | `Attempt…` | `execute` and `skip` of `auto-executor.ts` |
| sweeper | `Sweep…`, `Retry…` | `auto-retry-sweeper.ts` |
| recovery | `Recovery…` | `executing-recovery.ts` |
| API requests | `Submit…`, `Confirm…`, `Dismiss…` | `routes/trade.ts`, `routes/rules.ts` |
| user | `Pause`, `Resume`, `Cancel` | `conditional-store.ts` |
| faults | `AttemptThrows`, `RecoveryThrows`, `WorkerCrash`, `RequestDies` | rejected awaits, the end of a process |

`pc` and `at` say which statement an attempt runs next and for which trigger; the
rows are `rule`, `trig`, `auto`, `manual`; the exchange is `autoOrders` and
`manualOrders`. A submit may register the order and answer an error. `stuck`
abstracts `updated_at < now() - stuckAfter`.

Assumptions the module makes, each visible in a guard:
- one worker process (D-001): one sweeper, one recovery sweep, and as many write chains as
  there are in-memory rules of the strategy, the registered one and those dropped whose
  chains run on (`removeRule` does not wait for them);
- `ClaimAges` lets a claim age only when no attempt works on it: an attempt is taken
  to end within the five minutes of `stuckAfterMs`;
- all orders are of one unit and all on one UTC day, so caps count orders.

### 3.2 StrategyMachine, StrategyRun, HoldWindow

`StrategyMachine` is `transitionV2` as an operator: `Transition(prev, e)` returns the
next runtime, whether a trigger fires and whether there is a transition to record.
The expression is abstracted to one leaf that is true, false or unusable, in
conjunction with at most one trailing stop; market data to a `View`. `StrategyRun`
drives it with every sequence of events at non-decreasing instants.

`HoldWindow` says what a hold window promises in terms of *credit*: the time between
a satisfied observation and the next event. It knows nothing of runtimes, statuses
or shifted start times. `StrategyRun!HoldWindowSpec` is the refinement: credit is
`last - since` while the window runs and `stale - since` while it is dark.

### 3.3 RuleEvaluator

One strategy: its row, its trigger rows (`ledger`), and the in-memory rules (`slot`).
A rule that was dropped while writes were queued keeps its slot until its chain is
empty, so the chains of two incarnations interleave as they do in the code; `live` is
the entry in the `rules` map, if any. `ReloadRead` and `ReloadApply` are the two
halves of `reload`. `Apply` changes the runtime at once and queues a write when the
code does; `Work(i)` is `persist`, one statement at a time:

    start ─▶ (rolling) Resolve ─▶ Claim ─▶ Commit ─▶ Execute ─▶ Finish
      │                  └──────────┴─▶ Skip ─▶ SaveState ─▶ Finish
      └─▶ Commit (a trigger) or SaveState (none)

`Throw` is the failure of any of these statements, before or after it took effect: the
first starts the job over, the second drops the in-memory rule. `ledger[n].tries` counts
the automatic attempts started for trigger `n`; `action` is drawn in `Init` and never
changes, so that one run covers automatic and rolling strategies.

`apart` is a history variable: from some instant on the row is no longer written by
one rule alone. That is so when a dropped rule has left jobs in its chain, which are
committed beside its successor's, and when the reload adds a rule from a list that was
read before the row's last trigger. Two of the properties are about the time before
(section 7 says what happens after).

`StrategyMachine` is used as it is, with `Trailing = FALSE`. `SERIES_SKIP_REARM_MS` is
one instant. Overlapping reloads (a list that takes longer than the reload interval)
are not modelled.

### 3.4 OrderSync

`venue` is the exchange (an order is placed, becomes visible in the listing, is
matched unit by unit, has trades that fail on chain, leaves the book), `row` the
intents, `pass` what a pass of `createOrderSyncLoop` has read so far, `cancel` the
user's `DELETE /api/trade/orders/:id`, statement by statement.

| actions | code |
| --- | --- |
| `StartPass`, `NextGroup` | `runOnce`: `listForSync`, least recently synced first, account by account |
| `ReadOpen`, `OpenFails` | the listing of open orders; when it fails the group is stamped and left |
| `Resting`, `Young`, `Untouched`, `Resolve` | the four ends of an intent in `syncAccountGroup` |
| `ReadTrades`, `TradesFail` | `tradesFor`, cached per token for the pass |
| `Announce`, `GroupThrows`, `Crash` | the outbox entry, a throw, the end of the worker |
| `CancelSend`, `CancelRead`, `CancelWrite` | the user's request |

Stamps are kept as an order of ages, not as instants. `GraceElapses` takes an order
that still rests to be listed before `disappearGraceMs` is over: that is what the
grace is for, and nothing in the code would notice if it were not so. Average
prices, audits, the exchange's status `unknown` and the limit of `listByWallet` are
left out.

### 3.5 QuoteLoop

`session` is the `quote_sessions` row, `loop` the loop in memory (for every order the
fills it has booked up to, and the inventory), `cycle` the cycle under way, `venue`
the orders ever placed, `proposal` the history of the batch last proposed.

| actions | code |
| --- | --- |
| `Attach`, `Detach` | `addLoop`, `removeLoop` of `manager.ts` |
| `Begin` … | `runCycle` of `manager.ts`, await by await: kill switches, fills, merge, caps, proposal, cancels, placements, the final write |
| user actions | `routes/quoter.ts`: halt, resume, mode, approve; the kill switch |
| `Fill`, `CancelledElsewhere` | the exchange |

A share is worth one unit of capital, quoted or held. The gate and the prices are a
choice among `Levels`. Profit, daily loss, rewards, audits and the shadow mode, which
places nothing, are left out. Two assumptions hide behaviour of the code: a loop is
detached only between cycles (`removeLoop` may run in the middle of one, and a second
loop be attached beside it), and the listing of open orders is current (an older one
is read as a fill). Every order on the loop's tokens is adopted, as in the code, also
the user's own.

### 3.6 Outbox

`outbox` holds the rows; `pass` is the dispatcher's `tick`: the ids it claimed, the
row it works on, the channels still to be told, whether one has failed. `Claim`,
`List`, `Send`, `AllSent`, `Audit`, `Skip`, `Count`, `Settle` are its awaits;
`Count` and `Settle` are the two statements of `markAttemptFailed`. `Throw` leads
where the `catch` leads. `ready` abstracts `next_attempt_at <= now()`. All rows belong
to one wallet, whose channels are revoked and linked at any time.

### 3.7 MarketSocket

`sockets` are the sockets that live, by an id that is used again when one is gone: what
each was told, whether its transport is alive; `client` is the `MarketWsClient`: its
state, `this.ws`, whether the liveness timer runs and the socket in use is pinged, how
many reconnects are scheduled. The handlers act on the client whichever socket calls
them, as in the code.

| actions | code |
| --- | --- |
| `Subscribe`, `Unsubscribe` | the operation frames, of what was added or removed |
| `Opens`, `Message`, `Closed`, `Refused`, `Breaks`, `ServerCloses` | the handlers of `connect` |
| `LivenessFires`, `ReconnectFires` | the two timers |
| `Dropped` | the server drops a socket that is not pinged; only `this.ws` is |
| `Silenced` | a transport dies without a word |

A socket is *cast off* when it lives and is not `this.ws`: the late close of a dead
socket does that to its successor. Nobody pings it, so `Dropped` ends it, and its end
casts off the next. That costs no fault: it is the client's own doing, and may go on for
ever. Left out: `close()`, which ends the process, and payloads.

### 3.8 Withdrawals

`row` is `bridge_withdrawals`, `request` the handlers of `POST
/api/trading-wallet/withdraw`, `leg` and `hop` the truth about the two legs, `poll`
what the worker's poller and each `GET` that refreshes the history have in hand.
`checked` and `ahead` are `last_checked_at`: which addresses have one, and which come
before each in `order by last_checked_at asc`; an address without one is NULL, and Postgres
puts it last. `batch` is what the worker's sweep has still to visit.

| actions | code |
| --- | --- |
| `Submit`, `NoAddress`, `Linked`, `Send`, `RecordSent`, `RecordUnsent` | the handler, await by await |
| `Sweep` | `listActivePollableAddresses`, `listPollableAddresses`: the first `Batch` of the stale addresses, any of the others with them |
| `AskBridge`, `ReadRows`, `WriteRow`, `Tell` | `processAddress` and the refresh of the history, with `updateWithdrawalsFromStatus` |
| `AskRelayer`, `ReadRow`, `SetRow` | `pollWithdrawalRelayerLegs` and the refresh, with `advanceWithdrawalState` |
| `PolygonLeg`, `BridgeLeg` | the relayer and the bridge |
| `RequestDies`, `PollerDies` | a throw, or the end of a process |

A visit marks its address checked whether or not the bridge has anything to say
(`Check`). Which addresses are stale is not told by a clock: a sweep lists any set that
holds, with an address that was checked, all those in motion checked before it. A poll of
the relayer that has nothing to learn changes nothing and is left out.

## 4. Runs

Passing runs; every property has a mutant, a plausible bug of the mapped definition
that the run then finds.

| run | asks | bounds, and why they suffice |
| --- | --- | --- |
| `execution_requests` | a manual order at most once; final statuses and claim of a once-rule | two requests on one trigger, two rows: enough for look-up, release and re-submission to interleave with each other, the attempt and the user; no fault (the same with a fault is out of proportion, and `FinalIsFinal`, `OrdersUnderClaim` are theorems for any number) |
| `execution_live` | no rule stays EXECUTING, no schedule stays open; the recovered verdict; what is executed is counted | one request, two faults: a crash and a failed recovery of it, or a lost answer and a crash |
| `execution_caps` | types, one automatic order per trigger, the daily cap overshoots by one order per chain at most | three triggers, a cap of one, two chains: with the sweeper three attempts read the cap at once, on different triggers and equal ones, and the bound of three orders is reached; one fault. The cfg's VIEW leaves out what no step reads: the trigger of an attempt that is over, and `autoFailedAt` |
| `strategy_run` | hold window, cooldown, watermark | Hold 3, Grace 2, Cooldown 2, three prices, twelve instants: a window can run, go dark within and beyond its grace, resume, fire, cool down and fire again |
| `evaluator` | an armed row is evaluated again; row and trigger rows together, one attempt, one entry per window | two throws (a write and its retry, either acknowledgement lost), one crash, one pause or cancel by the user, reconnects, two triggers; automatic and rolling, refunds in the one window of the series; with no window held open, stale data are unsatisfied data. A further window of a series is covered by `WindowsOnce` |
| `order_sync` | verdicts are true, orders settle | two accounts, one of which can no longer be read, one token, a batch of one: the broken account competes for every pass; one crash or throw, two cancels, one trade that fails on chain. Several orders of one account in a batch are covered by the theorems |
| `quote_loop` | fills are booked once, batches execute under a current approval, once | two tokens, one level, two orders of two shares: an order can fill in part, rest and be cancelled, and both tokens fill to a pair that merges; one fault and one act of the user, anywhere |
| `outbox` | sent means told, told is bounded, what is settled stays so, every row settles | two rows against a batch of one, so that one can starve the other; two channels of which one can fail; two attempts; one fault, one channel revoked or linked |
| `market_socket` | the socket in use is watched, pinged and told, and a healthy one comes again and again | two faults: the second can hit while the first is being recovered from, its late close included, and two sockets can be cast off; drops for want of pings without bound; three changes of two subscriptions |
| `withdrawals` | sent once, completed is delivered, failed is recoverable, transfers settle | one withdrawal submitted twice, three addresses against a batch of two, so that two can be put before one; the worker and a refresh, two faults: the second can hit the recovery from the first. Several withdrawals that share an address are covered by the theorems |

Where a run leaves an action out, another fires it: `Once` selects disjoint parts of
`Execution`; `Requests` is empty where the triggers are several, and the theorems do
without either bound. `evaluator` holds no window open (`Hold` is 0), which would
square its states, so that of the events none but ticks change anything there;
`strategy_run` has them all, and the theorems of `RuleEvaluatorProofs` hold for every `Hold`.

Four runs do not check for deadlock (`order_sync`, `outbox`, `market_socket`,
`withdrawals`): when every order is settled, every row told, every bounded fault and
control spent, there is nothing left to do.

## 5. Fairness

User actions, faults and market events carry none. Faults are bounded, which is what
makes "eventually" true: a database that always throws is not survived.

- `Execution!FairSpec`: weak fairness of the steps of the worker's timers and of an
  attempt under way: `setInterval` and the event loop run them while the process
  lives, and the process is restarted.
- `RuleEvaluator!LiveSpec`: weak fairness of the two halves of the reload, of each
  write chain and of the restart.
- `OrderSync!FairSpec`: weak fairness of the pass; strong fairness of the successful
  reads of an account that is not broken, since each competes with its own failure;
  of the end of the grace, which is time passing.
- `Outbox!FairSpec`: weak fairness of the dispatcher and of the end of a back-off.
- `MarketSocket!FairSpec`: weak fairness of the reconnect timer; of the watchdog only
  under `Silence`, when no open socket is alive, since a message of any socket, cast off
  or not, starts its timer again; of the answer to each handshake, of the end of each
  closing handshake, and of the drop of each socket that is not pinged, which is the
  server's part by `market-client.ts:44-46`. None of these is a fault: that a server closes,
  breaks or silences an open socket is never forced. Strong fairness of the handshake of
  `this.ws`: sockets cast off do not for ever end just before it is answered. It is the
  one assumption about speed, handshakes being answered in less than the reconnect
  delays that grow while they are not. The code has no time-out for a handshake: that one
  is answered or refused at all is assumed of the transport.
- `Withdrawals!FairSpec`: weak fairness of a handler, of a poll once begun, of the sweep,
  which a timer starts, and of the next visit while a batch is left. No address is
  promised a visit: `TransfersSettle` is about addresses that have been checked once, and
  that these have their turn follows from the order of the sweep. Without that premise
  TLC refutes it (section 7). The refreshes by the API carry none.

## 6. Proofs

All for every value of the constants under the named assumption of the module.

`ExecutionProofs`:
- `TypeCorrect`, by `TypeInv`: `TypeOK` together with `RepetitionLeft`, that the rule is
  evaluable only while a repetition is left.
- `OneOrderPerTrigger` and `ExecutedCounted`, by `LedgerInv`: an attempt inside its
  create-to-confirm section owns the intent key it works under (`KeyOwned`), and
  statuses settle in the order intent, order, count (`SettledInOrder`). Without these
  a second attempt could submit under an intent it does not own.
- `VerdictAgrees` and `OrdersUnderClaim`, by `ClaimInv`: an attempt beyond its claim
  means the rule is EXECUTING and nobody else is beyond it (`ClaimHeld`), and what
  recovery has read stays true until it writes its verdict (`VerdictReady`). It rests
  on the guard of `ClaimAges`, i.e. on the assumption that an attempt outlives its
  claim by less than five minutes.
- `ManualOncePerTrigger`, by `ManualInv`: the key of a trigger belongs to one request while
  its row is pending, and while it is free, or its owner's submit is not acknowledged,
  every order of the trigger is one that was registered behind an error (`ManualKeyOwned`).
- `DailyOvershoot`, for any number of chains: live intents and attempts past their reading
  of the cap are counted together, which makes the bound inductive. An attempt that
  passes finds fewer than `MaxDaily` live intents, and one that creates its intent takes
  the intent's place in the sum.
- `RetrySchedule` (a schedule exists only on a trigger that awaits the user), from the
  types; `FinalIsFinal`, from the compare-and-sets.
- `AttemptsEnd`: an attempt's program counter has a rank that each of its statements and
  each throw lowers. `ClaimsEnd` is `ExecutingResolves` without its fairness: while a rule
  stays EXECUTING, what is left of the claim (the rank of its holder's attempt; once
  nobody holds it, its ageing and recovery's statements) falls with each step the fairness
  names, and only a fault raises it, to eight at most. It needs `ClaimInv`, that one
  attempt at most holds the claim and that recovery is idle while one does.
- `SweepsEnd` and `SchedulesCleared` are `RetryResolves` without its fairness: what is left
  of a pass (the rank of the attempt under way, sixteen for each trigger on the list, and
  the list that comes after it) falls with each of its statements; a schedule whose window
  has closed is never opened again, is on the next pass' list, and is off it only when it
  is cleared or a fault ends the pass. `SweepShape` says which lists and attempts go
  with which phase of the pass.

`StrategyProofs`: the inductive invariant `Inv` is `Sane` (an open window lies in the
past, a live strategy has repeats left) and `Spaced` (the cooldown gate still stands,
or is over and the window opened after it). Each step is proved to have one of five
outcomes, and each outcome to keep `Inv`, to keep triggers apart
(`TriggersKeepApart`), to keep watermarks (`WatermarkNeverFalls`), and to be a step of
`HoldWindow` or a stutter (`HoldWindowImplemented`).

`RuleEvaluatorProofs`:
- `AttemptsOnce`, by `AttemptInv`: a job that is about to attempt has its trigger, which
  nobody attempted before, to itself (`Attempting`), and only the first job of a chain is
  under way (`Tidy`). It holds with any number of dropped rules.
- `RowCounts`, by `CountInv`: as long as nothing is `apart`, the trigger rows are 1 up to
  the row's count, and the counts in the registered rule's chain lead from the row, job
  by job, to the rule in memory (`Linked`); the first job may be one trigger ahead, or
  have been committed with its acknowledgement lost (`Leads`). That an event counts a
  trigger exactly if it fires one is a lemma about `Transition` (`Counts`). TLC found
  that a list read before the last trigger breaks this before the proof could ask for it.
- `WindowsOnce`, by `WindowInv`: the windows in the ledger are no newer than the row's
  last, which is no newer than the live one; a window that is claimed and not yet
  entered is newer than all that were (`Entering`).
- `TypeCorrect`, by `TypeInv` on top of `AttemptInv`: every rule in memory, every result
  queued for a write and the row obey `maxRepeats` and hold no start of a data gap that
  lies ahead, so whatever a reload, a resync or a late write copies between them is well
  typed.
- `NoZombies` and `ChainsEnd` are the core of `ArmedIsEvaluated`. A registered rule is in a
  status that is evaluated, or it is over and the last job of its chain is the write that
  ends it (`EndPending`): an event ends a rule only with something to record (`Proper`), a
  refund puts the rule back to waiting, and a chain whose statement throws twice drops the
  rule. `NoZombie` is inductive on top of `AttemptInv`, and holds of a successor while its
  predecessor's chain still runs. `EvaluatorAssumption` lists the events the worker sends
  (`rule-evaluator.ts` sends no `pause`, `resume`, `cancel` or `expire`); with a `pause` event
  the rule would stay registered and blind. `ChainsEnd`: each statement leaves the
  chain fewer (`ChainLeft`, thirteen to a job, its one retry included), and events lengthen
  only the chain of a rule that is evaluated. So a rule that is registered and over is
  dropped after finitely many statements, and what the reload then does stays with TLC.

`OrderSyncProofs`:
- `VerdictsAreTrue` needs to know that what the pass carries from one read to the next is
  still a bound on the truth: an order absent from the listing and past its grace is gone
  for good, and the trades read afterwards therefore show all its matches. The order of
  the two reads is what the proof turns on. `FillsAreReal`: no intent shows a fill the
  exchange has not made.
- `PassNeverStuck`, `PassesEnd`, `NobodyOvertakes` and `GoneOrdersSettle`, by `Types`
  (`TypeOK` and `Shape`, how batch, group and announcement hang together), are
  `OrdersSettle` without its fairness: `Work`, four for an order not read yet, two for one
  that is being synced, one for each of its trades' reads, falls with each step of a pass
  and is zero when there is none; in the order of the stamps only a new order gets ahead of
  one that waits; and an order that is gone and was missed stays missed until its status is
  final, unless its trades cannot be read, a statement throws or the worker ends. The one
  order that keeps its place at the front is named by them: one whose trades cannot be read.

`QuoteLoopProofs`:
- `CurrentApproval` and `OneUsePerApproval`, by `Approvals`: an approval is granted only
  for the batch it names (`Granted`), the cycle that carries an approved batch accounts for
  its one use, and a use not accounted for was lost to a fault (`Accounted`).
- `TypeCorrect` and `FillsOnce`, by `Books`: the inventory is at most the sum of what each order is
  worth, which for a resting quote is its baseline and not its fills (`Earned`), on top of
  `Types`. The inventory is a fold over a set of orders, and an induction over data takes
  its predicate as a parameter, which no prover here can be given. The lemmas go the other
  way: a set of counterexamples has one of least size (`LeastSet`), from which the sum
  obeys its recursion whichever element is taken out first (`SumsAgree`, `SumTakes`), and
  grows with its terms (`SumsBelow`). The attempt showed that a CASE of `Reconciled` had
  overlapping guards, whose choice TLA+ leaves open; they are disjoint now.

`OutboxProofs`, by `Conduct`: one row per event (`OneRowEach`), a row that is settled
is not the row under way (`Work`), a channel crossed off the list has been told
(`Telling`), and sends are paid for by attempts and faults (`Counted`).
`PassesEnd`, `PassNeverStuck` and `RowsAdvance` add `Tidy` and are `RowsSettle` without its
fairness: the toll of a pass falls with each of its steps, a throw included, because a row
is caught once only; a due row waits behind older ones and behind those alone whose
back-off has just elapsed; and what is taken up is settled or has one attempt more,
unless the pass dies. That attempts are bounded is `TypeCorrect`.

`MarketSocketProofs`:
- `SocketIsTold` and `SocketIsWatched`, by `Tended`: `this.ws` is null exactly while one
  reconnect is scheduled, and an open socket in use means state connected, a running
  watchdog, and the subscription told as wanted. The middle part is why a subscription
  that goes out only in state connected is enough.
- `OnlyFaultsCastOff` and `TypeCorrect`: each step keeps the sockets cast off, adds one
  with a fault, or hands on, one late end leaving one other in its place at most. They never
  outnumber the faults, so the set of ids the model enumerates always has one for the next
  socket and cuts no behaviour off.
- `RecoveryDescends` and `RecoveryEnds` are `FeedRecovers` without its fairness. `Distance`
  counts the steps to the next healthy socket: watchdog, reconnect, handshake. Each of
  them lowers it; a fault sets it back, or a late event: the end of a socket that was cast
  off, and the watchdog that its traffic started on a handshake. At zero the feed is healthy and
  told; before that one of the three is due, with an id for the reconnect to take.

`WithdrawalsProofs`, by `Books`: a key is handled by one request, which has not sent
while it is in front of the batch (`Handled`); every state of the ledger says
something true of the two legs (`Ledger`); what a poller carries from one await to the
next stays true, because delivered and reverted are final (`Carried`). The last is why
the unguarded writes of the bridge's status do no lasting harm: with `Traced` (funds that
are out have an address in the ledger, and a poller that is about to compare and set has
not seen a final state), `DecisionsAreInReach`, `SweepsSettle`
and `OnlyLateWritersUndo` are `TransfersSettle` without its fairness. The last one says
how long the harm lasts: a terminal state is written over only by pollers and requests that
were under way when the bridge decided, and by each of them once.
`CheckedHaveTurns`, by `Queue` (addresses without a check come last, and those with one
are in line), is what the visits' fairness rests on: each visit to another address takes it
out of those before an address that was checked, nobody joins them, and a sweep while its
withdrawals are in motion takes it or some of them, so its turn comes after finitely many.

Only model-checked: liveness under fairness (`ExecutingResolves`, `RetryResolves`,
`ArmedIsEvaluated`, `OrdersSettle`, `RowsSettle`, `FeedRecovers`, `TransfersSettle`), since
fairness and ENABLED are out of the prover's reach. The theorems above prove what the
fairness is applied to, for every value of the constants: a measure that the fair steps
lower and that nothing but faults, or new work, raises, and for the last four a step that
is possible until it is zero. What is left to TLC is that the fair steps of the first two
are enabled while the measure is not zero, and that the reload registers a rule again.

## 7. Where code and documentation disagree

Two runs expect a violation; `PROJECT.json` quotes the lines.

`recovery_adopts` (`CreatedFailsClosed`). The header of `executing-recovery.ts` says that an
intent which was created and never acknowledged fails closed. The code tests for the
status `created` (`:97`), which no store writes: an unacknowledged intent is `pending`, falls
through to the branch for orders that made it out, and the rule ends `EXECUTED_AUTO` with
its notional counted. `VerdictMatchesLedger` says what is left: such a verdict comes from
recovery only, over a trigger that no attempt marked executed.

`halt_undone` (`HaltStays`). A cap breach halts the
session, and the same cycle then writes the loop's own status over it
(`manager.ts:510`); a halt by the user between the cycle's read of the session and its
last write goes the same way.

The following was seen while modelling; the models show it, or leave the behaviour out
where section 3 says so. No run is kept for it.

Order path:
- recovery looks a rolling strategy's intent up under the wrong key, and re-arms a rule
  whose order is out (`executing-recovery.ts:69`);
- a dismissed trigger can be claimed and ordered (`auto-executor.ts:346`); an order that
  registered behind an error can be signed a second time (`auto-executor.ts:412`); a
  strategy paused during the sweeper's re-verification still orders
  (`auto-retry-sweeper.ts:110`);
- concurrent attempts, of the registered rule's chain, of a dropped rule's that nobody
  waited for (`rule-evaluator.ts:372`) and of the sweeper, all fit under a daily or lifetime
  cap with room for one (`auto-executor.ts:243`; `types-v2.ts:292` calls the caps hard);
  `DailyOvershootBounded` bounds by how much: one order per chain;
- a user's cancel that filled in part counts its fills since the last pass as none
  (`trading-store.ts:588`).

Rule evaluator:
- a declined window of a series consumes a repetition (`rule-evaluator.ts:530`);
- a restart resumes an accumulating window with the row's `trueSince` unshifted, so the
  downtime counts towards `holdsForMs` (`rule-evaluator.ts:312`);
- a pause and resume between two writes of the worker is not noticed, and the hold
  window goes on (`rule-evaluator.ts:548`);
- a dropped rule's write chain runs to its end beside its successor's: it can overwrite
  newer state, count a trigger that is never inserted, and enter a window of the series a
  second time. `claimSeriesWindow` accepts any window that differs from the last one
  (`conditional-store.ts:450`), so a late claim of an older window opens the newer one
  again, although `conditional-store.ts:148` says that one entry per window holds even
  if two evaluations race. TLC finds it when `~apart` is dropped from
  `SeriesWindowOnce` and a pause and a resume are allowed, or two throws;
- the reload adds a rule from the list it has read (`rule-evaluator.ts:396`). If the rule
  was registered when the list was read, committed a trigger, and was dropped before the
  list is applied, its successor starts from the old count and writes it back:
  `trigger_count` falls behind the trigger rows, and the next trigger is a duplicate;
- a crash between an automatic trigger's commit and its attempt leaves a trigger that
  was neither attempted nor notified (`rule-evaluator.ts:712`).

Order sync:
- an account that cannot be read is stamped so as not to starve the rest
  (`order-sync.ts:200`), but an intent whose trades cannot be read is not, and stays
  first in line;
- the user's cancel writes over a status that the loop has made `filled` in between
  (`trade.ts:895`);
- the announcement of a fill is lost when the worker ends, or the statement throws,
  after the status is written (`order-sync.ts:288`).

Maker loop:
- a halt by the user cancels nothing, though `quoter.ts:298` says it does, and a cap
  breach without an executor neither (`manager.ts:475`); a kill switch cancels only the
  quotes in memory; a paused strategy's loop is removed without cancelling;
- fills between the last look and a cancel, or before a loop is attached, are never
  booked; an order that vanished from the listing counts as filled; a throw in the
  middle of booking loses fills;
- a crash between the submit of a merge and the write of the inventory merges again,
  and a crash or throw after an approved batch was executed executes it again
  (`ApprovalUsedOnce` allows one more execution per fault).

Outbox:
- a throw of the audit after `markSent` is counted as a failed attempt of the row that
  was sent, which can end up failed; a failure whose audit throws counts twice
  (`notification-dispatcher.ts:154`);
- a wallet that has no channel at that moment has its row skipped for good; one failing
  channel resends on all.

Market data:
- the close of a dead socket that comes late casts off its successor, which stays open
  and is pinged no more; the server drops it for that, and the drop casts off the next
  (`market-client.ts:131`, `:44-46`). This churn needs one fault to begin and none to go on:
  `FeedRecovers` says that a healthy socket comes again and again, and TLC refutes that one
  comes to stay;
- two sockets can overlap, although `market-client.ts:174` says they cannot; data on a
  cast-off socket re-arms the watchdog of its successor, which can be dead;
- the evaluator and the quoter share one set of subscriptions that is not counted: one
  unsubscribes what the other still watches;
- message batches interleave at the await of the snapshot's write, so that an older book
  can be applied last (`market-feed.ts:157`), and so can a REST book
  (`rule-evaluator.ts:855`); a reseed on reconnect can join a fetch begun before the gap
  (`price-seeder.ts:51`).

Withdrawals and deposits:
- the sweep orders by `asc(lastCheckedAt)` (`bridge-store.ts:262`, `:302`), which puts
  addresses never checked last, where order-sync says `nulls first`
  (`trading-store.ts:672`): while a full batch of checked addresses is due, one that never
  was is passed over, and its withdrawal or deposit is not noticed. TLC shows it when
  the premise of `TransfersSettle` is dropped;
- `updateWithdrawalsFromStatus` and `updateWithdrawalState` write without asking for the
  state the row had: a completed row can go back to bridging or be overtaken by
  `polygon_submitted`, although `bridge-store.ts:83` and `:197` say terminal rows never
  move. The next poll makes it good (`TransfersSettle`);
- `failed_polygon` is written when `executeBatch` answers an error or not at all, also
  for a batch that is out (`trading-wallet.ts:707`), although ADR-0018 and
  `schema.ts:761` say that the funds never left; `FailedIsRecoverable` makes the
  exception explicit;
- a request that dies after `executeBatch` leaves a row without the relayer's
  transaction, and a leg that then reverts is never noticed;
- two withdrawals can share an address, and the older one's delivery completes the
  newer row; `CompletedIsDelivered` says what is left;
- a completion that the history request writes first, or that the worker writes before
  it ends, is never announced;
- for deposits, the worker's and the API's upserts can each move a state backwards, and
  a deposit that expires is not revived when the provider completes it.

## 8. Not modelled

- Deposits: three reporters, adoption of rows by amount and instant: the data decides,
  and a model without it would show nothing; withdrawals on Polygon itself, which have
  one leg and one writer.
- The contents of books and price windows, and their seeding; the market status poller.
- The expression tree and the book arithmetic of `evaluate-v2.ts`: pure, and covered by
  the repository's unit tests; the analysis of strategies likewise.
- Accounts, invites, referrals and drafts: single statements behind one handler each.
- The maker loop's shadow mode, numbers, profit and rewards.
- The venue's matching beyond fills, signatures and allowances (a choice: accepted,
  rejected, unknown), order pricing and fees, audit rows, the realtime bus (best effort,
  with polling behind it), discovery, AI and web; two workers at once, which the code
  excludes by deployment and does not defend against.
