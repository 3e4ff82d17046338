# Deltabadger's money paths, in TLA+

Deltabadger is a self-hosted investing server. Bots buy and sell on a schedule, on a webhook or to keep a
composition; withdrawal rules move what was bought to a wallet; a REST and MCP API lets a client place
orders itself. The Rust backend (`src/rust/src`) replaces a Rails application (`src/app`) and takes over its
SQLite database.

Where money moves, the backend has one pattern, written again for each path: a *fact is committed before the request
leaves*, the request leaves at most once, and whatever interrupts the rest (a lost reply, a kill, a stop, an
edited key, a failed write) is settled later from that fact. This project models the paths, states what each promises
the owner, checks it with TLC, and proves the safety part with TLAPS.

| module | what it models | checked by | proved |
|---|---|---|---|
| `Placement` | a bot's order: tick, intent, fences, send, reply, recovery | 2 runs | `Placement_proofs`, 8 theorems |
| `OrderLedger` | what the placement of orders promises, abstractly | as a property of `Placement` and `Signals` | implemented by both |
| `Signals` | a signal bot: the hook, the call queue, the claim, one more attempt, the marker, recovery | 2 runs | `Signals_proofs`, 8 theorems |
| `ApiOrders` | an API order: Idempotency-Key, request row, engine, answer, start-up sweep | 1 run | `ApiOrders_proofs`, 6 theorems |
| `IdempotencyKeys` | what an Idempotency-Key promises a client, abstractly | as a property of `ApiOrders` | implemented by `ApiOrders` |
| `Withdrawal` | a withdrawal rule: evaluations, attempts, recovery, the operator | 2 runs | `Withdrawal_proofs`, 7 theorems |
| `WithdrawalLedger` | what the withdrawal rules promise the owner, abstractly | as a property of `Withdrawal` | implemented by `Withdrawal` |
| `AmountLimit` | the quote cap of a bot and the counted stops a sweep owes | 1 run | `AmountLimit_proofs`, 2 theorems |
| `Reversal` | a reversal: cancels, reserves, polls, the gate of KuCoin's orders | 1 run | `Reversal_proofs`, 5 theorems |
| `ReserveLedger` | what a reversal promises of the reserves, abstractly | as a property of `Reversal` | implemented by `Reversal` |
| `Handover` | Rails, any number of Rust processes, the lock, the lease row, the job queue and its journal | 2 runs | `Handover_proofs`, 7 theorems |
| `Ownership` | what lock and lease promise, abstractly | as a property of `Handover` | implemented by `Handover` |
| `Notices` | the notices a bot owes its owner: markers, sender, outbox, launcher | 1 run | `Notices_proofs`, 3 theorems |
| `MCPlacement`, `MCApiOrders`, `MCWithdrawal` | the symmetry sets of the runs | | |

Run a model with `tlc -config PlacementMargin.cfg MCPlacement.tla`, the proofs of a component with
`tlapm Placement_proofs.tla`. `PROJECT.json` lists the runs, the mutants (a plausible bug for each property, with which
the run must fail), the source lines of every definition, the hazards and the theorems.

## The system

### How it runs

One process holds the web server (axum; many tasks and database jobs), the engine (one task), and background jobs
(mail, market data, account sync). They share one SQLite database. A write transaction of the engine and of the
lifecycle pages starts with `BEGIN IMMEDIATE` (`model::immediate`): it has the write lock before it reads, so what it
read still holds when it writes. *Between* two of its transactions the engine awaits the network, and anything may be
committed by the web. That is where the hard behaviour is: every value read before an await is stale after it, and
each protocol needs a fence that notices.

The engine is a single sequential loop (`engine/run.rs`). One pass does, in order: due reversals, commands, API
orders, rereads of cancelled orders, polls of open orders, rebalances, the reconciliation of idle bots with an unresolved
intent, signals, the withdrawal phase, the state of conditions, open orders, bookings, resyncs; then each due bot, with
the API orders again between two bots. There is no second engine: a lock file (`EngineLock`) keeps one process, and the
operator's commands take the same lock, so they run only while the engine is down.

### Components

| component | state it keeps | operations | hard about it | what makes it correct |
|---|---|---|---|---|
| order placement (`engine/placement.rs`, `tick.rs`) | the intent in `transient_data.rust_placement`; transaction rows; bot status; run and tick generation | claim a tick, begin, dispatch, send, record, recover, resolve by operator | stop and restart within an instant; lost replies; late requests; kills; an edited key | no order lost, sent twice or recorded twice; none beside an unresolved one; a stop holds |
| API orders (`engine/api_orders.rs`, `web/rest*.rs`, `web/bot_api/orders.rs`) | `rust_api_orders`, its standalone side rows, `idempotency_keys`, `rust_idempotency_orders` | claim a key, queue, withdraw, take, claim, answer, forget, sweep | web gives up while the engine takes; kills with a key in progress; reused row ids; a sweep that fails | one order per key; every answer true; the log of placed orders kept |
| withdrawal rules (`engine/withdrawal.rs`, `rules.rs`, `web/rules`) | rules, evaluations, attempts, rule logs, the withdrawal key | schedule, evaluate, prepare, dispatch, send, settle, recover, resolve by operator; start, stop, edit, delete | edits between prepare and send; a lookup that proves nothing; piled-up evaluations | no attempt lost, made twice or beside one in doubt; log true; every evaluation ends, but under an attempt in doubt or bad data |
| engine pass and run loop (`engine/run.rs`) | wakes, retry times, the once-a-day marks | step, wake, stop | one task serves everything: an error or a long drain of one phase delays or ends all | bots are stepped in bounded time; no bot's error ends the pass |
| amount limit (`engine/amount_limit.rs`, `tick.rs:90-168`) | the counted stops a bot owes | note a fill, drain | a kill between two stops; a restart by the owner in between | exactly the owed stops, none of an older run |
| signal bots (`engine/signal.rs`, `web/hook.rs`) | the call queue and the marker of the order in hand, in `transient_data`; rules and their cooldown | receive (web), consume, expire, place, retry once, resolve | a call behind an unresolved order races its expiry | each call at most once, in order, never late |
| lease and handover (`lease.rs`, `engine/handover.rs`) | who owns the database; the window of Rails writes | claim, close, hand back | a kill between claim and close | one owner; the window closed exactly once |
| reversal (`engine/reversal.rs`) | the bot's direction, reserves waiting for a cancelled buy | reverse (web), cancel, credit | the poll, the scan and the cancel may each see the final state | an unspent reserve credited once |
| polling and reconciliation (`polling.rs`, `reconcile.rs`) | open rows, fills, bookings | poll, settle, cancel, operator's resolution | the venue and the operator in any order | a row settles once; the same facts change nothing |
| rebalancing, liquidation, redeployment | a pending phase per bot, commands | start, place legs, resume | a kill between two legs | each command once |
| splits, staleness, eligibility, wash sales | fences over the account ledger; locks | refuse | checked, then the world changes | a claim is released or kept with its intent |
| IBKR reservations (`venue/ibkr_reservations.rs`) | reservations of one account | reserve, release | order and intent removed in two steps | never more than the account holds |
| notices, mail, outbox | markers; mails with a deadline | raise, deliver, acknowledge | raised again while being sent | each sent at least once |
| account sync (`sync/`) | pages, continuation marks | import, continue | cut between two pages | no page skipped, no row twice |
| jobs, key rotation, supervisor, store | schedules, wakes; the cipher's key | run, retry; rotate; end together | kills between steps | see the plan |
| tracker, tax, figures, pages, OAuth, MCP reads, indicators, venue adapters | mostly read models and arithmetic | | | numerical; covered by the repository's recorded vectors |
| Rails application, desktop shell | predecessor; starts the server | | | external |

The hazards these bring, each at its line, are under `hazards` in `PROJECT.json`, with the properties that watch them;
the two without a property say why.

### How the modelled parts meet

- The web reaches the engine only through the database (status and generation of a bot, a queued request, a rule, a
  key) and a wake. There are no calls between them, so the models need no channel: the interleaving of committed
  writes is the interaction.
- `ApiOrders` sends through the same `placement::dispatch` as `Placement`. What `ApiOrders` needs of it (sent at most
  once per claim, an answer that is true or "unknown") is what `Placement` shows; the two are not composed, because a
  standalone order has no bot and no intent.
- `Signals` uses the same intent, send and recovery as `Placement`. It keeps what a signal bot adds (the queue, the
  marker, the second attempt, no run to fence by) and takes from `Placement` that a lookup concludes "absent" only when
  the venue can no longer accept the order; both implement `OrderLedger`. The API orders a client places through a signal
  bot are `ApiOrders`' (its `Claim` asks the same barrier).
- `Withdrawal` shares nothing with the others but the process: an error that leaves its phase ends the engine for
  the bots as well, which its counterexample is about.
- `AmountLimit` and `Reversal` begin where `Placement` ends, with a row that waits: they take from it that a
  row is written once, and model what the venue, the polls, the owner and a death make of it. They are apart because a fill
  owes its stop whatever the bot's direction, and a reserve is owed whatever the cap.
- `Handover` is the frame of all the others: they assume one engine, which is its first property. The calls a takeover
  imports enter `Signals` as calls of its queue, and the marker it raises is `Signals`' `marker`.
- `Notices` reads markers the engine raises anywhere; nothing waits for a notice, so nothing of the others is in it.

## The models

In all of them, **one action is one committed transaction, one request or one answer**. What a task does between
two commits exists only in memory and is lost with the process. Times, where there are any, are small integers
whose order is the code's. Amounts, prices, texts and pair names are left out: no property distinguishes them, and
where the code branches on one, the model may take either branch.

### `Placement`

One DCA bot and its regular legs.

| variable | code |
|---|---|
| `status`, `gen`, `ticks` | `bots.status`, `transient_data.run_generation`, `.tick_generation` |
| `cred` | the API key row: its id and the version of its ciphertext (`credential_version_by_id`) |
| `intent` | `transient_data.rust_placement`, as far as it is read: id, time, run, key id, `dispatched` |
| `rows`, `failed` | the `transactions` rows of each client order id, submitted and failed |
| `pc`, `run`, `handle`, `held`, `reply`, `asked`, `since` | the engine's program counter and locals |
| `wire`, `verdict`, `sent` | requests under way, the venue's books, a history of requests |

*The web* starts (`WEB_START`: the generation moves), stops, archives (a stop, then the archived status, in one
transaction), deletes (no new generation), unarchives, and edits the API key (same key id with another secret, or
another key id: another account), which `keys.rs:632` refuses while the intent stands: the engine meets a new key only
before `Begin`. (It refuses while a recorded order is open too; the model's rows do not tell, and it allows that.) *A tick* loads the bot, claims its checkpoint under a new tick generation,
goes to executing, and for each leg: `Begin` commits the intent, if there is none and the run is still this run;
`Dispatch` takes the write lock, checks run, intent and key again, and marks it; `CheckWindow` gives up if the send
window has passed; `Transmit` sends. `Fence` is the branch of `Dispatch` in which a stop came between. The answer is
recorded whatever the bot's status has become (`RecordAccepted` has no run fence; `RecordRejected` needs the key that
sent it). *Recovery* (`Ask` to `Conclude...`) works whatever the status, only under the key id the order was sent with,
and calls an order absent only when the lookup *started* after `AbsentFrom`.

`AbsentFrom` is the heart of it. A venue with a server-side deadline (`DeadlineSent`) drops a late order, so absence
is provable a while after the deadline. Any other needs `Margin` after the later of the intent's time and the
start of the process: a request leaves only within `Reach` of the intent, or while the process that died was writing it
(`DieMidWrite`), and is accepted within `NetDelay`. `TimesAssumption` says what the code's constants must satisfy:
`SendWindow <= Reach` and `Reach + NetDelay < Margin` (the send deadline and the client's total timeout against the
venue's `absence_margin_secs`).

Abstracted: several legs of a batch (each is its own `Begin`), the reasons for which a tick stops before sending
(one `NotSent`, one `Abandon`), orders of other phases, and Rails' unrecorded orders.

### `OrderLedger`

Four facts without machinery: an order is `new`, `open`, `recorded` or `void`; one is open at a time; it becomes
recorded only if the venue has accepted it, void only if the venue has not *and never accepts it afterwards*
(`VenueAccepts` needs an open order). `Placement` implements it with `fate <- Fate` and `accepted <- Booked`.

### `Signals`

One bot. `queue` is `transient_data.rust_signal_calls`, a set of calls numbered as they arrive, of which a pass
takes the lowest; `intent` the bot's `rust_placement` (its id and its dispatched
mark), `marker` the key `signal_placement_unresolved`, `rule` and `cool` the rows of `bot_signals`; `pair` and `cred` are
revisions, since the code only compares. `Receive` is the whole of the hook's transaction: the cooldown is claimed even
when the bot is stopped or the rule is off. `Load` and `Look` are the reads and checks of a pass in the code's order
(expired, stopped or off, *then* the barrier); `Read` is everything asked of the venue, which may end the call with a line
or a row; `Begin` commits the intent with the call's removal, or, for the one more attempt after a placement-safe
rejection, the intent alone; `BeginRefuses` are the refusals the claim writes. `Dispatch` and `Fence` are the two
outcomes of the send's transaction (a stop leaves the order, a deletion does not). `MarkUnresolved` raises the marker,
`Settled` lifts it if it names the order, `Resolve` is the owner's. `owner`, `ended`, `taken`, `operated`, `sent` are
histories.

Abstracted: amounts, prices and the reasons of a refusal; time is an age per call and per rule, up to the limit the code
compares with. Seen while modelling: when the one more attempt is refused by its claim (the pair or the key changed in
between), a webhook's order leaves no row and no line (`signal.rs:375-377`), unlike an API request, which is answered with
the first rejection (`signal.rs:366`). The comments state no rule for it, so it is no finding here.

### `ApiOrders`

`Requests` calls, each with a task of the web server, that may share `Keys`; an MCP call has no key. `order` are
the rows of `rust_api_orders` by id, with SQLite's reuse of the largest id when its row was deleted (`NextId`): the table
has no AUTOINCREMENT, so a link that outlives its row would name another call's order. A task claims its key
(`ClaimKey`), queues the row and links it in one transaction (`Queue`), polls (`ReadAnswer`), withdraws what nobody
took (`Withdraw`), deletes what it read (`Forget`), and completes the key (`Complete`). The engine takes
(`Take`), claims (`Claim`: from here the order may have gone out), sends, answers. `Replace` is the second
attempt a bot's order gets after a refusal that proves nothing was booked. `Crash` loses every task; `Start`
sweeps (`Sweep`: requests settled, keys in progress freed if provably nothing was placed, old rows deleted) or fails to,
after which the engine settles the requests before it takes any (`SweepOrders`), while the web already serves.

There is no clock: every deadline may pass at any moment, which covers every choice of the constants.

### `IdempotencyKeys`

A key is free, held by a call, or answered: `placed`, `nothing` or `maybe`. The venue accepts an order of a call only while its
key is held, or was answered "maybe", and only if it has none of that key; a key is given back only without one, and is answered
truly. `Restart` is the one step that touches many keys: every held one is given back or answered "maybe". An answer is final.
`ApiOrders` implements it with `stands <- Stands` (the key's row) and `orders <- OrdersOf` (the accepted orders of the calls sent
with the key), though neither row, link, task nor engine holds the key's truth alone: a task that died leaves a held key with its
order accepted, and the next start must read that off the rows.

### `Withdrawal`

Rules, an evaluation row per rule and four-hourly fire (or start of a rule), at most one attempt per rule. `engine`
holds the phase's place and what it read (`row`, `key`). The web's commands check, await the venue's listing and check
again in their last transaction, so each is one action. `Prepare` consumes the evaluation and persists the attempt in
one transaction; `CheckPrepared` and `MarkDispatched` check the rule and the key twice more, on both sides of the
listing read; `Reply` settles only under a current key. Recovery drops what was only prepared, marks what was
dispatched unresolved, looks it up where the venue answers for one client id exactly, and settles only what it *finds*.
`Operator` decides the rest while the process is down, and is taken to say the truth.
`Fenced` and `BadData` are the two ways in which one rule ends the engine: the first is a finding. The second (an asset
without an available ticker, or settings out of range, `withdrawal.rs:730-731`) leaves the evaluation pending, so the engine
ends again at every start, for as long as the rule or the data stays as it is. No bound limits it: `MaxCrashes` counts kills
only, and `EvaluationsEnd` names it as an exception, `[]<>(life = "Data")`. Without the exception, as `FailuresRecorded`, the
property is violated: TLC finds `BadData`, `StartUp`, `BadData`, ... after 2,226 states (1 rule, 2 evaluations, 1 edit, 1 key, no
kill). The comment at 535-536 speaks of failures recorded per job, as Rails' `execute_job.rb:13-15` records them.

### `WithdrawalLedger`

A withdrawal is `new`, `open`, or ended: `withdrew`, `failed` or `void`. A rule has one open at a time; its request leaves
once and the venue takes it only while it is open; it ends as withdrew only when the venue took it, as failed only when it did
not (and then, not being open, never will) or undid it, and as void, with no line in the log, only when nothing left. `Withdrawal`
implements it with `fate <- Fate`: a withdrawal begins when an evaluation is consumed with an attempt (`Became`), is open while
the attempt is on file, and ends with the log's word; `owner <- Owner` is the evaluation's rule and `request <- Request` the
venue's side. That one is open at a time is what keeps a rule from sizing a withdrawal by a balance the one before may still take.

### `AmountLimit`

One bot with a quote cap; an order spends one unit. `row` and `venue` are the order as stored and as it is, `counted` the rows
created since the cap was switched on, `stops` the key `rust_amount_limit_stops_pending`: a count with the cap and the start it
was counted under. A fill that reaches the cap stops the bot in its own transaction (`FollowUp`), except in a sweep, which only
counts it (`SweepApplies`); `DrainStops` runs one counted stop to a transaction, before a tick's sweep, after it and at
the next start (`TickBegins`, `SweepEnds`, `Boot`). `Fenced`, `Owns` and the run that a stop moves along (`mine`) are the
drain's own ownership; `Current` is the code's test that a count still has its cause, which the owner takes away by a fresh
start, a continue that the engine has not served (`request`), or another cap. `called` and `ran` are histories of what was
counted and run since the owner's last resume. Seen while modelling: the quote cap's key (`model.rs:336`) holds the start and the
cap, where the base cap's holds when it was switched on too (345-348); a cap switched off and on again at the same amount
therefore keeps an older count. No comment promises otherwise for the quote cap, so it is no finding.

### `Reversal`

One bot, its buys and sells. `Reverse` is the web's transaction: the direction flips, each waiting order gets a cancel entry,
each captured buy a reserve (`pending`) unless it has one. The engine marks an entry sent, sends, reads the order where the reply
does not settle it, and records (`CancelMarks` to `CancelRecords`). Three kinds of order take an answer differently: `hf`, a KuCoin
order with a route record, only through the gate `admit` (`Admits`, `Doubts`: a receipt once settled, an obligation while it
cannot be told); KuCoin's `classic` orders, whose unanswered cancel proves nothing, until the operator's evidence gives one its record; and `plain` orders, whose rejected cancel has
failed. `Settle` is the one place a reserve is returned, called by polls, cancels, the scan at each pass and the operator. `venue`,
`requests` and `known` are the order's truth, cancels under way, and what the ledger import saw.

### `ReserveLedger`

A reserve is none, owed or returned. It is registered for a buy that has none, owed until the venue has ended the order, then returned
once, as exactly what was not dealt, and stays returned. It may be given up instead (a cancel that failed, an order its venue forgot),
but where the venue is `strict` (KuCoin: an error proves nothing of a cancel) not once a cancel made for it has ended the order,
which in turn ends none without a reserve. `Reversal` implements it with `reserve <- Reserve` (the list and the carry) and
`state`, `dealt`, `stopped` from the venue: rows, receipts, entries, polls and requests are the machinery it does without.

### `Handover` and `Ownership`

Rails and any number of Rust processes share an install. `flock` is the lock file, `lease` the row of the primary database,
`stamps` the two times from which a takeover concludes whether it owes the closing of Rails' window. A takeover (`Claims`)
is one transaction of the primary database: stop jobs run, calls Rails may have placed marked, waiting calls stored on the bot, the
window's lines collected, and a journal of the queue's rows it acted on, since the queue is another database. Deleting
those rows and clearing the journal are later steps (`DeletesImported` to `ClearsDone`), finished by whichever start comes
next, before anything can be handed back (`HandsBack`). Resyncs are marked first, then deleted, and the other way round by Rails
(`AdoptEnqueues`, `AdoptClears`). Rails' own steps are modelled from `config/initializers` and from what Solid Queue does with the
rows. `Ownership` keeps of all this who owns the install and who acts on it. `HardStop` is the takeover that
would need a second unresolved marker on one bot.

### `Notices`

The key on a bot's row *is* the queue: `Raise` overwrites it with a later stamp, `Clears` removes it only if the stamp is still
the one that was read. `attempts` and `outbox` are memory. A `Look` reads at most `Batch` bots above the last one
of the previous look; a round ends when a look finds fewer, and only then entries leave the outbox whose marker the whole round did
not see. `Handle` is one marker of a look, in the code's order: an offered notice is settled before its wait; an accepted one only
clears; then its age; then its sending, by mail (`StartsDelivery`) or by an offer to the desktop's launcher. Seen while
modelling: a marker whose stamp cannot be parsed has no age and is tried for ever (`sender.rs:230`).

## The runs

| run | asks | bounds | states |
|---|---|---|---|
| `placement_margin` | no order lost, sent twice, recorded twice, or sent beside an unaccounted one; the ledger is implemented; venue without a deadline | 2 orders, 2 key ids, 1 start or stop, 1 edit, 2 ticks, 1 kill (also mid-write), time 0-4, margin 3 | 1,100,549 |
| `placement_deadline` | a stopped order never leaves even if the bot starts again in the same instant; an unresolved order is settled; venue with a deadline | 1 order, 2 key ids, 2 generations, 1 edit, 1 kill, time 0-2 | 139,410 |
| `api_orders` | true answers, own links, log kept; the promise of a key is implemented | 2 calls, 2 keys, 3 starts | 497,679 |
| `withdrawal` | no attempt lost, made twice or after a stop; log true; the ledger (one open at a time) is implemented; every evaluation ends, unless its attempt waits for the operator or bad data ends the engine at every start | 1 rule, 2 destinations, 2 evaluations, 3 edits, 2 keys, 2 kills | 197,440 |
| `withdrawal_stop_ends` | a violation: see Findings | as above, 1 kill | - |
| `signals_once` | a call is accounted for once, buys once, its order keeps to the ledger; the marker stands with its order and falls knowingly; a deleted bot sends nothing | 1 rule, 2 calls, 4 client order ids, 1 settings and 1 key edit, 1 kill | 1,338,552 |
| `signals_live` | every call ends | 1 rule, 2 calls, no edits, 1 kill | 272,448 |
| `reversal` | credited once and exactly, settled for good; the ledger of reserves is implemented; a reserve owed for an ended order is settled | 1 order of 2 units, of each kind and side, 3 flips, 1 kill | 140,209 |
| `amount_limit` | each counted callback stops the bot once, none from before the owner's resume; a capped bot does not go on | 2 orders, caps 1-2, 2 starts, 2 edits, 1 kill | 289,048 |
| `handover` | one engine; rows acted on once, none lost; handed back clean; the window closed; ownership implemented; the journal empties | 1 stop job, 2 calls, 1 index bot, 2 rows at a time, 2 Rust processes, 5 starts | 1,388,506 |
| `handover_again` | a violation: see Findings | 1 process, `handback` run again | - |
| `notices` | none accepted twice by one process, none lost, each leaves its row | 2 bots (one of another account), looks of 1 bot, outbox of 1, 2 raises each, 1 kill | 160,021 |

Why these are enough. *Orders*: every property relates at most two orders, and a third would need a third intent,
which only exists once the second is settled. *Keys*: a tick compares its key with the stored one; a second id gives
"another account", a second version "another secret". *Generations*: stop, then start is 2, the case only the generation
tells apart. *Time*: the clock must reach `at + Margin`, later than the last acceptance at `Reach + NetDelay`, and
leave room for a lookup on both sides of it; a process start in between is an instant of its own. *Kills*: one in
each of the engine's places; a second one meets the state the first left, which `withdrawal` includes
because its recovery writes. *Calls*: two that share a key, or one whose id the other's row reuses. *Starts*: the
third start sweeps what a process left whose own sweep failed. *Webhook calls*: one in hand and one behind its
unsettled order; two attempts each is all a call can have. *Rules*: calls of two rules share the queue and the barrier as two of
one rule do; only the cooldown is a rule's own, and with one rule its two calls still queue up. *Evaluations*: one waits while
an attempt is in doubt, or belongs to a restart of the rule. *Reversal*: its orders share only the direction, the bar before a
placement and the engine's place, and three flips bring an order back to an entry of an earlier reversal; two orders of one unit
with one flip were checked as well (947,548 states). *Cap*: two fills owe two stops, and a kill between two of
them needs no third. *Handover*: a start by each side, a second takeover and a hand-back between them are four of the five
starts. *Notices*: with looks of one bot a round needs two, which is what tells a round from a look; with an outbox of one the
second offer is refused. The proofs remove the bounds of all models for the safety properties.

Deadlock is checked for `Withdrawal`. The other models stop at the end of a bound (the clock, the starts, the client order ids,
the kills), which is not a deadlock of the code. Symmetry is over orders, keys, calls and destinations, none of which the
actions order (row ids and evaluation ids are numbers, not symmetric), and only in runs without liveness.

## Fairness

- `Placement`'s `FairSpec`: the clock runs; the process is started again; the engine takes its steps (weakly
  fair as a whole: every await of it has a timeout); `Ask`, the lookup and its two conclusions are strongly fair: the
  retry loop repeats them at every pass, and an `Abandon` or a kill may break each one off any number
  of times but not for ever. The key is no reason to wait: the settings page does not replace it under an intent. A venue
  that never answers lookups would be one, and is excluded.
- `Withdrawal`'s: weak fairness of `StartUp` (the shipped `docker-compose` restarts unless stopped; with the desktop
  shell the user starts it again, since the shell itself never does) and of the phase. `KeySettles`
  excludes an owner who toggles the key for ever, each time in the middle of an evaluation. The owner edits, stops and starts a
  rule finitely often (`MaxEdits`), and the process is killed finitely often (`MaxCrashes`). Nothing is assumed of the venue,
  the operator or the data, which is why `EvaluationsEnd` has two exceptions: an unresolved attempt of the rule, and bad data
  that ends the engine at every start.
- `Signals`': the clock runs; the process is started again; a pass goes on (weakly fair); `Load`, `Look` and `Refuse`
  strongly: every pass first reconciles and then visits each bot with a call, whatever the reconciliation found
  (`run.rs:346-347`), and neither two reads of the database nor the write of a refusal line fail for ever. Lookups, the
  venue, the owner and the operator owe nothing. A stored key that no longer decrypts (`KeyOpens` FALSE) is excluded: then every
  pass ends before the call is looked at (`run.rs:505`), and the call waits until the key is saved again. Excluded likewise, since
  the module has neither: an import, which pauses the engine for as long as it runs, and stored calls that cannot be read.
- `AmountLimit`'s: the process is started again, a drain and a sweep go on (weakly fair); the bot's next tick and the service
  of a continue come (strongly: a sweep or a poll may take the engine in between). The owner and the venue owe nothing.
- `Reversal`'s: the process is started, and what is in hand goes on (weakly); the scan and the cancels come round at every pass,
  and a follow-up poll or a cancel's second read is answered again and again, so once in a while with the final state of an ended
  order (strongly). A venue that never names the final state is the case that waits for the operator.
- `Handover`'s: a Rust process that ended is started again and again (the restart policy; strongly, since Rails may hold the
  lock), a start goes on, a refused Rails exits and the owner closes a refusal page. Nothing makes Rails start, end or work.
- `Notices`': the sender goes on, a clear is not refused for ever (its refusals are a busy database, and an eligibility guard
  that its owner resolves), weeks, waits and deadlines pass. Acks and deliveries owe nothing.
- `ApiOrders` has no liveness property: its waits are bounded by deadlines alone.

## What is proved

For every value of the constants that satisfies the named assumptions. These are what the code's data gives them for free (`None`
is no order, key or rule; bounds are naturals; row sets are apart), except `TimesAssumption` (see `Placement`), the finiteness
of some sets, and what the last column says.

| theorem | says | assumes besides |
|---|---|---|
| `TypeCorrect`, `SendsOnce`, `StopHolds` | `Placement`: types, `SentAtMostOnce`, `StoppedOrderNeverLeaves` | |
| `KeepsOrders`, `RecordsTruth`, `OneAtATime`, `Implements`, `FatesFinal` | `NoOrderLost`, `RecordedOnceAndTrue`, `OneUnresolvedOrder`, `ImplementsLedger`; what is decided stays so | `Frozen # "resumed"` |
| `ApiTyped`, `AnswersTrue`, `LinksOwn`, `LoggedStays`, `KeysPromise`, `AnswersFinal` | `ApiOrders`: types, `AnswersAreTrue`, `LinksNameTheirOwn`, `PlacedStaysLogged`, `ImplementsPromise`; an answer is final | |
| `WithdrawalTyped`, `AttemptsKept`, `WithdrawalSentOnce`, `LogTrue`, `StopBars`, `WithdrawalsImplement`, `EndsFinal` | `Withdrawal`: types, `NoAttemptLost`, `SentOnce`, `LogIsTrue`, `NothingAfterStop`, `ImplementsLedger`; an end is final | |
| `AmountTyped`, `StopsExact` | `AmountLimit`: types, `StopsMatchCallbacks` | |
| `ReversalTyped`, `CreditsRight`, `SettledOnce`, `ReservesImplement`, `ReservesKept` | `Reversal`: types, `CreditedRight`, `SettledForGood`, `ImplementsReserves`; its consequence for KuCoin | |
| `HandoverTyped`, `NeverTwoEngines`, `RowsActedOnce`, `RowsKept`, `HandbackClean`, `ImplementsOwnership` | `Handover`: types, `OneEngine`, `ActedOnce`, `NothingLost`, `HandedClean`, `OwnershipHolds` | |
| `WindowShut` | `WindowClosed` | `~Again` |
| `SignalsTyped`, `CallBuysOnce`, `CallsAccounted`, `MarkerHasCause`, `BarrierFalls`, `DeletionHolds`, `SignalsImplement`, `FatesFinal` | `Signals`: types, `OneOrderPerCall`, `AccountedOnce`, `NoStrayMarker`, `MarkerLiftedKnowingly`, `DeletedSendsNothing`, `ImplementsLedger`; what is decided stays so | |
| `NoticesTyped`, `DeliveredOnce`, `MarkersKept` | `Notices`: types, `AcceptedOnce`, `NoNoticeLost` | |

None of the invariants is inductive as it stands. Each module proves one stronger invariant, `IInv`, as a conjunction of named
parts, action by action; TLC checked every `IInv` first.

**`Placement`.** A lookup in hand could conclude anything, and a reply in memory could be of
another order. `IInv == TypeOK /\ Locals /\ Sends /\ Books` adds what makes `NoOrderLost` inductive:

- `Locals`: while the engine works on an intent, its memory and the row agree on id, time and key. No other
  actor removes an intent while the engine is up, and the operator works only while it is down.
- `Sends`: an order that may still be sent has not been; one request per order is on the wire, of an undecided order.
- `Books`, in three parts. `Wires`: a request the venue may still accept is the intent's, left under its key, with its
  deadline, and within `Reach` or before this process started. `Rows`: an order the venue has is the intent's or
  has exactly one row. `Reads`: a reply in memory is true, and an absence in memory that is old enough is final.

`StopHolds` rests on a second, smaller invariant, `Ownership`: an intent's run is never ahead of the bot's generation
and tick, the engine holds the intent with that run, an intent not marked dispatched was never sent, and the engine
sends only a dispatched one. With `RunsForward` (generations only grow, and a bot that does not work only works again
under a new one) a fenced intent stays fenced (`FencedStays`), whatever else happens.

The step that carries the protocol is `TooLate`: if a lookup started at or after `AbsentFrom`, no request of the
intent can be accepted any more. It is arithmetic from `Wires` and `TimesAssumption`, and it fails without
either the process start in `AbsentFrom` or `Frozen # "resumed"`: a process suspended mid-write and *resumed alive* delivers its
request later than any margin, which `venue/http.rs:317-320` lists as an accepted residual (and which
`engine/placement.rs:20-22` could be read to exclude). `Expires` (time only
takes deliverability away) keeps the conclusion true afterwards. The refinement has one lemma per outcome: a
step opens, records or voids one order, books one, or is `Quiet`.

**`ApiOrders`.** `Row(i)` ties what a row says to what happened to its call; `Unique` gives a call one row; `Keyed(k)` ties a key to
its link, its task and its log; `Tasked(r)` a task's memory to its row and key; `Hand` the engine's memory to the row
it claimed; `Counted` bounds row ids, which the reuse of an id needs. The proof's crux is the crash: what was only in a
task's memory must be derivable, as weakly as the sweep reads it, from rows and keys alone.
The refinement of `IdempotencyKeys` needs one part more, `Told`: a row, task or key that is answered says something, so that a
key is never completed with no answer. It has one lemma for each step that moves a key (`ClaimKeyPromise`, `NotPortedPromise`,
`CompletePromise`), one for the order the venue accepts (`SendPromise`), whose key must be in hand or answered "maybe", and one for
the sweep; every other step keeps every key's standing and orders.

**`Withdrawal`.** `Dense`: evaluation ids are taken in order. `Hand`: the phase's memory agrees with the rule's attempt.
`MadeBy(r)`: an attempt belongs to an evaluation of its rule, consumed with it. `Orderly(e)`: `Requested` (a request on the wire,
at the venue or in the log was dispatched), `Logged`, `Kept` (an attempt that may have left is not dropped) and `Barred` (one that
did not is not sent after a stop). The lemma `Evolves` says what no step does to an evaluation's row, so that actions that add
rows need no case each. The refinement of `WithdrawalLedger` rests on the same invariant: `MadeBy` gives the open withdrawal of
a rule, `Requested` that nothing left when it ends void, `Logged` the truth of its end; its cases are the steps that make, mark,
send, settle and drop an attempt, and `QuietStutters` covers the rest.

**`Signals`.** `Calling`: every call waits or was consumed in one way, and an order belongs to a call consumed with an intent, so a
call still queued has none. `Ordering`: an order not drawn was never sent, one on the wire is the pending intent's, and of two orders of
one call one is `Gone` (refused, off the wire, and for good: `GoneStays`). `Hand`: what the engine holds. While an attempt is under
way no marker is up, the order in hand is the pending one, and every other order of its call is gone; what it
knows of the order (reply, lookup) is so. The crux is `Resolution`: whoever removes the intent, the six steps of the engine or the
operator, the venue has the order and a row is written, or no request of it is left.

**`AmountLimit`.** `Balanced`: without a count, and with one as long as its start is the bot's and no continue waits, the callbacks
counted are the stops run and owed, whatever the cap is now: a cap that is put back makes an old count current again.

**`Reversal`.** `Orderly(o)` in four parts: `Placed` (an order's kind, side, row and truth appear together), `Exact` (a final row is
the venue's), `Owed` (a credit excludes a pending reserve and an entry that would register it again) and `Reserved` (a registered
cancel that reached the venue left a reserve); `InHand`: an answer in memory was true when read, and final answers stay so. The refinement of `ReserveLedger` adds `Unended` (who ended an order
is known only once it ended) and reads each step's effect off `IInv` *after* it: whoever settles, `Exact'` makes the row the venue's, so
`SettleRefines` covers polls, cancels, scan and operator at once, and `Reserved'` is why a failed cancel may give its reserve up.

**`Handover`.** `Locked` (who is past the lock holds it), `Stages` (what a process past each step has established), `Emptied`,
`Stored` (a row that left the queue was answered or is stored) and `Acted` (a row acted on is journalled until it is gone);
`Window` adds the stamps, by which an install Rust owns without a takeover stamp is told from one whose window is closed.

**`Notices`.** `Grounds` (the reason to clear is true when it is decided, and stays true), `Stamps` (a marker's stamp is the last),
`Entries`, `Hand` and `Once` (an accepted notice is remembered as such, or is being cleared, until its marker is gone).

**The abstract specifications.** Five are implemented: `OrderLedger` (twice), `IdempotencyKeys`, `WithdrawalLedger`, `ReserveLedger` and
`Ownership`. Each maps to functions of the detailed state, by `INSTANCE ... WITH`; a step lemma (`StepRefines`, `StepPromise`) shows
that every step is one step of the abstract next-state relation or leaves the mapped state alone. What the abstract step implies is
then true of the code's: `FatesFinal`, `EndsFinal` and `AnswersFinal` say of the order, withdrawal and key ledgers that what was
decided is never decided again, proved from the abstract actions alone.

Only model-checked: liveness (`EventuallySettled`, `CallsEnd`, `EvaluationsEnd`, `ReservesSettle`, `CapStops`, `JournalEmpties`,
`NoticesLeave`: fairness is beyond the prover).

## Findings

Two places where the code and what the repository says of it differ, each shown by a run with a violated property:

1. `withdrawal_stop_ends`. A rule stopped, or a key replaced, while the phase reads the venue for it ends the engine with
   `RunFenced` or `CredentialsChanged`; the same errors are caught in a bot's tick. The tests cover only a
   stop before the phase takes the evaluation.
2. `handover_again`. `hand_back_since` stamps the hand-back whoever owns the install. Run a second time after Rails took the
   first one up, it moves the start of the next takeover's window past what Rails left unrecorded in between, where
   `handover.rs:200` says the window reaches from the last hand-back on. The shortest trace, which TLC shows,
   has one `handback` only: the new build runs it on an install that an older build claimed without stamping its takeover, so
   what Rails left unrecorded before that claim was not yet collected, and the next takeover begins after it.

## What is left

1. IBKR's reservations beside an order's intent and row, and the base cap with its rotation.
2. The continuation of an import cut between two pages; lot matching as a bounded reference check.

## Not modelled, and why

The models follow the money: they cover the control of the paths above and a small part of the repository's lines. Most of the
rest is data, and has no state a model checker could reach beyond its inputs.

- Decimal arithmetic (sizing, fees, lots, taxes, figures, indicators): no interleaving; the repository replays
  recorded vectors.
- Venue adapters: network clients. Their answers are the external part of each model: any answer the code can tell apart,
  in any order, late or lost.
- Rendering, sessions, OAuth, translations, read-only endpoints, the tracker, account sync's pages.
- SQLite itself: commits are taken as atomic and durable.
- Rebalancing, liquidation and redeployment: their legs are placed through `Placement`'s intent; between the legs they size
  the next from fresh balances.
- Key rotation, migrations and the operator's other commands: they run alone, under the lock of `Handover`.

Within the modelled parts: *`Placement`* leaves out the batch of legs and the sizing. *`AmountLimit`*: the base cap and the
rotation it starts (`amount_limit.rs:60-140`), archived and deleted bots, selling, partial fills, the mail's own marker. *`Reversal`*:
rows without an external id, KuCoin's change of account mode, an obligation discharged before its receipt, merges and splits of
accounts, the wash-sale and IBKR releases of a flip, the cap on the carry, the refusal of a zero fill. *`Handover`*: what a
line of Rails' becomes (`rails_unrecorded`), rules and splits that refuse a start; a Rails without the lock (an older release, or
one whose directory cannot hold it, which boots with a warning, `00_engine_lock.rb:37-43`, and is barred by the heartbeat of
`lease.rs:62-72` alone); the second queue row under which a parked call is retried. *`Notices`*: several markers of one bot, the
counts of tries, two raises within one stamp, the wording.
