# Routine, verified

A TLA+ development kept beside *Routine*, a Discord bot in C++: a kernel that
talks to Discord, and a persistent local economy that it loads as an
extension. The modules here are translated from the code under `src/`; TLC
checks them on small instances, and TLAPS proves the theorems for every value of
the constants.

In this file `E` stands for `src/lib/local_economy_extension.cpp`.

## 1. The system

### Components, their state and their operations

| Component | State | Operations | What must be right |
|---|---|---|---|
| **Outbound REST path** (`discord_bot.cpp`, `command_handler.cpp`) | bounded queue, worker thread, `thread_local` interaction | `send_message`, `begin/end_interaction_response`, `outbound_loop`, `stop_outbound_worker` | order, one original response per interaction, drained at destruction |
| **Gateway client** (`websocket_client.cpp`, `DiscordBot::run`, `main.cpp`) | atomics, context pointer, three thread handles | `connect`, `disconnect`, HELLO, heartbeats, peer close, reconnect loop, signal watcher | no use after free, no double join, no thread left, shutdown ends |
| **Loaders** (`module_loader.cpp`, `lua_module.cpp`, `extension_loader.cpp`) | library handles, interpreters, command tables, one recursive mutex per loader of modules | load, unload, reload, dispatch, message, tick | no call into code that is gone, no deadlock |
| **Application-command synchronisation** (`discord_bot.cpp`) | pending payload, application id | `sync_application_commands`, READY | the commands are put once |
| **Economy database** (`E` 461-1540) | the files primary, `.previous`, `.tmp`, `.bak`; `g_loaded`, `g_loaded_from_previous` | `load_locked`, `save_locked`, migration | atomic replacement, recovery, nothing acknowledged is lost |
| **Stock exchange** (`E` 2642-2895, 4407-4586) | prices, depth, listing, limit orders with escrow | `update_market`, `process_orders`, `stock`, `orders` | cash and shares conserved, delisting complete, a failed save undoes the call |
| **Ledger and government** (`E` 1566-1914, 3166-3233, 5626-5950) | wallets, cooldowns, jail, treasury, elections | claim, work, move, transfer, buy; stipend, crime, bail, taxes, welfare, run, vote; count | all or nothing, cooldowns, one mayor per term |
| **Auctions, property, relics** (`E` 2472-2636, 3248-3349, 5211-6242) | listings with bid escrow, homes with mortgages, relics with serial numbers | list, bid, buy out, cancel, settle, foreclose, move, sell | escrow released once, one owner |
| **Banking, companies, contracts** (`E` 2897-2957, 3350-3551, 4057-5509) | debts with dates, tills, partnerships, contracts, agreements | borrow, pay, freeze, operate, collapse, accept, cancel; collect, seize, liquidate | cash conserved, no payment twice, none skipped |
| **Macro-economy, news, FX** | prices, events | publish | arithmetic |
| **Rate limiter** (`rate_limiter.cpp`) | buckets, global window | `get_delay`, `update_from_headers`, `enforce_global_limit` | limits, waits end |
| **Script engine, splitting, parsing, configuration, HTTP** | none of their own | pure functions, blocking calls | formats |

### How they interact

*Threads.* `main` connects, loads extensions and modules, runs the one-second
module tick and the reconnect loop, and destroys the bot. The *service* thread
owns libwebsockets: every event, command, interaction and reload runs on it -
already while `main` is still loading. One *heartbeat* thread lives per HELLO.
The *worker* performs the REST requests. A *watcher* turns the signal flag into
`request_stop()`.

*Calls.* A command reaches the economy through the module's function table; the
tick reaches it from `main`. Every entry of the extension takes `g_mutex` for
its whole duration, so the economy is sequential to its callers - but not to a
crash, not to a save that fails, and not to the state that earlier calls left
behind.

### What is hard

The hazards are listed in `PROJECT.json`, each at its line. They fall into five
groups: flags and joins of five threads (gateway); a queue that three threads and
a destructor share (outbound); code that is unloaded while two threads call it
(plugins); files that are not synchronised while the process or the machine
may die (database); and long sequences of legal calls, of several players and
the tick, with saves that fail in between (exchange, auctions, lending, ledger).

## 2. The modules and the code

| Module | Models | State ↔ code | Actions ↔ code |
|---|---|---|---|
| `Outbound` | REST path | `queue` = `outbound_messages_`, `running` = `outbound_running_`, `active` = the service thread's `active_interaction`, `worker`/`current` = `outbound_loop` | one per critical section on `outbound_mutex_`, per HTTP call, per use of the thread-local |
| `FifoDelivery` | what the path promises | accepted, performed | refinement `DeliversInOrder` |
| `Gateway` | threads of the client | one variable per atomic; `main`, `service`, `beat` are program counters; `net` is the connection as libwebsockets sees it | one per access another thread can observe; `disconnect()` is five steps, `start_heartbeat()` four |
| `Plugins` | loaders, reload, command synchronisation | `extensions`, `loaded` = `extensions_`, `modules_`; `owner` = the two mutexes; `pending`, `identity` = `pending_application_commands_`, `application_id_`; `leaked` = libraries opened and never closed | one per critical section; a callback is a step in and a step out, so that everything else can happen in between |
| `Storage` | `load_locked`, `save_locked` | `disk` maps the four names to file contents, `dirty` are files not written back, `step` is the place in `save_locked` | one per file operation; `WriteBack` and `Crash` are the environment |
| `DurableCell` | what the files promise | stored, offered | refinement `ReplacesAtomically` |
| `OrderBook` | the exchange, one stock of one guild | `wallet`, `shares`, `orders`, `price`, `listed`, `halted`, `depth`; `before` = the copies of `economy_game_action` | a call is `Begin`, the hours of `update_market`, one step per order of `process_orders`, the action, the save |
| `GameCall` | what every other call of the economy has in common | `db` = the economy in memory, `before` = the copies, `caller` | a call, and then a save that succeeds or fails; the module that extends it says what is put back |
| `Ledger` | accounts and government | `db.account` = `g_players` with savings, debt and its date, cooldowns and jail, `db.treasury`, `db.end`, `db.term`, `db.mayor`, `db.candidates`, `db.votes`; `disk` = the last save | one per call and branch; every game call and every tick begins with a move of the rest of the game; `TickAll` counts and releases; `Restart` reads the disk |
| `AccountBook` | what the ledger promises an account | worth, treasury, claims | refinement `BookKept` |
| `Auction` | auction house, homes, relics | `db.auctions`, `db.homes`, `db.relics` = the vectors; `db.count`, `db.level` = the older counters of the same assets | one per sub-command; `TickAll` settles, then collects rents and mortgages in the order of the code |
| `Lending` | bank, companies, partnerships, contracts, agreements | `db.debt`, `db.company` with their dates, `db.partnerships`, `db.contracts`, `db.agreements`, `db.frozen` | one per sub-command; `TickAll` updates the banks, then agreements, companies and debts in the order of the code |
| `Totals` | the sum of a table of amounts, for the properties and the sums of the code; the lemmas about folds and sums | | |
| `*Properties` | the properties | | |
| `MC*` | small instances for TLC | | |
| `*Proofs` | theorems | | |

Definitions marked *Mutated* state a plausible bug beside the operator they
change; they take part in no specification. `PROJECT.json` pairs each property
with the one it must reject.

### Abstractions

* `Outbound`: a text is its number of chunks; a route is the kind of message; an
  HTTP failure is logged and dropped by the worker, so it is the same step as a
  success. `MaxLog` bounds the messages accepted, fallback texts excepted.
* `Gateway`: frames, payloads and the event handlers are left out; a HELLO comes
  once per connection, as Discord sends it. `LateAnswers` holds the values `late`
  may have: whether the gateway may answer after `connect()` gave up.
  `SlowTurns = FALSE` assumes that one turn of `service_loop` - the handlers it
  runs included - is over before a heartbeat interval (tens of seconds) is. Two
  heartbeat names suffice because a new thread is only started after the old
  one was joined; `HelloSpawns` would be stuck otherwise.
* `Plugins`: `registers` is the switch in the configuration; a READY may be one
  that cannot be read, or come without an application id. A file is good, bad (its own initialisation fails) or broken (it
  fails the loader's checks). A scan or a reload of one loader is one step,
  since it holds that loader's mutex throughout; which module has a command is
  a choice. `Image` is what `dlopen` does with a library that was never closed.
  `Rebuild` is somebody who replaces a file. Callbacks of a module do not call
  the loaders back: nothing in the function table lets them.
* `Storage`: the economy is one value, numbered by its last change. A truncated
  file still loads, but not whole. Directory updates (the renames) reach the
  disk in order; file contents do not, until `WriteBack`. With the fault `rename`
  any rename of a save may fail: the one over the primary, the one of the
  primary to `.bak`, the one of the new file, and the one that should bring `.bak`
  back, whose error the code does not look at. The beta migration is left out.
* `OrderBook`: companies' accounts are left out, so the pressure on a price,
  distress, dilution, relisting and news are free choices within the code's
  clamps; the 24-hour counts are part of that choice. A `stock` or `orders`
  command is its effect on success; every refusal is `NoTrade`. The rate limit
  (30 actions a minute), jail, shorts, derivatives and licences (a lower fee, a
  higher cap) are left out. `paid` and `issued` are history: what the market side
  of each trade got.
* `GameCall`: a call is atomic, as `g_mutex` makes it, and its save is a second
  step, since a process may die before it and a disk may refuse it. `undone`
  remembers that some call was put back.
* `Ledger`: the amount of an award, a fine and a sentence is a choice, as job,
  degree, heat and luck decide it; cooldowns are per kind. `outside` is history:
  cash that left for the market or came from it. What the rest of the game does
  to the same balances and to the treasury in one tick, or in the fills with
  which every game call begins, is a *move*: any change in `Moves` that leaves
  nobody below nothing (`Fits`). A call of another part of the game is its
  move and its save (`OtherPlay`), and so is a call that is refused, which saves
  what a tick has left unsaved; the roll-back of such a call is the caller's, so
  that what `pay` puts back for another player shows as a move too many here.
  `elsewhere` and `granted` are history, the moves of an account and of the
  treasury: properties speak of balances net of them. Moves that go unsaved with
  a tick, or that a failed call leaves with other players, are therefore in the
  model, and are no violation: that they are ahead of the disk is what the code
  does (`order_book_undone`, and the hazard at `E` 3559). What is checked is that
  nothing else is.
* `Auction`: all homes are of one tier, of undamaged condition; market values are
  choices. `granted` is history: homes made from an old database. Accounts are
  pairs of server and player, since a relic can be taken from one server to
  another and a roll-back covers the caller in all of them.
* `Lending`: one server. What the market, the credit score and the tax rate
  decide is granted. `hysa` is a second account under the code of `savings`.
  `inherited` and `bankrupt` are history.

The economy is thus checked in four parts. They share the wallet; the treasury,
which fees of auctions, business taxes, stimulus and fines feed or drain; and
savings, debt and the date of its next instalment, which `Lending` keeps and a
fine in `Ledger` touches. Each call belongs to one part (bankruptcy to two, each
of which models what it does to its records). What one part does to the shared
balances is to `Ledger` one of its moves. The other three count only cash that
their own calls move: a wallet filled or emptied elsewhere between two of their
calls is not among their steps.

## 3. What TLC checks

| Run | Bounds | Shows |
|---|---|---|
| `outbound` | 2 interactions, 2 channels, queue of 2, texts of up to 2 chunks, 2 messages besides the fallbacks | `OneOriginalThenFollowups`, `EveryInteractionAnswered`, `DrainedAtDestruction`; liveness `WorkerFinishes`; refinement `DeliversInOrder` |
| `gateway` | 2 attempts, 2 heartbeat threads, with and without late answers | `ContextOutlivesUsers`, `OneHeartbeat`, `NothingLeftAtExit`, `HeartbeatCovers`; liveness `RunEnds` |
| `plugins` | 1 extension, 2 native modules (one needs it), 1 Lua module, 3 events, 1 file replaced | `CallbackInLoaded`, `ExtensionsOutliveModules`, `CataloguePublishedOnce`; liveness `EventsEnd` |
| `storage` | 3 changes, process crashes, failing copies, saves in quick succession | `AckedSurvives`, refinement `ReplacesAtomically` |
| `storage_faults` | 3 changes, failing copies, any rename that fails, saves in quick succession, one truncated file per power loss | `IdleMeansDurable`, `OneSaveLostWithoutFaults` |
| `order_book` | 2 players and the tick, 4 calls, 2 orders each, one hour per call, saves that fail | `Conserved`, `DelistedIsEmpty` |
| `auction` | 4 accounts of 3 players in 2 servers, 5 calls, 4 days, 1 home, saves that fail | `CashKept`, `EscrowAgrees`, `LegacyHomeOnce` |
| `lending` | 2 players, 2 banks, 4 calls, 3 days, saves that fail | `CashConserved`, `PartnerHasCompany`, `ScheduleFollowsDebt`, `CaughtUp` |
| `ledger` | 2 players; 3 calls in 3 hours of anything, a move or none in each game call and tick, and 5 calls and 5 hours of elections; saves that fail, restarts | `CashConserved`, `MemoryIsDisk`, `ElectionInOrder`, `MayorByElection`; refinement `BookKept` |
| `gateway_signal` | *violated* | `SignalShutsDown` |
| `storage_rapid` | *violated* | `OneSaveLostAtMost` with saves in quick succession |
| `order_book_undone` | *violated* | `NothingCommitted` |

Each module's `TypeOK` (`PluginsTypeOK`) is checked too, in one run of the module:
it says that no wallet is overdrawn and no bound of the code exceeded.

**Why the bounds are enough.** *Outbound*: a queue of two can be full, can refuse
a text of two chunks with one place left, and holds messages of two
interactions at once; a message behind another and one in the worker's hands
give every order that matters. *Gateway*: two attempts show what one connection
leaves for the next. *Plugins*: two native modules make one whose extension is
missing beside one that needs none, and a second callback under the mutex of
the first; three events are a READY, a message and a reload, and one replaced
file makes a reload fail. *Storage*: three changes allow a first save, one that
makes a snapshot and one on top of a recovery. *OrderBook*: four calls place
two orders, move or split the price and fill them partly (one share of depth
against orders of two), then cancel, delist or relist. *Auction*: five calls buy,
list, bid, bid again and end an auction; four days see it expire and three
payments missed. *Lending*: four calls found a company, take a partner, borrow
and collapse; three days exceed the most payments a tick makes up for.
*Ledger*: three calls allow a move that a tick or another player keeps, a
call that fails on top of it, and a call that saves both; a crime whose fine
exceeds the wallet, takes the savings of a move and becomes debt is one call.
Beyond three calls or three hours `MCBound`, a state constraint, goes on only where
no money has moved but fees of candidates: with polls open for
one hour and a term of two, five calls and five hours see a filing, a vote or a
rival, the count, the end of the term, and the next filing and count.

Amounts of the code are scaled where its own would need thousands of calls
(`SplitAt`, `WalletCap`, `MaxShares`, `MaxOrders`, `Liquidity`, `MaxHours`;
`MaxMissed`, `MaxPeriods`, `StartCost`, `BankruptFrom`; `PollsOpen`, `Term`,
`Cooldown`, `MinWorks`, `BigTransfer`), and are chosen so that both sides of the
comparisons occur which the properties turn on. The caps of the order book are
an exception: no wallet exceeds `WalletCap`, no share count its field and no
order the limit that `Savable` tests within four calls, so these guards are
exercised by the proofs alone.

The limits of `order_book` (80 and 128) stay even through a split. With an odd
limit, or one of a cent, a split rounds and `Conserved` is violated
(`apply_stock_split`, `E` 2704): the escrow that a cancelled order gives back is
then not what was set aside.

**Deadlock** is not checked where the number of calls or events is bounded or the
bot ends. It is checked in the runs of `Storage`, where a process can always be
restarted. That the threads of `Gateway` and `Plugins` do not wait for each other
for ever is `RunEnds` and `EventsEnd`.

**Fairness.** `Outbound` assumes only that the worker thread is scheduled: nothing of
commands, of Discord or of the user. `Gateway` assumes that each thread is
scheduled and that timeouts expire (a timed-out wait is a step of the waiting
thread): 15 seconds for `connect()`, the heartbeat interval, the 50 ms of the
watcher. `Plugins` assumes that both threads are scheduled, that callbacks
return, and that the service thread gets a mutex that becomes free again and
again (strong fairness): the main thread holds one for a tick each second and
sleeps in between. The peer owes nothing. The economy has no liveness property
of its own: it acts when called, and every call ends.

### Where code and documentation disagree

* **A stop can be lost** (`gateway_signal`). `run()` sets `running_ = true`
  (`discord_bot.cpp:111`) after the watcher was started; a signal during
  `connect()` can be overwritten, and the watcher has ended by then.
* **The snapshot is not safe against a power loss** (`storage_rapid`). `.previous`
  is overwritten in place and nothing is fsynced.
* **"Nothing was committed"** (`order_book_undone`). A failed save restores the
  order book and the caller, but not the other players that `process_orders`
  paid in the same call. Auctions and lending have the same gap (a refunded
  bidder, a lender, a partner, an employee), which is why `CashKept` is a bound
  and `Lending!CashConserved` is silent once a call was put back.

Others met while modelling have no run of their own and are described with the
hazards: the rounding of splits; a late HELLO for which `disconnect()` waits for
ever (which `RunEnds` excludes with `~late`); a heartbeat thread that wakes a
destroyed context when a handler outlasts an interval (`SlowTurns = TRUE` in
`MCGateway.cfg`); a `.bak` that is never read, neither after a crash between the two
renames (`Faults = {"rename"}` in `MCStorage.cfg`) nor when bringing it back
fails, so that the next start begins with an empty economy although
`.previous` has the last one (`IdleMeansDurable` says so); wallets above the save-time limit; fatal close codes that are
retried; a library that failed the loader's checks once and stays open, so that
a repaired file is not read before a restart; a freeze of savings that does not
follow the savings; debts of failed companies that nothing collects; agreements
that stay active for ever; an agreement that missed more than thirty payments,
which `CaughtUp` admits (`MaxAgreementPeriods`): the next ticks make up for the rest.

## 4. What is proved

TLAPS checks these for every value of the constants allowed by the `ASSUME`s of
the modules (which TLC evaluates on every run).

**`Totals`** holds, beside the sum itself, what the others rest on where the code has
a loop or a property a sum. The induction over finite sets comes from the library's
well-foundedness theorem with a set in the place of the predicate
(`SubsetInduction`); from it, that a fold over a set or a list exists and does not
depend on which element is picked first, that a sum changes by what one entry
changes (`TotalUpdated`), may be renamed and grouped (`TotalRenamed`,
`TotalGrouped`), and follows a list that grows or shrinks (`TotalAppended`,
`TotalRemoved`); and that what a turn of a loop keeps, the loop keeps (`Segments`).

**`OutboundProofs`**: `TypeCorrect`, `NoMessageLost`, `DestructionDrains`,
`NoSendAfterStop`, `AnswersInOrder`, `NoInteractionForgotten`,
`OutboundImplementsFifo`. None of these is inductive alone. `Inv` adds how the three
threads' places depend on each other: the service thread is joined before
modules are unloaded, the worker is stopped only in the phase in which the main
thread merely joins, and an exited worker implies a stopped and empty queue.
`AnswerInv` adds, for the order of responses, that the interaction being served
has an original in the log exactly when its flag says so, and that nobody else's
message carries it. For `NoInteractionForgotten` the scope that serves an
interaction owes it an answer (`Owed`) until it has queued one, was refused the
deferral, or met a full queue in its last try, on every way out of the handler.
The refinement maps a `send_message` to `Accept`, a completed request to `Perform`,
the worker's exit to `Close`, and everything else to stuttering.

**`StorageProofs`**: `TypeCorrect`, `DurableWhenIdle` (whatever is torn, half copied or
not renamed), and, when no file is torn and no rename fails (`Reliable`),
`AckedIsNeverLost` and `StorageImplementsCell`. `IInv` says, per place in
`save_locked`, what the four files hold: which of them has the acknowledged
economy while the new one is being written, copied and renamed. Where the rename
that should bring `.bak` back fails, no primary is left (`Stranded`), and the
snapshot made at the beginning of that save holds the economy (`Shadow`), if it
was copied in full; the saves that follow leave it there, since without a primary
there is nothing to copy, until one succeeds. `OneSaveIsLost` is about a power loss: with no
other fault and one truncated file at most, a primary that is not written back
has a snapshot behind it that holds the save before, and the snapshot is only
touched while the primary is safe (`Sheltered`).

**`OrderBookProofs`**: `DelistedStaysEmpty` speaks of wallets nowhere, yet needs
more than itself: a call that rolls back returns to the copies it took, so the
copies must satisfy it as well (`FoundEmpty`), and fills and placements must be
impossible while delisted. `TypeCorrect` needs arithmetic: a price that pressure,
an impact or a dilution moves stays at least `MinPrice`, so that the fee of a sale
never exceeds its proceeds (`RangeAssumption`: the least fee is half the least
price, and the spread is clamped), and a fill at the market's price never costs
more than the limit that was set aside. `CashAndSharesConserved` sums over the
players and the book, entry by entry, through partial fills, splits, cancellations,
delistings and saves that fail, under two hypotheses which the code does not
check and without which it is false: a split meets no resting buy order with
an odd limit (`Halves`; otherwise it rounds, see section 3), and no count of
shares leaves its 32-bit field (`Fits`: a split caps a holding it cannot double,
and an order that doubled may exceed what the field of a refund holds). Both are
stated of each step, as `[][Fits /\ Halves]_vars`, and runs of the code satisfy them
for as long as neither happens.

**`ProcessProofs`** is about the threads of the bot's process: those of `Gateway` and,
after them, those of `Plugins`. Its invariants are of one module each, and the
names of `Plugins` that have a namesake in `Gateway` carry the module's name.

Of `Gateway`: `TypeCorrect`, `OneHeartbeatOnly`, `NothingLeft`, `HeartbeatAlwaysCovers`,
and, when no handler holds the service thread for a heartbeat interval
(`~SlowTurns`), `ContextOutlives`; for any number of attempts and of heartbeat
threads, also when the gateway answers after `connect()` gave up. `IInv` says
where `disconnect()` returns to and after how many attempts (`Returns`); that a
heartbeat thread nobody joined is either the stored one or the one that HELLO is
just starting, and while one is being started none is stored (`Known`); what
`connected_` and `context_` mean for the connection (`Believed`); what each step of
`disconnect()` has achieved (`TornDown`), the late answer being why a heartbeat
thread may outlive the first one; that a greeted connection keeps its thread
(`Covered`); and that a thread sends only when its handle is stored (`Sending`).
`BeatsAssumption` keeps the names of heartbeat threads apart from the places of
the service thread, which share a variable.

Of `Plugins`: `PluginsTypeCorrect`, `CallbacksStayLoaded`, `ExtensionsStay`, `PublishedOnce`,
for any extensions, modules and needs and any number of reloads and READYs.
`PluginsInv` ties the owner of each mutex to the place of its thread (`Places`), says of
every module that a thread calls or is about to call that this thread holds the
mutex of its loader (`Guarded`), and follows the catalogue from the main thread
through the parked payload and the service thread to Discord: it is always in
exactly one place (`OnePlace`), and is what is loaded as long as nothing changed
(`Current`). That the extensions outlive the modules is inductive by itself.

**`LedgerProofs`**: `TypeCorrect`, `MemoryIsWhatTheDiskHolds`, `ElectionsInOrder`,
`CashIsConserved`, `BookIsKept`, `MayorsAreElected`; for any players, amounts, fines,
sentences and moves, and saves and restarts at any time. Each call is shown to
have one `Effect` on money net of moves and to keep the election `Orderly`; a move
has none (`MovedIs`), whatever it does to balances and treasury. The tick releases
prisoners for all accounts at once, and counts votes in a loop over the
candidates, whose result is compared with the reference definition of a winner
(`WinnerWins`). The inductive invariant says that between two calls memory and
disk hold the same net of moves (`Same`), and that a call under way can be put
back to that: by the interface entirely, by `economy_game_action` for the caller
and the treasury, while the other accounts keep what they have - which differs
from the copies by moves alone (`Others`, `PutBackIs`). Cash on the disk is inductive
by itself; that of memory follows. The refinement reads the book from the economy
between two calls and, while a call awaits its save, from the copies it took
(`Kept`), so that of all steps only a save that succeeds is an entry, and
`AccountBook` need not know of calls that were put back.

**`LendingProofs`**: `TypeCorrect`, `CashOnlyMoves`, `PartnersHaveCompanies`, `DatesFollowDebts`,
`TicksCatchUp`; for any players, banks, amounts and dates, with saves that fail at any
time. `Good` says of an economy at a time what the first four properties need of
each other: the debt of each player and the company of each owner fit their dates
(`DebtFits`, `CompanyFits`), a company that does not run holds nothing, the owner of every
partnership has a company, and an agreement that is active, or may still become so,
has payments left. One lemma per call shows that the call makes a good economy of
the same worth. The four loops of the tick are each followed turn by turn: which
payments a turn makes, that it keeps the economy good once the debt or the company
in hand is settled (in the middle of the loop a debt may be paid off and still
have a date, or a company may), that it moves the date by one day, and that the
turns of one player leave alone what the turns of another collected (`Gathers`, for
`TicksCatchUp`). `LendingInv` then says that both the economy and, between a call
and its save, the copies are good. The roll-back is why it needs more: a save that
fails puts back all partnerships, but only the caller's company, so a call must
have closed no company but its own (`Does`) - the tick, which may close any, is not
put back but kept in memory. Cash is stated while no call was put back (`~undone`),
since the roll-back leaves what other players were paid.

**`AuctionProofs`**: `TypeCorrect`, `CashIsKept`, `EscrowsAgree`, `LegacyHomesOnce`; for any
accounts in any number of guilds, any prices, rents, bids and dates, with saves
that fail at any time. `Good` says of an economy at a time what the properties
need of each other: a home is listed exactly if one auction offers it for its
owner (`Offered`), a listing of relics holds its serial numbers (`Holding`), the
counters follow the unlisted ones (`Counted`), the level follows the homes, so that
a home is not granted twice (`Levelled`), and no rent was paid for days to come.
One lemma per call shows that it makes a good economy of the same worth (`Does`).
In the middle of the tick's loop over the homes not all of this holds of the home
in hand, so each turn is followed step by step: rent, instalment, refund of the
bids on a foreclosed home, and the home itself, which must leave together with
the listings that offer it (`HomesLeave`, also for a bankruptcy); the loops keep
what each turn keeps (`Keeps`). `AuctionInv` says that the economy and, between a
call and its save, the copies are good. The roll-back is why it needs `Spares`: a
failed save puts back the homes, relics and auctions, but only the caller's
wallet, level and counters, so a call must have taken no cash and no counted
relic from another player, and given none a home. That is also why `CashKept` is a lower bound once
a call was put back. The proof needs that there are finitely many accounts and a
dearest home (`AuctionAssumption`): the sums, and the price of a home from an old
record.

**Only model-checked**: every liveness property (`WorkerFinishes`, `RunEnds`,
`EventsEnd`), which needs ENABLED and fairness; and the three violations, which a
counterexample settles.

## 5. Not modelled, and why

* *Message texts, splitting, parsing, configuration, JSON, HTTP*: formats, pure
  functions on the characters of one text, and blocking calls without protocol.
* *The rate limiter*: arithmetic on clocks and headers, with one caller; its
  waits are part of a request.
* *Gateway frames* (`send_queue_`, `receive_buffer_`, `sequence_number_`): what a
  frame out of place does is decided by Discord.
* *The script engine*: it runs commands on the service thread; the Lua
  interpreter, libwebsockets, libcurl, `dlopen` and the file system are external
  and modelled where the code depends on how they behave.
* *The economy command module*: it formats answers.
* *The rest of the game* (jobs, education, inventory, pets, casino, research,
  shorts and derivatives, public offerings, tariffs, treaties, foreign exchange,
  news, random walks): arithmetic on one record of the caller, for which unit
  tests suffice, with the same save and roll-back as every other call.
* *The beta migration*: happens once, from a format nobody writes.
* *Examples, SIMD and Fortran samples, Lua games*: not part of the program's core.
