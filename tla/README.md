# A TLA+ model of the day-trading system

This directory specifies the stock trading system of this repository (frontend, manager,
workers, MongoDB, redis, RabbitMQ and a legacy quote server) and checks it with TLC and
TLAPS. Paths below are relative to the root of the repository.

## 1. The system

A user's request travels frontend -> manager -> one worker -> response to the frontend.

| Component | Source | State | Operations | Interacts with |
|---|---|---|---|---|
| Frontend | `frontend/src/main.py`, `command_interface.py` | global `transaction_num`, logged-in users | one route per form; `send_command` publishes and waits for a message | manager through the frontend exchange; workers through the fanout `confirms` exchange |
| Manager | `manager/src/balancer.py`, `consumer.py`, `publisher.py`, `confirms.py`, `main.py` | two buffers with a mutex, count `active_commands` | consume, `balance` (hash of the user id chooses the worker; DUMPLOG waits for the count to be 0), publish, count confirmations | frontend, workers |
| Worker loop | `worker/src/main.py`, `rabbitmq/` | a buffer with a mutex, a response buffer | consume and acknowledge, take the buffer, run the commands in order, publish the responses | manager, CMDHandler |
| CMDHandler | `worker/src/cmd_handler.py` | `uncommitted_buys`, `uncommitted_buy_timers`, the same two for sells, `pending_sell_triggers` | one method per command, each in the main thread; `cancel_buy` and `cancel_sell` also in the thread of a 60 second timer | database, quotes, polling |
| Polling | `worker/src/legacy/quote_polling.py` | `user_polling_stocks` under a lock | a thread that, every 120 seconds, reads the price of each polled stock and carries out the auto buys and sells whose trigger it has reached | database, quotes, CMDHandler |
| Account documents | `worker/src/database/accounts.py` | `account`, `available`, `stocks`, `auto_buy`, `auto_sell` of each user | atomic single-document updates | all workers' handlers |
| Quotes | `worker/src/legacy/quote.py`, `quote_cache.py` | one global socket, prices cached in redis | `get_quote` | main thread and polling thread |
| User cache | `worker/src/database/user_cache.py` | a redis set | `user_exists`, `add_user` | every handler |
| Logs, proxies, deployment, forms | the rest | - | output, forwarding, configuration, layout | - |

What is hard in it:

- **Interleaving without locks.** The main thread, a timer's thread per pending transaction
  and the polling thread share dictionaries and documents. Each access is atomic (a dictionary
  operation, one `update_one`), a handler is a sequence of them.
- **Check and act apart.** Handlers read a document, decide, and update in a second access,
  whose filter rarely repeats the decision.
- **State in two places.** Reserved money and shares are in the database, what they are
  reserved for is in memory (pending transactions, registrations) and is lost by a restart,
  an exception, or a second command of the same kind.
- **Timeouts** that race the answers they are waiting for.
- **Delivery.** Acknowledgement before execution, a fanout of responses, a count of messages
  used as a barrier.

What makes each part correct: reserved money and shares are settled exactly once and for the
user they belong to; funds and shares add up; nothing is sold twice or bought with money that
is not there; pending transactions are settled in the end; the polling goes on, finds each
auto transaction it should, and carries it out under its trigger's condition; commands of a
user are run once and in order; a request gets its own response. `PROJECT.json` lists the
hazards one by one, at their lines, with the properties that watch them.

## 2. The modules

| Module | What it models |
|---|---|
| `Escrow` | The abstract promise about a user's money: deposit, reserve what is available, spend or free a held reservation, once. |
| `Accounts` | The documents and the cached prices, the updates made on them, ADD and QUOTE. |
| `Timers` | `threading.Timer` as the handlers use it (external). |
| `PendingBuys` | BUY, COMMIT_BUY, CANCEL_BUY and the timers. Implements `Escrow`. |
| `PendingSells` | SELL, COMMIT_SELL, CANCEL_SELL and the timers. |
| `AutoTrading` | The six SET commands and the polling thread. |
| `Worker` | `PendingBuys`, `PendingSells` and `AutoTrading` on one set of documents: main thread, timers' threads and polling thread together. |
| `Quotes` | `get_quote` in two threads: the global socket, the cache, the quote server (external). |
| `Broker` | RabbitMQ as the clients use it (external), and the clients' connections: binding, breaking, connecting again. |
| `Manager` | The manager's consumer, balancer, publisher and count of confirmations; its restart. |
| `WorkerLoop` | A worker's consumer, main loop and publisher; the end of the loop, the death of the container. |
| `Frontend` | `send_command` and the workload files that `frontend_proxy.py` posts. |
| `System` | `Manager`, `WorkerLoop` and `Frontend` composed over `Broker`: the way of a command and of its response. |
| `MCPendingBuys`, `MCPendingSells`, `MCAutoTrading`, `MCWorker`, `MCSystem` | Instances for TLC: symmetry, the commands of a run, a bound (`InRange`). |
| `PendingBuysProofs`, `PendingSellsProofs`, `AutoTradingProofs`, `QuotesProofs` | The theorems about these modules. |
| `WorkerProofs` | The theorems about `Worker`, by those about its components. |
| `SystemTypes`, `SystemProofs` | The theorems about `System`: types, then order, count and barrier. |
| `SumsAndRows` | What the proofs need to know of sums over finite sets, and of rows of queues. |

**Correspondence with the code.** A variable has the name of the attribute it models.
`pc` says where each thread is, `frame` (or `cmd`, `seen`) holds its locals. An action is the
part of a handler between two accesses that another thread can distinguish: `CommitTake` pops
the pending buy and its timer, and looks the stock up; `CommitSettle` is the update. A step
that pops from two dictionaries is atomic only where nobody can see the difference: in
COMMIT_BUY, the pop of the buy decides who settles it, and a timer that runs in between finds
no buy. CANCEL_BUY pops the timer first and the buy second, with a thread switch between. A
refused command changes nothing and is a stuttering step, except that a BUY or SELL that got
as far as its quote has cached it.

In `System` a variable is a buffer or a queue of the code, and an action is what one thread
does under one lock or in one callback. `queue[q]` holds what RabbitMQ has for a queue and,
for the two queues that acknowledge automatically, what is on its way to the consumer;
`incoming[w]` is the message a worker's `queue_callback` has, `unacked[w]` what the broker
would deliver again. `communication`, `send_buffer` and `publish_buffer` are the manager's
buffers in the order of the code, `active_commands` its count, `workers` the entries of its
list that are not None. In `Quotes` an action is one operation on the socket or on the cache;
`s` is the number of the socket that the global holds, `on[t]` the one a thread is in `recv`
of, and `tries` the calls of `get_quote` below which an exception is caught, since
`get_quote` calls itself inside its `try`. `Worker` takes the definitions of its components
as they are; it adds that the main thread runs one command at a time (`MainIsFree`) and that
a look-up of a stock that is in the array twice raises.

**Abstractions.** Money is in whole units: each sum is computed once from a quote and later
added or subtracted unchanged, so rounding does not separate any two properties. `floor` in
BUY and SELL is `\div`. A price, once cached, stays: the expiry that `quote_cache.add` asks
for is a time of day in the quote server's clock used as a duration. `stocks[u][s]` is the
sub-sequence of the embedded array for one symbol, so that an element pushed twice is visible.
The `id` of a pending transaction and the variables `hold` and `fate` are history: they record
what became of each BUY and SELL and are not read by any handler. `PendingSells` and
`AutoTrading` take COMMIT_BUY (and COMMIT_SELL) by their effect.  `AutoTrading` follows one
stock; its assumption `OneStock` says so. The listing of its registered users
(`quote_polling.py:144`, 148) and the query that is first evaluated by the loop over its
result (152) are one step, `QueryBuys` or `QuerySells`. `forgotten`, `balanced`, `outstanding`
and `extras` of `Manager` are history. In `System` a command is a model value with a user and
a worker, and running it is one step: what it does is the subject of the other modules. In
`Quotes` a price stands for the stock it is the price of. `Accounts` and `Quotes` share no
state: the former has what a handler sees of a quote, one price per stock, which is what the
cache makes of it unless two threads miss it at once.

**Faults.** In the modules of the handlers: `CanRaise`: an operation of the database, of the
log, or the start of a timer raises; what was done stays done; `handle_command` catches it in
the main thread, a timer's thread or the polling thread ends. `CanRestart`: the worker dies at
any point and is started again with empty dictionaries, on the database it had. (A container
that stops is removed; it is started again when the manager is, which creates those that are
not there. The volume of the database remains.)

In `System`, up to `MaxFaults` of these, anywhere: the connection of a consumer breaks (with
automatic acknowledgement the first `n` messages on their way are lost, otherwise the
unacknowledged one is delivered again); the connection of a publisher breaks, is written to in
vain until the client notices, and is opened again (the manager's publishing thread may end
instead, since its callback closes a connection that is closed already); a worker's main loop
ends with its batch because a command cannot be parsed or the log of an exception raises; the
manager's main loop ends with what it had taken because a command cannot be parsed; a worker's
container stops; the manager is started again, without what it had in its buffers and with
some of the messages that were on their way to it. In `Quotes`: the server closes a
connection, refuses one, or answers later than the 2 seconds that a socket may have been left
with.

**Overlap.** `AutoTrading` has a constant `Overlapping`: the kinds of commands that may be in
progress while the polling thread is in the middle of a pass (a pass takes seconds of every
two minutes). The code does nothing to keep any of them apart: it is `Overlapping = Commands`
that is the program, and a smaller set is an assumption about the environment, in the guards
of `Start` and `Poll` only, made to find out which commands are safe.

| Run or theorem | Commands that may be in progress during a pass |
|---|---|
| `auto` | all but CANCEL_SET_BUY |
| `auto_live` | SET_BUY commands, the only ones of the run |
| `worker` | BUYs, SET_BUY commands and timers, but not CANCEL_SET_BUY |
| `worker_sells` | SELLs and timers, but no SET command |
| `SharesStaySetAside`, `EveryShareIsPaid` | any |
| `FundsReserved`, `FundsReservedTogether` | any but CANCEL_SET_BUY |

What fails with other commands is in the list at the end of section 3.

## 3. The runs

| Run | Shows | Bounds |
|---|---|---|
| `buys` | settlement, balance, no overdraft and refinement of `Escrow`, with exceptions and restarts | 2 users, 3 BUYs, prices 2 and 3 (before the first quote), sums 1 (refused) and 4 |
| `buys_live` | without faults: every pending buy has somebody who will settle it and is resolved; what was spent is there as shares; a reservation gets out of reach only when a later BUY replaces it | 1 user, 3 BUYs |
| `sells` | settlement and conservation, with exceptions and restarts | 1 user, 2 stocks, 3 SELLs of 0 or 1 of 2 shares |
| `sells_live` | without faults: nothing is sold or offered twice, shares set aside are sold or given back | 1 user, 1 stock, 3 SELLs of 1 of 2 shares |
| `auto` | the funds of an auto buy stay reserved; shares set aside stay so and every share is paid for, in all steps but those the two properties name; with exceptions and restarts | 1 user, amounts 1 and 2, up to 2 shares, triggers at the price; `InRange` |
| `auto_live` | the polling forgets no auto buy that is due, SET_BUY overlapping | 2 users, triggers below, at and above the price |
| `worker` | pending buys and auto buys on one document: what the two reserve adds up, and a stock that both push loses nothing; with exceptions and restarts | 1 user, 1 stock, price 2, 2 BUYs of 1 share, an auto buy of 1 share with a trigger below or above the price, 5 units of money |
| `worker_sells` | pending sells and auto sells on one document: what the two set aside adds up, no share is lost or sold twice, SET_SELL between the passes; without exceptions and restarts | 1 user, 1 stock, price 2, up to 3 shares, 3 SELLs of 1 share, auto sells of 1 or 2 with a trigger below or above the price |
| `quotes` | a stock gets another one's price only if requests overlapped; `get_quote` ends unless two threads needed the socket at once | 2 threads, 2 stocks, 3 quotes, 2 faults, 4 sockets |
| `system` | order per user, no second run without a redelivery, nothing lost without a cause, the count of active commands, the DUMPLOG barrier | 4 commands (2 users, one DUMPLOG between them), 2 workers, one queue bound late, 1 notice, 1 fault, buffers of 2 and 1 |
| `system_live` | every command is run and every request answered, if nothing was lost for good | a request and a file of 2 commands, 1 fault, buffers of 2 and 1 |
| `system_answers` | violated: a request returns the response to another command | a request and a file of 2 commands, no fault |

Three BUYs are what the interesting cases take: one that is replaced, one that replaces it
while the first timer is firing, and one that follows the settlement; two users show that
nothing crosses over. One user is enough for sells and auto transactions, since no handler
touches two documents; `auto_live` has two because a pass iterates over users. In `system`,
user `a` has a command before and one after the DUMPLOG and user `b` is served by another
worker: order can be broken, and the barrier can be passed too early by either worker. Buffers
of 2 and 1 are full with the commands there are, so that both callbacks do wait. One fault is
enough for each kind to meet every state of the others' steps; each message that it can lose,
and each position of the loss, is a branch of its own. In `quotes`, two faults let a close be
followed by a refused connection or a late answer, and the third quote follows the recovery.
`MaxFunds`, `MaxShares` and the sets of sums are bounds of the model only: the properties are
about the order of steps, and the sums are there to tell a refused command from an accepted
one and one reservation from two. In `auto` two different amounts tell the auto transaction
that was read from the one that is there; triggers below and above the price are in
`auto_live`, `worker` and `worker_sells`. The numbers of an element can drift without end once
one of the named steps has been taken, so that `auto` follows them within `InRange` only; up
to there its properties are checked on every step. Three SELLs in `worker_sells` let one be
replaced while its timer fires, and another follow while the auto sell is carried out.

One run, `system_answers`, shows a disagreement of the code with its docstring ("Send commands
to the backend. Returns the response."): without any fault, a request returns the response to
somebody else's command. `findings` in `PROJECT.json` has the details.

The models have further behaviours that a maintainer will want to know of. They are why some
properties are stated as they are, and have no run of their own:

- a BUY after a BUY puts the first one's reservation out of reach (`cmd_handler.py:164`),
  although the comment at 152 says it lasts until a COMMIT or CANCEL;
  `StrandedOnlyByReplacement` says that nothing else does that;
- SET_BUY_AMOUNT on a registered auto buy resets its trigger to 0 (523), and the next pass
  buys at any price;
- SET_SELL_AMOUNT and SET_SELL_TRIGGER on an existing auto sell take more shares than
  they should: SET_SELL_AMOUNT has set the new amount aside, and the update at 759 gives the
  previous amount back and takes the new one once more; when the polling thread has sold the
  auto sell since the handler read it, the update matches nothing, and the new amount stays
  set aside for nobody;
- CANCEL_SET_SELL of an auto sell that the polling thread has sold since the handler read it
  releases its shares once more (840): more shares are then available than the user owns. It
  is one of the two steps that `SetAsideStays` names. The other is `auto_sell_handler`'s
  update (250) when a command has changed the auto sell in between, or when it removes the
  stock while more of it is set aside;
- `auto_sell_handler` removes the whole stock, paying for what it has read, also when shares
  were bought or sold in between (250): the step that `EverySharePaid` names;
- a timer that fires just before BUY cancels it goes on to cancel the new pending buy
  (`cmd_handler.py:265-271`), and likewise for sells;
- a SELL that finds no element to set shares aside in, or whose update raises, leaves its
  pending sell behind, without a timer (345-354);
- an auto buy above its trigger makes available funds negative (`quote_polling.py:195`);
- auto sells are carried out at or below the trigger (148, 239), while the answer of
  SET_SELL_TRIGGER says "at least";
- a CANCEL_SET_BUY in progress during a pass ends the polling thread, for every user of the
  worker, when it unregisters the last user of a stock before the pass lists them
  (`quote_polling.py:144`) or pulls the auto buy before its handler reads it (186). No
  property says that the thread goes on: it would hold only where these commands are kept apart;
- CANCEL_SET_BUY during a pass can refund an auto buy that is carried out as well;
- an automatic sale of a whole stock between the look-up of a COMMIT_BUY (217) and its update
  leaves that update without a match: no shares are delivered and the money stays reserved;
- CANCEL_SET_SELL of an amount without trigger unregisters an older auto sell
  (`cmd_handler.py:850`); a SET_BUY_TRIGGER during a pass that raises the trigger above the
  price can lose its registration (`quote_polling.py:154`, 188);
- a SELL whose update at 348 raises leaves a pending sell with no shares set aside: an auto
  sell can set the same share aside, and a COMMIT_SELL while the polling thread sells it is
  paid for it as well (`worker_sells` therefore has no exceptions);
- a worker that dies between a SELL's record (345) and its set-aside (350), after the late timer
  of the SELL before it has released the recorded shares, leaves more shares available than
  the user owns: a later SELL and an auto sell can then sell the same one (`worker_sells`
  therefore has no restarts);
- a command without a `]` before its first comma ends the manager's main loop
  (`manager/src/parser.py:22`), with what `balance()` had taken;
- a SELL that has found 0 shares of a stock removes its element (319) also when an auto buy
  has added shares to it in the meantime, which are lost;
- when a COMMIT_BUY and an auto buy both push a stock the user did not have, the array has it
  twice, and from then on every positional look-up of it raises: COMMIT_BUY drops the pending
  buy it has popped (its money stays reserved), and a pass over the stock ends the polling
  thread;
- two `get_quote` that are in progress at once may swap their answers (`quote.py:31`); a
  thread whose socket was replaced after it sent waits in `recv` for ever, since nothing sets
  a timeout on a connected socket; two threads can replace each other's sockets without end;
  a `connect` that raises leaves the socket with the 2 second timeout (17);
- a quote answer without the time stamp raises after the price was cached;
- a worker acknowledges a command when it has buffered it: a container that stops, or a main
  loop that ends, loses what it held; the loop is not started again while the container runs,
  and the consumer then fills its buffer and blocks;
- a command that is delivered again runs twice, and so sends two responses: the count of
  active commands is one too low from then on, like after a notice of the polling thread or
  the response to a DUMPLOG (`balancer.py:71`, `confirms.py`), so that the next DUMPLOG can
  pass a command that still runs, of another worker and of the same user too; `Barrier`
  excludes such messages by its condition `extras = 0`; `send_response`
  (`cmd_handler.py:901`) is never called, so
  a timer that cancels a buy sends none;
- a manager that is started again counts from 0 while workers run commands: a DUMPLOG passes
  those that were outstanding then, which `Barrier` names (`forgotten`); it holds for all
  other commands of the earlier lives of the manager;
- a lost command or response leaves the count above 0: the DUMPLOG at 71, and every command
  behind it, waits for ever;
- a manager that is started again while workers run has None for them, and its main thread
  ends on their first command;
- each request leaves its queue, which still receives every response, with the broker
  (`command_interface.py:34`);
- the manager routes by a user id without blanks and unlisted characters (`manager/src/parser.py:12`),
  the worker keeps some of these: names that differ only there can be one account handled by
  two workers. `SameUserSameWorker` in `Broker` excludes such names.

**Fairness** (`FairSpec` in each module). Weak fairness of the steps in the middle of a
handler: the threads are scheduled and the operations they wait for return. Weak fairness of
`Fire`: a timer that is not cancelled expires. Weak fairness of a pass: the loop of
`QuotePollingThread.run` has no exit. No command need ever arrive, and no exception or
restart happens in the liveness runs of these modules: after one, nothing in the code would
resume the work.

In `System`: weak fairness of the manager's threads, of each worker's threads, of the
frontend once it handles a request, and of connecting again: each of them is a loop without
an exit, or the thread that waits for the operation. Nobody needs to issue a command, and
faults need not happen, but one may: `Served` and `RequestAnswered` hold through broken
connections, and excuse what the code has no remedy for (`Interrupted`: a message was lost,
the manager's main or publishing thread ended, a worker's loop or container is gone). In
`Quotes`: weak fairness of both threads, and of the server, which answers what it has
received; the code has no timeout of its own for a server that is silent.

## 4. The proofs

A theorem holds for all values of the constants that satisfy the assumptions in the modules:
prices are positive, sums are not negative, `Main` and `None` are different from everything
else, the hash of a user id names a worker, and so on. Those that are about a sum also assume
that the set it is over is finite (`IsFiniteSet(BuyIds)`, `SellIds`, `Stocks`): an
infinite sum means nothing, and a program run has finitely many commands; `CommandsRunOnce`
counts copies over the workers and assumes that these are finitely many. Where a theorem
needs that nothing raises, or that some commands do not overlap, its `ASSUME` says so, and
the list at the end of section 3 says what happens otherwise.

### Pending buys (`PendingBuysProofs`)

| Theorem | States | Assumes |
|---|---|---|
| `TypeCorrect`, `OwnersOnly`, `NeverOverdrawn` | `TypeOK`, `SettledByOwnerOnly`, `AvailableNonNegative` | |
| `ImplementsEscrow` | `Implements`: every step is one of `Escrow` or leaves the ledger alone | |
| `FundsBalance` | `Balanced` | finite `BuyIds` |
| `SharesArePaidFor` | `SharesPaidFor` | finite `BuyIds` and `Stocks` |
| `AlwaysGuarded`, `OnlyReplacementStrands` | `PendingGuarded`, `StrandedOnlyByReplacement` | no exceptions and restarts |

*The inductive invariant.* `IInv` adds two facts to the type invariant and the three parts of
`SettledByOwnerOnly`. `FrameOK`: a thread in the middle of a handler has the user and the buy
of that handler in its frame, which the types alone do not say. `ReserveReady`: between the
check of a BUY and its reservation, the buy's id is fresh. None of this is about the account,
so that `WorkerProofs` can use it with other threads changing the account as well. Each part
is preserved by a lemma of its own, with one step per action. `OneOwner` is the heart: an
action that takes a buy out of the dictionary makes one thread its owner, and
`SettleKeepsOthers` says that settling a buy leaves the other owners' reservations held.

*No overdraft.* `FundsReady` says that until the reservation of a BUY its cost is still
available; only `CancelRelease` of a timer changes available funds in between, and it adds
(`FundsStay`).

*The refinement* maps the variables to themselves. `BuyReserve`, `CommitSettle` and
`CancelRelease` are `Reserve`, `Spend` and `Free`; the guards of the abstract actions are
`ReserveReady`, `FundsReady` and `CarriedHeld`; all other steps stutter.

*The sums.* `FundsBalance` follows from the refinement: each step of `Escrow` changes the
account, the available funds and one reservation by amounts that agree. For
`SharesArePaidFor`, `Priced` says that a stock is in the array at most once, and that
pending buys, carried buys and owned shares are at the price that is cached for their stock:
that price stays, so delivering `n` shares adds exactly what the buy cost.

*The guard* of a pending buy needs two more invariants (`GInv`): a timer in the dictionary
belongs to that user and is armed or has fired, and a BUY that has not created its timer yet
has an unarmed one. With it, a thread that carries a buy is not the one that a BUY arms, so
the only step that takes a held reservation from all its owners is `BuyRecord` over it.

### Pending sells (`PendingSellsProofs`)

| Theorem | States | Assumes |
|---|---|---|
| `TypeCorrect`, `OwnersSettle` | `TypeOK`, `SettledByOwnerOnly` | |
| `WealthIsKept` | `WealthKept` | finite `Stocks` |
| `SharesBalance`, `NeverOversell` | `SharesBalanced`, `NeverOversold` | finite `SellIds`, no exceptions and restarts |
| `OnlyReplacementStrands` | `StrandedOnlyByReplacement` | the same |

*Owners* is the argument of the buys, with `Fresh` for `ReserveReady`: a sell is recorded
before its shares are set aside.

*Wealth.* `Priced` is as above; it also says that an element that SELL is about to remove has
no shares. So each step moves `n` shares of one stock against `n` times its price, or
nothing.

*Without faults*, `Backed` joins what makes the shares add up. The check of a SELL and the
update that sets its shares aside are two accesses, and a timer may release shares in
between, also into an element that was removed and pushed again. `Enough` says that what was
checked is still available then, since other threads only release; `SetAsideFirst`, that a
recorded sell has set its shares aside or is about to; `Recording`, that what it sets aside
is what its record says. From these, every sell withholds a number that is not negative, so
the sum that `SharesBalanced` states bounds each of them: the shares that a thread sells or
releases are there (`AllWithheldIsThere`), which gives `NotNegative` and keeps the balance.
`OnlyReplacementStrands` also needs this: a sell whose element were gone would be dropped.

### Auto transactions (`AutoTradingProofs`)

| Theorem | States | Assumes |
|---|---|---|
| `TypeCorrect` | `TypeOK` | |
| `FundsReserved` | `ReservedForBuy` | no CANCEL_SET_BUY is in progress during a pass (`CancelsApart`) |
| `SharesStaySetAside` | `SetAsideStays` | |
| `EveryShareIsPaid` | `EverySharePaid` | |

All hold with exceptions and restarts, and the last two whatever commands overlap with a
pass. `Typed` says what the two threads have read at each place.

*Funds.* `BuyInv(X)` adds to the property what a command or the polling is in the middle of:
what it will give back was reserved, and what it read is still so. It has what else is
reserved as a parameter: `X` is nothing here, and the pending buys in `WorkerProofs`. These
are the facts that fail when a CANCEL_SET_BUY overlaps.

*Shares set aside.* `SetAsideStays` is about single steps, so that it stays meaningful after
one of the steps it names. Beyond the types it rests on `SellsRemembered`: the auto sell that
a SET_SELL_TRIGGER has read is still there or has been sold, and never another one, since
only the main thread makes auto sells; and a CANCEL_SET_SELL is about to release the amount of
the auto sell it has read. A lemma for each action shows what it takes from the shares that
are not available, and what from those that are claimed.

*Payment.* `PassPrice` says that the price a pass works with is the cached one. A step then
changes money and shares by amounts that agree, and the sum over the array changes by that of
the element it touches, or pushes (`SumAdds`, `SumChanges`): no assumption that the stock is
in the array once is needed.

### The threads of a worker (`WorkerProofs`)

| Theorem | States | Assumes |
|---|---|---|
| `TypeCorrect` | `TypeOK`: types, and one command at a time | |
| `FundsReservedTogether` | `ReservedTogether` | finite `BuyIds`, no CANCEL_SET_BUY is in progress during a pass |

That each pending buy and sell is settled by its one owner is the theorem of its own module:
nobody else writes the variables it is about.

Both hold with exceptions and restarts. The component proofs are instantiated with the
variables of `Worker` (`B`, `S`, `A`), and their lemmas are used as they are: the constants of
`Worker` satisfy the assumptions of each component, each action of `Worker` is a step of one
component, and the invariants of the other two are about variables that it leaves alone, but
for the types of the documents. What is left to prove is what the composition adds:
`OneCommand` (the main thread is in one handler), and `CommitRaises`, a step that `PendingBuys`
does not have, since a stock is twice in the array only when two components have pushed it.

*The reservations together.* The invariant is `BuyInv(X)` of the auto transactions with the
reservations of the pending buys as `X` (`Together`). A step of the auto transactions leaves
`X` alone and keeps it, for any `X`. A step of the pending buys changes account, available
funds and `X` by amounts that agree: that is `FundsBalance` again, of which only the step is
used, since the balance itself is not kept when others spend. A step of the pending sells
adds to account and available funds alike.

### Quotes (`QuotesProofs`)

`TypeCorrect` and `OwnPriceHolds` (`OwnPrice`), for any number of threads, sockets and
faults. `IInv` says that a new socket is clean and a closed one has no requests; and, unless
two requests overlapped, that a socket holds one request or answer at most, that what a
thread awaits is about its own stock (`OwnAnswers`), and that the current socket is clean or
its content is awaited, or about to be left behind (`Awaited`).

### The way of the commands (`SystemTypes`, `SystemProofs`)

`SystemTypes` proves `TypeOK`, with the fact that only the queue `confirm` carries notices.
`SystemProofs` proves, for any number of commands, workers and faults and any bounds on the
buffers:

- `CommandsInOrder` (`InOrder`). What a worker ran, holds and is about to get is seen as one
  row (`Line(w)`): the commands run, its batch, its buffer, what is unacknowledged, its queue,
  the manager's buffers, the frontend's queue. `OnTheWay` says that each row is in the order
  of publication as far as the worker's own commands go, and that no command is published
  twice. Every step moves an element from the front of one part of the row to the end of the part
  before it, puts it back, or drops some; `SumsAndRows` shows, for any row, that these
  keep the order.
- `CountIsCovered` (`CountCovers`). `Counts` says that the commands pass through the manager
  once, so that each is counted once, and that the outstanding ones are a finite set of those
  handed on.
- `DumplogWaits` (`Barrier`). `Confirmed` says that each response that is on its way to the
  manager answers a command that has been run, and `Settled` that what any life of the manager
  has handed on is outstanding, has been run, or was outstanding when the manager was started
  again (`forgotten`); a count of 0 then leaves nothing outstanding, except for messages that
  answered none.
- `CommandsRunOnce` (`RunOnce`). The copies of a command, from the frontend's queue to what
  has been run, are one until a fault adds one (the broker delivers again what was already
  buffered) or removes one, which is then recorded as dropped. `InHand` says that what a
  worker's callback holds is what is unacknowledged or what has gone back to the queue: that
  a redelivery adds at most one copy, of one command, depends on it.

### Sums and rows (`SumsAndRows`)

The properties that are sums use `SumFunction` of the community modules, a fold over a finite
set. The facts about it (it is a number; it changes as one of its terms does; it is at least
each of its terms when none is negative) are proved by a smallest counterexample: the subsets
of a finite set are well-founded, so that among the subsets on which a claim fails there
is a smallest one. The library's induction theorems take an operator as a parameter, which
the provers here cannot instantiate.

### Only checked with TLC

- liveness: `PendingResolved`, `DueIsHandled`, `Answered`, `Served`, `RequestAnswered`: TLAPS
  does not prove properties that rest on fairness here;
- `WealthKept` and `OfferedTogether` of `Worker`. They are properties of the runs and not of
  every instance: a SET_SELL command and a COMMIT_BUY, or a SELL and an auto buy, that meet
  between a read and a write lose shares (section 3), and the instances of `worker` and
  `worker_sells` each leave one side of these pairs out.

## 5. Plan

Done:

1. `Escrow`, `PendingBuys` and all its safety properties proved.
2. `PendingSells`, and all its safety properties proved.
3. `AutoTrading`, and its safety properties proved.
4. `Worker`: pending and automatic transactions on one set of documents; types and
   the reservations of money proved on top of the components' proofs.
5. `Broker`, `Manager`, `WorkerLoop`, `Frontend`, `System`: the way of the commands; order,
   single runs, count and barrier proved.
6. `Quotes`: the shared socket; its safety properties proved.

## 6. Not modelled

- The contents of summaries, logs and DUMPLOG files, forms and templates, proxies and
  deployment: output, input or configuration. That a log raises is modelled.
- The parsing of commands, except that it can raise, in the manager and in the worker; the
  names of users (see the end of the
  list in section 3).
- A restart of RabbitMQ (its queues are not durable, so all clients would begin again), of
  redis or of MongoDB, beyond operations on them that raise.
- A channel that the broker closes on a connection that stays open: the worker's clients
  never open another one. The frontend's own connection does not break.
- The manager's `Worker` bookkeeping and the frontend's RabbitMQ threads, which no code uses.
- `balancer.py`'s memo of the hashes: it never has an entry for what it is asked, and the
  value is the same.
- Several stocks in `AutoTrading`: the update of SET_SELL_TRIGGER would be ambiguous on the
  server.

See `components` in `PROJECT.json` for the state of each part.
