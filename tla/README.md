# A verification of trans-mkt

trans-mkt is a command interpreter with threads, variables, loadable modules
and an XML-RPC server (`src/mkt`, `src/xmlrpc`), and on top of it the parts of
a market: accounts, assets and an order book (`src/xch`). This project models
its components in TLA+, checks the models with TLC and proves the theorems that
matter most with TLAPS. `PROJECT.json` maps every definition to the lines it
stands for and lists the runs, the mutations, the findings and the hazards.
Paths below are relative to `src/src` and `src/inc`.

## The system

| Component | State | Operations | What is hard | What makes it correct |
|---|---|---|---|---|
| Accounts (`xch/accounts.cpp`) | account -> asset -> balance, transaction history, one mutex | `init_account`, `exec_transaction`, `balance`, `get_unique_account_id` | checks made before the lock is taken; an insertion under a shared lock | money moves only with a recorded transaction; accounts open once; no balance is negative |
| Assets (`xch/assets.cpp`) | name -> id, id -> name, one mutex | `set_asset_id`, `remove_asset`, `get_asset_id`, `get_asset_name` | calls of several locked regions; lookups that insert; -1 as an answer and as an id | a name leads to an id that leads back to it |
| Order book (`xch/orderbook.cpp`) | price -> time -> order, for asks and bids; orders by id; one mutex | `add_order`, `cancel_order`, `remove_order`, `reset_orderbook`, `resolve_orderbook` | scans and fills outside the lock; four transactions that are one trade | a closed order never opens again; matches are between the best prices; a trade is settled whole |
| Threads (`mkt/threads.cpp`, `threads.h`) | key -> thread, info and progress maps, one mutex | `start_thread`, `threads(key, val)`, `remove_thread`, `interrupt` | a thread runs before it is registered; interruption points everywhere, in destructors too; joins | a key is held by one living thread; running threads are listed; waiting ends |
| Exit (`mkt/app.cpp`) | order of destruction | `finalize`, `final_threads`, `wait_for_threads` | threads that still run while the maps are taken down | main returns |
| Variables (`mkt/vars.cpp`, `vars.h`) | key -> name -> value with a time | `set_var`, `get_var`, `unset_var`, `vars_copy` at the start and the end of a thread | copies in both directions between threads, by time; shared data behind copied pointers | results reach the caller; locals stay local; values never go back in time |
| Commands (`mkt/commands.cpp`) | name -> function, one mutex | `ex`, `exec`, `serial`, `repeat`, `add_command` | commands called after the lock; a return value that is reset by comparing times | a line ends, and leaves the result of its last command |
| Modules (`mkt/modules.cpp`) | name -> library, one mutex | `import_module`, `expunge_module`, `_modules_cleanup` | check, load and enter in three regions; failures in each of them | a command that is found is in a library that is open; no library is leaked or closed twice |
| Log (`mkt/log.cpp`) | queues of entries by time, entries by serial number, one mutex | `log`, `get_logs`, slots of every signal | a query of many locked regions; slots that call back into what signalled | the orders agree; a query misses nothing |
| Echo (`mkt/echo.cpp`) | id -> function, one mutex | `echo`, `echo_register`, `echo_unregister` | functions that run under the mutex, execute commands and may throw or echo | output is not mixed; echoes return |
| Remote commands (`mkt/xmlrpc.cpp`) | - | `exec_remote`, the server thread, `mkt_exec`, `do_remote_echo`, the syncer | results used untested; a server that calls itself | the caller is told what the command did |
| XML-RPC library (`src/xmlrpc`) | connections and their buffers, the dispatcher's list of sources | `execute`, the event loop, server connections, values and their text | partial reads and writes, retries, late answers, handlers that remove sources | a call returns, with its own answer or none; requests are not starved |

Components meet in calls (`init_account` copies the map of assets, the order
book posts transactions to accounts, `async` calls `start_thread`,
`import_module` runs functions that add commands, `mkt_exec` calls `exec`), in
signals (`thread_initialized` and `thread_finalized` run `vars_copy`;
`var_changed` runs the log's slot, which calls `get_var`; commands, modules and
echo functions are logged), in callbacks (the event loop calls handlers that
change its list, echo functions execute commands), over connections, and in
shared state: a variable map is found by the key that the map of threads holds
for the running thread.

## The modules

| Module | Models | Run | Proofs |
|---|---|---|---|
| `Ledger` | what accounts promise (abstract) | through `ImplementsLedger` | `AccountsProofs` |
| `Accounts` | `xch/accounts.cpp` | `MCAccounts` | `AccountsProofs` |
| `Assets` | `xch/assets.cpp` | `MCAssets` | `AssetsProofs` |
| `OrderLife` | what a market promises about its orders (abstract) | through `ImplementsOrderLife` | `MarketProofs` |
| `Market` | `xch/orderbook.cpp` | `MCMarket`, `MCMarketVolume`, `MCMarketCrossing` | `MarketProofs` |
| `Threads` | `mkt/threads.cpp`, `threads.h`, the exit in `app.cpp` | `MCThreads`, `MCThreadsWait` | `ThreadsProofs` |
| `Vars` | `mkt/vars.cpp`, `vars.h`, the log's slot for `var_changed` | `MCVars` | `VarsProofs` |
| `Modules` | `mkt/modules.cpp`, the command map | `MCCommands` | `ModulesProofs` |
| `Commands` | `mkt/commands.cpp`, composed with `Modules` | `MCCommands` | `ModulesProofs` |
| `LineResults` | what a line is to leave in `_` (abstract: equations for a line's meaning) | through `ResultIsLast` in `MCCommands` | `ModulesProofs` |
| `LogBook` | what the log promises (abstract) | through `ImplementsLogBook` | `EchoProofs` |
| `Log` | `mkt/log.cpp` | `MCEcho` | `EchoProofs` |
| `Echo` | `mkt/echo.cpp`, `do_remote_echo`, composed with `Log` | `MCEcho` | `EchoProofs` |
| `RpcCall` | what a remote call promises (abstract) | through `ImplementsRpcCall` | `RpcProofs` |
| `Rpc` | `XmlRpcClient`, `XmlRpcServer`, `XmlRpcServerConnection`, `XmlRpcDispatch`, the server thread and `exec_remote` | `MCRpc` | `RpcProofs` |
| `XmlText` | `XmlRpcValue`'s text, `XmlRpcUtil`, `base64.h` | `MCXml` | - |
| `Xml` | `XmlRpcValue`'s operations, requests and responses, the server's methods, `mkt_exec`, `exec_remote` | `MCXml` | - |

In all of them a region under the component's mutex is one action, and a call
that takes the mutex several times is that many actions with the thread's
program counter `pc` between them. What a call reads before an unlock and uses
after it is a variable of the thread.

**Accounts.** `accounts`, `balance` and `entries` are the account map (which
accounts it has, its amounts, and which pairs have an entry: `operator[]`
inserts), `history` is both containers of transactions. `InitAccount`,
`InitCopyAssets` and `InitWrite` are the three parts of `init_account`: the
check, the copy of the assets and the locked write. `BalanceEnter` and
`BalanceLeave` are the two ends of `balance`'s shared lock, so that two readers
overlap; while one is inside, `NoReader` keeps writers out. Amounts are
integers where the code has doubles: rounding is not modelled. An asset need not be
registered to be asked for or transferred, as in the code. The constant
`InitIds` says which ids the calls of each thread can get; those that two
threads can get are the `SharedIds`. Two calls do race for an id when callers of
the `init_account` command name the same one, or draw one in the same second
from a `rand()` seeded with the time, and `Ledger` says what that does: a shared
id may be opened again, which empties its account.

**Assets.** `FindName`/`ReadId` and `FindId`/`ReadName` are the two regions of
the lookups, which `remove_asset` and `set_asset_id` call too, `Erase` and
`Write` the locked changes. `NamesOf` and `IdsOf` are the names and
ids each thread registers and removes; every thread looks up any of them.

**Market.** `orders` are the order objects, which outlive the book; `book` the
keys of `_orders`, and with the orders' terms both price maps; `levels` the keys
of the price maps, because a level whose last order is removed stays in its map,
empty. `add_order` is `Place` (the constructor), `Insert` (the locked region)
and the engine, `resolve_orderbook`: `Begin` (locked), one `AskScan` or
`BidScan` for each turn of the scan loops, `BidFirst`, `Match`, two `Fill`s (the
available volumes), a `Close` and, if that found the order open, a `Shut` for
each order, and four `Settle`s. Only the first of these is under the lock.
`close()` is two actions everywhere, since it looks at the order and writes it
under two locks of the order: `Cancel` and `CancelCloses`, `Remove` and
`RemoveCloses` are its other callers, which hold the market's lock meanwhile
(`MarketFree`). So two engines, or an engine and a cancellation, may both find an
order open and both close it, and a removed order may be closed again;
`OrderLife` has a client that looks and later closes. A client whose scan is
under way when another changes the book is `torn`: it holds an iterator into a
map that changes, and `Stumble` lets it find any open order of the side, find
none, or read a node that is gone (`crashed`). `TradesSettleWhole` also holds
for torn scans, `BestHeadsMatched` speaks of the others. An order's id stands
for its open time too: the orders of a level are in the order of their
construction, which differs from the code when the clock stands still for two
of them or an order is entered after one that was constructed later. A unit of
volume is the engine's epsilon, 0.001. Accounts are reduced to what decides
whether `exec_transaction` posts: equal or unknown accounts never do
(`Impossible`), and lack of funds may fail any transfer of more than nothing.

**Threads.** A thread goes through `start_thread` with `pc` in `Starting`:
`HasThread`, `InterruptPeer`, `Join` when it waits, `UniqueKey` (one round of
the loop per action) when it does not, then `Create`, `CheckKey`, `Evict` and
`Put`. The arguments of `threads(key, new thread)` may be evaluated in either
order, so `Create` may come before `UniqueKey` is done. `Workers` bounds the
threads there can be; with none left boost throws `thread_resource_error`
(`CreateFails`; main leaves instead, as `main()` catches it). The thread that is
started runs `RunInit`, `RunCommand`, `EndCommand`, `ReadOwnKey`, `Erase` and
`Finish`. A requested interruption is delivered at an interruption point, and
every call of the API begins with one: `MayCall` stops a thread whose flag is
up, and one of the three `Interrupted...` actions takes its place, by where the
exception finds the thread. A null pointer that is dereferenced, a thread that
joins itself and an exception in a destructor end the process (`Abort`). The
maps of information and progress are left out: they decide nothing here.

**Vars.** An entry has a value, a modification time and a cell: the copy
constructor of `variable_value` copies a `shared_ptr`, so copied entries have
one cell, and `Assign` changes the value of every entry with the same cell and
the time of one. `Spawn`, `Register`, `ReadKey`, `CopyOnInit`, `Leave` and
`CopyOnFinal` are the parts of a thread's life that touch variables; a thread
may go on before it is registered, as in `Threads`, and is "unknown" until
then. The clock may stand still between two writes. `Sets` and `Unsetters` say
which variables a thread's commands set, and whether they unset them.

**Modules, Commands.** A module is like the repository's own, `xch`: its init
function adds commands and its final function removes them. `handles` counts
what the linker has open, so that a library may be opened twice and closed too
early. `Import`, `NotFound`, `Open`, `Resolve`, `NoSymbol`, `Enter`,
`ModuleInit` and `ModuleInitThrows` are the steps of `import_module` with all
its failures, `Expunge`, `Erase`, `ModuleFinal`, `ModuleFinalThrows` and `Close`
those of `expunge_module`, and `Cleanup` is the function that runs at the exit,
which a final function that throws ends together with the process
(`CleanupThrows`). A handle that a throwing final function leaves open is counted
in `lost`. `Commands` adds the thread that executes a line: `stack` has a frame for each
`exec` that has not returned, `LookUp` copies the command from the map under the
lock, and what it calls may be gone by then (`ModuleCommandGone`). `Reset`
compares the time before the call with the time of the variable `_`, which
`SetRet` leaves alone when the value is the one that is there, as `set_var`
does; in a thread that has no `_` yet it throws (`ResetThrows`), something the
prompt does not catch. A line begins with any of the values in `_` that earlier
ones may have left (`before`). The clock advances at each `LookUp` and may stand
still otherwise. `LineResults` says what
a line means without clock, stack and other threads: `Value` and `Values` are
operators of which only the equations are known, one for each kind of command;
`MCCommands` defines them by recursion, and TLC checks that its definitions
satisfy the equations.

**Log, Echo.** `entries` is both containers of the log. `get_logs` is `GetLogs`,
`ListQueues`, one `ReadQueue` for each queue and `GetLogsReturns`; a
`LogBook` has questions and answers instead of queues and locks. `Signalled`
stands for the signals of the modules that are not part of `Echo`, and `Emit`
for those that are. In `Echo` the map of functions has its `holder`; a function
writes its string in two pieces (`WriteFirst`, `WriteRest`), keeps quiet or
throws, by what `sys_echo_quiet` can be read as, or, as `do_remote_echo`,
executes a command for each host under the lock, which logs (`RemoteExecutes`)
or throws (`RemoteThrows`). An exception leaves `echo` through the destructor of
`out`, which ends the process (`Terminates`). A client may also register a
function that echoes (`EchoBack`): its thread then waits for the mutex it holds
(`CallsBack`).

**Rpc.** A message is `Size` pieces, of which the first `Header` are its HTTP
header, and a piece is the number of its call: enough to tell a partial message
from a whole one and one answer from another. A TCP connection (`link`) carries
pieces in order, any number of them at a time, and loses what is under way when
an end is closed; `connect` returns before the connection stands, and a port
nobody listens on is noticed by a write. The client's actions are
`setupConnection`, `doConnect` and the handlers for its states, with the retry
(`ResponseEnds`) and the end time of `work()` (`WorkTimesOut`). The server is
one thread: the handlers of all its connections, and commands, exclude each
other. A command may call the same server by the client `Nested`. `Interrupt`,
`CommandThrows`, `Shutdown`, `ServerCrash` and `Start` are how the server
thread ends and comes back.

**XmlText, Xml.** XML is a sequence of tags and texts; a text is a class with as
much of its content as the encodings tell apart: how often a markup character is
encoded, the digits and blanks of a time with the field widths of its formats,
decimals beyond the sixth and the number of digits of a double that fill its
buffer, the bytes of binary data. `fromXml` and `toXml` are
recursive operators over them. In `Xml` a behaviour builds a value with the
operations of `XmlRpcValue`, sends it to one of the methods of the server, by
itself or in a multicall between two others, and uses what comes back. The calls
of a multicall include ones without parameters, with parameters that are no
array, of unknown methods, and with the value that was built as the name of the
method.

## The runs

Every passing run is exhaustive for its constants. The two runs whose expectation
is a violation show disagreements of the code with its own comments, which
`PROJECT.json` quotes under "findings".

| Run | Constants | Distinct states | Shows |
|---|---|---|---|
| `MCAccounts` | 2 threads, 2 accounts, one of which both may initialise, 2 assets that come and go, 4 transactions, amounts 1 and 2; any asset may be asked for | 1,063,944 | the submodule implements `Ledger`, no balance is negative |
| `MCAssets` | 2 threads that register and remove 2 names with ids 0 and 1, and a name with id 2, and look up all names and ids from -1 | 363,688 | names and ids lead to each other |
| `MCMarket` | 2 clients, 3 orders, 2 prices, a buyer who may buy for the seller's account, cancellations, removals and resets; fair | 424,974 | `OrderLife` is implemented; the heads of the books do not cross at rest, the best ones are matched, trades are settled whole, `add_order` returns |
| `MCMarketCrossing` | the same | - | a violation: an open order behind a closed one of its price is never matched |
| `MCMarketVolume` | the same with 2 orders | - | a violation: the trade that is signalled moves nothing |
| `MCThreads` | 3 threads, 2 names, main starts them, waiting or not | 285,979 | no living thread is disturbed but the one main waits for; the key that is written is free; running threads are listed |
| `MCThreadsWait` | 2 threads, 2 names, everybody starts and waits, main interrupts; fair | 104,513 | waits end, the process ends |
| `MCVars` | 2 threads with names of their own, started by main or each other, registered early or late; a global and a local; the second thread unsets | 2,447,190 | results reach the caller, locals do not, times never go back |
| `MCCommands` | 1 line of up to two levels of `serial` and `repeat`, 2 modules imported and expunged by a thread each; fair | 921,072 | found commands are in open libraries, only a final function that throws leaks a handle (once for each module), the result is the last command's, lines end |
| `MCEcho` | 2 threads that echo, 1 that reads the log, the functions of `init_echo` and `init_xmlrpc` and one that echoes, any value of `sys_echo_quiet`, 1 host, 2 calls, 1 entry and those of the echoes, 2 times; fair | 228,438 | output is whole, echoes return, the log's orders agree, `LogBook` is implemented |
| `MCRpc` | 3 clients (one used again, one made anew, one inside the command), 2 calls, 2 connections, 2 server threads, messages of 2 pieces; fair | 53,764 | `RpcCall` is implemented, calls return, requests are read |
| `MCXml` | 19 scalars at the edges of their encodings, arrays and structs of 2 items, nested twice | 147,420 | what goes through request and response unchanged, and what does not; remote results and multicalls |

The bounds. Two threads are enough for every race of two calls, and the calls
of these modules hold no state for a third; `MCThreads` has three started
threads because a key has to be taken, given up and taken again. Four
transactions let both threads open an account, one of them with two assets, and
money be paid in between. Suffixes of keys go up to the number of
threads. In `MCThreadsWait` two threads are enough for a circle: both may be
told to start the other's name, and both wait. It always waits: the other branch
of `start_thread` has no join. Times 0 and 1 let a value be older than, as old
as and newer than another; the proofs hold for any bound. In `MCVars` the first
thread sets the local and main and the second thread the global: the first one
passes the global on, so that values travel along chains in both directions.
Started threads are interchangeable, and `MCThreads`, which checks invariants
only, uses that symmetry. Three orders at two prices let two orders share a
level, a level be emptied below another one, and a trade leave a match for the
next round; one volume is enough because every bid is filled by its first
match, whatever the volumes (see the finding). In `MCEcho` an echo to both
functions and one more call overlap, with a registration in between, and
a queue is made while another is read. In `MCRpc` two pieces
let every message be cut between header and body and within a transfer; two
calls let one client find what is left of its earlier call, a call run inside
another, and two clients share the server; the second connection is for the
retry, or for the other client, and descriptors run out in between. With three
connections (144,593 states) everything holds as well. In `MCXml` base64 of 2, 3 and 55
bytes has every padding and more than one line, and doubles of 254 and 255
digits, or 254 and a sign, lie on both sides of the end of their buffer.

`CHECK_DEADLOCK` is off where the system may stop: `Threads` (the process ends
by a crash or by returning from `main()`), `Market`, `Commands`, `Echo` and
`Rpc` (clients that have made their calls), `Xml` (the call is over). That
nothing else stops them is what `WaitingEnds`, `ExitEnds`, `AddReturns`,
`LinesEnd`, `EchoReturns`, `CallsReturn` and `RequestsAreRead` say.

**Fairness.** Nobody has to make a call: starting a thread, placing an order,
importing a module, executing a line, interrupting and leaving are never fair.
What has been begun goes on, because the operating system schedules every
thread and the mutexes are held for a few steps:

- `Threads`: weak fairness of what each thread does without being asked
  (`Proceed`), of the end of each command (`EndCommand`) and of the exit once it
  has begun (`Shutdown`). That commands end is an assumption; a server that
  never returns is ended by its interruption.
- `Market`: weak fairness of each client inside `add_order` (`AddStep`), and of
  each one that holds the market's lock (`CancelCloses`, `RemoveCloses`).
- `Commands`: weak fairness of the thread that executes a line; the threads
  that import and expunge may stop anywhere.
- `Echo`: strong fairness of each thread that echoes, since it waits for a
  mutex that others take and release; boost's mutexes do not starve a waiter.
- `Rpc`: weak fairness of each client and of the server thread's loop; strong
  fairness of the handling of each connection, because `work()` passes over
  every source in each round, whatever the others do in between. A command ends
  (`CommandEnds`). No fairness of accepting more calls, of interruptions, of
  crashes or of starting the server again.

An end of the process counts as an end in these properties: the crashes are
those under "Known divergences".

## What the assumptions exclude

Each assumption of a run or a theorem stands for a use of the code in which the
property is false. They were confirmed with the same models, by giving the
constants the values that the assumption rules out:

- *Amounts that are not negative* (in `NonNegative`; the amounts of `MCAccounts`).
  A negative amount takes from an account nobody checks (`accounts.cpp:195`).
- *Registrations of their own* (`OwnRegistrations`). Two `set_asset_id` calls
  with one id and different names both pass the check (`assets.cpp:219`), and
  with the id -1, the answer for "unknown" (`assets.cpp:237`), one thread alone
  registers two names under one id: `PairsMatch` fails. Lookups are not
  restricted: one that races a removal inserts the name under id 0
  (`assets.cpp:241`), or the id under the empty name (`252`), and `PairsMatch`
  excepts these two. A copy of the map without the lock (`assets.cpp:318`) has no
  outcome that a model could enumerate.
- *One starter* (`OneStarter`). Two threads that start one name choose the same
  unused key, and the second interrupts the thread of the first
  (`threads.h:150`); two that wait for one namesake both go on when it is over.
  `UndisturbedUntilExit` and `KeyIsFree` fail.
- *Registered before it runs* (in `ResultsReachCaller`). A thread that starts
  first is "unknown" to `thread_signals` (`threads.h:118`): its caller's
  variables are copied to, and its results from, the map of "unknown". It also
  stays in the map of threads when it ends before it is entered there.
- *Names of their own* (`OwnNames`). A map is never removed
  (`vars.cpp:140`), and a later thread of the name finds what the earlier one
  left in it, its locals too.
- *No unset in the caller, no threads of the thread's own* (in
  `ResultsReachCaller`). After an unset an older value is newer than none, and
  what a thread's own threads copy to it after its end stays there.
- *One manager* (`OneManager`; `MCCommands` has a module for each thread). Two
  imports of one module both pass the check (`modules.cpp:194`), the second
  entry replaces the first, and the library stays open for ever after one
  expunge; of two expunges (`modules.cpp:311`) one calls the final function of
  an entry that `operator[]` has just made, which is empty.
- *Nothing removed, nothing thrown* (in `HeadsDoNotCross`). A removal does not
  resolve the book, and an `add_order` that a failing transaction leaves does
  not finish resolving it.
- *Not scanned while it changes* (in `BestHeadsMatched`). A scan that is torn
  may match any order, or none, or end the process.
- *No function that echoes, no exception* (in `EchoReturns`). A function that
  echoes under the mutex waits for its own thread, and an exception of a function
  ends the process; both are ends the property accepts.
- *Of an open order at a head* (in `HeadsDoNotCross`). An order behind a closed
  one is not seen (`MCMarketCrossing`).
- *Values as the text carries them* (`Transparent`). `RoundTrip` says exactly
  which values come back as they were; the others are listed below.

## The proofs

TLAPS checks each of these for any constants that satisfy the modules' ASSUMEs.

- `AccountsProofs`: `TypeCorrect`. `NonNegative`: with non-negative amounts no
  balance is negative, whatever calls race; the invariant is inductive by
  itself. `Implementation`, without any assumption: every step is one of the
  ledger or a stutter, `InitWrite` being an `Open` and `ExecTransaction` a
  `Post`. It rests on `LedgerInv`: an account that is not open holds nothing
  (`Unopened`), an account some thread is about to write is not open unless its
  id is shared (`Claims`), and every recorded id is below `next_id`
  (`IdsDrawn`). Without the first, an `InitWrite` that copied one of two assets
  would not open an empty account; without the last, a new record might reuse
  an old id.
- `AssetsProofs`: `TypeCorrect`. `Paired` assumes `OwnRegistrations` and rests on
  `RegistryInv`: besides the pairs, each call has the arguments it was given
  (`CallOK`), and what a thread that registers or removes has found out of its
  own name and id is still so when it writes (`Learnt`), whatever the lookups
  of the others insert meanwhile. Of lookups nothing is assumed: a stale answer
  may insert a name under id 0, which is why the pairs except it.
- `ThreadsProofs`: `TypeCorrect`. `Undisturbed`, `KeyFree` and `Listed` assume
  `OneStarter`: only main calls `start_thread`, waiting or not, and nobody
  calls `interrupt`. They rest on `Quiet`: until main leaves, a living thread
  that is interrupted is the one main joins, the key main has chosen leads to
  no living thread until it is written, a thread erases an entry that is its
  own, and a thread that runs is in the map or about to be entered. None of
  them is inductive alone: that main's `Evict` interrupts no one needs the free
  key, the free key after a `Join` needs that the peer main joins is the one
  under that key, and `Listed` needs both that a thread which erases its entry
  does not erase another's, and that `Put` overwrites no living thread's.
- `ThreadsProofs` also has, under the same assumption, `OnlyWaitsCrash`: before
  main leaves nothing ends the process but two of the divergences below, and
  both need a `start_thread` that waits. It rests on `Quiet` and on `Evictable`:
  the entry main is about to overwrite does not vanish, because its thread is
  over and the others erase their own.
- `VarsProofs`, for any finite set of threads: `TypeCorrect`; `Private` (locals
  are never shared); `Forward` (times never go back); `Results` (under
  `OwnNames`, results reach the caller). `Private` is inductive with the type,
  but needs that a new cell is one no map refers to, which is a pigeonhole
  argument over the keys (`NewCellIsNew`). `Forward` needs that no entry is
  newer than the clock (`Past`). `Results` needs `Lives`: a thread is
  registered at most once, and not any more when it has ended, so that nobody
  writes under its name, and only threads that unset are about to erase.
- `ModulesProofs`: `TypeCorrect` for `Modules`; `CommandsAreModules`, that a
  behaviour of `Commands` is one of `Modules`, so that what is proved of the
  modules holds while lines are executed; `MappedWhileManaged` and
  `HandlesMatch`, which assume `OneManager` and count the handles that final
  functions left open by an exception (`lost`). They rest on `ModulesInv`: what the
  map and the linker have of a thread's module at each of its program points
  (`Working`), and that a command of a module is one of its own and the module
  in the map, or about to be finalised (`Commanded`). Neither property is
  inductive alone: that `Close` leaves no command of its library behind needs
  that the entry has been erased and the final function run, by the thread that
  closes it and no other.
- The same invariant, and `OneManager`, give two more: `OnlyStaleCallsCrash`, that
  nothing ends the process but the call of a command whose module has been
  expunged since it was looked up, and a final function that throws at the exit
  (no init or final function is run of a library that is closed), and
  `ExitClosesAll`, that after the exit no library is open but those that are
  lost, and no command of another module is left in the map.
- `ModulesProofs` also has the interpreter of `Commands`, for any lines:
  `CommandsTypeCorrect`, and `NothingStale`, that what a line leaves in `_` was
  put there by one of its own calls, or is nothing. Both rest on `CommandsInv`: a call of
  `exec()` that has found its command has a time that is past and positive, and
  `_` holds what it held before the line only as long as its own time is 0, so
  that the test at the end of any call sees it as older.
- `ResultOfLast` is the whole of it: a line that is executed to its end leaves
  the value of its last command, or nothing if `_` held that already, for any
  lines, any nesting of `serial` and `repeat`, any value of `_` before the line
  and any `Value` that satisfies the equations of `LineResults`. It rests
  on `ResultInv`. Each frame of the stack owes a value (`Owed`): that of what is
  left of its phrase, given what `_` will hold when the call above it returns;
  `Linked` says that there is one sequence of such values from the top of the
  stack down to the line's own, which is what a recursive definition would say.
  `Linked` also orders the look-ups as the calls, so that no caller takes what the
  inner call has left for something older than itself and resets it. And a command that is about to be called was looked up after `_` was
  last set (`CalledRight`), so that `Reset` empties what a command without a result
  finds there. That a module's command leaves what it should needs that the
  commands of a module are its own (`OwnCommands`).
- `EchoProofs`: `TypeCorrect`, `TimesFollow`, `LogBookImplemented`, `LogsComplete`
  and `Whole`, without assumptions of their own. `LogBookImplemented` shows each
  step of the log, and of whatever is logged by `Echo`, to be a `Write`, a step of
  a question or a stutter. That an answer is complete, which `LogsComplete` says
  without the book, rests on `Collecting`: what was logged before the call is in
  the result, or its queue is still to be read; a queue made later cannot hold
  any of it, because the serial numbers of new entries are no smaller than the
  number of entries at the call (`Numbered`). `Whole` rests on `Excluded` and
  `Halves`: whoever is in a function holds the lock, and the piece it has written
  is the last one.
- `MarketProofs`: all five safety properties of `Market`, for any finite set of
  clients (`ClientsAssumption`: the legs of the trades under way are counted)
  and any number of orders; `OpenedAssumption` says that the market's own
  account is not one that trades. `TypeCorrect` and `LifeImplemented` rest on
  `Inv`: ids are given out upwards (`InOrder`); an order that waits to be entered
  is in the hands of one client, open and out of the book, one that has left
  the book is closed, and whoever closes an order has one that is known
  (`LifeRight`); and no two clients close under the market's lock (`LockRight`).
  Without them a removal could name an order that does not exist, and an order
  could be out of the book for no reason that `OrderLife` knows. That a write
  which follows its look late, after another client has closed or removed the
  order, changes nothing of its life is the case `LifeCloses`. `BestMatched`
  rests on `ScansRight`: behind the position of a scan that is not torn no open
  order heads a level. It is kept because open heads only get fewer unless an
  order enters or leaves the book, and that tears the scans. `NoCrossing` needs
  both and `CrossingWatched`: while no call failed and nothing was removed, a
  crossing has a client that will resolve the book again, is at a match or has a
  good scan. `TradesWhole` rests on `LegsCounted`, that the first transactions of
  a bid are its k-th ones and the trades on their way to it, and on
  `BidsInvariance`: a bid holds all of its volume from the start, so the amounts
  are zero and only an account can fail. `BidsInvariance` is also the finding of
  `MCMarketVolume` for every value of the constants.
- `RpcProofs`, for any clients, any length of messages and any bounds:
  `TypeCorrect`, `CallImplemented` and what a caller sees of it, `AnswersAreOwn`.
  They rest on `Inv`, in three parts. `Wires`: a connection carries pieces of one
  call (`Sound`) and has one owner at most, and what the owner has written and
  read adds up with what is under way and with what the server has read and
  written (`Writes`, `Reads`). Without it a client might read pieces of an answer
  to another call. `Callers`: a client has a call to itself as long as it works
  on it, and calls are issued in order. `Spent`: an answer is only where its call
  was executed, and the number of times a call was executed, the connections
  where its request may still be executed (`Due`) and those its client may yet
  use for it (`Spare`) are two together at the most. `runs[k] <= 2` alone says
  nothing of requests that outlive their clients, which a crash or the end time
  leaves on a connection for the server to find. Server actions are shown to be
  of one kind, `Eases` (nothing becomes due, no answer appears, the owner's sum
  still holds), but for the reading of a request's last piece, which moves one
  from `Due` to `runs`; client actions touch only the connection they own
  (`Tends`).

The type invariants of `Assets`, `Threads` and `Vars` are proved and not
checked again by a run.

Only model-checked: the liveness properties (`WaitingEnds`, `ExitEnds`,
`AddReturns`, `LinesEnd`, `EchoReturns`, `CallsReturn`, `RequestsAreRead`),
because the prover has no rule for fairness; and the properties of `Xml`, whose
encodings are recursive operators, which the prover cannot use. Every other
property of a passing run is the statement of a theorem. That the equations of
`LineResults` have a solution for every set of lines is not proved either: it
needs a recursion over the words of a line, which `MCCommands` gives for its
lines.

## Known divergences

What the models showed the code to do that its own words, or what its callers
seem to expect, do not say. The first two are the findings of `MCMarketVolume` and `MCMarketCrossing`.

- *Trades move nothing.* Every order starts with all of its volume available
  (`orderbook.cpp:688`), a bid too, although lines 128 and 129 say "buys are
  buying, so this tends towards _volume for bid orders". What a bid may still
  buy is then 0: it is closed as filled, the transactions move 0, and
  `trade_executed` is emitted.
- *Orders behind a closed one are not matched.* "resolve orderbook - after every
  change to orderbook, check if any buys match sells" (`orderbook.cpp:837`), but
  the engine looks at the oldest order of each price only (`525`, `556`): while
  that is closed and not yet removed, open orders behind it are passed over.
- *An order may be closed twice.* `close()` looks and writes under two locks
  (`orderbook.cpp:713`, `716`): overlapping engines and cancellations each close
  the order, and signal its trade, and the last one's time is its close time.
- *The engine stops at an empty level.* A level whose last order was removed
  stays in its map; the search for a head steps over it and then asks the null
  pointer it has found there whether it is closed (`orderbook.cpp:538`, `568`).
  The engine also goes through the maps while other calls change them.
- *A transaction may be negative.* "do not support negative balances"
  (`accounts.cpp:198`) looks at the payer only: a negative amount takes from the
  payee whatever it has. `Accounts` checks and proves `NonNegativeBalances` for
  the other amounts.
- *An account may be initialised twice.* Two `init_account` calls for one id
  both pass `has_account` (`accounts.cpp:226`), and the second empties an account
  that may have been paid into since; two ids drawn in one second are equal
  (`280`). `Ledger` says so of the ids that are shared.
- *`balance` writes.* It inserts an entry for any asset that has none with
  `operator[]`, under a shared lock (`accounts.cpp:258`): two readers may change
  one map at once. The model has the entries such a race leaves or loses, not a
  map it destroys.
- *Two names under one id.* "There is already an asset with id"
  (`assets.cpp:220`) is looked up before the lock is taken for the write.
- *A thread that ends in between.* `start_thread` uses `threads(key)` without a
  test after `has_thread(key)` (`threads.h:143`–`146`): the pointer is null
  when the thread has ended meanwhile, and the dereference ends the process.
- *Interruptions in destructors.* "Interrupts a running thread."
  (`threads.cpp:311`): an interruption requested as the command ends is
  delivered by a call in a destructor (`threads.cpp:617`, `629`), and a
  destructor that throws ends the process.
- *The exit does not wait for all.* "wait for all threads to finish before
  quitting the process" (`threads.h:154`): the map is emptied before, and a
  thread that was not entered in it by then is not waited for (`app.cpp:83`).
- *Information that comes back.* `~thread_info` writes the information and the
  progress of a thread back after `remove_thread` has erased them
  (`threads.cpp:617`): both maps keep entries of threads that are over.
- *Copied variables share their data.* "each thread has its own variable_map"
  (`vars.h:98`) and "do a deep copy" (`vars.cpp:162`), but the copy constructor
  copies the `shared_ptr` to the data (`vars.h:35`): a set in one thread shows
  in the other, with the old time.
- *An unset variable is there again.* The log's slot for `var_changed` reads the
  variable with `get_var` (`log.cpp:212`), which inserts it (`vars.cpp:331`).
  The format of the message of `get_var_mod_time` is malformed (`"%1:"`,
  `vars.cpp:479`), so that something else than a `vars_error` is thrown.
- *`expand_vars` swallows interruptions* with its `catch(...)`
  (`vars.cpp:461`).
- *A result that is set twice is none.* "If the return value was not modified in
  the last command, reset it" (`commands.cpp:399`), but `set_var` returns early
  when the value is the one that is there (`vars.cpp:351`–`353`), and its time
  does not move: after `repeat 2 version` the variable `_` is empty. In a thread
  whose map has no `_` yet, a command that sets none ends in an exception of
  `get_var_mod_time` (`commands.cpp:400`, `vars.cpp:478`).
- *A module whose final function throws* has lost its entry and keeps its
  library open (`modules.cpp:318`–`325`); at the exit the exception leaves a
  function of `atexit` (`66`), which ends the process.
- *A module whose init function throws* stays in the map as if it had been
  imported (`modules.cpp:287`), and a command that was looked up before its
  module was expunged is called after (`commands.cpp:396`).
- *Echo functions and their mutex.* It is held while a function runs
  (`echo.cpp:175`–`177`) and is not recursive, so a function that echoes waits for
  itself, and everybody for it. What a function throws, for a `sys_echo_quiet`
  that is no boolean (`187`) or a port that is no number (`xmlrpc.cpp:352`),
  keeps the next functions from being called and leaves the destructor of `out`
  (`198`–`204`), which ends the process.
- *The log.* "fall between [begin, end)" (`log.h:40`), but an entry at `end` is
  returned (`log.cpp:399`, `upper_bound`). `final_log` removes `get_log_queues`
  (`log.cpp:333`), which is no command: `log_queues` (`306`) and `get_log` stay.
- *A server that ends by an exception keeps its port.* `shutdown()` says "This
  closes and destroys all connections as well as closing this socket"
  (`XmlRpcServer.cpp:220`), but `work()` was left by the exception while
  `_inWork` was set, and `clear()` then only asks a loop that runs no more.
- *A source removed twice.* A handler that closes its own source removes its
  node from the list, which the event loop erases again
  (`XmlRpcDispatch.cpp:161`): the client does so when its retry cannot connect.
- *`exec_remote` reports a failed call as a success* with an empty result, and
  throws an `XmlRpcException` when the server answers with a fault
  (`mkt/xmlrpc.cpp:320`–`323`). The destructors of client and server close
  nothing, so each remote command leaks a descriptor.
- *One bad name fails a whole multicall.* The name of a method is converted to a
  string outside the `try` (`XmlRpcServerConnection.cpp:319`): if it is none, the
  answer is a fault, and the calls after it are not executed. A
  `system.multicall` inside another is given the outer parameters (`326`) and
  never ends.
- *Values that the text does not carry.* `tm_year` is written as it is, so the
  years of the C library come back wrong (`XmlRpcValue.cpp:429`); doubles have
  six decimals and are cut off at the 254th character of their text, which makes
  1e300 about 1e253 (`369`–`371`); member names are encoded and not decoded; a value that cannot be
  read leaves the rest of its array or of the parameters unread.

## Not modelled

- The syncer (`xmlrpc.cpp:29`–`143`): every change of a variable starts a thread
  that sets it on each host. It composes `Threads`, `Vars` and `Rpc`; sets may
  arrive in another order than they were made, and two hosts that name each
  other answer each change with one of their own.
- `expand_vars` and `split`, which work on the text of one string.
- The maps of the threads' information and progress, and the assignment of a
  whole map of threads.
- The market's queries and the setters of its fees (the fees are the defaults);
  the queries of the transaction history. They change no state.
- The comparison and the printing of `XmlRpcValue`; a `system.multicall` inside
  another, or one that runs commands; `SIGPIPE`; the splitting of a joined
  command line at its blanks by `mkt_exec`.
- Rounding: balances, costs and volumes are integers in the models, doubles in
  the code.
- The helpers of `utils.cpp`, the prompt of the main program, and the vendored
  line editor for Windows consoles.

## What is left

The syncer over `Rpc` and `Vars`, then the information and progress maps of
`Threads`.
