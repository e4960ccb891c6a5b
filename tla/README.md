# TLA+ models of the game server: event loop, persistence, trade and exchange

The repository is a game server in C++: one ENet main loop (`src/NopySource.cpp`) and
some 116 000 lines of handlers in headers (`src/NopySource/`). Nearly all of those lines
are content: dialogs, item behaviour, prices, messages. What can go wrong in ways a test
hardly reaches is the part underneath: how players and worlds get from memory to the
disk, by several threads, while players come and go, how connections and events are turned
into sessions, and how items pass between players.
This project models that part, model-checks it with TLC and proves the central facts with TLAPS.

`W` below is `src/NopySource/Handle/WorldInfo.h`, `N` is `src/NopySource.cpp`, `D` is
`src/NopySource/Dialog/dialog_return.h`, `C` is `src/NopySource/Commands/Commands.h`.

## The system: components, state, operations, interactions

| Component | State | Operations | Talks to |
|---|---|---|---|
| Main event loop (N 2743-3031) | `events_processed`, peer slots, `peer->data` | CONNECT, RECEIVE, DISCONNECT in batches of at most 100, exceptions, tick of `Looping::Worlds` every 100 ms | all handlers by calls; `g_world_loop_mutex` around DISCONNECT, a packet-limit kick's `delete` and the tick only; ENet; `gameTimerThread` (N 2483-2567) |
| ENet (`src/enet_new`) | a state and a queue of packets per slot | connect, receive, disconnect, timeout, `enet_peer_reset` | gives events to the main loop, keeps `peer->data` whatever happens |
| Rate limits (N 2442-2474, 2844-2867, 2922-2962, D 12000-12012) | a count and a time per IP or Player | `LoginAttempt`, limits on text, game packets, unknown packets and private messages | the main loop |
| Exchange (W 6589-6901, D 9600-9924, C 1392-1420) | `g_exchNew`, `g_exchNewState` per `ENetPeer*`, one file | page, take, edit, add, delete, expiry, load and save | inventories, dialogs |
| `AsyncWriter` (W 72-140) | queue of (path, content), `running_`, mutex, condition variable, worker thread | `Push`, `Worker`, destructor | everybody who saves with "async"; the files |
| Disconnect save threads (N 2681-2712, BaseServer.h 149-158) | two global queues, one per kind of file | swap the queue out every 200 ms, write each entry | DISCONNECT and `exit_` push; the files |
| `SaveDatabase::All` (W 9995-10075) | none between rounds | once a minute: list players and worlds under the mutex, then each one again under the mutex, then write its file without it | peers, `worlds`, the files |
| Sessions and login (N 2758-2902, W 25382-26253, 26430-26900, D 21446, 27718, 33971-34065) | a `Player` per peer slot | `PlayerLogin`, `Player_Authentication`, registration, dialogs that change a session's name or password, kicks, `Peer_Reset`, the console | player files, all three writers |
| Worlds (W 1670-1740, 2333-2524, 2985-3139) | `worlds` (vector), `worlds_idx` (name to position), `fresh_world` per world | `find_world`, `create_world`, `get_world`, `save_world` | `join_world`, `exit_`, `memory_clean_world`, every handler that changes a world, `All` |
| Change of Address (W 19256-19413) | none between calls | `create_address_world`: exchanges two worlds' names by renaming files | the world vector, both queues, the files |
| Shutdown (W 10325-10406) | `g_server_running` | `Trigger` (exit), `CrashHandler` (_exit) | saves through `AsyncWriter` |
| Trade (Action.h 428-565, 1786-1830; W 10609, 23889-24225; dialog_return.h 33235-33455) | `trading_with`, offers and accept flags in both Players | start, change, accept, confirm, cancel | inventories of two players |
| Inventory (W 5609-5816) | `Player::inv`: kinds and counts, at most 200 each, in a limited number of slots | `Modify`, `Contains`, `Get_Slots` | nearly every handler |
| Rewards, guilds, game generator, jobs | fields of Player, or a vector of their own | see PROJECT.json | player files |

**What is hard.** A RECEIVE handler runs without any lock, so `All`, which holds
`g_world_loop_mutex`, interleaves with a login or with a handler that is changing a
world. Three threads write the same files with streams of their own. ENet reuses a slot
as soon as its DISCONNECT has been fetched, whether or not the loop handles it. Dialogs name
what they are about by position in lists that change. A session can end in many ways (client
leaves, packet limit, `Peer_Reset`, a second login, a refused login, the dialogs `DoLogin`,
`Logout_MyAcc` and `verify_2fa`, the console's `maintenance` and `kickall`, a DISCONNECT that is
lost) and each saves differently, or not at all. `exit()` and `_exit()` treat queued saves differently. A
world is kept in a vector whose erasures shift the positions that an index and raw
`World*` pointers rely on. `PROJECT.json` lists these as hazards, each at its line, with
the properties aimed at it.

**What makes each part correct.**
- `AsyncWriter`: saves of one file are written in the order of `Push`; the destructor
  returns only with an empty queue; nobody sleeps for ever.
- Sessions: a change made to a player is saved when the session ends, one account's data does
  not get into another's file, an account has one session. The code has ways around each of the
  three; the properties name them and say that there is no other.
- Worlds: an occupied world is loaded; a change is in a marked world, under way or on
  disk; a handler's pointer stays that of its world; worlds are not mixed up.
- Shutdown: what the final save loop pushed is written.
- Event loop: a connection is played with its own Player, a Player that is no longer used is
  deleted and never read afterwards, and the tick comes again and again.
- Rate limits: nobody is refused for messages that lie apart, and a client that sends at the
  edges of windows does not get arbitrarily much through.
- Exchange: a restart brings back the list, a button gives what it showed.
- Trade: no item is made or lost, and the deal executed is the one both players confirmed. A count
  below zero in an offer breaks the first.

## Modules

| Module | Models | State and actions against the code |
|---|---|---|
| `WriteBehind` | abstract specification of `AsyncWriter` | tasks are accepted, taken one at a time in order, written; stopping needs an empty queue |
| `AsyncWriter` | W 72-140 | `mutex`, `queue`, `running`, the worker's program counter; one action per atomic step of `Push`, of `Worker` (both loop reads outside the lock, wait, wake-up, pop, open, write) and of the destructor; spurious wake-ups; files that do not open |
| `SaveThreads` | the writers as players and worlds share them | `aq` (AsyncWriter at WriteBehind's grain), `dq`/`snap` (disconnect queue and local copy), `job`/`opened`/`clash` (a stream per writer), `file`; opening truncates, closing writes, two streams on one file may leave a mixture, whose changes `torn` (history) keeps |
| `PlayerStore` | sessions, login, player files, shutdown | `state[p]` ENet state, `player[p]` = `peer->data`, `login` the PlayerLogin call in progress (name stored, file read, fields loaded: three steps between which `All` may run), `todo`/`apc` the loop of `All`, `proc`/`left` the shutdown; history: `dropped` (changes in a Player that the code gives up), `strayed` (changes in a Player that DoLogin renamed), `revived` (connections whose CONNECT was lost) |
| `WorldStore` | world vector, index, world files | `worlds` a sequence, `worlds_idx`, `world[p]`, `edit` the handler between its `fresh_world = true` and its change, `sweep` the position of the loop of SAVE_WORLD (one `save_world` per `SaveNext`), the loop of `All`; `Nameless` peers, whom `PlayerCountWorld` does not count; history: `unmarked` (changes made while `fresh_world` was clear, and not marked since) |
| `WorldSwap` | `create_address_world`, on top of `WorldStore` | one action per numbered step of its comments, the writers running in between |
| `Trade` | player trades and the backpack | `t[p]` the trade fields of Player (`with`, `accept`, `final`, `block` are `trading_with`, `trade_accept`, `accept_the_offer`, `block_trade`), `dialog[p]` the confirmation the client shows, `inv`, `ground`, `netID`, `inside`; history: `cleared` (drops the world has cleared away), `exact` and `odd` (executed deals that both confirmed, and with a count below zero); one action per message handler |
| `EventLoop` | main loop, ENet's slots, `gameTimerThread` | `state`, `conn`, `incoming` are ENet's (one action per protocol event), `data` is `peer->data`, `heap` the allocated Players, `timer` the Player read under the mutex; one action per kind of event and outcome, `Drop` for the event that reaches the limit, `Throw` for a handler that throws, `WorldsTick` |
| `RateLimits` | the four limits | `start` and `count` are the two fields that each limit keeps (`lastPacketTime` is that of unknown packets and of `Send_Message`); `arrived` and `handled` are history |
| `Exchange` | the exchange of W 6589 and its dialogs | `g_exchNew`, `g_exchNewState`, `file`; `dialog[p]` what the client shows (a page of offers by index); `exn_save` in two steps, truncate and write; one action per button |
| `Vectors` | `std::vector` as a sequence | `Keep`, the copying loop of `exn_prune_expired_locked` (W 6626), as a recursive function that lemmas can be proved about |
| `AsyncWriterProofs`, `PlayerStoreProofs`, `WorldStoreProofs`, `EventLoopProofs`, `RateLimitsProofs`, `ExchangeProofs`, `TradeProofs` | theorems | see below |
| `Lemmas` | facts about sequences, `Keep`, folds and sums that several proofs use | |
| `MC*` | constants for TLC | |

**Data.** A Player or a world is the *set of changes* it contains; change `<<a, k>>` is
the k-th made to account (world) `a`. That is enough to see a change dropped, duplicated,
overwritten or put in the wrong file, and leaves out some 700 serialised fields. A file is
such a set, absent (`NoFile`) or one that does not parse (`Torn`: truncated, or mixed).

**Atomicity.** `save_world`, the serialisation in `All` and the DISCONNECT handler run
under `g_world_loop_mutex` and are one step each. Login and world edits hold no lock and
are split where another thread's step can be seen. The main thread is sequential: while
`login`, `edit` or `sweep` is in progress it takes no other event. `Trigger` may run on its own
thread (console input, pipe, signal), so events go on while it saves.

**Externals.** ENet is modelled from the vendored source. `notify_one` and spurious wake-ups of the condition variable are modelled from how the
code uses them.

**Simplifications.**
- All handlers that save a player are `SaveNow`; all that change one are `Edit`. World
  handlers that mark first and change afterwards are `EditBegin`/`EditApply`; the commands
  that change a world and save without marking it are `SilentCommand`.
- `exit_` is modelled for its effect on the world vector, the queue and the player's
  world; its messages and minigame bookkeeping are left out. Mines, whose file it removes
  (W 19078-19087), are not among the worlds; `/copyworld` (C 11692), template worlds and the
  `worlds.clear` of `Trigger` (W 10350) are left out.
- `SaveDatabase::Players` writes 700 fields; only that it does nothing without a name or a
  password, and that it takes the fields as they are at that moment, is kept.
- What a session changes whose name was never checked (a login without a password, W 26824) belongs to no
  account and is not counted; the session itself is there, with its name. A login whose name is in the
  name mapping (W 26629-26646) is one with the name that it maps to.
- The console's thread takes no lock. It acts in the middle of a login in the model; in the
  middle of another handler it would race on ENet's own lists, which no model of Players shows.
- Shutdown is modelled for players. Trigger's world loop calls `save_world(name, false)`
  and has the same fate as its player loop. Trigger acts only when the port is 55000
  (W 10326); CrashHandler ends at once when `crash.txt` does not open (W 10361-10365).
- `EventLoop` keeps of a handler what it does to connections and Players; what it does to
  accounts and worlds is in the stores. `PlayerStore` has the lost CONNECT and DISCONNECT
  events too; `WorldStore` and `Trade` assume that every one is handled. ENet's dispatch queue is any order among the slots that have an event. Three of
  its states (DISCONNECT_LATER, DISCONNECTING, ACKNOWLEDGING_DISCONNECT) are one: none
  delivers packets. A DISCONNECT that throws does so before `delete`.
- `RateLimits` has the traffic of one limit in a behaviour, from one IP or Player: two limits share
  no state with each other. Unknown packets and private messages are one limit, since both read
  and write `lastPacketTime` (N 2955-2957, D 12006-12010). Other IPs exist as far as they clear the counts.
- `Exchange` has one field for the duration, no invalid item ids (a refused one shows the
  same dialog again) and page numbers from a small range. A handler is atomic except for
  its save; the file is assumed to open.
- `WorldSwap` has no overlapping streams: no file is renamed while it is open.
- `Trade` has one world. World keys, guild keys, fish, gems, friends' trade blocks, `infinite_mode`,
  `AutoConvert`, `trash_item` and clothes taken off by `Modify` are left out, and so are items that `Drop`
  turns into others (W 4655-4656) or that a join removes (W 21481-21486). Which drops the world
  clears (older than 60 days, or the first beyond 500; W 1741-1764) is any choice that spares the newest one. An offer is a function from
  items to counts: the order of `trade_items` only matters for display. The real client is
  assumed: it answers the confirmation before it starts another trade, and its trade window
  is open only between `OnStartTrade` and the confirmation; a message of the window may
  have been on its way when the confirmation was sent. A disconnect and the next connection
  are one action: a new Player has no partner and netID 0, so nobody can tell them apart.
  In `trade_accept`, `cancel_trade` clears the vector that the loop is iterating over (Action.h
  544-555); the model takes the loop to end there.

## Runs

| Run | Bounds | What it shows |
|---|---|---|
| `async_writer` | 2 pushing threads, 3 files (one does not open), 3 pushes, destructor at any time, fair | order per file, `JoinDrains`, `JoinReturns`, `PushedIsWritten`, refinement of `WriteBehind` |
| `player_sessions` | 2 slots, 2 accounts (one to be registered), 2 sessions, queues of 1, overlapping streams | a file gets another account's data only by `DoLogin`; one session per account among those that gave the password; no change is lost but by the ways `Forfeited` names (`EditsSafe`) |
| `player_saves` | 1 slot, 1 account, 1 session, 1 round of `All`, overlapping streams, `Trigger` or a signal at any time, fair | a change of an ended session gets to the disk or is one of `Forfeited`; `EditsSafe` beside `All`; what Trigger's loop pushed is written before `exit()` completes (`TriggerSaves`) |
| `world_safe` | 2 slots (one player without a name), 2 worlds, 2 joins, 2 changes each, fair | no change is lost, and a change of an unloaded world gets to the disk |
| `world_save_all` | the same with `All`, a pinned world, overlapping streams and unmarked commands | a handler's `World*` stays that of its world whatever `All` does; no file gets another world's content; what is lost was changed while the mark was clear, or was in a mixed file (`MarkedEditsSafe`) |
| `world_swap` | 2 slots, 2 stored worlds, 3 joins, 1 swap, 2 queued saves | no player is ever in a world that is not loaded, swaps or not |
| `trade` | 2 players with 1 and 2 slots, 2 kinds of items, at most 2 of each, typed counts of -1, 1 and 2, 1 exit, disconnect or executed deal with a count below zero | until such a deal only the clearing of old drops takes an item away; backpacks keep their limits; while both stay in the world the deal executed and delivered is the one both confirmed |
| `exchange` | 1 customer, 1 editor, 2 kinds of items, 1 slot, at most 2 of each, pages of 1, 2 offers, 2 points in time, 1 restart | between handlers a restart brings back exactly the offers that can be taken; the page after adding shows the new offer; a button gives what it showed as long as nothing was removed |
| `event_loop` | 2 slots, 3 connections, batches of 3, 1 exception, fair | `peer->data` is the connection's own Player unless two events were lost; only lost events leak; the timer thread never reads a deleted Player; the tick is not starved |
| `rate_limits` | window of 3, limits of 2 to 4, times up to 10 | a refusal always has enough messages in the time of a window before it; less than twice the limit passes in such a time |
| `world_race` (violation) | 3 joins, 1 round of `All` | `All` clears `fresh_world` between a handler's mark and its change: the change is never saved |
| `world_swap_dupe` (violation) | 1 swap | a save of step 1 is written after the renames: both names end with one content |

**Why the bounds are enough.** Two slots give every pair of sessions of one account; two
connections let a slot be reused by the same or another account. In `player_saves` one session is
enough for its changes to meet all three writers; the kick of one session by another is in
`player_sessions`, and the theorems on `EditsSafe` and `TriggerSaves` have any number of each. Two changes
tell an older save from a newer one. Three joins let a world be loaded, unloaded at a
position below another and loaded again, which is what makes `worlds_idx` stale
(`world_swap` has them; a `find_world` that trusts the index fails there). A queue of two distinguishes keeping one
save from keeping all; where a queue of one is used, several writers hold further saves.
One round of `All` meets every state of one login or edit. Streams of two writers on one
file overlap in `world_save_all` and in all runs of players. With two kinds of
items, a limit of two, typed counts of -1, 1 and 2 (`Typed`) and a full backpack, each test of `trade_space_check` both fails and
holds; one exit and return is enough to leave stale trade fields. One executed deal with a count below zero shows what it does to two backpacks; `MaxRare` bounds the two together. Batches of three contain a
handled event before the dropped one; three connections on two slots let a slot be used
again beside another session, twice for one of them. Pages of one offer make every page full, so that the page after
an addition is always another one than before; with one backpack slot a reward both fits and
does not. The limits of `rate_limits` are smaller than a window holds, and its times cover
three windows: bursts before, at and after an edge. An `int` of 8 values is smaller than
every time there, as 2^32 is smaller than the milliseconds since 1970. `CHECK_DEADLOCK FALSE` is set
for all but trades, exchange and event loop: players need not come, the bounds stop activity, and a process
that has ended takes no step.

**Symmetry** is used for slots in safety runs only.

**Fairness.** Weak fairness of the threads that write what handlers save: they run in loops
whose sleeps are finite and take their locks only briefly. For players nothing is assumed of
`All`. For worlds it is fair too, and opening a file is strongly fair, where the model (with
`Overlap` FALSE) makes a stream wait for another: the system has no such wait. For players, strong fairness of the DISCONNECT event of a peer that is leaving, being
served or lost: ENet delivers it at the latest by its timeout, and the loop fetches it; nothing
is assumed about which of the two happens (the model's bound on the queue may disable serving in
between). For worlds every DISCONNECT is served. A login, a handler that changes a world and the loop of SAVE_WORLD, once
begun, go on (weak fairness): each is a call on the running main thread. Nobody is assumed to connect, log in, play or stop the server. In
`AsyncWriter` the worker, a pusher inside `Push` and the started destructor are fair:
running threads and fair locks. In `EventLoop` the main thread is strongly fair: it is
disabled only while the timer thread holds the mutex, which it does for about a
millisecond every 100 ms, so whoever waits for the mutex gets it; the timer thread's unlocking is weakly fair.
Exceptions are bounded: a handler that throws at every iteration would starve the tick.

**World safety without All.** `WorldEditsSafe` holds when `All` takes no round and no
unmarked command runs (`world_safe`); with a round of `All` it fails (`world_race`). The
two runs together locate the cause: the missing lock around edits. `MarkedEditsSafe`
(`world_save_all`, and the theorem) needs neither condition: it says that the clear mark at the time of the
change, or a mixed file, is behind every loss.

**What a player can lose.** `Forfeited` is the list: `dropped`, the changes of a session that
logs out, is thrown out by `kickall`, whose DISCONNECT is lost or whose file throws while it is loaded
into a Player that is then given up; `strayed`, those of a Player that `DoLogin` renamed; `torn`, those
in a save that was mixed with another in the file. `EditsSafe` and `EndedSessionIsSaved` are about all others.
Changes that have been on disk count as safe: an older save may overwrite a newer one.

**Counts below zero.** `trade_item` (D 33241) asks only that the count is at most what the player
has. A count below zero is executed like any other: the first `Modify` adds to the backpack of
the one who offers, the second, which takes from the other, may fail and is not looked at (D
33319). `Conserved` therefore holds until such a deal is executed; TLC shows the item made when
`odd = 0` is left out of it. `TypeOK` and `ConfirmedInWorld` hold with these counts: the
limits of backpacks are `Modify`'s, and both players see the count in the dialog.

**Confirmed deals.** `ConfirmedInWorld` holds for two players who stay in the world; both
limits are in its statement because the code needs them. When one leaves, `exit_` (W 19143)
cancels nothing: both keep `trading_with`, `accept_the_offer` and their offers, and
`mod_trade`, which no longer finds the partner, changes an offer without looking at
`block_trade` (W 24137-24173). When the player is back under the same netID, the second confirmation
executes the changed deal. TLC shows it when `moves = 0` is left out of the property.
With a third player the same happens without leaving, since `/trade` changes
`trading_with` and keeps the other fields.

## Behaviours seen while modelling, without a run of their own

- A second login parses the file (W 25535) before it tells the first session to
  disconnect (W 25545); the first session's last changes are saved later, so the new
  session plays on older data and its own save overwrites them. Found by asking that a
  logged-in Player contains every change of its account.
- Registration checks `_access_s` (W 26550) while an earlier registration of the name may
  still be in `AsyncWriter`'s queue: the second replaces the first.
- `SETMUSIC` and similar commands (Commands.h 7718-7811) call `save_world(name, false)`
  without setting `fresh_world`; it returns without saving (W 2997). `WorldEditsSafe`
  fails when `Silent` is TRUE.
- `create_address_world` drains the disconnect queue (W 19277) but not what the thread has
  already swapped out.
- A world file that does not parse makes `get_world` push the world twice (W 2357, 2517);
  the second copy stays marked after `save_world`.
- `PlayerLogin` stores name and password in the Player (W 26789) before
  `Player_Authentication` loads it, without the mutex; `All` may serialise it in between and
  write a blank player file, although N 2989-2990 says the mutex is there "to prevent
  concurrent access to peer->data". Seen by asking that no registered account's file is ever blank.
- `DoLogin` (D 33971-34031) puts the name and password of an account whose password was given on the present
  Player and disconnects: DISCONNECT saves this Player's data in that account's file.
  Seen by asking that no file holds another account's data; `OwnEditsOnly` has the exception.
- `Logout_MyAcc` (D 21446-21450) and the fifth wrong code of `verify_2fa` (D 34059-34063) clear name and password
  first, so that DISCONNECT saves nothing; `kickall` (W 25458-25463) resets the peer and leaves no event
  to save at. Seen by asking `EditsSafe` without `dropped`.
- A login with a name and an empty password skips `Player_Authentication` (W 26824) and is accepted with the
  name (W 26898). Its Player is not saved, having no password, until `Change_Password` (D 27718) gives it
  one; then a blank Player is saved under the name. Two connections may show one name that way:
  `OneSession` is about those that gave the password.
- A private message sets `lastPacketTime`: a single unknown packet within five seconds of it ends the session
  (N 2955-2957). Seen by asking `KickIsSpam` for two unknown packets.
- `CrashHandler`, to "Save players, worlds, and honors data" (W 10385), pushes to `AsyncWriter`
  and ends with `_exit` (W 10405), which runs no destructor: queued saves are lost. Seen by
  asking `TriggerSaves` for this end too; `player_saves` includes it.
- The main loop fetches the event that reaches the batch limit and drops it (N 2748-2751). A
  dropped DISCONNECT leaves the Player unsaved and allocated until nobody can find it; a
  dropped CONNECT leaves a connection without a Player, whose packets are all ignored, or, if
  the slot's last DISCONNECT was lost too, with the Player of the one before. The
  exchange's editor state is kept per `ENetPeer*` and passes to the next player of a slot;
  harvest jobs (W 7099) are kept so too, and do when a slot is used again within a batch.
- The limit on text messages never applies: `lastActionSent` is an `int`
  (PlayerInfo.h 930) and gets the milliseconds since 1970 plus 1000 (N 2845); what is left of
  them is below the present time (N 2847), so each message resets the count. Seen by asking
  `HandledBound` for text messages as well.
- The login limit counts for 60 seconds (N 2464) and tells the player to wait 5 (N 2471). In the
  limit on game packets `todc = 15` is never effective, being below 50 (N 2922-2931).
- The exchange takes the price first (W 6897); when the reward does not fit (W 6899), the
  player gets "Exchange failed" and the price is gone. A button pressed after an offer has
  been deleted or has expired takes, or for an editor deletes, the one that moved to its
  index; `FreshDeal` says when that cannot happen.
- A process that ends between the truncation and the write of the exchange file (W 6683-6685)
  comes back with no offers; `OffersOnDisk` is about the time between handlers.
- DISCONNECT clears the player's world (N 2796) before `cancel_trade` (N 2797) looks for
  the partner in it: the partner keeps `trading_with`, and is "busy" for everybody whose
  netID differs until it cancels.

## Proofs

For every value of the constants (any threads, files, slots, accounts, bounds).

**`AsyncWriterProofs`.** `IndInv` = `TypeOK` and
- `TaskInv`: the worker holds a task exactly while it opens or writes it;
- `ControlInv`: who holds the mutex agrees with the program counters, a worker that has
  left its loop found the queue empty after `running` had become FALSE, and nothing is
  pushed after that which the destructor would promise to write;
- `OrderInv`: for each file, the last task for it among the worker's and the queue's is the
  last one pushed, and with no such task the file holds it.

`LastPushWins` and `JoinDrains` are not inductive: the first needs the order of the whole
queue, the second the moment at which the worker looked at it. Results: `TypeCorrect`,
`LastPushWinsCorrect`, `JoinDrainsCorrect`, and `Refinement` (safety part of
`WriteBehind`; every step maps to a step of it or to a stutter).

**`PlayerStoreProofs`.** `IndInv` = `TypeOK` and
- `StreamInv`: an open stream has a job;
- `LoginInv`: a login in progress belongs to a named Player in phase "loading" with a password
  and nothing loaded (its slot may have been reset by the console meanwhile), and what it read is
  the account's own;
- `AloneInv`: between reading the file and loading it, no other connected Player has the name;
- `PlayersInv`, `SavesInv`: every Player that will be saved, and every queued or held save, carries
  changes of its own name, or ones that `DoLogin` has put there (`strayed`); a Player that will
  not be saved carries only what is given up (`dropped`);
- `OneSession` itself.

`OwnEditsOnly` needs the data followed from file to login to Player to queue to stream;
`OneSession` needs `AloneInv` for the gap between the kick and the load. Results:
`TypeCorrect`, `OwnEditsOnlyCorrect`, `OneSessionCorrect`. Assumption: `PSAssumption`
(the bounds are naturals, the "no value" constants are none of the values).

Two more invariants are about what is lost. `SafetyInv`, on top of `IndInv`, is
- `MadeSafe`: a change is in a connected Player, on its way (queue, copy or stream), has been
  on disk, or is forfeited: the invariant that `EditsSafe` is read off from;
- `IdleInv`: the Player of a free slot, or of a connection that is not logged in, has nothing to
  lose, so a reset or a refused login, which saves nothing, loses nothing;
- `SnapInv`: the disconnect thread swaps its queue only when its copy is empty, so a swap
  overwrites nothing;
- `DueInv`: what the last loop of `Trigger` pushed is with `AsyncWriter`, written or mixed, and a
  process that has ended by `exit()` left nothing there.

Results: `EditsSafeCorrect`, `TriggerSavesCorrect`, for streams that overlap as the code lets
them: a mixture puts the changes of its saves in `torn`, and the properties say so. No theorem
assumes anything of `Overlap`.

**`WorldStoreProofs`.** `IndInv` = `TypeOK` and
- `ContentInv`: every loaded world, every save in a queue, a copy or a stream, and every file
  carries only changes of its own name;
- `StreamInv`: an open stream has a job;
- `HandlerInv`: the handler in progress has the position of the world it looked up, and the
  loop of SAVE_WORLD is inside the vector;
- `OccupiedInv`: the world of a connected player who has a name is loaded, and a free slot is in none.

`OwnWorldOnly` needs the content followed through the vector, whatever `worlds_idx` says: the
lemmas about `find_world` show that a stale index is never trusted. `HandlerPointerValid` rests
on who may erase from the vector: only the main thread, which is in the handler. Results:
`WorldTypes`, `HandlerPointerCorrect`, `OwnWorldOnlyCorrect`, `OccupiedCorrect`, with `All`, overlapping
streams and unmarked commands allowed; and `MarkedEditsSafeCorrect`, from `SafetyInv` (`MadeSafe`:
a change that was made under the mark, or marked since, is in a marked world, on its way or has
been on disk, unless its save was mixed; `SnapInv` as for players), with the same. The
stronger `WorldEditsSafe` is not a theorem: a round of `All` gives the counterexample of
`world_race`, an unmarked command is not saved at all, and overlapping streams leave mixtures.

**`EventLoopProofs`.** `IndInv` = `TypeOK`, `OwnPlayer`, `NoUseAfterFree` and
- `BatchInv`: a batch that goes on is not full (for the bound on `events_processed`);
- `Distinct`: no two slots have one connection or point to one Player, so a slot that deletes
  its Player leaves no dangling pointer in another;
- `Fresh`: connections are numbered in order and the Player of one whose CONNECT has not been
  fetched is not allocated, so `new Player` collides with nothing;
- `LeakInv`: `NoLeak`, slot by slot.

Results: `TypeCorrect`, `OwnPlayerCorrect`, `NoLeakCorrect`, `NoUseAfterFreeCorrect`, from
`EventLoopAssumption` (the bounds are naturals, a batch has room for an event) alone.

**`RateLimitsProofs`.** `RateInv` = `RateTypes`, `HandledBound` and
- `HandledInv`: what the present count has let through, what of it came after the moment the count
  began, and what the end of the count before let through. Counts begin at least a window
  apart, so a time as long as the window meets at most these two;
- `ArrivedInv`: what is counted has arrived since the count began, and `lastPacketTime` is that of an
  unknown packet or private message that was let through.

Results: `HandledBoundCorrect` (less than twice the limit in the time of a window, wherever it lies) and
`KickIsSpamCorrect`, for windows and limits of any size. Assumption: `RateLimitsAssumption`; the
window is positive and shorter than the time of the model, as every one in the code is.

**`ExchangeProofs`.** `IndInv` = types and
- `OffersOnDisk` itself: the file and the list are the same offers once what has expired is left
  out, except while a save is in progress;
- `FreshInv`: every button of a dialog since which nothing was removed stands for the offer that
  has its index now;
- `AddedInv`: while `exn_add_new` saves, nothing in the list has expired and the editor's page has a
  button for the last offer.

`FreshDeal` and `AddedIsShown` are action properties: the state in which a button is pressed
or a page shown was prepared some steps before. The backpack's `Modify` is shown to keep its
limits of slots and counts. Results: `ExchangeTypes`, `OffersOnDiskCorrect`, `FreshDealCorrect`,
`AddedIsShownCorrect`. `exn_prune_expired_locked` and loading are both `Keep`; the lemmas say that keeping
twice is keeping what both conditions keep (`KeepKeep`) and how it goes with `push_back` (`KeepAppend`).

**`TradeProofs`.**
- `TradeTypes` includes that no backpack is ever above its slots or its counts or below nothing, which
  needs what `Modify` admits, kind by kind, for every count that an offer may have.
- `ConservedCorrect`: until a deal with a count below zero is executed (`odd = 0`), the sum over all backpacks,
  the ground and what was cleared away is the same after each step, for any number of players and items.
  It needs what `trade_space_check` establishes before items are moved.
- `ConfirmedInWorldCorrect`, from `PairInv`: for two players of whom neither has left, `trading_with` is
  the other's netID or none, `block_trade` is set on both sides or on neither, what a
  confirmation shows and what a side has agreed to are the offers as they are, and an
  offer is at most what its owner has, also where it is below zero; so the delivery moves exactly a deal without such
  counts. The property alone is not inductive: it says nothing of the steps that
  lead to a confirmation.

**`Lemmas`.** The provers have no induction over data. What `Keep`, a fold over a finite set
and a sum over one compute is proved by the least counterexample instead: a non-empty set of
naturals has a least element (`Least`), among non-empty families of finite sets there is one of
least cardinality (`LeastSet`); the recursion then contradicts it. So `KeepKeeps`, `FoldExists`, `SumRemove`,
`SumChange`, `SumDisjoint` hold for sequences and sets of any size.

**Only model-checked.** Liveness (`JoinReturns`, `PushedIsWritten`,
`EndedSessionIsSaved`, `UnloadedIsSaved`, `TickNotStarved`) depends on fairness, whose ENABLED the provers
here do not handle; the fairness part of the refinement of `WriteBehind` neither. `OccupiedIsLoaded` is
checked by `world_swap` with the steps of `WorldSwap` too; the theorem is about `WorldStore`'s
specification, without them. A swap puts the content of one world under the name of another, so
`ContentInv`, on which the invariant rests, has to be given up there. The inductive invariants were
checked with TLC on the instances of the runs before they were proved. The two violation runs are counterexamples
and need no proof.

## Not modelled

Packets, dialogs and commands as content; the item database; ENet's wire protocol and the
vendored libraries; `AntiDDoS.h` (included nowhere); rewards (sequential handlers on one
Player's fields, whose loss `PlayerStore` is about); guilds; harvest jobs and the party event
of the tick; the game generator, whose handlers race `gameTimerThread`; logging and
the watchdog (it only logs); the built-in HTTP server (disabled); `world_recently_active`
(nothing calls it). `worlds.reserve(2048)`: pointers stay valid only below that many
worlds, which a model of a few worlds cannot show.

## Plan

1. Done: the modules above; proofs of every invariant that a run checks, of the action properties
   and of the refinement's safety.
2. Proofs left: `OccupiedIsLoaded` for the specification of `WorldSwap`, from an invariant that
   follows types and positions without content.
3. Further modules: game generator (rounds against the timer thread), guilds.
