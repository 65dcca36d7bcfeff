# Olilands server: a TLA+ verification project

Olilands is a game server in C++20 on Boost.Asio. Clients connect over TCP, log in,
choose a character and walk on a map; the server keeps everybody's place, tells
players of each other and stores places in MySQL. Several threads run one
`io_context`, sessions use no strand, and almost everything the server does wrong or
right depends on how handlers of different connections, and of one connection's
timers, interleave. This project models those handlers in TLA+, checks them with
TLC on small instances and proves the main safety properties with TLAPS for every
value of the constants.

## 1. The system

| Component | State | Operations | Talks to |
|---|---|---|---|
| `Server` (`server/server.cpp`) | acceptor | accept loop | creates sessions |
| `Session` (`session/session.cpp`) | socket, `player_session_state_`, `account_id_`, `player_id_`, `last_saved_*`, two timers | read handler by state, disconnection, saving, position timer, announcing a player | World, SessionManager, PlayerManager, other sessions' `sendDataToClient` |
| `SessionAuth` | login timer | login, timeout | Session, UserAccountManager |
| `SessionMovement` | – | move, updates to the players nearby | World, SessionManager, other sessions |
| `SessionAttack` | – | attack (no effect yet but an answer) | Session |
| `SessionManager` | player id → `weak_ptr<Session>`, mutex | add, remove, get, get all | called by all sessions |
| `World`, `MapManager` | player id → (x, y), **no mutex**; collision grid | update, get, proximity, walkable | called by all sessions |
| `PlayerManager` | rows of `players` | create, list, find, read and write a position | a pooled connection per statement |
| `UserAccountManager` | rows of `user_account` | validate a login | a pooled connection |
| `ConnectionPool`, `ConnectionGuard` | queue of connections, size, mutex, condition variable | acquire with a deadline, release | every database call |
| Protocols | – | encode and decode messages | called by the handlers |
| `MapLoader`, `TileLayer`, `Tile` | map file | load at start | MapManager |
| the socket of a session (asio) | writes under way, queue of sends, buffer | `async_write`, close | called by all sessions |
| `MemoryMonitor`, `ConfigManager`, `LogManager`, `main` | threads, settings | load, start, stop, join | owns all others |

What makes it hard:

* Handlers interleave at every access to the position table, the registry, the
  database and the sockets; a place that was read is used later.
* One session has up to three handlers at once: its read handler, its login timer
  and its position timer. A `cancel()` does not reach a handler that is queued. The
  read handler and the position timer's handler both save, and share `last_saved_x_`,
  `last_saved_y_` and `last_saved_z_` without a lock.
* Receiving is a chain: a handler must start the next read as its last act, on
  every path. Nothing else keeps a client served.
* Sessions live by reference counts: reads, handlers and the position timer hold a
  `shared_ptr`, the registry holds a `weak_ptr`.
* Statements fail, waiting for a connection times out, and the callers turn
  failures into values such as (0, 0, 0) or an empty record.
* (0, 0, 0) is at the same time a place and "no position".
* TCP is a stream: a read may return a part of a message or more than one, and the
  handlers take what it returned for one message. Writes on one socket are started
  without waiting for each other, by the handlers of several sessions.
* `main` owns what all threads use, and leaves by an exception as well.

`PROJECT.json` lists every component with its status, and under "hazards" what can
go wrong at which line, with the properties that cover it.

## 2. Modules

| Module | Stands for | Extends |
|---|---|---|
| `Game` | ids, accounts, places | – |
| `World` | the position table, and what its unsynchronised accesses can give | `Game` |
| `SessionManager` | the registry | `Game` |
| `PlayerManager` | owner and position of the rows, failing statements | `Game` |
| `Session` | all sessions, their handlers and timers, over the three shared components | `World`, `SessionManager`, `PlayerManager` |
| `Presence` | abstract: accounts, characters, their places in the world, in their rows and with the clients | `Game` |
| `SessionProperties` | what sessions promise, and what the repository says of them and the code does not keep | `Session` (instantiates `Presence`) |
| `SessionProofs` | types, as a theorem | `SessionProperties` |
| `SessionSafetyProofs` | the other safety theorems, and the refinement of `Presence` | `SessionProofs` |
| `CharacterCreation` | the lobby over the table `players`: count, insert, fetch the id, select | – |
| `CharacterCreationProofs` | its theorems | `CharacterCreation` |
| `ResourcePool` | abstract: what a pool of resources promises | – |
| `ConnectionPool` | mutex, condition variable, queue and guard, thread by thread | – (instantiates `ResourcePool`) |
| `Process` | `main.cpp`: settings, start, threads, memory monitor, acceptor, end, around the pool | `ConnectionPool` |
| `ConnectionPoolProofs` | theorems of the pool and of the process, and the refinement | `Process` |
| `Protocol` | the encoders and decoders, byte by byte | – |
| `ProtocolProofs` | what a decoder reads, whatever follows in the same read | `Protocol` |
| `MapGrid` | obstacles of the map file, collision grid, distance test | – |
| `MapGridProofs` | the grid against the obstacles themselves | `MapGrid` |
| `MessageStream` | abstract: whole messages one after another, unless mixed | – |
| `SocketWrites` | the writes on one socket, send by send | – (instantiates `MessageStream`) |
| `SocketWritesProofs` | types and the refinement | `SocketWrites` |
| `ClientConnection` | one connection: the client's bytes, reads, handlers, answers | `Protocol`, `MapGrid`, `SocketWrites` |
| `ClientConnectionProofs` | its safety theorems | `ClientConnection` |
| `MCSession`, `MCCharacterCreation`, `MCProcess`, `MCClientConnection` | instances for TLC | |

`Session` and `ClientConnection` model the same handlers from two sides: `Session`
has all sessions with every interleaving of their accesses, and takes messages as
commands; `ClientConnection` has one session with the bytes of its messages, and
takes a handler as one step except where it writes or closes more than once.

### How state and actions correspond to the code

*Session.* `pc[s]` is where the read handler of `s` is ("idle" when none runs);
`read[s]` is the outstanding `async_read_some` and how it completed; a completed
one is a handler in asio's queue. `positionTimer[s]` is "off", "armed", or where its
handler is in a save ("comparing", "saving", "remembering"). Locals of a handler that outlive a step are `subject`,
`carried`, `nearby`, `audience` and `timerPlace`. Each access to a shared
component is a step of its own: a selection is `SelectCharacter` (read the row),
`PlaceInWorld`, `Register`, `LookAround`, `DescribePlayer`/`TellPlayer` for each
player near, `ComposeAnnouncement`, `Announce`, `AnnounceTo` for each session, and
`FinishSelection`, which starts the next read.

A save (`savePlayerPosition`) has four steps in each of the two handlers that may run
it: the place is read (`Logout` and `EndOfFile` by `BeginSave`; `PositionTimerFires`),
compared with `last_saved_` (`ComparePlace`; `TimerComparesPlace`), written
(`StorePlace` or `SaveFails`; `TimerStoresPlace` or `TimerSaveFails`), and remembered in
`last_saved_` (`RememberPlace`; `TimerRemembersPlace`). The handlers of one session are
not serialised, so every order of these steps is a behaviour: the timer may write the
row after the logout did and remember before it. `last_saved_` is three ints: when one
handler compares or assigns while the other assigns (`BothRemember`), the outcome is any
place (`Mixed`). `cancel()` of the position timer may come too late for a handler that
is queued (`cancelPositionTimer`).

Statements are one step only where it makes no difference to what anybody can do:
`player_id_`, the registry entry, the state and the start of the timer in `Register`
(others reach the session only through the entry); `cancel()` and the erased entry in
`Leave`; a mover reading its own place back and searching for witnesses in
`FindWitnesses` (in between only another session of the same character could move the
entry). `lastCommand`, `view` and `skipped` are history variables that no action reads:
the last command, the last place a client was sent for each player, and the players
left out of what it was sent: those a failed statement skips, and those that had
announced themselves before the session looked around and that it did not see, because
they were too far away, their entry was lost, or its accesses collided.

A place is a whole (x, y, z) triple, `Origin` is (0, 0, 0). The position table
keeps (x, y) only: `Ground` gives the place (x, y, 0) an entry stands for. `Near`
and `Walkable` are the distance test and the collision grid as constants.
The number of io threads is left out of `Session`: any number of handlers may be
under way, which contains all interleavings of the three threads of `main.cpp`.
In `CharacterCreation` the number matters to a property and is a constant.

When `MapRaces` is TRUE an access of the position table during another session's
first insertion may miss entries, and a first insertion may be lost: the outcomes
of the data race on the `unordered_map` that leave the process running.

*Presence* says what is left of all this for whoever looks at accounts, characters,
places and clients only. A session logs in once and plays one character of its account;
a selection reads the row, the character appears on the ground of that place, then the
session is registered; a move leads to a walkable place; a save takes a place from the
world and stores it, later, or loses it; a handler that looks where a character stands
tells it, later, to clients in the game that play another character, or forgets it.
`Entering`, `Arrival`, `Unsaved` and `Untold` in `SessionProperties` give the hidden
variables: the locals of a read handler and of a timer handler while they count. A row
may get an old place, also one older than the row's (`LateSave`), and a client may be
told an old one, after a newer one (`DescribePlayer` reads before `TellPlayer` sends);
`Presence` allows both, because the code does them. A place of another character, or one
the world never gave, it does not allow.

*ConnectionPool.* A section under `poolMutex_` that cannot block is one step;
`createConnection()` blocks while the mutex is held, so `BeginCreate` and
`CreateSucceeds`/`CreateFails` are separate. Which queued connection is taken is
left open. `notify_one()` after the unlock is a step of its own, spurious wake-ups
and deadlines happen at any time.

*Process.* `main` is where `main()` is; each call it makes is an action, each
failure of one an action or a disjunct (`loadConfig`, `initializeWorld`,
`StartFails`). An exception caught in `main` goes to "stop", because the destructor
of the monitor calls `stop()`; one that leaves a thread ends the process
("aborted"). The monitor's loop only matters as long as `running_` is set, so that
only its end is an action. The io threads are the threads of `ConnectionPool`, which
are in the pool only when they have been started. What the constructor of the pool
opens is chosen in the initial state. Fields of a class without a value are
`Unset`; the five settings of the table `mysql` are one.

*Protocol* and *MapGrid* are operators. A decoder that throws gives `Malformed`.
`Float` gives the bytes of a float for the coordinates of a map. Float coordinates of
obstacles are integers in 1/256 of a pixel; the grid is compared with the obstacles
themselves (`Clear`).

*SocketWrites.* asio and TCP are modelled from how `sendDataToClient` uses them: an
`async_write` tries to send at once when no send waits in the socket's queue; a send
that was not complete is followed by a handler that starts the next one
(`ContinueWrite`), which may come after a send of another write; a send without
room waits in the queue; closing aborts what waits, and what has been sent is
still delivered. `room` is what fits into the buffers between server and client.
`filled` and `overlapped` are histories: a send found too little room; a write was
started while another was under way.

*ClientConnection.* `conversation` is what the client wants; `Bytes` are the bytes it
sends for it, without waiting for answers. A read ends at the end of a message or,
at one of the `Cuts`, inside one (`Stops`); `begun` and `consumed` are where the last
read began and ended. `handler` is "introducing" and "confirming" while a selection
has more to send, and "refusing" between the answer to a refused login and the
close. `LoginTimeout` is the expiry of the timer with its handler, and `ReadReturns` the
completion of a read with its handler while the socket is open: a timeout or a read that
is queued while the session goes on, or is closed, is in `Session`, which has completion
and handler apart. `OtherSessionSends` is the neighbour's session, which writes to the
socket at any moment.

*CharacterCreation.* Each statement is one step; a row is known by its name, which
is UNIQUE in `data/database.sql`.

Definitions called "Faulty variant" in comments are not part of any specification:
each is a plausible mistake in the code that the properties must notice, and is put
in place of the real operator to see that they do (PROJECT.json, "mutants").

## 3. Runs

Constants of the instances: two sessions, two characters, one account
(two sessions of it can select the same character) or two, two walkable places
and (0, 0, 0), one of `Saves` on an upper floor. `Commands`, `Events`, `DbErrors`
and `MapRaces` are the named bounds: what clients send, what the environment does,
whether statements fail, whether table accesses collide. Two sessions suffice for
every race between handlers here because each involves one reader and one writer,
or two handlers of one session. In `Saves` both sessions can only play the one
character, so that a save of a session meets its own timer's and those of a duplicate.
In `Connections` the two characters start at one place and can walk apart and together:
selections overlap each other's first insertions, announcements and look arounds, with
and without collisions, near and far. The sessions of an instance are interchangeable,
and so are the two characters of `Connections` with their accounts (`SYMMETRY`).
Every session goes through its whole life once; all of them together do not restart, so a state where all
are over has no successor and `CHECK_DEADLOCK` is FALSE there, and in
`CharacterCreation`, where a session that selected a character is not followed on.
The process of `Pool` ends, and a connection of `Wire` is closed by its client.

`Release` has one session, which keeps the liveness check small enough for every command
and every event: what it asks about (a deadline, a timer that ends, a save that is tried
again) is between the handlers of one session, and no other session disables them.

`Pool` has three threads, as `main` at most starts, one connection at the start and
two at most, so that threads wait, time out and create; `hardware_concurrency()` is
0 or 8; `config.lua` is missing, or has neither a threshold nor a table `mysql`, and the
threshold is then the default and the settings of the table stay without a value.
`Wire` has six conversations, one for each kind of message and of failure; reads of
up to 16 bytes (`max_length`, 1024 in the code) that may end after the first or the
third byte of a message, so that a read can end inside a command, a move or a name;
a buffer of 40 bytes, so that the list of characters (39 bytes) or an introduction
(50) fills it and a message of the neighbour comes in between; one such message
(`MaxUpdates`); a map of 8 by 8 pixels with one obstacle whose corners are inside
pixels; ids on both sides of 2^16, two of them equal modulo 2^16.

| Run | Question | Result |
|---|---|---|
| `Saves` | Do moves, logouts, disconnections and timers keep the rows right while statements fail (`SavedPlacesWalked`, `TypeOK`), and is `last_saved_` what the row holds until the last save begins (`LastSavedIsStored`)? | holds |
| `Connections` | Two accounts, moves, pings, logouts (attacks and unknown commands are in `Release`), disconnections and late logins, with failing statements and collisions on the position table: is the registry truthful (`RegistryNamesItsPlayer`), who can fall out of it (`OnlyDuplicatesUnregister`), which entries are stale (`StaleEntriesExplained`), has each open connection a session (`OpenConnectionsLive`), who silences a session (`SilenceExplained`); do two players whose selections overlap know of each other (`MutualAwareness`); do sessions implement `Presence` (`ImplementsPresence`)? | holds |
| `Release` | With every command and event: is a client without a login disconnected (`LoginDeadline`), and a closed session released (`ClosedSessionsReleased`)? Does the place where a character stays reach its row (`PositionIsSaved`) when saves fail, but not for ever; do only two commands silence a session (`SilenceExplained`); and `ImplementsPresence` again, with timers and failing saves? | holds |
| `Pool` | Are connections accounted for and wake-ups never lost, does the pool implement `ResourcePool`, does acquire return; does `main` serve for good or end (`MainSettles`), does no thread outlive what it uses (`ObjectsOutliveThreads`), does a server with threads serve on (`NeverStopsServing`)? | holds |
| `Wire` | What is a read that begins with a whole message taken for, whatever is joined to it (`WholeReadsDecode`), where do players stand (`PlaceIsClear`), what silences a client (`SilenceIsExplained`), does a refused client get its answer (`RefusalIsSent`); when does a client get whole messages in order (`ImplementsMessageStream`), does every write end (`WritesEnd`)? | holds |
| `Creation` | How far is the limit of characters passed; who is told it created a name? | holds |
| `LateLoginTimeout` | Does a login cancel the timeout, as the comment says? | violated |
| `DoubleLogin` | Do position updates reach a connected player? | violated |
| `LateSave` | Does a logout leave the player's place in the row? | violated |
| `CreationLimit` | Has an account at most 5 characters, as the comment says? | violated |
| `NewCharacter` | Can a created character be selected? | violated |
| `StepDelta` | Does a move of three bytes go by its deltas, as CLIENT_PROTOCOL.md says? | violated |

The counterexamples in brief (lines in PROJECT.json, "findings"):

* `LateLoginTimeout`: the timer expires, its handler is queued, the login succeeds
  and cancels nothing, the handler closes the socket.
* `DoubleLogin`: two sessions of one character; the older ends and erases the
  entry of the newer.
* `LateSave`: the timer reads a place, the player moves and logs out, the logout's
  UPDATE runs, the timer's UPDATE writes the old place over it.
* `CreationLimit`: two sessions count, then both insert.
* `NewCharacter`: a new row has the default position, which counts as invalid.
* `StepDelta`: a player at (6, 1) sends the documented step up, `[7][0][255]`. The code
  takes the bytes for the place (0, -1), which is not walkable, and the player stays; the
  document means (6, 0), which is free (movementprotocol.cpp:19-21,
  sessionmovement.cpp:18-23; CLIENT_PROTOCOL.md:118-126, 281-289, 328).

Other behaviour of the code that the models contain, and that the properties allow
because the code does it:

* A `PING`, or an attack in another player's name, ends the reading of its session:
  the handler returns without `receiveClientData()` (session.cpp:347-351,
  sessionattack.cpp:17-22), although `CLIENT_PROTOCOL.md` goes on after both.
  `SilenceExplained` says that nothing else does.
* A newcomer reads a neighbour's place, the neighbour moves and sends its update, and
  the newcomer's message with the old place is sent last (session.cpp:290-302).
  `MutualAwareness` therefore speaks of knowing a player, not of the place;
  `ImplementsPresence` says that the place is one the world once gave for that character.
* Nothing is sent on a disconnection, and the entry of the position table stays.
* The last save of a connection, by a logout or an end of file, may overlap the save of
  its timer, and leave row and `last_saved_` different; `LastSavedIsStored` promises only
  the time before, and `LateSave` shows what becomes of the row.
* The row of a character stored on an upper floor is written back with z = 0
  (mapmanager.cpp:66); `SavedPlacesWalked` and `ImplementsPresence` allow the ground under
  a place.
* With `MapRaces = TRUE` in `Saves.cfg`, `SavedPlacesWalked` fails: two sessions insert
  their character for the first time at once, an insertion is lost or a read of the
  position timer meanwhile misses the entry, and its answer (0, 0, 0), which differs from
  `last_saved_`, is stored.
* Bytes of two messages do mix: a list of characters fills the buffer, its rest waits
  for its handler, and a message of the neighbour is sent first (session.cpp:391).
  `ImplementsMessageStream` lets the stream be mixed only when a write was started
  while another was under way and some send had found too little room.
* What a read joins behind its first message is lost, and a message that is parted is
  read as two. A move of three bytes with one more byte joined is not understood, and
  with two or more it is read as one of the newer format, to a place two of whose bytes
  are the next message's (movementprotocol.cpp:19-29). `WholeReadsDecode` has no
  exception for it: `TakenFor` says what each command is taken for with the bytes joined
  to it, and only a step and the ids of an attack are taken for something else than what
  the client said.
* The ids of an attack are read modulo 2^16. A player with an id of more than 16 bits
  cannot attack: its own id is taken for another's, and silences the session
  (attackprotocol.cpp:22). `TakenFor` and `SilenceIsExplained` say so.
* Without hardware threads the process ends at once, and after an exception in `main`
  its exit status is 0 like after a good end (main.cpp:53, 76-80).
* A creation whose SELECT of the new id fails is answered as a success with an
  uninitialised id ("createdNoId" in `CharacterCreation`).

### Fairness

`Session!Fairness` is weak fairness of what asio and the threads guarantee: a
queued handler runs, a started handler goes on to its end, timers elapse, and the
read of a closed socket completes. Nothing is assumed of clients, of the order of
handlers, or of the network. `PositionIsSaved` itself
assumes that saves of a session do not fail for ever (`DbRecovers`, strong fairness
of a successful save); without it the row can never be written. In the pool, strong fairness says
that a thread that wants the mutex gets it in the end although others get it in
between, and that the deadline of a wait passes although the thread is woken in
between; `wait_for` with a predicate keeps one deadline over all wake-ups, which
is why this is justified. Releasing needs only that a thread's statement ends.
In `Process`, `main` and the monitor run on. In `ClientConnection` the reads of an open
socket return while the client still sends, handlers go on, writes go on when there
is room, and the client reads: `WritesEnd` speaks of such clients only. Weak fairness
suffices there, since no step of another disables these for good.

## 4. Proofs

TLAPS proves for every value of the constants (any numbers of sessions, players,
places, threads, connections):

| Theorem | States | Assumes |
|---|---|---|
| `TypeCorrect` | `TypeOK` and `HandlerOK` | – |
| `RegistrySound` | `RegistryNamesItsPlayer`, `OnlyDuplicatesUnregister` | – |
| `OpenConnectionsAreLive` | `OpenConnectionsLive` | – |
| `OnlyTwoCommandsSilence` | `SilenceExplained` | – |
| `StaleEntriesAreExplained` | `StaleEntriesExplained` | – |
| `OnlyWalkedPlacesAreSaved` | `SavedPlacesWalked` | no collisions on the table |
| `LastSavedIsTheRow` | `LastSavedIsStored` | – |
| `PlayersKnowOfEachOther` | `MutualAwareness` | – |
| `OnlyDuplicatesTakeOut` | `OnlyDuplicatesUnregister` | – |
| `SessionsImplementPresence` | `ImplementsPresence` | – |
| `PoolAccounts`, `PoolTypes` | `TypeOK`, `Accounted` | – |
| `NoWakeupIsLost` | `NoLostWakeup` | – |
| `PoolImplementsResourcePool` | `ImplementsResourcePool` | – |
| `LimitIsNearlyKept` | `LimitNearlyKept` | – |
| `NamesAreCreatedOnce`, `CreationTypes` | `TypeOK`, `CreatedByOne` | – |
| `ProcessHasThePool` | `ProcessSpec` implies the `Spec` of `ConnectionPool` | – |
| `ProcessTypes` | `ProcessTypeOK` | – |
| `MainOutlivesThreads` | `ObjectsOutliveThreads` | – |
| `ServerServesOn` | `NeverStopsServing` | – |
| `SocketTypes` | `SocketTypeOK` | – |
| `WritesAreAStream` | `ImplementsMessageStream`, of `SocketSpec` | – |
| `PlacesAreClear` | `PlaceIsClear`, of `ConnectionSpec` | – |
| `RefusalsAreSent` | `RefusalIsSent`, of `ConnectionSpec` | two bytes fit in the buffer |
| `ConnectionTypes` | `TypeOK`, of `ConnectionSpec` | – |
| `MessagesAreUnderstood` | `WholeReadsDecode`, of `ConnectionSpec` | – |
| `SilencesAreExplained` | `SilenceIsExplained` | – |
| `ConnectionIsASocket` | `ConnectionSpec` implies `SocketSpec` | – |
| `ConnectionIsAStream` | `ImplementsMessageStream`, of `ConnectionSpec` | – |
| `WalkableIsClear`, `BlockedIsNear` | the grid has the obstacles, and at most one more row and column | – |
| `DistanceFits` | the squared distance is an int | a map of up to 32767 by 32767 |
| `MoveIsRead`, `TextIsRead`, `SelectionIsRead`, `TwoTextsAreRead` | a newer move, and the zero-terminated texts of a selection, a login or a creation, are read as they were sent, whatever follows | – |
| `AttackerIsRead` | the ids of an attack are read modulo 2^16, whatever follows | – |
| `StepIsRead` | what a move of three bytes is read as, alone and with bytes joined to it | – |

All rest on the named assumptions of the modules (`GameAssumption`,
`WorldAssumption`, ...), which say that distinguished values are distinct and that
constants have their types. Those of `ClientConnection` say what a client may mean
(`Command`: texts without a zero byte, numbers of the width of their field; nothing of
the order, the number or the sizes of its messages and of the reads), what the rows of
the table `players` hold, and that the map is narrower than 2^24 pixels, where floats
stop being exact. "No collisions" is the hypothesis `~MapRaces` of one theorem; it is
needed (section 3, `Saves.cfg` with `MapRaces = TRUE`).

The argument for the sessions is a ladder of inductive invariants:

1. `TypeOK /\ HandlerOK`. `HandlerOK` says what a handler holds at each step: one
   read or one read handler at a time, locals set before they are used, the game's
   steps only in the game. `TypeOK` alone is not inductive: `Register` needs to
   know that the subject is a character of the account.
2. `RegistryInv`: truthful entries, and duplicates as the only way out of the
   registry. A session in the game never changes its player again, which is why
   an entry stays true.
3. `TimerRuns` and `LobbyListens`: the position timer of an open session in the
   game is never off, and outside the game an open session always reads or has a
   handler. Together they give `OpenConnectionsLive`; with `lastCommand` they give
   `SilenceExplained` and, through `StaleInv`, `StaleEntriesExplained`.
4. `WalkedInv`: every entry of the table, every place carried by a handler or a
   timer that will be written, and every row is a walked place, and a session that
   can save has an entry in the table. `SavedPlacesWalked` alone is not inductive:
   what a handler has read and not yet written must be known.
5. `SavedInv`: of a session that plays its character alone and whose last save has not
   begun (`Undisturbed`), `last_saved_` is the row, and between the UPDATE of its timer
   and the assignment of `last_saved_` the row is the timer's place; outside the game it
   is the initial (0, 0, 0). Until the last save only the timer writes the row and then
   `last_saved_`; `EndingKeepsSaved` says that a session that ends does not disturb
   another, `OthersUndisturbed` that nobody writes the row of a character somebody else
   plays undisturbed, and `QuietKeepsSaved` does the steps that save nothing.
6. `AwarenessInv`: for a registered session past its look around and another in
   the game, the other is known, skipped, among those still to be served, or has
   still to announce itself with this session registered. `SeenOrSkipped` is the
   look around: whoever has announced itself is seen or out of sight. Without
   collisions it needs `WalkedInv`, which says that both have entries in the table; with
   them a lost entry counts as out of sight.

For the pool, `PoolInv` adds that a thread inside `createConnection()` has room
for one more connection, because it holds the mutex; the size bound needs it.
For the characters, `LimitInv` counts the handlers between count and insert with
the rows.

For the process, `ProcessInv` says which threads there can be at each place of `main`,
that only started threads are in the pool, and that the acceptor is waiting while
`main` joins. It needs the types of the pool, which hold in the process because every
step of the process is a step of the pool or leaves it alone (`ProcessHasThePool`).
For the socket, `SocketInv` says that only a send that found too little room leaves a
write under way, that the sends that wait are waiting writes, each once, and that in an
open socket, until a write is started while another waits for room, all writes but the
last are over, those that are over are complete, and the part sent last is the one the
last write sent, or the end of the write before it. For the
connection, `PlaceIsClear` is inductive with the state of the session; the
proof uses `WalkableIsClear` for a move to any place. `RefusalIsSent` needs that the
buffer is still empty when the refusal is sent, for nothing is sent before a login.

The refinement of `Presence` needs, beyond types, `HandlerOK` and `RegistryInv`, that a
session without a login has no account (`LoggedInOnce`) and `ToldInv`: the loops of a
handler run over players other than the session's own, and an announcement is on its way
to sessions in the game only. Each action of `Session` is a lemma of its own: it is one
action of `Presence`, for the session's own player, or it leaves all of `Presence` alone
(`PresenceQuietSteps`, 15 of the 42 actions). `OneHandlerMoves` and `TellingMoves` say
that a step changes the hidden variables of its own session only. A place is under way until its UPDATE, so that what `last_saved_` is set to is invisible
(`RememberingIsUnseen`). A save that ends may leave the same place under way in the other
handler, which is why `EndSave` takes the place away or leaves it; an announcement goes to one client after the other, which is why
`Tell` may keep what it tells. That no client is told of its own character is where the
registry comes in: a move is told to the session the registry has for a witness, and
`RegistryNamesItsPlayer` says that this session plays the witness.

The bytes are treated by induction over data. `Start`, `createCharacterList` and the
search for the zero of a text are recursive functions or quantified over positions, so
that the well-founded order of the natural numbers, a theorem of the prover's library
without a parameter, suffices (`AllNumbers`, `NumbersUpTo`). `IsPart` says that bytes
stand at a position among others, `Begins` that a message begins with them; from
`MessagePlaced` and `ReadTakes` a read that begins at a message's start and holds all of
it begins with the message's bytes, and then the theorems of `ProtocolProofs` say what
the decoders read in it, whatever follows. `IsMade` says more, that a message is made of
a front and of what was joined to it (`PartIsMade`); a step needs it, because what it is
taken for depends on how much was joined. That is `MessagesAreUnderstood`, by
`MadeUnderstood`, which needs no invariant beyond where reads begin and end. `SilencesAreExplained` uses
`ConnectionInv`: a session that does not read from an open socket is in the game and
last read a 3, or a 9 with an attacker who is not its character as the server reads
them (`SilenceInv`); if that read began with a whole message, `BeginsUnderstood` tells
which. `SilenceIsExplained` is not inductive, since it speaks of what the client meant.
`ConnectionIsASocket` says that handlers use the socket by `sendDataToClient` and
`closeSocket` only and send nonempty sequences of bytes, for which every encoder has a
lemma (`AnswerBytes`, `FloatMessageBytes`, `CharacterListBytes`); it carries
`WritesAreAStream` over to the whole connection.

Only model-checked: all liveness (`LoginDeadline`, `ClosedSessionsReleased`,
`PositionIsSaved`, `AcquireReturnsWhileAlive`, `MainSettles`, `WritesEnd`), which the
prover cannot treat, and the violations, which are counterexamples. Every safety
property and every refinement that a passing run checks is also a theorem.

## 5. Not modelled, and why

* The two views of a session are not one specification: `Session` takes a read for one
  message and messages to one client for sent in order; `ClientConnection` has the bytes,
  but one session. Both together are beyond TLC.
* Closing a socket with unread bytes may reset the connection, and TCP may then drop what
  was sent; `RefusalIsSent` says that the answer was given to TCP.
* Lifetimes beyond reference counts: the login timer's raw `this`; a pending write
  also keeps a session alive, which is not counted in `Alive`, so the properties
  on released sessions speak of the moment before the last write completes.
* Torn values and crashes from the data race on `playerPositions`.
* Broken MySQL connections in the pool (the code never tells them from others);
  statements and SQL; password hashes; what `MemoryMonitor` measures.
* Heights in `ClientConnection` but for the answer to a selection; in `Session` a place
  is whole.
* `TileLayer` and `Tile`, which nothing fills; the tilesets and properties that `loadMap`
  only logs.
* What a process leaves behind when it is killed or terminated: nothing is persisted but
  rows, each by one statement, so that a restart finds what `Saves` allows in them.
* `World::setPlayerState`/`getPlayerState`, which nothing calls.

## 6. Plan

Done, in this order: the sessions with their shared components (`Game`, `World`,
`SessionManager`, `PlayerManager`, `Session`), the pool and its abstract
specification, character creation, and the proofs of each; then the messages
(`Protocol`), the grid (`MapGrid`), the socket with its abstract specification
(`SocketWrites`, `MessageStream`), their composition (`ClientConnection`), the
process around the pool (`Process`), and the proofs of each.

Then the bytes of a conversation (`MessagesAreUnderstood`, `SilencesAreExplained`), the
composed connection as a socket and a stream, and `Presence` with its refinement.

Next:

1. In `Presence`, who must have been told of whom once two characters are near each
   other: `MutualAwareness` as its consequence.
2. What `Presence` implies by itself when accesses do not collide: `SavedPlacesWalked`
   from its own steps.
3. Connections of the pool that break, with an acquire that may give a broken one.
