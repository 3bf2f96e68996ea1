# A TLA+ model of The Socket Exchange

The Socket Exchange is a stock exchange over TCP in C: a single-threaded kqueue server
(`exchange_server`), a client for traders (`trader_client`) and one for market data
(`market_data_client`). This directory models the server and the client programs, checks
them with TLC on small instances and proves their safety properties with TLAPS for every
instance. Paths below are relative to `src/`, the repository;
`includes/` stands for `src/includes/`.

## 1. The system

| Component | State | Operations | Modelled in |
|---|---|---|---|
| Order book, `includes/orderbook.c` | four lists of orders, one per instrument and side; the fill array of a running `addOrder` | `addOrder`, `cancelOrder`, `detachClientOrders` | `OrderBook`, `PriceTimeMatching` |
| Event loop, `exchange_server.c`, `includes/server.c` | `running`, the kqueue's filters, the batch of events, `conns[]` and its capacity | start, wait, dispatch, accept, grow, register, tear down, shut down | `EventLoop` |
| Line framing, `communicate` in `includes/io.c` | `inbuf`, `inlen`, `scanned`, `discarding` | read, find lines, compact, skip an overlong line | `LineFraming` |
| Commands and sessions, `includes/commands.c`, `processLine` | role, username, subscriptions and `closing` of each connection, `next_order_id` | LOGIN, SUBSCRIBE, UNSUBSCRIBE, BUY/SELL and their reports, CANCEL, QUIT | `Exchange`, `Marketplace` |
| Client output, `includes/io.c` | `outbuf`, `outlen`, `closing` | `sendToClient`, `flushToClient`, `removeClient` | `ClientOutput` |
| Client programs, `trader_client.c`, `market_data_client.c` | `inbuf`, `discarding`, `recvbuf`, what is polled | `main`, `communicate`, `drainResponses`, `sendPendingCommands`, `writeAll` | `TraderClient`, `ClientInput` |
| A command's way from the keyboard to `processLine` | both line buffers and the stream between | the client's reads, the server's reads | `CommandPath` |
| A client and its connection | both ends and the socket | a whole conversation and its end | `Conversation` |

How they interact: `kevent()` hands the loop a batch of events; an event of the listening
socket goes to `acceptClients`, any other to `handleClientEvent`, which flushes output
(WRITE) or calls `communicate` (READ). That cuts lines and calls `processLine`, whose
handlers change the session, call the order book and send replies and notifications to
this and other connections. A handler that returns true makes `handleClientEvent` remove
the client, which detaches its orders. Everything refers to a connection by its
descriptor, and `accept()` gives a closed descriptor to the next client.

There is one thread, so handlers do not interleave with each other. What does interleave:
the kernel and the clients with the loop (data, FINs, resets and signals arrive between any
two steps), the events of one batch with what earlier events of it did, and a client
program with the server. These, failing sends and allocations, fixed buffers and reused
descriptors are where the difficult behaviour is; `PROJECT.json` lists each place under
"hazards".

What makes each component correct:

- **Order book**: price-time matching; no two orders rest that could execute against each
  other; shares are conserved; every execution is reported.
- **Event loop**: table, sockets and filters agree; no edge-triggered event is lost; an
  event touches only the connection it is about; leavers are reaped, input is read,
  waiting connections are accepted, and a shutdown request is noticed.
- **Line framing**: the commands of a connection depend on its bytes alone, and what a user
  types into the client program is what the server executes.
- **Commands**: names and roles are exclusive, nobody inherits a predecessor's orders, and
  every connected client is told of exactly its own executions or its market's trades.
- **Client output and clients**: lines arrive whole and in order, stored output is always
  going to be flushed, QUIT is answered in full and ends the connection, and a client that
  is blocked writing gets on.

## 2. The modules

### `OrderBook` and `PriceTimeMatching`

`OrderBook` has one queue per list head (`book`), and `ord`, `cur`, `fills`, `cap` for the
locals of `addOrder`. Its actions are `PlaceOrder` (the call), `Skip`, `ExecuteAll` and
`ExecutePart` (one iteration of the loop: another price; the resting order is used up and
unlinked; it keeps a remainder), `Return`, `CancelOrder` and `DetachClientOrders`. A doubly linked
list whose nodes are only appended and removed is a sequence; a pointer into it is a
position. `placed`, `executed` and `withdrawn` are history for `Conservation`.

`PriceTimeMatching` is what the book promises: a set of open orders, an incoming order that
executes against the *oldest* matching open order for as long as there is one and rests
only when there is none. It has no lists, cursor or array. `OrderBook` implements it
(`ImplementsMatching`) with `open <- AllResting, incoming <- ord, issued <- next_order_id`.

### `EventLoop`

`link`, `recv`, `fin`, `hup`, `backlog` are the clients and the network; `ready` is the
kqueue's list of active filters; `pc`, `running`, `events`, `pos`, `conns`, `curr_cap` are
the server. `Listen` and `Arm` are `main()` before its loop: clients connect as soon as the
socket listens, and the filter registered later must still report them. `StartFails` is any
failing call in that part, `KeventFails` one of the loop's. A client's filters are edge-triggered: `Deliver` removes them from `ready`
when it copies them into the batch, and only a change of the socket lists them again. The
listening filter is level-triggered and stays. `Deliver` takes up to `MAX_EVENTS` filters,
oldest first. `accept()` returns the lowest free descriptor. `communicate` is there at the
grain of one line, one action per way out of it: a line is answered (`ReadLine`), ends the
connection because its answer cannot be sent (`LineFails`), or is a QUIT; then `read()` says
EAGAIN (`EndRead`) or that the connection is over (`ReadOver`). A refused or failed accept is
`Refuse`, which may leave a table that has grown. `GrownCapacity` is the length the
doublings of `growConns` end at, described by what holds of it. `Signal` clears `running`
at any moment and wakes the thread only if it sleeps. Clients in `Endless` send whenever the
kernel has room (`Window`); the others send `MaxLines` lines, after a QUIT as before it.

Of the output there is what decides about reading and removal: who has some `stored`, and whose
socket is `full`. A line may leave something stored for any client that has spoken (`Output`,
`Told`), `Take` is a client that reads what its full socket held, and `flushToClient` is
`FlushAll`, `FlushSome` (EAGAIN) or `FlushEnds` (the last byte of a `closing` connection, or a
write error: the client is removed). A QUIT whose OK is written, or cannot be sent, ends the
connection (`ReadQuitEnds`). One whose OK is stored leaves `communicate` at once
(`ReadQuitStored`), and from then on a READ event of that connection does nothing
(`Unread`, `includes/io.c:181`): what it sends after the QUIT, its FIN included, goes unnoticed
until the flush, or a reset, ends it.

### `LineFraming`

The arithmetic of `communicate` on the real offsets: `inbuf` is the first `inlen` bytes,
and `consumed`, `search`, `scanned` are the C variables. `Read` takes any chunk that fits.
An overlong line is answered once and skipped (`GiveUpLine`); if the answer cannot be sent the
connection ends there (`ReplyFails`).
`Meaning` is a reference that reads one byte at a time and knows no buffer.

### `ClientInput` and `CommandPath`

`ClientInput` is the client's standard input byte by byte: `ReadInput` is one `read()` and the
whole of `sendPendingCommands`, which sends the complete lines that are not blank, keeps the
beginning of the next, and skips a line that outgrows the buffer. A write that fails ends the
program; the server has closed by then, so that this is an end of the input like another here
(`TraderClient` has it as `WriteFails`). `CommandPath` joins it to
`LineFraming` by a stream the server cuts as it likes. With `raw` the peer is some other
program and the stream is `LineFraming`'s own.

### `Exchange` and `Marketplace`

The handlers over the connection table, composed with `OrderBook` (`Book == INSTANCE
OrderBook`): `PlaceOrder` checks the line and calls `Book!PlaceOrder`, `Walk` is
`addOrder`'s loop, `Report` is its return and `placeOrder`'s loop over the fills. A send
may fail for any subset of the notifications; only the placing client's own failures end a
connection (`leaving`). Clients are numbered as they connect, but the code sees their
descriptors only; `owner`, `asked`, `unreported` and `silenced` are history. Lines that are
refused change nothing and are no steps. `ToInt` is sscanf's `%d`.

`Marketplace` is what the clients are promised: everybody has a session and owns orders,
names are taken by one client at a time, only its owner withdraws an order, the book is
`PriceTimeMatching` with clients for descriptors, and who leaves owns nothing. There are no
descriptors, slots, lists or cursors. `Exchange` implements it (`ImplementsMarketplace`): a descriptor
in an order stands for the client that holds it *now*, so an order that survived a change of holder
would make a step no marketplace has.

### `ClientOutput`, `TraderClient`, `Conversation`

`ClientOutput` is the server's end of one connection with the socket's send space and its
two filters; a line is two bytes so that a write may take part of it. `Notify` is a
notification caused by somebody else's order, whose failure is ignored. `Process` takes a line
and answers it; an order then tells its own client of any number of executions (`Execute`), sent
even if a line before them failed, which `done` remembers, and `EndCommand` is `placeOrder`'s
return: the connection ends if any line failed. The output buffer is allocated when it is first
needed, and that may fail after a part of the line has been written. After a QUIT that left
something to flush the server reads nothing more.

`TraderClient` is the client program from its connection, with or without the LOGIN that a
name on the command line causes, to its end: blocking `writeAll`, the half-close, a response that
does not fit `recvbuf`, a write that fails. `market_data_client.c` has the same functions.

`Conversation` joins them by one socket, whose two directions are `up` and `down`. Data that
reaches a socket the server has closed is answered with a reset, which may take what the
client had not read (`Reset`); the first late write succeeds (`WriteLate`), the next fails.

### Proof modules

`OrderBookProofs`, `EventLoopProofs`, `ConversationProofs` and `ExchangeProofs` extend the module
they are about, and `LineFramingProofs` extends `CommandPath`. `OrderBookRefinement` and
`ExchangeRefinement` continue two of them with the refinements, the latter also with what is
reported to whom. `DataLemmas` has what several of them need about numbers, sequences and sums.

Each module has a section of "slips": definitions of what a helper would be after a
plausible mistake. No action uses them. Put in the helper's place, each one makes a
property fail; `PROJECT.json` says which.

## 3. What the runs check

| Run | Instance | What it shows |
|---|---|---|
| `book` | 2 descriptors, 4 orders, 2 prices of one instrument and 1 of the other, quantities 1 and 3, fill array of 1 growing to 4, no allocation failures (a failed one drops a fill, and `ReportComplete` with it); 1.2 M states | `IndInv`, `NeverLocked`, `Conservation`, `ReportComplete`, `NoOvertaking`, `OrphansStay`, `ImplementsMatching` |
| `loop` | 3 clients, 2 descriptors (6 and 7), table of 2 that must double twice and whose last slot is then used, batches of 2, one client that sends a line, failing allocations and calls, signals; 3.1 M states | `TableMatchesSockets`, `NoLostEdge`, `NoOrphanFilter`, `ShutdownClosesAll` |
| `loop_live` | 2 clients, 1 descriptor, 2 lines of one client, batches of 3; 148 k states | `LeaversReaped`, `LinesServed`, `BacklogServed`, `ShutdownNoticedAwake` |
| `loop_stale_event` | 2 clients, 1 descriptor, no lines | **violated**: `OnlyLeaversAreClosed` |
| `loop_lost_signal` | as `loop_live`, without lines | **violated**: `ShutdownNoticed` |
| `loop_stalled` | 2 clients, both accepted, one sending for ever and the other one line | **violated**: `NoClientStallsAnother` |
| `framing` | every stream of up to 8 bytes over {byte, CR, LF} from another peer, and all input of up to 7 bytes through the client program; buffers of 4 (client) and 3 (server); 217 k states | `IndInv`, `ReadHasRoom`, `NothingMissed`, `SegmentationIndependent`, `InputHasRoom`, `CommandsArrive` |
| `exchange` | 3 clients, 3 descriptors, 2 names, 2 orders, an int of 5 bits; 0.6 M states | `NamesUnique`, `RolesExclusive`, `OwnersAreConnected`, `AllReported`, `ImplementsMarketplace` |
| `exchange_dropped` | as `exchange` | **violated**: `NobodyIsSilenced` |
| `exchange_range` | as `exchange` | **violated**: `AcceptedAsAsked` |
| `conversation` | socket of 3 bytes, output buffer of 4, 2 executions to tell of, by the client's own order or another's, 3 scripts, one of which goes on after QUIT, failing allocations; 781 k states | `LinesWhole`, `OutputScheduled`, `QuitIsGraceful`, `QuitCompletes`, `WritesFinish` |
| `conversation_end` | scripts that end without QUIT | **violated**: `EndOfInputIsGraceful` |

Every passing run also checks its module's `TypeOK` (in `book` and `framing` it is part of
`IndInv`).

### Why the bounds are enough

- `book`: a quantity of 3 sweeps three resting orders of 1, so that the walk skips,
  executes, unlinks and stops in every combination, the fill array grows twice, and
  cancellations and departures hit the head, the middle and the tail. The identity of
  descriptors does not matter (symmetry). What depends on more orders is in the proofs.
- `loop`: the stale event needs a leaver, the listening socket and a newcomer; three
  clients over two descriptors also have descriptors run out. Batches of three hold all
  of it in `loop_stale_event`; `loop` has batches of two, so that events are left in the kernel
  while a batch is handled. Its talking client sends an order or a QUIT; `loop_live`, with two
  lines, also has what follows a QUIT. Clients that say nothing are interchangeable (symmetry).
- `framing`: a buffer of three has empty, partial and full lines, CR at its end, a line
  one byte too long, a newline right after the overflow, and two overflows in a row
  within eight bytes. With four bytes on the client's side a line can be too long for the
  server only, or for both, and seven bytes hold such a line and one that follows it.
- `exchange`: two traders match while a subscriber looks on, or the third client takes over
  the descriptor and the name of one that left. The book's own bounds are `book`'s.
- `conversation`: answers are split by the socket, stored, and given up at the limit. The
  script that goes on after QUIT has more lines than the socket takes, so that the client
  blocks while the server has stopped reading.
- `loop_stalled`: the window is one line, the least that lets a client keep the thread.

### Fairness

`WF_vars(Server)` in `EventLoop`: the server is one process with one thread that the
operating system runs. Nothing is assumed of clients, the network or signals; in particular a
client need never read what its socket holds (`Take` is not fair). Liveness
therefore says what the server does about what has already happened, and `LeaversReaped` and
`LinesServed` name the one case in which it does nothing: a client that has quit and does not
take its last output (`HeldUp`) is neither read nor removed, even if it has sent a FIN. In `loop_live` each
client sends a bounded number of lines, which is a real restriction: `communicate` returns
only when a client's input is empty, and `loop_stalled` shows what a client that does not
stop sending does to the others. `Conversation` has weak fairness of the server and of the
client program; the user need not type and may kill the client. `QuitCompletes` and
`WritesFinish` both leave out one wait, that of a client which writes on after its QUIT:
the server has stopped reading and waits to flush, the client is blocked in `writeAll` and
does not read, so neither goes on (`includes/io.c:181`, `trader_client.c:32`). It is the same
wait as `HeldUp`, seen from both ends, and no property covers it.

### The violated properties

Each is something a document or a comment says and the code does not do.

- `OnlyLeaversAreClosed`: `handleClientEvent` cannot tell a stale event from one about the
  descriptor's new holder. One batch holds READ (FIN) of a leaving client, READ of the
  listening socket, and WRITE with EV_EOF of the leaver. The first removes it, the second
  accepts a newcomer on its descriptor, the third closes the newcomer.
- `ShutdownNoticed`: SIGINT between the test of `running` and `kevent()` is only noticed
  at the next event. `ShutdownNoticedAwake` is what does hold: a signal wakes a thread that
  sleeps, and one that comes while a batch is handled, or before the test, ends the server.
- `NoClientStallsAnother`: `report/report.tex:250` says that no client can stall another. One
  that sends a line whenever there is room keeps the thread inside `communicate`, and the line of
  the other, accepted like it, is never read.
- `NobodyIsSilenced`: a TRADE, BOUGHT or SOLD line that does not fit the output buffer is
  dropped, and the connection goes on.
- `AcceptedAsAsked`: quantity 34 with a five-bit int, 4294967298 in the program, is accepted
  as 2. `%d` of a number out of range is undefined in C; FreeBSD's `sscanf` converts with
  `strtoimax` and stores the low bits, which is what `ToInt` does.
- `EndOfInputIsGraceful`: when the client's input ends without QUIT it sends a FIN and stays to
  collect answers; the server removes it on reading the FIN and frees stored answers.

Two more were met while reading and have no run. `README.md:128` describes a sorted book that
matches crossing prices; the code matches equal prices only, as `Assignment_2.md` requires,
so a buy above a sell may rest. And `trader_client.c:118` says that whatever arrived while the user was
typing is shown before the next command goes out; one pass of the loop reads at most the
128 bytes of `recvbuf`.

## 4. What is proved

| Module | Theorem | States |
|---|---|---|
| `OrderBookProofs` | `IndInvHolds` | `Spec => []IndInv` |
| | `NeverLockedHolds` | `Spec => []NeverLocked` |
| | `NoOvertakingHolds` | `Spec => NoOvertaking`, an action property |
| | `OrphansStayHolds` | `Spec => OrphansStay`, an action property |
| | `ConservationHolds` | `Spec => []Conservation` |
| | `ReportCompleteHolds` | `ASSUME ~AllocMayFail PROVE Spec => []ReportComplete` |
| `OrderBookRefinement` | `MatchingImplemented` | `Spec => ImplementsMatching`: `OrderBook` implements `PriceTimeMatching` |
| `LineFramingProofs` | `IndInvHolds` | `Spec => []IndInv` |
| | `ReadHasRoomHolds` | `Spec => []ReadHasRoom` |
| | `NothingMissedHolds` | `Spec => []NothingMissed` |
| | `SegmentationIndependentHolds` | `Spec => []SegmentationIndependent` |
| | `InputHasRoomHolds` | `PathSpec => []InputHasRoom` |
| | `CommandsArriveHolds` | `PathSpec => []CommandsArrive` |
| `EventLoopProofs` | `TableMatchesSocketsHolds` | `Spec => []TableMatchesSockets` |
| | `ShutdownClosesAllHolds` | `Spec => []ShutdownClosesAll` |
| | `EventLoopTypeOK` | `Spec => []TypeOK` |
| | `NoLostEdgeHolds` | `Spec => []NoLostEdge` |
| | `NoOrphanFilterHolds` | `Spec => []NoOrphanFilter` |
| `ConversationProofs` | `OutputScheduledHolds` | `Spec => []OutputScheduled` |
| | `QuitIsGracefulHolds` | `Spec => []QuitIsGraceful` |
| | `ConversationTypeOK` | `Spec => []TypeOK` |
| | `LinesWholeHolds` | `Spec => []LinesWhole` |
| `ExchangeProofs` | `NamesUniqueHolds` | `Spec => []NamesUnique` |
| | `RolesExclusiveHolds` | `Spec => []RolesExclusive` |
| | `OwnersAreConnectedHolds` | `Spec => []OwnersAreConnected` |
| `ExchangeRefinement` | `MarketplaceImplemented` | `Spec => ImplementsMarketplace`: `Exchange` implements `Marketplace` |
| | `AllReportedHolds` | `ASSUME ~AllocMayFail PROVE Spec => []AllReported` |
| | `ExchangeTypeOK` | `Spec => []TypeOK` |

Each holds for every value of the constants that the named assumptions of its module allow:
the book's for every set of descriptors, listings and quantities, any `MaxOrders` and both
values of `AllocMayFail`; the framing's for every alphabet and any buffer above zero; the
event loop's for any clients, descriptors, batch length and first capacity above zero; the
conversation's for any scripts and any size of the sockets' and programs' buffers (the output
buffer must hold a line); the exchange's for any number of clients, names and orders, and for
an int of any width. TLC evaluates every assumption in a passing run. Two theorems have a
hypothesis of their own, `~AllocMayFail`: where `realloc` of the fill array fails, the code
has executed and drops the fill (`includes/orderbook.c:145`), so what they say is then false.

### Induction over data

Sums and recursive functions need induction over a number or a set. The library's induction
theorems take an operator for the property, which the provers cannot instantiate, so the
property is given as the *set* of those that have it: `EveryNatural` (a set with zero, and with
`n + 1` for each `n` in it, has every natural) and `EveryFiniteSet` (the same for adding an
element to a subset). From these `SumExists` and `SumUnique` show that `SumFunction` has the
value its recursion describes, and `SumAdded`, `SumSame` and `SumAppended` are what the
proofs cite.

### The order book

`IndInv` is the type invariant with `Filed` (an order is in the queue of its instrument and
side), `Open` (no exhausted order rests), `ArrivalOrder`, `Issued` (identifiers in use have
been handed out, and the incoming order is the youngest), `OneHome`, `PassedDoNotCross` and
`NeverLocked`.

`NeverLocked` alone is not inductive: `Return` links an order because the cursor has reached
the end, so one needs `PassedDoNotCross`, that nothing the cursor has passed crosses the
incoming order; and that needs `Filed`, as a queue must hold one side of one instrument.
Most actions only *thin* the book: what rests afterwards rested before, in the same queue
and relative order, with the same terms, and at most one position disappears.
`ThinningKeepsBookInv` shows once that thinning keeps the invariant; `UnlinkingThins` and
`RewritingThins` show that removing a node and rewriting orders in place are thinnings, and
`ExecuteAll`, `ExecutePart`, `CancelOrder` and `DetachClientOrders` are instances. Only
`Return` adds an order (`LinkingKeepsBookInv`).

- `NoOvertakingHolds` follows from `ArrivalOrder` and `PassedDoNotCross`: an older order at
  the same price would be at an earlier position, which the cursor has passed, so it does
  not cross; but it has the price that was just executed.
- `OrphansStayHolds` needs that an identifier names one resting order (`ArrivalOrder`
  within a queue, `OneHome` between queues): what `CancelOrder` removes has the canceller's
  descriptor, so an orphan with that identifier would be the same order, and `NoFd` is no descriptor.
- `ConservationHolds` goes through `ConservationInv`, which adds `Unissued`: an identifier
  not handed out yet has nothing placed under it. Four lemmas say what each list operation
  does to the *set* of resting orders (`UnlinkingResting`, `RewritingResting`,
  `LinkingResting`, `DetachingResting`), and the sums are argued on the set.
- `ReportCompleteHolds` adds `FillsFit` (the array never holds more than its capacity) to
  `ConservationInv`, and says of the sum of the fills what `ReportComplete` does. An arriving
  order has executed nothing, by `Unissued`; a trade appends one fill (`TradeRecords`), which
  is lost only by a failing `realloc`.
- `MatchingImplemented` uses the same four lemmas. `MatchesAreAhead` shows that every open
  order the abstract book could match is at or behind the cursor, so the one under the cursor is
  the oldest (`RestingIsOldestMatch`), and that a walk that has ended leaves no match
  (`ReturnRefines`). `Skip` is a stutter; each other action maps to one abstract action.

The assumptions: `NoFd` is no descriptor, `NoOrder` is no
order, prices and quantities are positive, `MaxOrders` and the array's first capacity are
numbers.

### Line framing

`ReadHasRoom` and `NothingMissed` speak of the moment before a read only. `Searched` says what
holds in between: while lines are taken, `consumed <= search <= inlen` and the bytes
between the two hold no newline; after that the whole buffer holds none. `IndInv` is
`TypeOK`, `ReadHasRoom` and `Searched`. That `memchr`'s result exists and lies ahead of the
search (`FirstNewlineIsFirst`) needs a least element of a set of naturals (`LeastNatural`,
from well-foundedness). The assumption is that the buffer has at least one byte.

`SegmentationIndependentHolds` compares the loop with `Meanings`, the state of the
byte-at-a-time reference after each prefix of the stream. `InStep`: the reference, after the
bytes that have left the buffer or belong to taken lines, has said what the loop has said, is
skipping if and only if the loop is, and holds no line yet. So each action is a run of
reference steps over a piece of the buffer: without a newline and short of the limit it collects,
at the limit it gives up, skipping it drops, and the newline ends the line. The first byte
at which a buffer that fills up exceeds it is the reference's limit too. `FramingInv` adds the
end of a connection whose overlong line could not be answered: what was said is then what the
whole stream means.

`PathInv` adds the client program. `Intentions` is a second reference, of what the user means
by each prefix of what was typed, without a buffer. Between two reads the client's buffer is
not full, holds no newline, and holds all of the line the user is in, unless the program is
skipping: then that line is too long already. What was meant is what the server has
read and what is on its way. `Together` says the same within `sendPendingCommands`, at every
byte of its buffer (`OneByteTogether` is the step), and a rest that fills the buffer is where
a line becomes too long for both. `InputHasRoom` is a part of it. `CommandsArrive` follows with
`SegmentationIndependent`, since what a prefix of a stream means is a prefix of what the stream
means (`MeaningGrows`).

### Event loop

`SlotInv` has the two properties, the types, and `Waiting`: what waits in the backlog waits
once, and is nobody's slot. Without it `Accept` could put a client into a second slot.
`EmptyBefore` covers the failures of `main()` before the loop, which leave at once. `RoomIsMade`
shows that the doublings end above the new descriptor and that the table never shrinks;
`CloseSlot` walks the table, so that `TableMatchesSockets` (every slot is within the table)
is what makes shutdown complete.

`NoLostEdge` is not inductive: a READ event is handled after which the connection may be
readable again, and a hangup may be found in the batch under a filter whose event was copied
before it. `EventInv` says per descriptor what is due: input is listed or pending (`Listed`);
unless the connection has quit (`Unseen`); room for stored output is listed or pending under
WRITE (`Unsent`); a disconnection is listed under WRITE, or pending in an event *that says so*
(`HangupDue`), since an event that does not was copied out earlier. Every handler uses up
one event and has to show that nothing of its kind is left: `EndRead` that the connection is
drained or has quit, `FlushAll` that nothing is stored, `FlushSome` that the socket is full. With it go
`NoOrphanFilter`, the types, and that outside of dispatching the batch is empty. What is left
of a list after filters are deleted or handed out is argued on its elements
(`SeqElements` and the lemmas after it), never on positions.

### Conversation

`QuitIsGraceful` compares two counters at the end of a conversation. `LinesAccounted` says what
holds all along: the lines printed, and the line ends on their way in the socket and in the
output buffer, are all the lines the server undertook to send. `Ends` counts line ends, and
`EndsOfConcatenation` and `EndsOfParts` show that it adds up however a run of bytes is cut, which
is all that writes, flushes and reads do. `Places` and `Emptied` say where each side can be:
a connection leaves because of a QUIT only with an empty buffer, and the client ends only
after the server. `LinesWholeHolds` says of `recvbuf \o down \o outbuf` as one run of bytes that
it is `Whole` (every two neighbours fit) and, while the server writes, `Finished`. Most steps only
move bytes along this run, which regrouping shows to be no change (`AppendedGroups`,
`Regroup`); the client takes a prefix that ends with a newline, and the server appends whole
lines or ends with a cut one and `lost`. An answer in the run that is cut needs `done`, and after
it no other answer: only `Process` appends one, where `done` is still false because the last
command that failed would have ended the connection. For `OutputScheduled` one needs that a write takes everything or fills the
socket (`WrittenProperties`), and `GoneNoticed`: the client's end is an edge too.

### Exchange

- `SessionInv` is the types of the table with the two properties, and is inductive as it
  stands; the argument is where the code tests: `loginUser` looks at every connection in the
  table, and a role is taken only while there is none.
- `NextUsesBook` is a lemma: a step of the server is one of `OrderBook` or leaves it alone, by the
  way the commands are written, so that the invariants proved of `OrderBook` hold in the server.
- `OwnerInv` adds to `OwnersAreConnected` that identifiers in use have been handed out
  (`Issued`), as a new order must not take over the owner recorded for another. The steps of
  `addOrder` and `cancelOrder` only *carry* orders: what rests afterwards has the identifier and descriptor of
  something that rested or was being placed (`CarryingKeepsOwners`). Logging in, subscribing and the like
  keep every descriptor with its client (`SessionChangeKeepsOwners`), a new client gets a
  free one (`ConnectKeepsOwners`), and a departure detaches its orders before the descriptor is free
  (`RemoveClientKeepsOwners`).

- `MarketplaceImplemented` is about `MarketInv`: `SessionInv`, `OwnerInv`, the book's `IndInv`, and
  `SlotInv` (a client is in one slot and has arrived, a trader has a name). The book's own refinement
  gives the step of `PriceTimeMatching` with descriptors; it is lifted to clients order
  by order, `Under` the connection table. That needs `OwnersAreConnected`: two descriptors in
  the book stand for different clients, and one whose client left is none. `RemoveClient`
  is the step in which the abstract book changes by the table and the list at once.
- `AllReportedHolds`: `Balanced` says that what is still owed to a client is what the fills recorded
  so far will be reported to it as (`AmountFor`), between any two iterations of
  `addOrder`; it may be more if a fill could not be recorded, which makes the invariant hold
  for both values of `AllocMayFail`. A trade owes each side what it executed and each
  subscriber the quantity (`OwedByTrade`, a sum over orders of which two change), and
  appends a fill with exactly these addressees. It needs `GoneInv`: an order has no descriptor
  only if its owner is gone, so that no notification is missing.

### Only model-checked

All liveness (`LeaversReaped`, `LinesServed`, `BacklogServed`, `ShutdownNoticedAwake`,
`QuitCompletes`, `WritesFinish`) and the violated properties: liveness under fairness and
ENABLED are outside what the provers support. Every safety property of the passing runs is proved.

## 5. What is not modelled

- The text of messages and the tokenising of lines; which ERROR a refused line gets. A refused
  line changes no state: the handlers' tests on the state are in `Exchange`, those on the
  text are not.
- Which call of `main()` fails, and argument parsing. They end the program before it has
  any state.
- Wrapping of `next_order_id` after 2^31 orders: the model's identifiers are natural numbers.
- `EV_ERROR` in an event (`includes/server.c:152`): it removes the client as a disconnection does.
- Blocking of the client programs in `ClientInput`, and single bytes in `TraderClient`: each has
  what the other leaves out.
- The links of the order lists: a list is a sequence, so that a wrong `prev` is not seen.
- `EINTR` in `read`, `write`, `accept` and `poll`, each of which is retried at once.
- Experiments, tests, launchers, the bonus harness and the documents: they are no part of the
  programs.

## 6. Plan

Done, in this order: `OrderBook` with `PriceTimeMatching`; `OrderBookProofs`; `EventLoop`;
`LineFraming`; `Exchange`; `ClientOutput`, `TraderClient` and `Conversation`;
`LineFramingProofs` and `OrderBookRefinement`; `main()`, failing calls and endless senders in
`EventLoop`; `ClientInput` and `CommandPath`; `Marketplace`; connection, LOGIN, lines after QUIT, late writes
and failing allocation in `Conversation`; `ExchangeProofs`, `EventLoopProofs`, `ConversationProofs`;
the events of `EventLoop`, the lines of `Conversation`, the references of `LineFraming` and
`CommandPath`, sums, and `ExchangeRefinement`.

Next, the model: the tokenising of a line in `processLine` against the message table of
`Assignment_2.md`.

Next, the proofs: what makes the liveness properties plausible and is safety, such as that a
client that blocks in `writeAll` and a server that waits to flush are the only two that can wait
for each other.
