# mirage-server: models and proofs

mirage-server (`src/src/`) is a small game server on Boost.Asio, SDL_image and
the component library mirage-core. It accepts clients in two steps, first by UDP
and then by TCP, asks each for a password, and gives the ones it lets in a
`SimpleGame` that draws a map of tiles. This directory holds TLA+ models of it,
TLC configurations and TLAPS proofs.

## Inventory

| component | source | state | operations |
|---|---|---|---|
| NetworkController: connections | `server.cpp`, `server.h` | the list `connections` of (address, username, activated, TCP socket), the outstanding accepts | `handleConnect`, `handleAccept`, `handlePacketRaw`, `getConnection`, `disconnect`, `disconnectForce`, `send`, `sendTcp` |
| NetworkController: receiving | `server.cpp` | `buffer`, `tcpBuffer`, the member `endpoint`, the outstanding receives of `socket` | `start`, `startReceive`, `handleReceiveFrom`, `startTcpReceive`, `handleTcpReceiveFrom` |
| Client | `client.cpp`, `client.h` | a copy of its Connection, `authorized`, window size | `initialize`, `authorizationConfirmed`, `authorizationBlocked`, `onClientInformation`, `sendMessage`, `onDestroy` |
| ClientAuthorization | `game/client.cpp` | wrapper of its client; `counter` of its periodic process | `initialize`, `onPacket`, `AuthorizationProcess::update`, `onFail` |
| SimpleGame | `game/game.cpp` | `x`, `y`, wrapper of its client | `initialize`, `onInput`, `sendFrame` |
| Icons | `graphics.cpp` | icon cache, `queue` of requests by username | `load`, `onRequest`, `ResponderProcess::update` |
| SDL_image | `IMG.c`, `IMG_*.c`, `stb_image.h`, `nanosvg*.h`, `qoi.h`, `miniz.h`, `tiny_jpeg.h` | the source's position, what a call has allocated, the error text; XPM's static line buffer; what an encoder holds back | `IMG_Load`, `IMG_Load_RW`, `IMG_LoadAnimation`, the `IMG_is...` and `IMG_Load..._RW` of each format; `IMG_SavePNG`, `IMG_SaveJPG` and their `_RW` |
| Map | `map.cpp` | tiles | setters and getters, unused by the server |
| start-up | `main.cpp`, `config.h` | - | `main`; `readConfig` is commented out |

Outside the repository: mirage-core (events, entities, processes, packets),
Boost.Asio, entt and SDL. They are modelled only as far as the code above relies
on them. SDL_image is in the repository (`src/include/SDL_image/`) and is built
with the server, which loads every icon with it.

**How the parts interact.** Everything runs on the one thread that calls
`ioContext().run()` (`main.cpp:27`). NetworkController turns packets into events
with `enqueueEvent`, to be delivered later; these carry the *username* of the
client, and handlers find "their" events, and their connection, by comparing
names. Within a handler, `triggerEvent` calls the bound handlers directly:
`NewConnectionEvent` creates a Client, which triggers
`ClientAuthorizationRequestEvent`, which creates a ClientAuthorization;
`ClientAuthorizationConfirmedEvent` sets `authorized` and triggers
`ClientAuthorizedEvent`, which creates a SimpleGame. Back from the components to
NetworkController go `getConnection`, `send` and `disconnect`. `Input` events move
the players and have frames sent; a frame loads the icons it needs, through
`IMG_Load`, into the cache that the icon responder answers `ResourceRequest`
events from, five milliseconds later.

**What is hard here.** No two handlers run at once, so the difficulty is in what
happens *between* handlers: the two steps of the handshake, events that wait
while their user is disconnected or replaced, a time-out that races a queued
password, several asynchronous receives on one socket, and copies and wrappers
that outlive what they refer to. SDL_image has no concurrency; what is hard there
is its error paths: seventeen detectors share one source, every read can come up
short, every allocation can be refused, and each combination has to leave nothing
behind. `PROJECT.json` lists each such place under
`hazards`, with the properties about it.

What makes each component correct:

* connections: names are unique; each entry is owned by exactly one thing that
  will take it further; entries leave only with their client; they are activated in
  order; refusals reach who asked; sockets are not crossed;
* receiving: each datagram is handled once, in order, as its sender's;
* Client: the connection is found, the copy stays true, it is decided in the end;
* ClientAuthorization: one decision per client, made by its own user; a second name at
  an address, which cannot be told from the first, is let in by no password;
* SimpleGame: one per authorized client; moves are the player's own; the tiles are in
  the window and apart from each other, each once;
* Icons: each request is answered, to a user who is still there, with the icons that a
  frame has shown if the reply is not cut off;
* SDL_image: a format's detector leaves no trace; a failed load leaves the source as
  it was, nothing allocated and a reason; a picture, loaded or saved, is complete.

## Modules

| module | models |
|---|---|
| `Wire` | what the components share: names, addresses, connection numbers, `sent` (the datagrams of the last handler), `fault` (why the process stopped) |
| `Network` | the connection list, the handshake, the packet dispatch, `disconnect` |
| `Sessions` | Client, ClientAuthorization with its process, and the creation of SimpleGame |
| `Server` | the composition of `Network` and `Sessions` through the event queues |
| `Lifecycle` | abstract: what the server promises about one user name |
| `Game` | SimpleGame's position and input, the icons and the frame sent after a move |
| `Icons` | the icon cache, the queue of requests, what a reply has in it |
| `Service` | the composition of `Server`, `Game` and `Icons`: the whole server |
| `Sieve` | a loop that keeps the elements of a list that are in a set |
| `IconLedger` | `Icons` alone with a ledger of what was asked and answered |
| `Layout` | the loops of `sendFrame` that place the tiles |
| `ReceiveLoop` | the asynchronous receives of NetworkController |
| `Mailbox` | abstract: an ordered mailbox, what the receive loop promises |
| `Steps` | the steps SDL_image's functions are made of: read, write, seek, allocate, free, decide, call, return |
| `Loading` | what those steps do to the source, the heap, the error text and the stack |
| `PngLoader`, `JpegLoader` | `stb_image.h`, and the detectors of the two formats |
| `GifLoader`, `XpmLoader`, `XcfLoader` | `IMG_gif.c`, `IMG_xpm.c`, `IMG_xcf.c` |
| `BitmapLoaders` | BMP, ICO and CUR, PCX, TGA |
| `RasterLoaders` | LBM, PNM, XV, QOI |
| `SvgLoader` | `IMG_svg.c` with the parser and the rasterizer of nanosvg |
| `PngWriter` | `IMG_SavePNG` with the compressor of `miniz.h` |
| `JpegWriter` | `IMG_SaveJPG` with the encoder of `tiny_jpeg.h` |
| `Images` | `IMG.c` and `IMG_stb.c`: the search for the format, all of the code together |
| `ImageLoading` | what a caller of SDL_image may rely on, and the known exceptions |
| `Drawing` | the composition of `Layout` and `ImageLoading`: one `sendFrame` |
| `LoopLemmas` | what a loop computes, for any number of passes; the lemmas of `Sieve` |
| `ServerProofs`, `LifecycleProofs`, `ServiceProofs`, `NetworkProofs`, `ReceiveLoopProofs`, `IconLedgerProofs`, `DrawingProofs` | TLAPS proofs |
| `MCNetwork`, `MCServer`, `MCService`, `MCIconLedger`, `MCDrawing` | values of the constants for TLC |

**Correspondence.** One handler, with everything it calls synchronously, is one
action. `HandleConnect`, `HandleAccept` and `HandlePacket` are `handleConnect`,
`handleAccept` and the rest of `handlePacketRaw`; `AcceptFails` is `handleAccept`
of a socket that is not connected, where `remote_endpoint()` throws and `main`
ends. `DeliverNewConnection`, `DeliverMessage` and `DeliverClientInfo` are the
dispatcher delivering the oldest event of a type to all its handlers;
`UpdateProcess` is one tick of an AuthorizationProcess; `Blocked` is a
`ClientAuthorizationBlockedEvent` with the `onDestroy` it leads to.

A Connection, its NewConnectionEvent, its Client, its ClientAuthorization and
its SimpleGame all have the number of the connection, given in the order of
`emplace_back`. As the list and the accept queue are in that order, they are
sets, and the first element is the one of the least number (`IsFirst`). A lookup
in the code never uses the number: it searches by name or by address, as the
code does. An entry that `handleConnect` puts on the list and erases again in the
same call (`Refuse`) takes no number.

In `ReceiveLoop`, `handled` has the calls of `handlePacketRaw`, and `sender` in a call and in a
receive is history: who sent the datagram, which the code only has in `endpoint`.

In `Service`, `DeliverInput` is a `PacketReceivedEvent<Input>` with `onInput` of every
SimpleGame, the frame and the loading of its icons included; a load may fail,
which throws and ends `main`. `DeliverRequest` is `onRequest`, and `Respond` is
`ResponderProcess::update`. A SimpleGame's layout is a loop inside of one handler, so
it has a module of its own, in which each pass of the loop is a step; `Drawing` puts
the loading of the icons before it, each step of SDL_image being a step.

The functions of SDL_image are data: a function from labels to sequences of steps,
one definition per C function (or part of a long one), put together in `ImageCode`.
`Loading` runs them with a stack of calls. A loop is a block that may go back to its
label; a comparison of the file's contents is a step that may go either way, and
two comparisons that the code makes of the same thing share a *trait*, so that the
second goes as the first did. An allocation may be granted or refused, a read may be
whole or short; once the source has ended it stays ended until it is repositioned. A
destination takes what is written as a source gives what is read. What an encoder still
holds (a saved match of miniz, the bits and bytes in the buffers of tiny_jpeg) is a trait.
`live` has the pointers that own something and `freed` those that were freed and
not cleared; a dereference of what is not live, or a second free, is a `fault`.

Abstracted: names and addresses are opaque; `sanitizeUsername` is a constant
function; a packet's contents are whether it is the password; `connected` and
`acceptor` sockets are the address of their peer. Packets that change nothing
(a wrong constant, an unknown or half-open sender) are no steps. When a handler
uses the wrapper of a destroyed component, or a null connection, the process is
taken to stop with a `fault`; what undefined behaviour would do instead is not
followed.

**Assumed of the code outside the repository.** The I/O context has one thread.
Events of one type are delivered in the order they were enqueued, events of
different types in any order. `MIRAGE_CREATE_WITH_EVENT` creates the component on
a new entity, initializes it and binds its handlers before the trigger returns.
A process that calls `fail()` gets `onFail` in the same tick and is not updated
again. A wrapper of a destroyed component converts to `false`. Asio completes
the accepts of an acceptor, and performs the receives of a socket, in the order
they were started. A datagram overwrites as much of the buffer as it is long.
The serialized lists of a packet are well-formed (`Keys`, `Requests`), and a number of
serialized icons fits a reply (`Capacity`). Window sizes are 16-bit. Functions of SDL
that fail set SDL's error text (`Ask`, `Make`), and free what they do not return.

## Runs

| run | cfg | what it asks |
|---|---|---|
| `network` | `MCNetwork.cfg` | the list under any use of the component by the rest of the server |
| `server` | `MCServer.cfg` | the repository as it is, where nobody triggers the blocked event: who lets a client in, and with two names at one address; with liveness: every client is decided |
| `blocking` | `MCBlocking.cfg` | users can be blocked; the main invariants and the refinement of `Lifecycle` |
| `service` | `MCService.cfg` | two users of the whole server: what is looked up by name later is still the user who asked, and each moves their own player |
| `player` | `MCPlayer.cfg` | one player's frames and requests: what a reply has in it; with liveness: every request is answered |
| `icons` | `MCIconLedger.cfg` | three users' requests against the timer: none lost, none answered twice, none cut off but by haste |
| `receive` | `MCReceiveLoop.cfg` | receives of two accepted connections, short datagrams and errors; the refinement of `Mailbox`, with its liveness |
| `drawing` | `MCDrawing.cfg` | a frame: every path through every loader and both writers of SDL_image, and the layout of the tiles |
| `failed`, `refusal`, `sockets`, `receive_tcp` | `MCFailed.cfg`, `MCRefusal.cfg`, `MCSockets.cfg`, `MCReceiveLoopTcp.cfg` | violated: see Findings |

**Bounds.** `MaxConnections` (1 to 3 Connection objects ever accepted): two names
that interact, and a name that is freed and taken again next to another one, need
three; `service`, where no name is freed, has two and `player` one. `Endpoints`: two
where attribution matters; one in `blocking`, which makes every connection share its
address, so that an operation that mixes up names and addresses shows. `RawNames` in
`network` include two spellings that sanitize to one name and one that sanitizes to
the empty name. `MaxEvents` = 1 event per type is enough for an event to outlive what
it names, as nothing distinguishes a second one of the same type. `MaxUpdates` is the
source's 10 in `failed`; elsewhere it is 0 or 1, which lets the time-out race
everything within fewer states. `MaxInputs` = 2 lets a move cross the edge and come
back. `MaxWanted`, `MaxAsked` and `Capacity` let two requests of one user fill a
reply, with a second user's next to it. In the receive loop four datagrams and two
TCP receives let two receives complete before the first handler runs, which is where
`tcpBuffer` is shared. `Sizes` in `drawing` are no window, one pixel less and one more
than a cell of a pixel and than a scale of one, and the largest. `FirstSize` is the one
window of the frame that loads icons, and `Icons` is 1 where the source has 2: SDL_image
carries nothing from one call to the next (XPM's static buffer is reset at the start
of a load; that the model does not either is the theorem `EveryCallBeginsAfresh`), and the
proofs in `DrawingProofs` are for all windows. Nothing bounds the loaders: their states
are finite, and all are reached.

**Deadlock** is not checked, because the server stops at a fault, and the models
stop at their bounds.

**Fairness.** `FairSpec` (run `server`) has weak fairness of the delivery of each
NewConnectionEvent and of the ticks of each process: the dispatcher and the
timer run on the I/O context whatever clients do. `ServiceFairSpec` (run `player`)
has it for the delivery of requests and the ticks of the responder, for the same
reason. Nothing is assumed of clients, so nothing promises that an accept ever
completes, and nothing that a datagram arrives. In `ReceiveLoop` the I/O context
performs receives and runs their handlers, each with weak fairness; from this
follows the weak fairness that `Mailbox` promises.

**Refinements.** `Server` implements `Lifecycle` (model-checked and proved).
`ReceiveLoop` implements `Mailbox` (model-checked, and all but its liveness
proved): what the UDP receive takes is handled
in order and as its sender's, whatever other receives take away from it; what they
take is a `Lose`, and a datagram too short for a packet is promised nothing.

**Mutants.** Each property of a passing run is paired, in `PROJECT.json`, with a
changed definition, marked "Mutation" in the modules, that breaks it.

## Findings

* `failed`: `onFail` triggers the event that *authorizes* the client, then tells
  it that authorization failed (`game/client.cpp:25-27`).
* `refusal`: the refusal of a name in use is sent to the client that has the name
  (`server.cpp:78`).
* `sockets`: accepts are tied to the order of the UDP datagrams, so clients that
  connect by TCP in another order hold each other's sockets (`server.cpp:109`).
* `receive_tcp`: the receive of an accepted connection is started on the UDP
  socket and attributes what it takes to the previous sender (`server.cpp:40`).

`PasswordIsOwn` is stated for the repository as it is. If some code triggered the
blocked event, a message of a blocked user that still waits could authorize the
next client of that name, and a ClientAuthorization would outlive its client
(`WrappersAreValid`). `blocking` explores that use and claims neither.

The exceptions in the properties of `ImageLoading` are found there, too: they say
what the code of SDL_image does *not* keep to, by format.

* Lost (`LostByFormat`): stb_image's 16-bit buffer when its 8-bit copy is refused; the
  GIF frame for which the list has no room; nanosvg's points or stops when they cannot
  grow, and the image of an SVG without a size; an XCF file's tile of an unknown kind,
  its colour map, and what its channels have.
* Not explained (`Silent`): a GIF that ends at its trailer, several ends of PNG and JPEG
  data, the header and compression of XCF, and a PNG file that the destination does not
  take whole, unless its RWops says so; `SDL_GetError()` tells of an earlier call.
* Not put back: GIF, SVG and QOI never reposition the source when they fail, XCF does
  only after its header, PCX, LBM and XPM do not when SDL refuses the surface.
* Incomplete: CUR, ICO, PCX, TGA, XCF and stb_image (in headers and skipped parts) do
  not look at every read. A GIF picture whose codes end early (`IMG_gif.c:474`), an
  animation whose frames do, a QOI file without its last chunks (`qoi.h:559`) and an SVG
  file without its last elements are returned as they are. GIF, XCF and SVG return what
  they have when an allocation was refused, an SVG even a blank surface
  (`nanosvgrast.h:1391`). `IMG_SaveJPG` succeeds
  whatever the destination has taken (`IMG_jpg.c:699`).
* Faults: `IMG_SaveJPG_RW` closes a destination it was not given, when it is to free it
  (`IMG_jpg.c:752`; in the model the destination is NULL because it was refused). Most
  loaders have an allocation they trust. Without a refusal (`NullByFormat`), a file can
  have a NULL pointer used in four: the colour map of an indexed XCF file that has none
  (`IMG_xcf.c:719`), the palette of an LBM picture of 24 planes with colours
  (`IMG_lbm.c:262`), the entry of a character that an XPM file with one character per
  pixel has no colour for (`IMG_xpm.c:161`), and the text of an SVG style that was never
  finished (`nanosvg.h:1832`).

## Proofs

`ServerProofs` proves, for all values of the constants that satisfy the named
assumptions (`WireAssumption`, `NetworkAssumption`, `SessionsAssumption`,
`ServerAssumption`), the invariants of the run `blocking` and its action property
`OnlyOwnClientDisconnects`. They stand on one inductive invariant `Inv`:

* `ConnectionAlwaysFound` needs `EveryConnectionIsOwned`: a waiting announcement
  has an entry on the list;
* `CopyIsCurrent` needs `UniqueUsernames`, so that the lookup by name finds the
  announced entry (`OwnNameFound`);
* `EveryConnectionIsOwned` needs `CopyIsCurrent` and `UniqueUsernames`, so that a
  disconnect by the copied name takes only the client's own entry
  (`BlockedIsOwn`), and `AnnouncedAreActivated`, so that this entry is not one
  an accept is outstanding for;
* `UndecidedAreAsked` needs them as well, so that a confirmation by name decides
  one client only (`OneClientPerName`), and `CountersInRange` bounds the counter.

`LifecycleProofs` first proves that `Server` implements `Lifecycle`: with names unique,
the phase of a name is that of its one entry (`PhaseOfEntry`); every action then
has a lemma that it is a step of one name (`OneNameMoves`), a stop, or unseen.

`ServiceProofs` proves, assuming `Blockable = {}` (nobody triggers the blocked event),
`WrappersAreValid`, `PasswordIsOwn` and `SecondNameHasNoVoice` of `Server`, and
`ResponderFindsUser`, `RepliesGoToRequester` and `MovesAreOwn` of `Service`. Then no entry leaves the list, so a
waiting packet, and a waiting request, still belong to the connection that has their name:
`OwnInv` says so of the packets and `ServiceInv` of the queue of icons too.
`SecondNameHasNoVoice` follows from it and from `OldestSpeaks` of `NetworkProofs`: the
connection a packet is from is the oldest of its address, and by its own packet only is a
client let in. `ServiceTypeOK` and `FramedIconsAreKnown` need no such assumption, because a
frame is sent in the handler that loads its icons: their invariant is `GamesInv`, which adds to `Inv` that the packets
that wait have a body of their type (`BodiesFit`), that an activated connection has
its socket (`PeersAreThere`), and that once a frame has been sent its icons
are in the cache (`IconsAreLoaded`). `MovesAreOwn` is about the loop of `onInput` over the
keys: after each of them the position is the first one moved by the number of such keys so
far, modulo 2^16 (`MovedAxes`, by induction over the keys).

`IconLedgerProofs` proves both properties of `icons`, for any number of users and requests of
any length. That the replies of patient users are whole needs `ShortQueues`: a user who is not
hasty has a single request waiting, so no more icons than fit; and that a reply has no more
icons than were asked for, which is a lemma of `LoopLemmas`.

`LoopLemmas` has the induction the last two proofs, and the next one, rest on. The library
states induction over predicates, which none of the installed provers can instantiate;
`EveryPass` states it over *sets* of numbers, from the well-foundedness of the natural
numbers (`LeastNumber`). From it follow the existence of what a recursive function over the
passes of a loop defines (`LoopComputes`), and what `Kept` keeps of a list, of one that has
been appended to and of a tail. `Kept` is a recursive function, and no SelectSeq, for that
reason.

`NetworkProofs` proves the three invariants of `network` for any use of the component
(`NetworkSpec`). `HandshakesCompleteInOrder` needs `WaitingAreAccepting`: a connection
without its TCP socket has its accept outstanding, whether it is listed or not. The
inductive invariant also says, of packets that wait, that no listed connection of the
address is older than theirs (`OldestSpeaks`). The
inductive invariant is proved for a wider specification, `OpenNetworkSpec`, in which whoever uses
the component may also send and stop the process. `ServerUsesNetwork` and
`ServiceUsesNetwork` prove that `Server` and `Service` are such users: they disconnect only a
connection that was activated (`BlockedUsesNetwork`), and else only take the oldest event of a
queue. So what `network` checks of the component alone holds in the whole server
(`ServiceKeepsHandshakes`).

### Liveness

Two liveness properties are proved too, as far as the prover goes. It has no rules for
ENABLED, so weak fairness is stated with the guard of the action written out
(`CanUpdate`, `CanDeliver`, `CanDeliverRequest`, `CanRespond`): infinitely often the guard is
false, or infinitely often the action happens. That this is `WF_vars` of the action is a fact
about states, the guard being equivalent to ENABLED: given as invariants
(`CanUpdate(i) <=> ENABLED <<UpdateProcess(i)>>_vars`, and likewise for the other three), TLC
finds these true in every reachable state with the constants of the runs `server` and
`service`. They compare two ways of writing a guard and say nothing of the code, so they are
not in the runs.

* `ClientsAreDecided` is `EveryClientIsDecided`. Accepts complete in order
  (`HandshakesCompleteInOrder`), so whoever is announced after connection i has a higher
  number (`AnnouncedInOrder`) and nobody overtakes it (`NobodyOvertakes`): a fair delivery of
  the first event brings i nearer (`AnnouncementComesNearer`). Then it is undecided, which
  it stays until it is decided (`UndecidedOrDecided`), with a registered process whose calls
  are each counted once (`CounterOfStep`); `CountersInRange` does the rest.
* `RequestsAreAlwaysAnswered` is `RequestsAreAnswered`. Only a delivery takes a request
  out of its queue (`RequestsOnlyGrow`), and it brings all the others up by one
  (`RequestMovesUp`). Delivery is not always enabled, because of the bound `MaxWanted`; but
  when nobody waits for the responder nothing but a delivery changes that, and when somebody
  does the responder is due (`RequestsMoveUp`). That it answers on the right connection is
  `EverybodyIsAnswered` and `HoldersAreOne` (`QueuedIsAnswered`).

Both count something down, and induction over it would be over temporal formulas, which
cannot be stated here; the steps are proved for any count and put together for a fixed one.
So `ClientsAreDecided` assumes `MaxUpdates = 10`, which is the number in the code
(`client.cpp:10`), and `MaxConnections <= 8`; `RequestsAreAlwaysAnswered` assumes
`MaxEvents <= 8`, that `MaxWanted` lets the longest single request through (`RequestsFit`), and
`Blockable = {}`. These bounds are the model's, and none of the steps depends on them:
`UndecidedAreDecided` and `QueuedRequestIsAnswered`, the last leg of each, have no bound on
the connections and on the queue.

`ReceiveLoopProofs` proves the invariants of `receive` for any number of datagrams,
connections and failures. `LoopInv` is for `TypeOK`, `UdpCallsAreRight`, `EmptyDatagramsRepeat`
and `ReceivesAreConserved`: it adds that there is one UDP receive (`UdpOnce`), that what the
kernel holds is later than anything in `buffer` (`Fresh`), and that nothing writes `buffer` and
`endpoint` between that receive and its handler (`Pending`), and that without such a receive
`buffer` still has the packet that was handled last (`BufferIsLast`). `OrderInv` is for
`InOrderUpToOneConnection`: up to one connection the receives take turns (`TakingTurns`), and the
calls made, the receives performed and the datagrams in the kernel are, in this order, all
that arrived (`Numbered`).

`KeepsMailboxPromise` is the safety part of `ImplementsMailbox`. Under the refinement mapping
(`Mail`, `Made`, `Open`) an arrival is an arrival, of a packet or of something shorter; a UDP
receive that is performed is a stutter, because its packet moves from the kernel into
`buffer`, and nothing can be there before it (`NothingWaits`); one of TCP that takes a packet
is a `Lose`, of the first packet behind the one in `buffer` (`RemovedBetween`); a failing UDP
receive closes the mailbox; and the UDP handler, whose `endpoint` and `buffer` are its own
(`Pending`), is `Handle`.

`DrawingProofs` proves the layout's properties for every set of window sizes: a tile at its
scale is no larger than its cell (arithmetic of `\div`), and the vertices are those of
the tiles in column order (`LayoutInv`). They hold of `DrawingSpec` because loading icons is a
stutter of the layout (`FramesAreLaidOut`). `DrawingTypeOK` is proved for every `Code` that
satisfies `CodeAssumption`, which TLC checks of `ImageCode`: its stack discipline needs that
every function but the last is at a call (`IsStack`), and that no icon is loaded any more
when the frame has all (`DrawingInv`).

Each action has a lemma that it preserves the invariant of its module; lemmas such as
`InvSameState`, `InvSameClients`, `ControlGoesOn` and `MailboxStutters` do what is common to
several actions.

Only model-checked: that the guards above are ENABLED, so the fairness of `FairSpec` and
`ServiceFairSpec` as it is written there; the liveness of `ImplementsMailbox`, whose fairness
is that of the abstract actions and needs ENABLED on both sides of the mapping; and the
six invariants of `ImageLoading`. These depend on what `ImageCode` is, step by step, and there is nothing to be general about:
the code is one fixed finite structure, which TLC explores completely, and `DrawingTypes` and
`EveryCallBeginsAfresh` say that its bound on the number of icons leaves nothing out. The
saved file is never read back: that what `PngWriter` writes is what `PngLoader` reads is a
matter of data.

## Not modelled

* `map.*`: setters and getters that nothing in the server calls. `config.h`: `readConfig`
  is commented out in `main.cpp`.
* The life of a packet that is being sent (`async_send_to` of a temporary,
  `server.cpp:236`) and TCP sends that take a part (`server.cpp:246`): what is sent then is
  undefined or left to the client, and nothing in the code states a promise.
* The effect of a packet attributed to the wrong client by a TCP receive on the
  handshake: `receive_tcp` shows the attribution itself.
* Of SDL_image: pixel arithmetic, sizes, offsets and indices, so also what only they
  decide, such as array bounds, an assertion that excludes grey pictures
  (`IMG_stb.c:121`), an icon's offset from the start of the file (`IMG_bmp.c:212`), and how
  deep classes of styles name each other (`nanosvg.h:1832`). The number of points, edges and frames is not told apart
  either, nor what the writers only compute: the transform, the Huffman tables, the hash
  chains and the checksums. `IMG_ReadXPMFromArray` is not there, and the
  parts of `miniz.h` for inflating and archives are not compiled. The other back ends (libpng,
  libjpeg, WIC, ImageIO) and AVIF, JXL, TIF and WEBP are configured out; of them only the
  `IMG_is...` functions that say no are in `Configured`. The parts of `stb_image.h` for
  formats other than PNG and JPEG are compiled out.
