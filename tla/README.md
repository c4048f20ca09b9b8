# q2proto in TLA+

q2proto is a C library that encodes and decodes the messages of Quake II network
protocols (vanilla, R1Q2, Q2PRO, Q2rePRO, KEX and their demo variants). It keeps
little state, but that state spans calls, packets and two machines: a gamestate
is written in pieces, data is compressed inside packets, parsers change their
state in the middle of a message, and what a byte means depends on protocol,
version and game. This directory models that state and those formats.

Paths below are relative to the repository; file names without a directory are
in `src/src/`.

## The system

| Component | State | Operations | What makes it correct |
|---|---|---|---|
| Gamestate writers (`q2proto_write_gamestate.inc`, `q2proto_proto_{q2pro,q2repro}.c`) | `gamestate_pos` in the server context | `q2proto_server_write_gamestate`, called until it no longer returns `NOT_ENOUGH_PACKET_SPACE` | every element once, in order; every packet parsable on its own |
| zpacket wrapper (`q2proto_internal_maybe_zpacket.c`, `q2proto_server_write_zpacket`) | a deflate I/O argument for the duration of a call | begin, end; wrap a packet | fits the packet; always ended; never nested |
| Client parser (`q2proto_client.c`, `*_client_read` of every protocol) | `client_read` (the parse state), `has_inflate_io_arg`, `has_zdownload_inflate_io_arg`, KEX's solid bits | `q2proto_client_read` | the state agrees with what the server wrote next |
| Downloads (`q2proto_internal_download.c`, `*_download_*`) | `q2proto_server_download_state_t`; the client's zdownload inflate stream | begin, data, finish, abort, end | the client gets the file; streams on both sides stay in step |
| Frames and deltas (`q2proto_internal_packing.c`, `*_read_frame`, `*_write_frame`, entity and player deltas) | the application's packed states | make delta, write, read, apply | the delta applied to the base gives the new state |
| Moves (`*_write_move`, `*_read_move`, batches) | within a message only | write, read | the server moves the player as the client meant |
| Connection (`q2proto_parse_challenge` to `q2proto_server_fill_serverdata`) | the two contexts; datagrams in between | choose protocol and version, set up both contexts | both sides settle on the same protocol, version and game |
| Commands (the switch of every reader) | none | | each side understands the other's numbers |
| Codecs (`q2proto_coords.c`, `q2proto_solid.c`, `q2proto_sound.c`, bit I/O) | bit reader and writer | pack, unpack | unpacking a packed value gives the value, within its precision |
| Tools, tests, debug output | | | not part of the protocol |

The library is single threaded and calls back into I/O functions of the
application (`q2protoio_*`). Concurrency is between server and client, over the
application's network channel; the hard part is what the two keep in their
contexts between calls, and that writers and readers, two pieces of code per
message and protocol, agree on every bit.

## Modules

There are five specifications, each closed by a module `MC...` that gives TLC
its constants. They meet in what they abstract: a token of `GamestateWire` or an
item of `Session` stands for a message whose bits are the subject of
`MessageFormats`; the protocol and game of `Session` and `MessageFormats` are
those that `Connect` settles.

Each mutant operator (`\* mutant:`) stands before the definition it is a wrong
version of; it is part of no specification and only shows that the properties
can tell the difference.

### Gamestate

    GamestateWire  <- GamestateWriter <--+
                   <- StreamReader    <--+-- GamestateSystem <- GamestateInvariant <- MCGamestate
                                                |     ^                      ^
                         GamestateTransfer <----+     |                      +-- GamestateProofs

* `GamestateWire` - what writer and reader share. A gamestate is a list of
  elements, configstrings first. The channel (`wire`) is a log of *tokens*: a
  self-contained message, the command that opens a stream, an element, an end
  marker, the header of a zpacket, the end of its data, the end of a packet.
  A token remembers the element it carries, the number of the serverdata message
  it belongs to and whether it lies in a zpacket; the reader does not look at
  the latter two, the properties do.
* `GamestateWriter` - one action per loop turn or write of
  `q2proto_server_write_gamestate`, of the streaming writers (`Streamed = TRUE`:
  `q2pro_server_write_gamestate_stream`, `q2repro_server_write_gamestate`) and of
  `q2proto_write_gamestate.inc` (`Streamed = FALSE`: vanilla, R1Q2, extended
  demos), with the zpacket and its errors, and the application that calls it.
  `wpc` is the place in the call, `pos` is `gamestate_pos`. Sizes are bytes;
  compression is a choice between "half the size" and "the same size", and the
  space reported for a deflate output may or may not count input that is not yet
  compressed, as in `q2proto_deflate_impl_helper_remaining`.
* `StreamReader` - `client_read` as `mode`, `has_inflate_io_arg` as `inflating`.
  A token that the parse function of the current mode does not understand is an
  error (`cerr`), after which the application disconnects.
* `GamestateSystem` - the composition, `Reconnect` (both contexts are
  initialised again), the properties.
* `GamestateTransfer` - the abstract specification: after each serverdata the
  application is handed the elements one by one. `GamestateSystem` implements it
  with `level <- clevel`.
* `GamestateInvariant` - the inductive invariant. `GamestateProofs` - theorems.

`NumberLemmas`, which all proofs use, has what they
need of numbers and finite sets: among them that a set of naturals that is not
empty has a least element.

### Downloads

    FileTransfer <-----------------+
    DownloadServer <- DownloadClient <- DownloadSystem <- DownloadInvariant <- MCDownload
                                                                            <- DownloadProofs

* `DownloadServer` - `q2proto_server_download_begin`, `_data`, `_finish`, `_abort`
  and `_end`, one action per call and outcome; the state of
  `q2proto_server_download_state_t`, the deflate stream behind it (`zio`, with the
  limit `zmax` it was begun with) and the caller's `data` and `remaining`. The
  application asks for data while there is some, writes the message at once,
  aborts after an error or when the client wants it, and calls `_end` after the
  last message. Byte i of the file is the number i. How well a packet's data
  deflates is a ratio chosen freshly for each message.
* `DownloadClient` - the readers of `svc_download` and of the two zdownload
  messages, with the inflate stream in the context (`inflating`, and how far it
  is, `zat`), and the application that appends what it is handed and calls
  `q2proto_client_download_reset` when a download is over.
* `DownloadSystem` - the composition over the reliable channel; a client asks for
  one file at a time, and the connection may end at any moment (`Drop`).
* `FileTransfer` - the abstract specification: the file grows from its beginning,
  and is complete exactly when all of it has arrived.
* `DownloadInvariant` - the inductive invariant, and the two conditions on sizes under
  which percentages and packets are right. `DownloadProofs` - theorems.

### Message formats

    WireFormat <- EntityDelta <- PlayerDelta <- VanillaFormat <- R1q2Format <- Q2proFormat
       <- Q2proMoves <- Q2reproFormat <- KexFormat <- ExtdemoFormat <- MessageFormats <- MCFormats
                                                        R1q2Format <- WireProofs

The order is that in which the protocols build on each other. Each module has the
writers and the readers of one protocol, translated separately, since whether
they fit together is the question.

* `WireFormat` - a message is a sequence of items with width and unsigned value.
  Writers and readers are sequences of *rows*: which flags must be set, which
  field, which type. A reader that asks for a width other than that written is
  out of step (`ok`). Encodings truncate as the C types do.
* `EntityDelta`, `PlayerDelta` - packed states as functions from fields to
  numbers, and the deltas that `q2proto_packing_make_*_delta` makes of them; the
  flag bytes of entities, with the entity number.
* `VanillaFormat`, `R1q2Format`, `Q2proFormat`, `Q2reproFormat`, `KexFormat`,
  `ExtdemoFormat` - entities, baselines, player states, frame headers and moves
  of each protocol, for every version and game at which a field changes its
  width or presence. Flags are sets of bit numbers, so that two flags that share
  a bit (or a byte with the command or `suppress_count`) stay confusable.
* `Q2proMoves` - moves and batches of moves, bit by bit.
* `WireProofs` - theorems about single values, flags and rows. `MoveProofs` - that every
  move arrives. `RefusalProofs` - that no message is refused without a reason.
* `MessageFormats` - the state machine: a message is made (`Init`), written by
  the server (or client), read by the other side; the properties apply what was
  read to the old state and compare.

### Session

    Commands <- Session <- SessionInvariant <- MCSession
                                            <- SessionProofs

* `Commands` - for every protocol, which number its writer puts for which
  message, and what its reader's switch takes each number for; in both
  directions.
* `Session` - packets on a connection. `WriteMessage`, `WriteFrame`,
  `WriteDelta`, `WriteRemove`, `WriteTerminator`, `WriteGamestate` fill a packet,
  `Overfill` breaks one off where it is full, `SendZpacket` wraps it
  (`q2proto_server_write_zpacket`); it may be lost. `client.mode` is
  `client_read`, `client.inflated` what is left in the inflate argument.
  Gamestates come in all their forms: separate messages, streams, Q2PRO's single
  message, KEX's blasts, each plain or in a zpacket. `edict` and `base` are
  `kex_demo_edict_nonzero_solid` and `kex_demo_baseline_nonzero_solid` on both
  sides. `SkipPacket` and `Reconnect` are what the application does about an
  error.
  `Expects` says for each mode which item the parser can go on with; `NeverConfused`
  is stated with it.
* `SessionInvariant` - the inductive invariant `SessionInv`, in three parts:
  `SolidInv` of the solid entities, `HandInv` of what is handed over, `FollowInv` of
  the parser's mode. `SessionProofs` - the proofs of the three, in this order, and of the whole.

### Connection

    Connect <- ConnectInvariant <- MCConnect
                                <- ConnectProofs

* `Connect` - the server's challenge (`q2proto_get_challenge_extras`), the
  client's choice (`q2proto_parse_challenge`), the connect request
  (`q2proto_complete_connect`, `q2proto_get_connect_arguments`,
  `q2proto_parse_connect`), both contexts, and the serverdata from which the
  client makes its own. Challenges and requests are datagrams: `net` is a set
  from which they may be taken repeatedly, late, or never (`Lose`); the server may
  load another game at any moment (`ChangeGame`). `RecordDemo` is
  `q2proto_init_servercontext_demo`. A string is the list of its arguments. The
  application accepts the protocols its game can be played with, and refuses a
  Q2PRO version too old to announce the game (`CanSay`), which nothing in the
  library does for it.

## Runs

| Run | Question |
|---|---|
| `streams` (`MCGamestateStreams`) | streams with and without zpackets, cut at every possible place, a baseline that may be refused: can the client parse all packets, does the gamestate get finished and delivered, does the proofs' invariant hold? |
| `reload` | a second gamestate on the connection, reconnecting at any time, and a baseline that may be refused: does anything of the old position, or a deflate stream, outlive its call? |
| `messages` | the writer of vanilla and R1Q2, over two levels: does the proofs' invariant hold, which the safety properties of the two runs above follow from? |
| `unwritten` | violated: see Findings |
| `download_stream` | Q2PRO and Q2rePRO: one deflate stream over all messages, a file deflated already, or plain messages: is the file intact, is its end told, do the streams stay in step, does the proofs' invariant hold? |
| `download_each` | R1Q2 with an application that may ask for data again after an error: a deflate stream per message, plain messages in between; does `deflate_io_valid` follow the stream, does every download end? |
| `download_chunksize` | violated: see Findings |
| `formats` | does every entity, player state, frame header, move and batch arrive as it was meant, in eleven contexts (protocol, version, game), and is only refused what cannot be said? |
| `blend` | violated: see Findings |
| `session` | packets of every protocol, whole, broken off, lost, wrapped: does the parser always know what comes next, is everything handed over once, do both sides remember the same solid entities, do the proofs' invariants hold? |
| `connect` | do both sides end up with the same protocol, version and game, is the client's best choice taken and never turned away, also by late requests, does the proofs' invariant hold? |
| `original` | violated: see Findings |

Bounds of the gamestate. A packet has 48 bytes; short configstrings leave room for several
elements in it and long ones for a single one, a baseline needs 12 bytes but has
8, and one message of 10 bytes may come between. With 2+2 or 1+1 elements
every cut (before, inside, between and after the two streams, several packets per
stream, zpacket or not, packet partly filled by another message) happens. Two
levels and one reconnect are what it takes to see a stale position. `MaxMsgs`,
`MaxLevels` and `MaxReconnects` are the only bounds on the behaviour. Deadlock
checking is off: with these bounds a system that has sent and read everything
stops, and so does a server after an error. In `streams` and `reload` the
last baseline is `Unwritable`: each time the protocol may refuse it or not, so both ends of a
gamestate are reached.

Bounds of the downloads. Files of 0, 40 and 60 bytes take no, one, or two to four
deflated messages, and packets of different size follow each other in every
order, from one with no room for data to one that takes 44 bytes (the deflate
helper keeps 16 of them). A message deflates to all or half of its size. Two
downloads (`MaxDownloads`) show what the first leaves behind; at most three
messages are unread (`MaxWire`). `MaxInt16` has a value out of reach, except in
`download_chunksize`, where it is so small that a file of 60 bytes can reach it, and
where the application cannot send a file deflated already (`RawSupported`).
`MayRetry` (asking for data again after an error) is on in `download_each`, which asks
about the deflate stream, and off in the other two: after an error the caller's pointer
may be past data that was never sent, which only an abort makes good. The retries make
for many states, so `download_each` has files of 0 and 30 bytes, the latter in one to
15 messages. Its packets have room for a plain message of R1Q2 only, or for more than 4 + 16
bytes: in between the deflate helper accepts nothing and each call yields an empty
message.

Bounds of the formats. A message changes one field, or two, between two states,
to a value on either side of each width that some protocol gives the field (255 and
256, -1, 40000, 65536, ...), from a state of zeros or of other values; entity numbers
lie around 255, frame numbers and flags at the ends of their fields. Four stats (the
first and the last of 32 and of 64) stand for all. Pairs are what it takes to see flags, widths
and groups of fields disturb each other. Values of 32 bits stay within TLC's integers.
Batches have three moves in one to three frames, one of which may be empty.

Bounds of the session. Two entities, three items in a packet (the terminator of a
frame is not counted), any first message and one kind of later ones
(`LaterKinds`): the parser's state after one message does not depend on its kind.
`Nests` is off, see Findings. The sides alternate: the library shares nothing
between them but the packet, and a client reads a packet whole. A KEX packet that overflows is left out:
KEX is only written to files, which do not.

Bounds of the connection. Two datagrams on their way (`MaxMessages`), clients with opposite
preferences and one without Q2PRO, versions on both sides of each one that changes a
format, the reserved 1016, none, and one beyond all.

Fairness of the gamestate (`FairSpec`). The call returns (weak fairness of the writer's steps),
the application flushes a full packet and calls again, as
`inc/q2proto/q2proto_server.h:274-276` demands, and the client reads what it
received. Other messages, further levels and reconnects need not happen.

Fairness of the downloads. The application goes on asking for data, aborts the
download if that fails, and ends it; the client reads. Failures, aborts, drops and
requests need not happen.

The other specifications have safety properties only: a message, a packet or a
request is dealt with in one call, and whether the next one ever comes is the
application's business.

## Findings

Runs that show a disagreement between the code and what it says of itself:

* `unwritten`: `q2proto_write_gamestate.inc:55` drops the result of writing a
  baseline. R1Q2 and vanilla refuse, for example, model indices above 255, after
  the command byte; the call returns SUCCESS and the packet cannot be parsed.
* `download_chunksize`: the deflated size of a message is limited to `INT16_MAX`,
  the inflated size is not, but is handed over as an `int16_t`. Negative means
  that the download is aborted. (R1Q2 also sends it in 16 bits, so beyond 65535
  the rest of the bytes are not even read.)
* `blend`: vanilla, R1Q2, and Q2PRO without its second extended API write all four
  components of a blend when one changes, but the delta has values only for those
  that changed; the others arrive as zero. A fading blend loses its color.
* `original`: `q2proto_parse_challenge` never chooses the vanilla protocol for a
  challenge without `p=` (`q2proto_client.c:100-103`).

Found in the same way, by other constants of the same modules; they have no run of
their own:

* The streaming writers emit the command byte of a stream, and the end marker of
  an empty one, without asking for space (`q2proto_proto_q2pro.c:2214-2233`). When the
  configstrings fill the packet to the last byte the call ends with an I/O error
  instead of `NOT_ENOUGH_PACKET_SPACE` (only without zpacket: the margin of the
  deflate helper hides it otherwise). The constants of `streams` with
  `StringLens = {19, 20}` reach `err = "io"`; with `{1, 20}` they do not.
* A streaming writer that is refused a baseline returns `Q2P_ERR_BAD_DATA` from inside the
  zpacket (`q2proto_proto_q2pro.c:2244`) without `q2protoio_deflate_end`, so the deflate
  I/O argument is never ended. No document says that a failed call ends it, so there is no run
  of its own; `reload` reaches it, `DeflateEnded` says that it is the only way to leave a
  stream behind, and without the second line of that property TLC shows the leak.
* With a 32-bit `size_t`, `100 * transferred` wraps for files above 42,949,672
  bytes (`q2proto_internal_download.c:36`), and the client is never told 100 percent.
  `CompleteIsReported` with `SizeModulus = 4000`.
* `q2pro_download_data` computes the size that fits in each call, but the stream was begun
  with that of the first packet (`q2proto_proto_q2pro.c:2571`); a later, smaller packet
  is overrun, against `q2proto_server.h:351`. R1Q2 begins a stream per message.
  `FitsPacket` with `Protocol = "q2pro"` and `PacketRooms = {28, 48}`.
* `r1q2_download_data` ends the stream left by a failed call and clears
  `deflate_io_valid` only after it has begun another (`q2proto_proto_r1q2.c:1569-1579`).
  If that fails, the flag stands for a stream that is gone, against
  `q2proto_server.h:314`, and the next call or `_end` ends it again. It takes an
  application that calls again after an error; one that aborts never sees it.
  `download_each` reaches it, `EndedOnce` says that it is the only way to get there;
  `DeflateIoValid` as an invariant of that run is violated.
* `q2proto_server_write_zpacket` refuses a packet that begins with a zpacket, but not one
  that contains one further back (`q2proto_server.c:353`); the client then inflates
  from inflated data and loses the rest of the packet, against
  `q2proto_server.h:291-292`. It takes an application that wraps packets into which
  `q2proto_server_write_gamestate` has put a zpacket. `AllHanded` with `Nests = TRUE`.
* `q2proto_init_servercontext_demo` asked for a Q2PRO demo of an extended game
  sets version 0, so that the serverdata does not announce the game whose formats the
  writer uses (`q2proto_server.c:256`, `q2proto_proto_q2pro.c:1489`).
  `FormatsAgree` with `DemoAsked = {"q2pro"}`.

Exceptions that the properties of `formats` name, since the code makes them:
vanilla truncates a solid to 16 bits; R1Q2 sends the third component of the velocity
under the flag of the origin's (`q2proto_proto_r1q2.c:1151`); Q2PRO truncates a `gunindex` and extended
demos a `gunframe` above 255, where others refuse them; Q2rePRO sends a `gunskin` only
with a `gunindex`. The 16-bit coordinates wrap around and 8-bit angles are coarse:
the sender cuts off up to 255 of 65536, and `q2proto_var_angles_get_short_comp` multiplies the
signed byte by 257, which takes a negative angle up to 383 below what it was (`SameAngle`).

What the models say of the application, because the code relies on it: it does not ask for
data of an empty file (division by zero in the percentage); frame offsets and
`suppress_count` fit their bits; a batch has at most as many moves as its array; a game
does not use bits 2 to 6 of the buttons with R1Q2 clients, which take them for flags of the
format (`q2proto_proto_r1q2.c:641-648`); a component of a move that is a multiple of five
lies in -640 .. 639, since R1Q2 sends a fifth of it in a byte without the look at its size
that it takes for the pitch (`q2proto_proto_r1q2.c:684-730`); it asks for no connection in a
protocol of demos.

## Proofs

All theorems hold for every value of the constants that the assumptions named in the
modules admit. Each proof goes the same way: an inductive invariant, checked by TLC in a
run first, that describes what lies *between* the two sides, since the properties
themselves only speak of its ends.

Two things stand in for induction, which the library states for operators that the
provers cannot instantiate: positions in a log or steps of a walk over a list are
functions on an interval, and what holds for all of them is proved by way of a least
counterexample (`LeastElement`).

### Gamestate

`GamestateProofs`, for every gamestate, size of packet and strings, for streams and
messages, any number of levels and reconnects:

* `Invariance` - `IInv` is inductive. `InOrderOnce` alone says nothing about what
  is in flight, so `IInv` describes the whole log: `WireInv` is a grammar (which
  token may follow which, numbers of elements count up by one), `WriterInv` ties
  the writer's place and `gamestate_pos` to the last token, `ReaderInv` ties the
  parse state and what was handed over to the token last read, `DeflateInv`
  bounds the deflated size by the space left, counting the end markers still to
  be written against the margin of 16 bytes.
* `TypeCorrectness`, `ElementsInOrder`, `Completeness` - `TypeOK`, `InOrderOnce`
  and `SuccessIsComplete` follow.
* `Parsable`, `SuccessIsHonest`, `PosIsWritten` - `NeverConfused`,
  `SuccessIsWritten` and the action property `PosFollowsWire`, wherever no message can
  break off (`NeverTorn`): streams look at the result of every write, messages
  only get through if the protocol can express every baseline (`Unwritable = {}`). The run `unwritten`
  is what happens otherwise. `SuccessIsHonest` counts: the log since the serverdata has as
  many tokens of elements as the last token's number says.
* `DeflateIsEnded` - `DeflateEnded`: a stream outlives its call only where a baseline was refused
  (see Findings). `DeflateInv` counts the margin, from which it follows that the zpacket
  always fits and no I/O error is another such way out.
* `Refinement` - every step of the system is a step of `GamestateTransfer` or
  leaves it unchanged.

### Downloads

`DownloadProofs`, for every protocol, file, packet, result of deflate, number of messages on
their way, failures, aborts and drops at any moment:

* `DownloadInvariantHolds` - `IInv` of `DownloadInvariant`. Each message on its way covers a
  stretch of the file; `at[i]` is where the first i of them end. The client's file ends
  where they begin and the server's `transferred` is where they end; only the last one may
  reach the end of the file or say that there is no more; a message begins or ends the
  stream of Q2PRO only at the beginning or end of the file. `StreamInv` says in addition that a
  plain message between two deflated ones is empty. That was not obvious, and
  without it the invariant could not be shown to hold: the client's file would go on while its
  inflate stream did not.
* `DownloadTypes`, `FileStaysIntact`, `CompletionIsWhole`, `BothAreOver`,
  `EverythingInflates`, `ProgressStaysExact` - `TypeOK`, `FileIntact`,
  `CompleteIsWhole`, `OverForBoth`, `AlwaysInflates` and `ProgressIsExact` follow.
* `CompletionIsReported` - `CompleteIsReported`, if `100 * total_size` fits a `size_t`
  (`PercentFits`) for every file.
* `MessagesFit` - `FitsPacket`, if later packets have room for what the first one limited
  the deflate stream to (`SteadyRooms`), which only Q2PRO needs.
* `DownloadTransfers` - every step is one of `FileTransfer` or leaves it unchanged, if no
  percentage overflows.
* `StreamTracked`, `EndsOnce` - `DeflateTracked` and `EndedOnce`, the only ones that hold for
  applications that call again after an error as well: no stream is leaked, none outlives its
  download, and none is ended twice but where R1Q2, called again, cannot begin another.
  Their invariant adds that without such calls only Q2PRO has a stream between two calls that
  succeed; without that `DeflateBeginFails` could not be shown to keep the flag right.

What the others suppose is what is needed. The application does not go on after an error
(`~MayRetry`): the data that the failed call consumed would be missing from the file. No
message on its way holds more of the file than `INT16_MAX` (`[]ShortMessages`): that is the
boundary of the finding `download_chunksize`, and the library does nothing to keep to it.
`PercentFits` and `SteadyRooms` are the boundaries of two others; TLC finds violations
beyond each.

### Session

`SessionProofs`, for every number of entities, items and packets:

* `SessionTracked` - `SessionInv` is inductive. It has three parts, each of them about the
  items ahead of the client: those in the packet being written, or left in the packet, the
  zpacket or the blast being read.
  - `SolidInv`: in a KEX protocol what the server tracks of solid entities and of open frames
    is what its client will track after all of them. `After` walks over these items; what one
    of them does (`Effect`) is the same on both sides. The other protocols track nothing.
  - `HandInv`: what is meant by the packet is what was handed over, followed by what is
    meant by what is left (`Left`); a packet has only items that contain none, or compressed
    lists of such items.
  - `FollowInv`: on a walk over the items ahead (`Through`) the parser expects each item in
    the mode the items before it leave it in, and is between two messages in the end; while a
    packet is written, it ends up exactly where the server is (`AtServer`).
* `SolidityAgrees` - `SolidAgree`: with nothing ahead, both sides hold the same.
* `EverythingHanded` - `AllHanded`, if the application wraps no packet that contains a
  zpacket (`~Nests`, see Findings): the data of one zpacket replaces what is left of the other.
* `AlwaysKnowsOn` - `NeverConfused`: whatever comes next is something the parser expects in
  the mode it is in. This holds with a zpacket in a zpacket too, whose loss leaves the
  parser with fewer items but never with one it does not expect.

A walk that meets an unexpected item is `"lost"` and stays so (`LostForGood`). So a walk that
ends well met none, which gives `NeverConfused` for the first item and lets a step of the
client be the first step of the walk (`ReadOn`, `HandOn`); the server's writes are walks
appended to it (`ThroughBoth`). What is inside a zpacket has to be readable from
the start of a packet (`Readable`), what is inside a blast in the blast's mode to its end, and
what follows either from where the client goes on when it is over.

`HandInv` and `FollowInv` rest on `CommandAssumption` and `FormAssumption`: that each side takes
a command byte for what the other means by it. They compare the tables of `Commands`, which
are constants: no instance of them is left out when TLC looks up all of them, which it does
before the run. So the tables' half of `NeverConfused` is a complete evaluation, the
half about states is proved. `Meant` flattens lists of lists; `FlattenFirst` is the lemma on
`FlattenSeq` that lets the client take an item from the front.

`Expects` lists what the reading actions' guards come to. That none of them refuses what
it admits is for TLC: `session` checks deadlock, and while the client reads without an error only
its actions are enabled.

### Connection

`ConnectProofs`, for every list of accepted protocols, every version and
option asked for, any number of datagrams on their way, and changes of the game at any moment:

* `ContextsDescribed` - the inductive invariant `ConnectInv`: a challenge on its way names
  exactly the protocols of the game it was made for, the client's choice is that of the
  challenge it heard last, every request
  has the arguments of some connect structure, the server's context is what the request or
  the demo it was set up for makes it, the serverdata is what that context
  writes, the client's is made of it. The properties relate both ends of that
  chain and say nothing of its middle.
* `Asked` - `AsAsked`, by `RoundTrip`: reading back the arguments of a connect request yields
  what was written, for each protocol's own tail.
* `Answered` - `AnswersParse`: the server parses what answers a challenge of the present game.
* `Preferred` - `BestChoice`: the client takes the first of its own list that the challenge
  names. The challenge's list is any list in ascending order (`CHOOSE`), because the provers know
  nothing of the community modules' sorting.
* `Agreement` - `FormatsAgree`, by `ContextsMatch`: the serverdata of each protocol
  tells the client the server's version and game. The proof needs that a version that
  cannot tell the game is refused (`CanSay`), and that no demo is asked for in Q2PRO's own
  protocol (see Findings).
* `Multicast` - `MulticastsHeard`, since a connection is of a protocol that the present game can be
  played with, also if the request is from before a change of the game.

### Message formats

`WireProofs`, about the operators all formats are made of. The runs see values at the borders
of the widths; these hold for every value.

* `ValueArrives` - a value the reader's type can have (`Values`: a scale times the units its
  bytes can hold) arrives if it was written in a type of the same width and scale,
  whatever the sign: `Writes` says what units are on the wire, `Reads` what
  becomes of them, type by type.
* `CoordinateArrives`, `WholeCoordinateArrives` - Q2PRO's 23-bit coordinates, for every value in
  -2^22 .. 2^22 - 1, with any previous value as a difference, or without one, where the
  reader drops the bit that tells the two apart.
* `AngleNear` - what `SameAngle` allows. The attempt to prove the narrower bound that stood there
  showed it to be wrong for angles near -32768; `formats` now has such an angle.
* `RowsArrive` - what `WriteRows` writes for some bits keeps a reader in step whose rows for
  these bits answer the writer's (same fields, same order, widths that fit), each field
  gets what its type makes of the item, which is the value sent where types go together, and the
  rest of the message is left. It takes the rows that are present for given bits as given.
* `AgreeingRowsArrive` - without that: if two tables of rows match place by place and no two rows
  that can both be present hold the same field (`Alone`), the rows present answer each other
  whatever bits are set. `Present` is a function on the rows' numbers; `PresentAgree` goes over both
  tables at once, row by row.
* `FlagsArrive` - a set of up to sixteen flags is read as the set that was written. A byte of flags is a
  sum over a set; `SumOfPowers` adds up each of its halves, and the bits of the sum are
  then a matter of arithmetic.
* `FrameNumbersArrive` - R1Q2's frame number and distance, for every frame below 2^27 and every
  distance up to 30, beyond which the code, which does not check, sends another one.
* `CompressedArrives` - `Compressed` picks only components of a move that fit into the
  byte and come back, for all 16-bit angles and moves in -640 .. 639, a range that the code relies on.

`MoveProofs` puts these together for the moves, with values and sets of fields of every kind:

* `MovesArrive` - `MoveArrives`: each of the three moves of a message arrives with the fields that
  were sent and their values, in vanilla, each version of R1Q2, Q2PRO and Q2rePRO.
* `MovesStayInStep` - for moves, `InStep` and `RefusedForAReason`: the reader ends where the
  writer did, and only a move upward in Q2rePRO is refused (`MoveInvInOrder`, which
  `RefusalProofs` uses as well).

The argument climbs from the field to the message. The tables of each protocol are the
same at both ends (`PlainMoveArrives`, `PackedMoveArrives`), so `FlagsArrive` and
`AgreeingRowsArrive` say that one move arrives and leaves what follows it alone. In R1Q2 the byte of the
buttons carries the flags of compression in addition: the reader has to find them again and take
them away (`ButtonsBack`), and the components they mark must be those that come back from one
byte (`CompressedArrives`). That is where the two conditions of `MoveAssumption` come from, named
`GameButtonValues` and `FivesFit`; the proof does not go through without either, and the moves
they exclude are changed on their way by the code. One move after another then makes the three
(`DeltaArrives`, `MessageArrives`), and the inductive invariant `MoveInv` says that what is
on the wire is what the writer made of the message and what was seen is what the reader made of that.

`RefusalProofs` is about the writers of all messages:

* `OnlyReasonsRefuse` - `RefusedForAReason`: in every protocol and for every entity, player
  state, frame header and batch of moves, a message that is refused has one of the reasons
  that the property names: a changed field that the protocol lacks or has too small a place for, a gun's frame
  that the original protocol sends in a byte with whatever else of the gun changes, a client number
  that has no place, or a move upward in Q2rePRO.

The writers check in two ways. Rows of type `u8max` are refused where they are written,
and some writers look at the delta before they begin. For the first, `Caps` names which rows of a
table may be refused at all; each table is taken apart into its rows (`CapsJoin`), and what is left are
five fields of an entity and one of a player. For the second, each check is led back to the
message: `EntityDeltaIs` and `PlayerDeltaIs` say that what a delta announces has
changed and has its new value, but for the three vectors of a player that are announced as a
whole, and `Announces` that the client number comes from the frame's header. A
refusal then leads from a row or a check to a field of the delta and from there to a difference
between the two states (`EntityRefusedFor`, `FrameRefusedFor`, `BatchRefusedFor`). The invariant
`WriteInv` ties the output to the writer of the context. That protocol and game belong
together (`ContextAssumption`) is needed: the writers of the old protocols check less than a game of
another kind could ask of them. The attempt to prove the property as it was before,
without the gun's frame (`GunTooWide`), failed for a reason: the message in which that
field is too wide and unchanged, and another of the gun's has changed. `formats` now has it.

### Assumptions

Those named in the modules, beside the types of the constants: a baseline's size is at most
`WRITE_GAMESTATE_BASELINE_SIZE`, compression does not grow the data beyond what
the margin covers, clients accept only protocols that connections can be made with, the
command bytes mean the same to both sides, a context's protocol is one
that its game is played or recorded with (`ContextAssumption`), states have all their fields
(`StateAssumption`), moves are of the width of `q2proto_clc_move_delta_t` and, for R1Q2, as
described under Findings (`MoveAssumption`). TLC evaluates each of them.

### Only model-checked

* Liveness under fairness (`EventuallyWritten`, `EventuallyComplete`, `DownloadsEnd`), and that
  `Session` does not deadlock: both are about ENABLED, out of the prover's reach.
* That entities, player states, frames and batches arrive (`EntityArrives`, `PlayerArrives`,
  `FrameArrives`, `BatchArrives`), and `InStep` for them. Their flags
  are spread over several bytes, of which the reader knows from each whether there is another one, and
  some rows of reader and writer are of different types chosen by the same flags, so they do not match
  place by place as `AgreeingRowsArrive` wants them. Batches are chains of bit fields,
  read by a recursion over as many moves as the message says.

## Plan

Done: gamestate, downloads, formats, session, connection, and the proofs above. What would come
next is the same climb for entities: flags in up to five bytes (`FlagsArrive` for each of them), then tables
that match after choosing the row by its flags, for which `EntityArrives` of vanilla and R1Q2 is the
place to begin.

## Not modelled

The content of messages without a delta (prints, sounds, temporary entities,
settings, userinfo), which is read and written field by field without state;
packing of solids and sounds and conversions from floating point; zlib's output; a
lossy channel for gamestates and downloads (the applications send them over a
reliable one); lost frames, whose deltas the application makes against the frame the client
says it has; packets cut short or malformed on the way; configstrings that do not fit
an empty packet, for which the writer returns `NOT_ENOUGH_PACKET_SPACE` forever;
values of `num_configstrings` that change between two calls, which
`q2proto_server.h:276` forbids; the damage blends of a KEX player; debug output,
error texts and CRC tables; the tools and tests.
