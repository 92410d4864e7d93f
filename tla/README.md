# A verification project for VolvoDiagToolkit

VolvoDiagToolkit reads live data, configuration and trouble codes from Volvo
P1 cars: a Python client (`python/volvo_diag`) with a browser dashboard, and a
C++ proxy (`proxy/`) that logs another program's traffic with the adapter. This
directory holds TLA+ models of its stateful parts, the TLC runs that check
them, and TLAPS proofs of the properties that matter most. Paths below are
relative to the repository.

## The system

| Part | State | Operations | What is hard about it |
|---|---|---|---|
| `backend.py` VolvoBackend | bus, link, VolvoEcm | open, switch_bus, read_config, read_dtcs, clear_dtcs, read_selected | every driver call may fail half-way; the rollback may fail too; a visit to another bus must return |
| `transport/j2534.py` J2534CanLink | device, channel, filter, opened flag | open, close, send, receive | one device for the whole process, exclusive; a failed open must give it back |
| `transport/j2534.py` J2534Transport | device, channel, flow-control filters | open, close, request | answers later than the timeout; responsePending; batches |
| `poll.py` PollScheduler | miss counters, cache, slow-lane times, cycle counter | cycle | back-off, slow lane and cache act on each other; starvation |
| `web.py` server | selection | one handler per URL | shared by every page, handled one request at a time |
| `web.py` page | STATE, LAST, `#main`, localStorage | callbacks, clicks, poll loop | answers arrive after the user has moved on; two tabs |
| `transport/volvo_ecm.py`, `protocol/volvo.py` | frames collected | read_identifier, read_block, read_dtcs, clear_dtcs | lost and late frames, no length check, wrapping counter |
| `transport/socketcan.py`, `protocol/isotp.py` | reassembly buffer, pending flow control | request, feed | flow control, order, interleaved answers |
| `transport/elm_can.py`, `elm_obd.py` | serial port, header last set | open, send, receive, request | text protocol, stale input, timeouts |
| `proxy/src` | one-time initialisation, log file, error text | 14 exported calls, from any thread | concurrent calls, log order, error masking |
| `fake-j2534` | device, channels, queues, filters, scripts | the same calls | the vendor contract the tests run against |
| `logs/` | open requests per channel | load, pair, summarize, diff | retries, late and negative answers |
| `volvo/`, `discover.py`, `config.py` | profile data | decoding, checksums, topology | bit fields, boundaries |
| `cli.py`, `volvo/vehicle.py`, `volvo/ecm.py` | the turn of a sweep | info, scan, read, dtc, identify, dump, discover, verify, read-mem, config, monitor, record, sniff, sniff-diff | sequential sweeps that may stop in the middle; which protocol goes to which transport |
| `analyze.py` | the rows of a recorded file | load_trip, detect_roles, the regeneration windows | gaps, cut files, columns that mean two things, a stretch that lasts to the end |

The dashboard's page sends HTTP requests; `web.serve` handles them on one
thread and calls the backend, which owns the link; the link talks to the vendor
driver. `monitor` and `record` use the scheduler directly. The proxy sits
between a foreign program and the driver and shares nothing with the client but
the format of its log, which `logs/` reads.

What makes each part correct:

- **Backend**: the bus it reports, the link it holds and the channel the driver
  has connected agree whenever the car is read; a failure leaves the previous bus
  or a cleanly refused "link is down", and never a state from which no bus can be
  opened; writes happen only on request and only on the current bus.
- **Scheduler**: no parameter is forgotten, silent ones cost a bounded amount,
  the display never goes blank, a recording contains only what was read.
- **Page and server**: both agree on bus and selection once nothing is on its
  way; the poll loop neither dies nor multiplies; what is shown is current or dim.
- **Client and transports**: an answer belongs to its request, a block is whole
  or reported broken, waiting is bounded.
- **Commands**: what is printed is what the module asked has said to that question;
  a module reported as cleared has been; a sweep accounts for every module.
- **Trips and captures**: a recording says in each cell what was read in that cycle; the
  report finds each regeneration and no other; a capture shows what an event changed.
- **Proxy**: the host program sees what the driver said, and nothing else; the log is
  what happened, up to a crash; what the analysis makes of it is true.

## Modules

| Module | Models | Notes |
|---|---|---|
| `J2534Link` | `J2534CanLink.open/close` and the driver's device and channel | extended by `Backend` |
| `BusSession` | what `VolvoBackend` promises about the bus | abstract; implemented by `Backend`, extended by `Dashboard` |
| `Backend` | `backend.py`: switches, configuration visits, scans, clears | one step per driver call |
| `BackendProofs` | theorems about `Backend` | |
| `Poll` | `poll.py` | one step per parameter visited |
| `PollProofs` | theorems about `Poll` and `Trip` | |
| `Trip` | `cmd_record`, `cmd_monitor` and the analysis of `analyze.py` | extends `Poll` with the file |
| `Dashboard` | handlers of `web.serve` and the page's script | one step per handler, callback or click |
| `DashboardProofs` | theorems about `Dashboard` | |
| `BlockRead` | `_collect`, `reassemble_block`, `block_frames_contiguous`, the retry of `read_config` and the command `config` | one step per frame |
| `BlockReadProofs` | theorems about `BlockRead` | |
| `RequestReply` | the promise of `transport/base.py` | abstract; implemented by `Transports` |
| `Vehicle` | `volvo/vehicle.py`, `volvo/ecm.py`, the checks of `protocol/uds.py` and `obd.py` | the client of the three transports, and the modules they reach |
| `J2534Request` | `J2534Transport` | over the driver's ISO 15765 channel |
| `IsoTp` | `protocol/isotp.py` | operators: segmentation and reassembly |
| `SocketCan` | `SocketCanTransport` | kernel sockets, or raw CAN with `IsoTp` |
| `ElmObd` | `ElmObdTransport` | a text line |
| `Transports` | `build_transport` | composes the five above |
| `VolvoSweep` | the sweeps of `cli.py` through `VolvoEcm` over `J2534CanLink` or `ElmCanLink` | one step per request, frame or silence |
| `VolvoSweepProofs` | theorems about `VolvoSweep` | |
| `Sniff` | `cmd_sniff`, `sniff_summary`, `cmd_sniff_diff` | one step per frame |
| `CommandLine` | `cli.py`: which protocol a command speaks | composes `Transports`, `VolvoSweep` and `Sniff` |
| `CommandLineProofs` | theorems about `Transports`, `Sniff` and `CommandLine` | uses `VolvoSweepProofs` |
| `AnswerProofs` | theorems about the order of what is on the wire | uses `CommandLineProofs` |
| `PassThru` | a J2534 driver as a program sees it | abstract; implemented by `ProxyLog` |
| `ProxyLog` | `proxy/src` | threads, initialisation, records, crash |
| `LogAnalysis` | `logs/parser.py`, `summarize.py`, `diff.py` | one step per frame of a log; beside `ProxyLog` |
| `ProxyLogProofs` | theorems about `ProxyLog` and `LogAnalysis` | |
| `MCBackend`, `MCPoll`, `MCTrip`, `MCDashboard`, `MCBlockRead`, `MCCommandLine`, `MCProxy` | instances for TLC | |

### Backend

`bus`, `link` and `ecm` are `_bus`, `_link` and `_ecm`. A link is an object with an
identity (`LinkIds`) since `_open` builds a new one each time while `_ecm` may
still wrap the old; a dropped identity is used again. `pc` is the place inside
the request: `"construct"` before `PassThruOpen`, `"connect"` before
`PassThruConnect`, `"filter"` before the filter is set, `"refused"` when `_open`
has raised, `"blocks"` while `read_config` reads, `"dtc"` and `"clear"` inside a
sweep. `prev`, `home`, `errand` and `falling` are the locals of `switch_bus` and
`read_config` and their call stack. Each driver call succeeds (`Construct`,
`Connect`, `FilterAndInstall`) or fails (`ConstructFails`, `OpenFails`); a failed open
closes itself (`AbandonOpen`); the caller rolls back (`RollBack`) and, when that
fails too, gives up the link (`GiveUp`). A module on the current bus answers or
stays silent; a clear may be carried out without its acknowledgement arriving.
When `ModulesOn`'s modules store codes is up to the car (`NewFault`). `said` is a history
variable, what each module has said during a scan; the code keeps the list (`hits`)
alone.

Not in the model: the ELM variant of `_open` and the text of answers. Of the blocks
of `read_config` only whether the identity could be read; how they are read is
`BlockRead`.

### BusSession

The session as a caller sees it: a bus, whether a link is up, and the last answer
to a bus command. `Switched` and `SwitchRefused` are the two outcomes of
`switch_bus`; `ConfigRefused` and `ConfigStranded` are the two ways in which
`read_config` does not restore what it found. `Backend` maps its intermediate
states to the session before the request (`SessionBus`).

### Poll

`Visit` handles one parameter of the list: it is passed over (`Skip`), or read with
or without success. Absolute times become distances: `wait[p]` is `_slow_next[p] -
now` at the start of the cycle, in units of the shortest cycle; a cycle lasts 1
to `MaxGap` units. `tick` is `_poll % 12`. `miss` stops counting at `MissLimit`,
beyond which the code does not tell values apart. `skipped` is a history
variable, the cycles since an id was last tried; it stops at `MaxSkipped`, above
every bound a property mentions. `live = FALSE` is `record`.

### Trip

`Trip` adds the file to the scheduler: each cycle of `Poll` that ends while `csv` is
`"open"` appends `FileRow` to `file`, with the time of the cycle in `clock`. `record`
writes a bool as a number and an id it could not read as an empty cell; `monitor`
writes what it shows, the cached values included, and a bool as a word that
`load_trip` cannot turn into a number. Of a value only what the report asks is kept:
a temperature at or above `EGT_REGEN_C`, a flag that is set. `Stop` is Ctrl-C
anywhere in a cycle; the row under way is lost. `DetectRoles` and `Regeneration` are
`detect_roles` and the regeneration part of `analyze`, and `read` is a history
variable, what the car said in the cycle of each row.

### BlockRead

`read_config` reads two blocks, each with up to `Attempts` attempts. A frame is its
place in its block; bytes are left out, since every frame but the first adds
seven. `wire` holds the frames of answers on their way, in order: the module and
the gateway are external, and answer what they heard in the order asked. `Ask` is
`send`, which empties the driver's FIFO and thereby drops whatever part of `wire`
had arrived. `Receive` and `ReceiveStray` take one frame; `raw` is what
`reassemble_block` makes of the frames so far (its loop takes them one by one, so
running it as they come gives the same). A collection ends in `NoAnswer` or
`ReadBlock`, which also judges the block, keeps or returns it and goes to the
next attempt or block; time is left out, and the end of a collection may come
while frames are still on their way (`MaxLate`). `LinkFails` is a driver error in
`send` or `receive`. `Marker` is the low nibble of a frame's first byte: 0..7 for the
identity, 8..15 for the configuration (`docs/config.md:39-41`). The command `config`
(`caller = "terminal"`) reads the same two blocks in one attempt each and prints what
it has (`PrintBlock`).

### Dashboard

The server is single-threaded, so a handler is one step, and the backend's part
in it is a step of `BusSession`. A page has the requests the server has not
handled, the answers whose callback has not run, and a timer for its poll loop.
Requests of one page are handled in the order in which they were sent, and
answers called back in that order; requests of different pages interleave
freely. `LoseRequest` and `LoseAnswer` are network failures: the page learns only
that the request failed. Pages are tabs of one browser and share localStorage.
Charts, the search box, group folding and `FakeBackend` are left out, as are
throwing callbacks other than `renderCards` in an overwritten view, which has no
further effect.

### Vehicle and the transports

`Vehicle` is the client: `info`, `scan`, `read` and `dtc` over UDS and OBD, as a
position in a list of requests (`pos`). `Ask` makes a request, `Take` handles its
answer or exception; what a turn does next is `After`. `call` and `answer` are
the interface to the transport, `written` and `seen` its state inside `request`
(the request is out; responsePending counted). `due` is what the modules have
heard and not answered. Requests and answers carry a number that no protocol has
and only the properties look at.

- `J2534Request`: `_ensure_filter` and the write are one step, since nothing
  comes between them; `J2534Read` is `_read_one`, which takes the first usable
  message of a batch and drops the rest of the batch. The driver's queue and its
  filters outlive a request; closing drops both.
- `SocketCan`: the kernel's ISO-TP socket where it can be had, else raw frames. In
  raw mode a module's first frame asks for flow control (`Grant`), and answers are
  reassembled by `IsoTp!Feed`, which raises on a frame out of order. Frames are
  lost (`LoseFrame`), modules abandon long answers (`Abandon`).
- `ElmObd`: one line of text per command, ended by a prompt; the adapter may answer
  before the code listens, after it stopped, or be read in the middle
  (`ElmReadCut`). `NO DATA` and its like raise `ElmError` (`elm_obd.py:142-145`;
  `ElmRead` of an empty text). responsePending makes the code repeat the command until
  its time is over (`ElmRepeat`, `ElmGiveUp`).

`Transports` opens one of them, and may close and open it again between commands.
`ImplementsContract` maps it to `RequestReply`, whose `MayReturn` is what
`Transport.request` documents: an answer of the addressed module, and no
responsePending. `base.py:74` names `TransportTimeout` for a request that gets nothing
usable; `RequestReply` says of a request only that it fails, whatever the exception.

### VolvoSweep

A sweep is at a `turn` of its list and at a `step` in it (`list`, `clear` and
`confirm` for `dtc --clear`). `Send` is `link.send`, which empties the FIFO first. That
this is best effort (`_clear_rx` ignores a driver's error, `transport/j2534.py:505-516`)
is not in the model: the driver is taken to obey, and `FreshFrames` rests on it.
`ReceiveOne` is the loop of `read_identifier` and `clear_dtcs`, `ReceiveAll` that
of `_collect`; `ValueTimeout`, `ClearTimeout` and `CollectEnds` are the ends of their
waits. Modules answer late, one frame at a time, interleaved with each other
(`Speak`, `SpeakOn`); the bus carries other traffic (`Chatter`). `LinkFails` is a
driver error, or one of the serial port, which nothing catches; `ReadCut` a line
read in two pieces. `report` is what has been printed of the present turn.

`read-mem` is a sweep of one turn that sends what it is given, unless that writes
(`Writes`).

`Sniff` is a capture of the bus before an event and one after it. A frame carries a
byte that the event changes, the door, and a counter that rolls; frames of some ids
have the first only. `SniffReceive` takes one frame from the FIFO, and `Show` prints
it when it differs from the last of its id; `EndCapture` writes the file, and
`SniffDiff` is the comparison of two of them.

`CommandLine` adds the choice that `ecm_is_volvo` makes: a profile whose ECM
speaks the Volvo protocol goes to `VolvoSweep` over J2534 and ELM327; everything
else, SocketCAN always, goes to `Transports`.

### ProxyLog

`pc` is the place of a thread inside an entry point. `InitOnce`, `LoadConfig`,
`StartLog` and `LoadVendorDll` are `std::call_once`; other threads wait in
`"enter"`. `Forward` is the vendor's call, `BeginRecord` the constructor of `Rec`,
which reads `g_file` without the lock, `EndRecord` its destructor, which takes it.
`PassThruGetLastError` looks at the error text (`HaveProxyError`) and copies and
clears it (`TellProxyError`) in two steps, as nothing holds a lock. All other
entry points have the same three parts, so `Others` names those an instance
calls. `StopLog` is the unload of the DLL, `Crash` the end of the process at any
step, with a flushed prefix of the log left and perhaps half a line. `PassThru` is
the same host with the driver alone: invoke, perform once, return. The mapping
`Host` hides initialisation, records and log.

A read is `"empty"` when it returned no message, whatever its return code: such a call
is left out of the log by the code (`exports.cpp:121`), a failed read included. The check
of `PassThruGetLastError`'s pointer (`exports.cpp:262`) is left out.

### LogAnalysis

A log is a sequence of frames (`iter_frames`), read one at a time: `ReadFrame` appends
any frame and does with it what `pair` does in one turn of its loop. `open` is its
`pending`, for all channels together; a request leaves it when it is answered
(`Match`) or when a frame of its channel comes too late for it (`Waits`). Each state is
a log that breaks off there, which is what `load` makes of one whose last line was cut.
`Collect`, `ByKey` and `Unanswered` are what is reported of it. `NextLog` reads another
log.

A log is not taken from `ProxyLog`, whose log would be too short to hold a retry beside
another thread's traffic. What a log of the proxy guarantees comes back as a
condition: frames of any channels and modules interleave freely, several calls may be
open on a channel, and `Tame` says of the channel under question what the property
needs, among it that its frames are in the order of their times, as those of one thread
are (`InTurn`). The thread is not in a frame, as `pair` does not look at it. A frame names
the request it belongs to (`of`), which the analysis does not see; the property
compares it with what the pairing found. Keys are what `request_key` keeps of a
request, service and item, or the service alone; payloads too short to have one are left
out.

`LogsSpec` puts the two side by side: while a log is read the program has not begun
(`NotBegun`), since they share nothing but files.

## Runs

| Run | Instance | What it shows |
|---|---|---|
| `backend` | two buses, an unknown third, three modules (one on both buses), two link identities | the seven properties of `Backend`, including that it implements `BusSession` |
| `backend_clear` | same | finding 1 |
| `poll` | a trusted temperature and two untrusted ids, one the regeneration flag; two selections, MissLimit 2, RetryEvery 4, slow interval 3, cycles of 1 or 2 units, files of up to 3 rows | the properties of `Poll` and `Trip` |
| `poll_backoff` | one trusted and two untrusted ids, a fixed selection, cycles of equal length | finding 2 |
| `dashboard` | one page, one parameter per bus, 2 clicks, 1 network failure | agreement, dimming, the poll loop |
| `dashboard_codes` | one page, 2 clicks | finding 3 |
| `dashboard_tabs` | two tabs, 1 click | finding 4 |
| `block` | blocks of 3 and 11 frames, 2 attempts each, 2 runs of frames lost, 1 answer that outlasts its collection, 1 frame of another module; the page and the terminal | the properties of `BlockRead` |
| `block_empty` | the same, frames lost only | finding 5 |
| `block_wrap` | one attempt, nothing lost | finding 6 |
| `commands` | two modules, both protocols, three transports and two raw-CAN links; every command; one frame lost or line cut, one answer late by one request, one frame of other traffic; captures of two senders, two frames each, one of them lost | the properties of `Transports`, `VolvoSweep`, `Sniff` and `CommandLine` and the refinement of `RequestReply` |
| `proxy` | two threads, two channels, two calls of one process, writes of one or two messages; drivers that lack an entry point; logs of up to five frames of two channels and two modules | the properties of `ProxyLog` and `LogAnalysis` |

Bounds. Two link identities are enough: the one a request finds and the one it
opens; with a third nothing new is reachable, since a dropped link is shut before
another is built. The three modules give a bus-exclusive module on each side and
one on both. RetryEvery 4 and MissLimit 2 stand for 12 and 3: the slow interval is
shorter than the retry round, as it is for cycles of a quarter second and more,
and is not a multiple of it. Any set of saved ticks is an initial state of
`Dashboard`, so two clicks include a tick during a switch, a switch during a
switch, and a tab change during either.

Three rows, with cycles of one or two units and `HotFor` 2, give a hot stretch that is
long enough, one that is not, one with a gap in it and one that lasts to the end.

Eleven frames let the counter come round, and eight be lost in a row between two
others; two attempts give an answer that arrives during the next one, or during
the read of the next block.

`commands`. `PendingLimit` 1 stands for the twenty responsePending of `request`, with
`MaxPending` the ones on their way at a time; `Batch` 2 and `Chunk` 2 for the eight and
sixteen messages of one read, so that a batch holds a usable message behind an
unusable one and one that is dropped. A long payload has `Frames` 2 consecutive frames,
so that one can be lost, or fall between those of another module, in the middle; their
counter, modulo `IndexMod` 4, does not come round (`SocketCanAssumption`), so payloads
beyond 15 consecutive frames are not covered. `MaxLost` 1 and `MaxRepeats` 2 bound the frames lost and the
repetitions of the ELM327. `CodeCounts` {2} is
every module with codes, so that each sweep clears; `MaxLate`, `MaxDropped` and
`MaxChatter` give a late answer, a lost or cut frame and a foreign one, together.
`verify` reads one identifier twice, which is what a late answer can be mistaken for. A capture of two frames shows a byte that
rolls and one that does not, a door opened in the middle, and a loss beside a frame that is
kept.

`proxy`. Two calls, of which a write may carry two requests: enough for two threads in
the proxy at once, at every place of it, and for a program that crashes with a record
begun. `MaxOwing` bounds requests without answer. Logs of five frames: two requests
of one key and their answers, with a frame of the other channel among them; a request
that is repeated, before or after its first answer; the same request to two modules
on one channel; a negative answer that fits two requests. Of the frames at most one
(`MaxExtras`) is an echo, a responsePending, an answer to nothing or a second answer, or
comes after a pause; a pause of 4 (`Pauses`) is longer than `Window`, so that requests
are forgotten while others of the same key are asked and answered.

Deadlock is checked in `backend`, `commands` and `proxy`, and in `poll_backoff`, where a
cycle can always begin. A page on which nothing is ticked and whose user has
stopped clicking really does nothing, and a recording and a configuration read end,
so the `dashboard`, `poll` and `block` runs do not check it. The longest runs are
`commands` (half a million states, most of its time spent on `EveryCommandEnds`), `proxy` and
`block` (5.4 million), two to four minutes each.

Fairness. `Backend`: an accepted request goes on (`serve_forever` never abandons
one), nothing makes a request arrive or a driver call succeed. `Poll`: a page that
polls goes on polling. `Dashboard`: connections are accepted in order, so each
page is served; a browser runs its callbacks and timers; users need not click.
`Transports` and `VolvoSweep`: the program takes its next step while it can, and its
clocks run out; no module need answer. The repetition of the ELM327 ends by the
deadline that the loop looks at each time round (strong fairness, since each
repetition disables it for a moment); the end of a Volvo wait by its silence,
which holds because other traffic does not extend it: the frames that do are
bounded by what modules answer, which is an assumption on the bus
(`volvo_ecm.py:106` has no bound of its own). `ProxyLog`: threads are scheduled, and
a vendor's call returns; no module need answer and no program need call.

### Properties

`Backend`: `LinkCoherent` (bus, link, VolvoEcm and channel agree whenever the car may
be read), `NeverBlocksItself` (the device is free each time it is asked for),
`ClearScope` (a code disappears only with writes enabled and on the shown bus),
`ScanAccounted` (a scan asks every module of the channel's bus and no other, and lists
exactly those that said they hold codes), `ServesAgain` (every request ends) and `ImplementsSession`.

`Poll`: `TrustedRetried`, `OneSlowRead`, `RowsFaithful` (a recording contains only what was
read in its own cycle, the live view never goes blank); `SlowTurn` says when the slow
lane does not starve anyone: when the other slow ids of the selection are done before
the first is due again, or there are none. Without that condition it does starve: see
finding 2.

`Trip`: `TripTrue` (the report of a recording says that the filter regenerated exactly
where the car has said so, whatever reads missed and wherever it was stopped).

`Sniff`: `SniffTrue` (a byte that the event changed is reported if its id was caught in
both captures, nothing else is reported of that byte, and no byte caught at two values within
a capture is).

`Dashboard`: `Agreement` (a page with nothing on its way shows the server's bus, and
the server reads what the page has ticked), `StaleDims` (a bright value is recent; single page),
`OnePoll` and `LoopSurvives`. `Agreement` is stated for runs in which no request was
lost - the page does not send a lost selection again - and in which no
configuration read was stranded on the other bus, of which the page is not told.

`BlockRead`: `CleanIsPrefix` (a clean block has its bytes where they belong),
`OwnFrames`, `LongestOfBroken`, `FailsOnlyUnheard`. `CleanIsPrefix` has two conditions,
which are the limits of the check in the code: the first consecutive frame was
not lost, and no eight frames in a row were. A missing tail passes as clean.

`Transports`: `ShownIsTrue` (what is shown was said by the module asked, to a
question with that service and identifier), `StaleOnlyAfterFailure`,
`AnswersWhole`, `ImplementsContract`. `CommandLine`: `AnswersPass` (`J2534Request`: what
a module answers can pass the driver's filters), `EveryCommandEnds`. `VolvoSweep`:
`ClearedIsWiped` (a reported clear happened, whatever late or foreign
acknowledgements there are), `ReportsOwn`, `FreshFrames`, `SweepAccounted`.

`ProxyLog`: `ImplementsDriver` (a program cannot tell the proxy from the driver, but
for the answer to a missing entry point and the text of the last error),
`LogFaithful` (numbers, order, sessions, nothing behind a line that a crash has cut, and
every returned call in the log, exactly once), `CallsReturn`. `LogAnalysis`: `SummaryTrue` (of a
channel whose answers come in time and in turn, each request is counted for the module it
was sent to and with its own answer, however many are open or repeated and whatever other
channels wrote in between).

## Findings

1. `clear_dtcs` ends in `self._miss.clear()` (`backend.py:276`), an attribute that
   moved to `PollScheduler`. Codes are cleared, and the user is told of an
   `AttributeError`. Run `backend_clear`.
2. Of two silent untrusted ids the first takes the slow lane in every retry
   cycle; the second is never tried again (`poll.py:105-112`), although "an id that
   keeps missing is retried only occasionally" (`poll.py:11`). Run `poll_backoff`.
3. A bus switch on the codes tab leaves the codes of the other bus listed, under a
   button that clears the new one (`web.py:683`; `docs/dashboard.md:44-46`). Run
   `dashboard_codes`.
4. A second page replaces the server's selection; the first page's values are no
   longer read but stay bright (`web.py:531`; `docs/dashboard.md:67`). Run
   `dashboard_tabs`.
5. An attempt that collects frames but not the block's first one yields an empty
   block that counts as clean (`protocol/volvo.py:334-335`) and is returned although
   a longer one is in hand (`backend.py:202`; "never an empty block while a partial
   is in hand", `backend.py:191-192`). Run `block_empty`.
6. The configuration block counts 8..15 (`docs/config.md:41`); the step from 15 to 8
   of a complete block is taken for a lost frame (`protocol/volvo.py:341`), so all
   attempts are spent on it and the block is returned as a broken one. Run
   `block_wrap`.

## What the models show besides

Behaviour that no document contradicts, or for which the properties had to name a
condition:

- `_read_one` returns the first usable message of up to eight and drops the others
  (`transport/j2534.py:379`).
- Whether an answer is to this request or to an earlier one is not checked below
  the caller; after a timeout a late answer with the same identifier is accepted
  (`StaleOnlyAfterFailure`). `verify` asks for an identifier twice if the list has it
  twice.
- Raw SocketCAN waits for one flow control only: a receiver with a block size gets
  one block (`transport/socketcan.py:153-155`). `IsoTpError` and `OSError` are no
  `TransportError`, so a frame out of order ends the command. After an abandoned
  long answer a lost first frame lets the tail of the next one continue it; hence
  the condition in `AnswersWhole`.
- The ELM327's answers to `AT` commands are not looked at, an answer without prompt is
  returned as it is, and pending and final lines in one reply lead to a repetition
  (`transport/elm_obd.py`). A line cut in two can raise `VolvoProtocolError`
  (`protocol/volvo.py:105`), which no sweep catches.
- An empty code list also means a refusal, a frame of another module, or a lost first
  frame, beside what `transport/volvo_ecm.py:161` says; `dtc` then prints that the
  module has no codes. The list that confirms a clear may be the late answer to
  the list before it.
- A driver error while clearing or confirming (`cli.py:255`) ends the command, with
  the modules before it cleared.
- The proxy writes one record per call, after it (`exports.cpp:3` speaks of "log the
  call, forward it verbatim, log the result"): with two threads the answer's record
  may come before its request's, and the request is then "unanswered". Its times
  come from the system clock (`logger.cpp:93-97`), and `ProxyLog` takes it to advance from
  one record to the next; with a clock that stands still or is set back the times of a
  thread's records (`InTurn`) need not ascend.
- `monitor --csv` writes a bool as `True` or `False`, which `load_trip` takes for a missing
  sample, and cached values as if they were samples; `TripTrue` is therefore about
  `record`. A parameter named twice has two columns, which `load_trip` appends to one list; the
  models take selections to be without repetition.
- `record` takes its file as a positional argument; `README.md:44` shows an option.
- "Rolling counters vary within a capture, so they are excluded" (`cli.py`,
  `cmd_sniff_diff`) does not hold of an id that was caught once in each capture. A frame
  without data is lost between `sniff` and `sniff-diff`.
- A failure of the proxy's own leaves its text until it is asked for, so that a later
  failure of the vendor is answered with it (`exports.cpp:261`). `PassThru` allows it
  (`Told`), so `ImplementsDriver` does not rule it out.
- A partial write is recorded whole (`exports.cpp:140-151`) and its requests counted
  as sent: `SummaryTrue` is about the requests of the log. A negative answer is paired by
  service alone, and no answer by the CAN id it came from (`parser.py:246`), so that the
  same request to two modules must be answered in turn (`InTime`).
- A return of `read_config` that fails leaves the session on the other bus, its exception
  swallowed (`backend.py:225-229`). `BusSession` allows it (`ConfigStranded`), and
  `Agreement` does not speak of such a session, so no property rules it out.
- A scan's answer has no word of the modules that were silent (`backend.py:247-248`):
  one that is not listed was clean or said nothing.
- `J2534CanLink.close` does not look at what the driver returns
  (`transport/j2534.py:496-503`). `J2534Link` takes the driver to accept it; one that
  refuses would keep the device, and every later open would fail.

## Proofs

Eight modules prove, for every value of the constants, safety properties that the
runs check on one instance.

*Backend* (`BackendProofs`). From `LinkAssumption` and `BackendAssumption` (a
configuration bus in the profile, at least one link identity, modules numbered and
wired). Neither `LinkCoherent` nor `NeverBlocksItself` is inductive: what a request
finds depends on the object `open()` is working on and on what its callers remember.
`IInv` adds the single `Owner` of driver resources (`HoldInv`), the locals of
`switch_bus` and `read_config` (`SwitchInv`), and what a sweep has asked and heard
(`SweepInv`). One lemma per group of actions shows that it is preserved. The
refinement shows that each step maps to a step of `BusSession` or changes nothing it
sees.

*Poll* (`PollProofs`). From `PollAssumption` (selections are lists without repetition;
positive limits). The properties speak of finished cycles; `IInv` speaks of the ids the
cycle has reached. Its heart is `TrustedInv`: a trusted id can have been passed over
for at most as many cycles as have gone by since the last retry cycle. That ids
do not repeat is what `NeverBlanks` rests on. `SlowTurn` has an invariant of its own,
`SlowInv`. Of an answering id that is due and was passed over, `Room` says that a set
`Behind` it of other ids exists, one for each cycle it has waited, none of which is due
again before their number has gone by: with room in the lane the set cannot be all of
the others, so the wait ends. `Lone` is the same for an id that has the lane to itself:
it can wait for its interval and then for the next retry cycle.

*Trip* (`PollProofs`). Each step of a trip is a step of the scheduler or invisible to it
(`TripPolls`), so what is proved of `Poll` holds of a recording (`TripKeepsTheSchedule`).
`RecordingIsFaithful` is the same of the file: times ascend, and each cell of a
recording is what was read in the cycle of its row, or empty. `ReportsAreTrue` (`TripTrue`)
goes on from there to what `analyze` makes of the file, from `TripAssumption` (the roles, and the
keys each prefers, are lists, as `ROLES` has them). `detect_roles` and `_regen_windows` are recursive
functions: `IterationExists` shows that a step can be taken any number of times, and what
the steps come to is shown at the least number where it would fail. Of the scan that is
`ScannedTo`: the hot stretches that are over have been found, each at its full length, and the
one that is not has its start. A stretch that lasts to the end is added by `CloseLast`.

*Dashboard* (`DashboardProofs`). For any number of pages: types, and `OnePoll`, which
rests on a poll being in exactly one place, the timer, the requests or the answers
(`PollInv`). For a page that is alone (`Alone`): `Agreement` and `StaleDims`. Neither is
inductive, because both say something only when nothing is on its way. `SoloInv` says
what every request and every answer on its way will do to the page: the last
selection the server was sent is what the page has ticked (`SelInv`), a switch that
worked is followed by the reload that shows it (`BusInv`), the parameters are those of
the bus the page shows or are about to be (`ParamsInv`), and a bright value was
read with the selection in force, or an answer that dims it is coming (`BrightInv`). It
is stated while no request was lost, which is the condition of `Agreement`. `Alone` is not a
convenience: with a second tab both properties are false (finding 4 for `StaleDims`).

*Block read* (`BlockReadProofs`). From `BlockAssumption` (two different blocks, counters
that start at 0 or 8). The properties speak of results, so `IInv` adds what they come
from: `RawInv` says that the block being joined is a prefix as long as its counter is
unbroken (`StepNumber`: both counters tell up to seven lost frames apart, so each
further frame is the next one), `WireInv` that answers come in the order asked, so that
no frame of the identity follows the first frame of the configuration, and `RetryInv`
that the block in hand is the longest so far and exists once anything was heard.

*Commands* (`CommandLineProofs`). From the assumptions of the five modules (lists of known
requests, positive bounds). `IInv` says where an answer comes from: whatever is in the
driver's queue, in a kernel socket, on the wire, in the reassembler, in the hands of a
module or on the adapter's line is something that the module it names has said
(`J2534Inv`, `SocketCanInv`, `ElmInv`), and what `request` hands over is a final answer of
the module that was asked (`AnswerInv`). From it follow `ShownIsTrue`, the refinement
`ImplementsContract` of `RequestReply` over each transport, and `AnswersPass` (the filters
remembered are those the channel has). `CommandLineKeepsTheContract` carries the
refinement over to every command of the tool.

*Answers* (`AnswerProofs`, from the same assumptions). The two properties that depend on
the order of what is under way. `StaleInv` says of a module to which no request has failed
that all it has to answer, says and has on the wire is of the request under way: one
request at most, responsePending before the final answer, and nothing once the answer was
handed over (`Quiet`). That the transports drop the rest of a batch, or leave it in a
socket, is harmless because of it. `WholeInv` is about raw SocketCAN, where frames of
answers given up, of two modules and of late answers share one socket. Of each module
every consecutive frame on the wire follows the first frame of its own answer and the
earlier ones, or another first frame is between (`Ordered`); the rest of an answer that the
module still holds comes behind the last first frame on the wire (`HeldLast`); and what the
reassembler has is the beginning of one answer, of which, until the next first frame, only
the rest can come (`Assembled`). It says nothing once a first frame is lost, which is the
condition of `AnswersWhole`: then the rest of one answer does complete another. Reading,
losing and appending frames are three lemmas about queues, each used for every step that
does it. `CommandLineShowsItsOwnAnswers` carries both over to the command line.

*Proxy* (`ProxyLogProofs`). From `ProxyAssumption` (among it: `Nobody` and `Everybody` are no
threads, and a driver that is not loaded is none of the drivers there are), for any
number of threads, channels and calls. `IInv` adds to the types that a thread past its
entry finds the proxy initialised, and that only a thread that asks for the last error
is in the stage where the proxy answers itself (`StageInv`); the log is a sequence of
whatever records (`LogInv`), which is all that a crash needs to cut it. `Transparent`
maps a thread to what its program sees of it: entering the proxy, the driver's return
(or the proxy's own) and the end of the record are the three steps of a call in
`PassThru`, loading the DLL is `Load`, and everything else is invisible.
`TheLogIsFaithful` (`LogFaithful`) has an invariant of its own, `WrittenInv`. Records are written
by several threads in an order nobody controls, so each thread's are in order only because
what it has still to record comes after all it has recorded: the call it makes has a
higher number (`CallAhead`), and the record it has begun a later time (`LineAhead`). That no
returned call is missing needs that none returned, and nothing was written, before the
proxy was initialised (`StartInv`); that a number is a place in the file, and that a crash
leaves the beginning of a session, comes from `FileInv`.

*Log analysis* (`ProxyLogProofs`). `ProxyBeside`: `LogsSpec` implements `ProxySpec`, so what is
proved of the proxy holds beside the analysis. `SummariesAreTrue` (`SummaryTrue`), from
`AnalysisAssumption`, is for logs of any length and any requests, channels, pauses and window.
It compares the exchanges at the end with what happened, so `PairInv` says after each
frame what a request can expect: the exchanges are the requests of the log in their order
(`RequestsInv`), an answer was given on its request's channel (`AnswersInv`), only what is
closed has a response (`ResponsesInv`), and, of a tame channel, an exchange has its own
answer, or none was logged, and then it waits, unless a frame of its channel came
when it was too old (`OwnInv`). That the oldest request that fits is the right one is
`OwnFits`: were an older one of the channel still open, the answer would not be in turn.
A log is tame only if its beginnings are (`TameBefore`). With every exchange holding
what its request got, the counts are those of equal sets (`TrueCounts`).

*Sweeps* (`VolvoSweepProofs`). From `SweepAssumption` (lists that are not empty, a
communication address for each module, as in the profiles, and a module for every
parameter). `ClearedIsWiped` is about what was read from the queue:
`WireInv` says that every acknowledgement in it comes from a module that has cleared,
and that the rest of a longer answer, which a module has yet to send, contains none.
`SweepAccounted` is about the end of a sweep: `TurnInv` says, by the step a turn is at,
what has been printed so far.

`FreshFrames` and `ReportsOwn` have an invariant of their own, `FramesInv`, on top of that one.
`CollectInv`: what has been collected came in after the request under way was sent, as has
every diagnostic frame still in the queue; this is `FreshFrames`. `ReportsOwn` is about a
`_collect` that cannot tell an answer from a late one to the same question, so it is true
only because a sweep does not ask the same twice. `LateInv` and `PastInv` say that
what a module has still to say answers a request that was sent, in a turn that has begun;
with different modules, or blocks, in different turns, `OnceInv` follows: whatever
on the bus looks like the answer to the first request of a turn is the answer to it.
`OrderInv` follows this one answer through its four places (owed, being said, in the queue,
collected): until a frame is lost its parts are in order across them. The list that confirms
a clear and a block named twice in `--blocks` are questions asked twice: for the first
`ReportsOwn` claims less, and the second is a condition in it (`IsInjective(Blocks)`),
without which TLC finds the late answer to the first of two reads shown as the second.

What `reassemble_block` and `_collect` select is `Picked`, a recursive function.
`PickedFacts` gives what it returns (the frames at those places, each once, in order)
from a least counterexample, as induction cannot be used.

All four are proved of `SweepSpec`, and `CommandLineSweepsAndCaptures` (`CommandLineProofs`)
carries them over to `CommandLineSpec`, of which the `commands` run checks them: its steps
are those of a sweep when the profile is a Volvo one, and leave the sweep alone otherwise.

*Captures* (`CommandLineProofs`, from `SniffAssumption`). `SniffTrue` compares two files when
all is over, so `SniffInv` says what a frame tells wherever it is: those in the FIFO, in hand
and in the file of a capture tell of a door that was so during that capture (`ToldInv`); the
door stays open once it is (`DoorInv`), a file that is to be written is not there yet
(`FileInv`), and the screen has the last frame of each id (`ScreenInv`). `ProfileIs` and `ChangesAre`
say what `sniff_diff` makes of two files: the bytes with one value in each, and not the same.
That no byte caught at two values is reported needs no more than this. (Trying to prove it found
the property itself too strong: it spoke of payloads, and a counter can be caught at one value only,
for a lost frame, while the door changes in the same capture. Captures of two frames do not show that.)
`CommandLineTypeCorrect` puts the types of the three parts together.

Checked by TLC only:

- `ServesAgain`, `LoopSurvives`, `EveryCommandEnds` and `CallsReturn`, which need fairness.

## Plan

In this order:

1. Done: `J2534Link`, `BusSession`, `Backend`, `Poll`, `Dashboard`, `BlockRead`; proofs for
   the backend, the scheduler and the block read.
2. Done: the transports against `RequestReply`, the sweeps, the command line; the proxy
   against `PassThru`, its log and the analysis; trips and captures.
3. Done: proofs of the refinement and one-time initialisation of `ProxyLog`, of the
   claims, the account and the frames of `VolvoSweep`, of the slow lane, of `Trip`, of the
   transports and of `Dashboard`.
4. Done: proofs of `StaleOnlyAfterFailure` and `AnswersWhole`, of `TripTrue` and `SniffTrue`, and
   of `LogFaithful`; the sweeps' theorems carried over to the command line.
5. Done: the analysis of logs frame by frame, for interleaved channels, retries and
   expiry, with `SummaryTrue` proved; a scan's answer against what the modules said.
   Left: what a log of `ProxyLog` guarantees, stated as a refinement between its records
   and the frames of `LogAnalysis`.

## Not modelled

Categories, YAML loading, the test client, installers and generators keep no state
between steps. Decoding (`volvo/parameters.py`, `dim.py`, `config.py`, `dtc.py`, the
encoders of `uds.py` and `obd.py`) is a pure function of one answer. Of `cli.py`
`dim-text` is not modelled; of `analyze.py` not the warm-up, the boost, the minima and
maxima and the page it writes. `ElmCanLink.open` is not: nothing opens the same link
twice, so its remembered header cannot be wrong. Of the fake driver only the device and
channel discipline is; its queues and scripted modules are fixtures of the tests.
