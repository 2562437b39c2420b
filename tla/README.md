# QuicView in TLA+

QuicView streams displays over QUIC: `quicview serve` runs a host, `quicview
connect` a viewer, and a set of crates holds the parts that a full session will
be made of. This directory has TLA+ models of those parts that keep state,
configurations that TLC checks them with, and proofs of the most important
properties that TLAPS checks. `PROJECT.json` lists the runs, the mutants that
show each property can fail, the source lines of every definition, the hazards
the properties are aimed at, the theorems and the disagreements found.

Every definition is translated from the Rust sources under `crates/`; quinn,
tokio and the Win32 API are external and are modelled by what the sources rely
on.

## 1. Inventory

What runs today is the CLI (`quicview-cli/src/main.rs`): the server loop, one
task per viewer, the Ping/Pong exchange, the shutdown channel and the counters.
The other crates are libraries that nothing connects yet, except tests: their
parts are used alone, by a caller who makes any sequence of calls.

| component | state | operations | interacts with | what makes it correct |
|---|---|---|---|---|
| Shutdown (`shutdown.rs`) | a watch channel: value, version; what each signal has seen | `trigger`, `signal`, `wait`, `is_shutdown`, clones and drops | every task of the server | no request is missed, none is made up, every waiter is let go |
| Server (`main.rs`, `listener.rs`) | where main, the Ctrl+C task and each viewer's task are; the counters | accept, handshake, spawn, `select!`, final snapshot, end of the runtime | shutdown, metrics, viewers | counters match the tasks, it stops when told, nobody is cut without cause |
| Control exchange (`main.rs`, `mux.rs`, `connection.rs`) | both ends' positions, data on its way, the connection | open, accept, length-prefixed reads and writes, close | QUIC | a Ping gets its own Pong, errors are real, both ends finish |
| Metrics (`metrics.rs`) | seven atomic counters | `record_*`, `connection_opened`, `connection_closed`, `snapshot` | all tasks | no update lost, no wrap of the gauge, snapshots mean something |
| Delta codec (`delta.rs`) | a reference frame at each end | `encode`, `decode`, `reset` | the stream between the ends | frames are reconstructed |
| Bitrate controller (`bitrate.rs`) | window of frames, two counts, quality | `record_frame`, `set_target_bps` | | quality moves only on evidence |
| Display wall (`wall.rs`, `virtual_display.rs`, `display.rs`) | clients, displays, next id | add, remove, create, resize, destroy, layout | | each client has its own display, layouts are right |
| Power manager (`power.rs`) | a list of entries | `register`, `touch`, `wake`, `tick` | | only what is unused sleeps |
| Negotiation (`negotiation.rs`) | a state machine | offer, select, accept, reject | | accepted means agreed |
| Discovery (`discovery.rs`) | services by address, own record | advertise, stop, inject, remove | | found as advertised |
| GDI capture (`gdi.rs`) | started or not, Win32 handles during a grab | `start`, `grab`, `stop` | Win32 | no handle leaks |
| Capture source (`source.rs`) | started or not, a frame count, per display | `start`, `grab`, `stop` | encoder | |
| Renderer and surface (`renderer.rs`, `surface.rs`) | the last frame, a count; a buffer and its resolution | `render`; `present`, `resize` | decoder | what is shown was captured, frame by frame |
| Service (`main.rs`, `config.rs`, `cert.rs`, `docs/deployment.md`) | a config file; a certificate per start; the fingerprint a viewer pins | load, `init`, generate, start again; dial, verify | server, viewers | who pins a fingerprint reaches only the host that has it |
| Input forwarder (`forwarder.rs`) | a bounded channel | `send`, `take_receiver` | tasks of the viewer | nothing accepted is lost |
| Wire encodings (`input.rs`, `frame.rs`) | none; a stream has bytes arrived and on their way | `encode`, `decode` | forwarder, injector, frames | what was written is read, whatever the pieces it arrives in |
| Input injector (`injector.rs`, `sendinput.rs`) | a count | `inject_batch` | Win32 | what is injected is a prefix, and the count says how much |

Where it is hard: tasks interleave at every `await` and at every atomic
operation; futures are dropped in the middle by `select!` and by the end of the
runtime; handshakes, connections and Win32 calls fail at any point; replies can
be overtaken by the close of their connection; frames in flight meet resets; and
several parts take calls in orders no test makes. `PROJECT.json` "hazards" names
each at its line. A host keeps nothing from one start to the next but its
configuration file, so there is no recovery of data; that its certificate is not
kept either is what its restarts are modelled for.

## 2. Modules

| module | models | run |
|---|---|---|
| `ShutdownLatch` | abstract: a one-shot latch that is requested or abandoned and releases its waiters | (refined by the next two) |
| `Shutdown` | `shutdown.rs` over a watch channel | `shutdown`, `shutdown_default` |
| `Server` | `quicview serve` | `server` |
| `ControlExchange` | `quicview connect` and `handle_viewer` | `control`, `control_ping` |
| `ServedSession` | both of the above: the server, with one viewer's session in full | `served_session` |
| `HostService` | `quicview serve` as a service that is started again, its certificates, and viewers that pin one or trust any | `host_parts` |
| `DeltaStream` | two `DeltaCodec`s with a stream between them | `data_flow`, `delta_reset` |
| `VideoPath` | frames of several displays over one codec to a renderer and a surface; extends `DeltaStream` | `data_flow` |
| `FaithfulView` | abstract: the view of one display, picture after picture | (refined by `VideoPath`) |
| `InputForwarder`, `WireFormat`, `InputInjector` | the input path: the channel, the bytes (of frame headers too), the injection | `data_flow` |
| `Metrics` | `metrics.rs`, one atomic operation at a time | `host_parts` |
| `DisplayWall`, `PowerManager`, `Negotiation`, `Discovery`, `GdiCapture`, `BitrateController` | the host parts of the same names | `host_parts`, `wall_readd`, `power_twice`, `discover_lan` |
| `MCHostParts`, `MCDataFlow` | instances for TLC: each behaviour has one component in focus and the others stay at an initial state, since they share nothing | |
| `ShutdownProofs`, `ServerProofs`, `ControlExchangeProofs`, `ServedSessionProofs`, `MetricsProofs`, `DataFlowProofs`, `DisplayProofs`, `HostPartsProofs` | theorems | |

### How state and actions correspond to the code

**Shutdown.** `value` and `version` are the watch channel's; `seen` is what each
receiver remembers. `trigger` counts the receivers and then stores, so it is
`TriggerFails` or `TriggerCall` and then `TriggerStore`; `wait` is `WaitCall`,
`WaitBorrow` (the loop's condition), and `WaitChanged` or `WaitClosed` (the two
results of `changed()`); `WaitCancel` is a `select!` that takes its other branch.
Clones and drops of both handles are actions, because dropping the last
controller or the last signal changes what the others do.

**Server.** `mainPc` walks through `Command::Serve`; `conn` and `outcome` follow
each connection attempt from its arrival to the end of its task. The accept
branch is `TakeIncoming` and then `HandshakeOk` or `HandshakeFail`, since
`accept()` awaits the handshake; a request of shutdown makes the loop take no further
connection. In the code `select!` drops that handshake with the accept branch; the
model also lets one that is under way end first, which adds steps and takes none
away. The `?` on the result is `HandshakeFail` and
`Unwind`. A viewer's task is `FirstPoll`, one of the branches of its `select!`
(`HandlerOk`, `HandlerErr`, `ViewerShutdown`) and `Closed`. `RuntimeCancel` is
tokio cancelling the tasks that are left when main has returned. What the session
says is not here but in `ControlExchange`; the channel is not here but is the
latch: `ServerUsesLatch` maps the state of main and the viewers onto
`ShutdownLatch`, and `Shutdown`'s `ImplementsLatch` shows that the channel behaves
as such.

**ControlExchange.** A plan is what a viewer sets out to write: a tag, a length
and a body, where the length only says whether it fits the limit. Viewers of
other versions write other tags, lengths and messages, or stop early. `buf` is
written and not yet delivered, `arrived` delivered and not yet read. A close
discards the closer's `buf`; what had arrived can still be read. `HostCut` is the
`select!` of the viewer's task, which drops `handle_viewer` wherever it awaits: before
a read, and before either write of a Pong when QUIC has no room for it.

**ServedSession.** `INSTANCE`s of `Server` and `ControlExchange` side by side. The
outcome of the watched viewer's task is no longer free: `HandlerOk` and
`HandlerErr` happen when `handle_viewer` returns, and drop the connection in the
same step; `ViewerShutdown` and `RuntimeCancel` happen only where the session
awaits data or room to write, and are its `HostCut`; a failed handshake ends the connection. The
host's side moves only while its task runs, the viewer's from the first packet it
sends. The other clients stay as free as in `Server`. By this construction each step is
one of `Server` and one of `ControlExchange`, or leaves one of them alone; what is
worth checking is what relates the two.

**HostService.** A start makes a certificate before it binds its address, so
starts and certificates have the same number, and a fingerprint is that number.
`Exit` is a process that ends: what it served is gone at once, while each viewer
finds out later (`Leave`). `Verify` is the viewer's half of a handshake, `Accepts`
its two verifiers; `HandshakeFail` is the `?` that ends `main`, after which
`StartAgain` is systemd or an operator. The configuration file counts only by
whether it is there and parses.

**Metrics.** A call puts the fields it updates into `pending`; `Update` makes one
`fetch_add` or `fetch_sub`, in any order, as Relaxed allows. A snapshot is
`SnapshotCall` and one `Load` per field. `begun` and `settled` are history: what the
calls made, and what those that are over, amount to in each field.

**DeltaStream.** Bytes are XORed bit by bit and the bits do not interact, so a
frame is a sequence of bits, and its length stands for the resolution. A payload
carries its frame and its reference as history for the properties only.

**VideoPath.** The pipeline of `crates/quicview/tests/integration.rs`, for several
displays that share one encoder, one stream and one decoder. A test source fills
a frame with one colour that its frame count chooses: of it, the lowest bit is
kept. `SendFrame` is `grab`, header and `encode`; `ViewFrame` is the header's
`decode`, the codec's, `render` (which refuses the frames of other displays) and
`present` (which refuses other sizes); `RefuseFrame` is a header with a payload
above the limit, whose payload is skipped. `ResizeSurface` keeps the pixels that
fit. History variables remember which frame is shown. `ImplementsView` maps this onto
`FaithfulView`: the frames captured of the viewed display are its pictures, the
renderer's last frame its image, and a refused frame is what lets delta codecs come
apart. Headers, codecs, other displays and frames in flight do not show there.

**WireFormat.** The bytes are written out, since the hazards are in them: numbers
are big-endian and fit into the four bytes they are written as (`TopByte`), a button
and its action share a byte. `Read` is one call of
`decode`. A header that is short takes nothing from its source and can be tried
again; an event that is short has lost its tag, so the reader stops. A writer of a
later version may use numbers this version does not know. That no byte is read
past the end is checked by TLC itself: it would be an error of evaluation.

**The parts in `MCHostParts` and `MCDataFlow`.** One action per method; a call that
returns an error without changing anything is left out, as it would be a
stutter. `Touch` is both `touch` and `wake`. `GdiCapture` has one action per Win32
call of `grab`, and `GrabFails` has its early returns with the calls each one
makes to clean up, in their order. `InputForwarder` has the queue of waiting
senders of tokio's channel, which a sender may leave from any place (`LeaveQueue`);
free places go to the first in the queue, who push in any order (`HasRoom`); and
a waiting `send` borrows the forwarder. `Discovery` remembers in `lan` who is there to be
found, beside what `discover` returns. `BitrateController` keeps the frames recorded as history, so that the
property computes the rate from them (`FirstRecent`) and not from the window.
`PowerManager` changes all the entries of a `tick` at once, for the loop changes each
by itself: `newlySleeping` is the set of what it returns. In `GdiCapture`,
`gdi` is the set of handles held, with the bitmap's selection as one of them,
and each release works only in an order that GDI accepts.

## 3. Runs, bounds, and what they show

`shutdown`, `data_flow` and `host_parts` check the types of what they run, and those of
`Server` and `ControlExchange` are proved. "Mutants" in
`PROJECT.json` has, for every property, a change of the code's model that a bug
could make and that violates the property under the same bounds.

| run | bounds | why they are enough |
|---|---|---|
| `shutdown` | 2 controllers, 3 signals, 2 stores | one signal keeps the channel alive while another races a trigger and a third is cloned; a third store does nothing a second did not |
| `server` | 3 clients | one hangs or fails in its handshake while one is served and one waits |
| `control` | 2 timestamps, 9 plans; the connection and the host may fail at any point | one session is all a connection has; each plan reaches another branch of `handle_viewer` |
| `served_session` | 2 clients, one of them with its session: 1 timestamp, 8 plans; everything may fail | the second client is there to be served, to hang, or to end the server by its handshake, at any point of the session |
| `data_flow` | frames of 1, 2 and 3 bits, 2 in flight | both values of a bit, both directions of a resolution change, a reset between encode and decode |
| | three displays of those sizes, 3 bits being too large for a header; 2 grabs of each, both codecs | a refused frame and a frame of another display come between two frames of the one that is viewed |
| | 2 senders of 2 events each, capacity 2; batches of up to 2 of the 9 kinds of events | a full channel with two waiting senders, two places for them to race for; errors at the first, a middle and the last native input |
| | 2 items on a stream, positions of both signs, every button, kind and format, payloads at and above the limit | items arrive in pieces of any length, and the second is cut off anywhere |
| `host_parts` | 2 clients, 3 cells, 2 resolutions, 3 displays | addresses are used twice, cells lie on both sides of the origin |
| | 2 displays with 3 entries, clock values 0, 1, 2, 4; 2 displays offered; 2 addresses | duplicates, a clock that jumps either way, a second offer, another host at one's address |
| | 2 screen sizes, 2 frames; 6 frames of 0 or 4 bytes, 0, 1 or 3 ms apart, window of 2 ms | three frames over budget and five under it fit into six, with the window moving |
| | 2 viewers that pin and 1 that trusts, 2 starts | one has the old fingerprint and one the new, beside one that gets in at any start |
| | 2 tasks, one record each, counters modulo 8, frames of 5 bytes | two calls and a snapshot overlap in every way; two frames make a byte counter wrap |

What is shown, beyond types:

- `shutdown`: `TriggerInForce` (a returned trigger is in force as long as there
  was always a signal), `ReleasedForCause`, `NoMissedRequest` (no lost wakeup
  between `borrow` and `changed`), `ImplementsLatch` (with liveness).
- `server`: `CountersMatchTasks`, `FinalReport`, `CutForCause`,
  `ShutdownCompletes`, `EveryArrivalTaken`, `ServerUsesLatch`.
- `control`: `PongAnswersPing`, `HostResultJust` (a viewer that has its answer is
  never counted as an error by the host, what the host calls well ended is answered
  or needs no answer, also when shutdown comes between a Ping and its Pong, and
  errors have a cause), `BothEnd`.
- `served_session`: `AnswerIsService` (an answer and the server's books agree,
  whatever ends the server), `SessionsEnd` (a viewer comes to its end also when
  the host is gone before it took the connection).
- `data_flow`: `FaithfulUntilDisrupted`, `ResolutionChangeRecovers`,
  `ErrorIsConstant` (why nothing else recovers), `ShowsCaptured`, `ImplementsView` (no
  picture is left out, repeated or another display's, and each is right until a
  refused frame separates the codecs, with which `RawCodec` never has to reckon),
  `AcceptedReachReceiver` (nothing accepted is lost, and the events of one task keep
  the order of its calls), `SendsEnd`, `ReadsWhatWasWritten`, `InjectsPrefix`.
- `host_parts`: `EachClientItsDisplay`, `LayoutFits`, `SleepsOnlyUnused`,
  `AcceptedAfterHandshake`, `FoundAsAdvertised`, `HandlesReleased`,
  `QualityOnEvidence`, `PinnedReachesIssuer`; of the metrics `NothingLost`,
  `GaugeInRange`, `SnapshotCoversFinished` (field by field: across the fields a snapshot
  may be torn, see below). `SleepsOnlyUnused` covers what `state` says of any display and
  what `tick` says of a display registered once; `FoundAsAdvertised` covers who is found
  and not who should be: the other halves are violated, and stated among the disagreements.
  `InjectsPrefix` bounds what a failed batch leaves injected, half a mouse event
  included, which "atomically (best-effort)" (`injector.rs:13`) permits. `LayoutFits` is
  about clients of one resolution: for others the code promises nothing.

Deadlock is not checked, as each of these systems may stop: all tasks over, the
server stopped, a session ended, or a bound of the instance reached. What may not
stop is said by the liveness properties instead.

### Disagreements

Six runs expect a violation; each checks one sentence of the repository.

- `shutdown_default`: a controller made by `default()` has no signal, and a trigger
  before the first `signal()` is lost (`shutdown.rs:28`, `:58`).
- `control_ping`: the host drops the connection when the Pong is written, and the
  close can overtake it (`docs/getting-started.md:54`).
- `delta_reset`: the keyframe after an encoder's reset is not marked, and the
  decoder XORs it (`delta.rs:10`, `:23`).
- `wall_readd`: adding a client twice leaks the first display (`wall.rs:59`).
- `power_twice`: a display registered twice has two entries; `touch` keeps the first
  awake, the second goes to sleep, and `tick` and `sleeping_displays` report a display
  that is in use and that `state` calls active (`power.rs:39`, `:51`, `:85`). The clock
  of this run does not go back (`SteadySpec`).
- `discover_lan`: `services` and `lan` come apart. Stopping removes the record of another
  host that came to the address of this one (`discovery.rs:25`); and after a second
  advertisement at another address it leaves the first listed (`discovery.rs:22`).

Three more were met while modelling and have no run, as the code shows them at a glance:

- `max_connections`, "Maximum concurrent viewers" (`config.rs:24`), is read by nothing.
- The fingerprint that is printed at a start and shared for viewers to pin is good for
  that start only, for the certificate is not kept (`docs/deployment.md:61`,
  `main.rs:61`); and a single viewer that refuses the certificate ends the host
  (`main.rs:82`), which is then started again. `HostService` has both, and
  `PinnedReachesIssuer` is what pinning does guarantee.
- A "Point-in-time snapshot" (`metrics.rs:94`) loads its counters one by one and may have
  the error of a viewer and not the viewer, which was counted before. The final report
  of `serve` does not meet this, since nobody is accepted any more when it is made.

### Fairness

- `Shutdown`: weak fairness of `WaitStep` for each signal: the runtime polls a task
  that was woken. Nothing makes anyone call `trigger`.
- `Server`: weak fairness of main's steps, of each viewer task's own steps, of
  taking a queued connection, and of the end of a handshake (quinn has a
  timeout). None for `HandlerOk` or `HandlerErr`: a session may last for ever,
  and none for Ctrl+C. `TakeIncoming` is fair because `select!` picks among ready
  branches at random; with three clients and one attempt each, weak fairness per
  client suffices.
- `ControlExchange`: both programs run on, an open connection delivers, a side
  learns of the other's close, and a connection on which both sides wait runs
  into the idle timeout of quinn. Failures and the host's shutdown are not fair.
- `ServedSession`: that of both its parts, with `select!` as one choice: the viewer's
  task goes on if its session or its signal can. A viewer that dialled a host that
  is gone runs into quinn's timeout.
- `MCDataFlow`: a sender that can go on is polled, and the reader keeps reading.
- The other specifications are checked for safety only and have no fairness.

## 4. Proofs

The theorems hold for every value of the constants that satisfies the named
assumptions (`ShutdownAssumption`, `ServerAssumption`, `ExchangeAssumption`,
`SessionAssumption`, `MetricsAssumption`, `DeltaAssumption`, `VideoAssumption`,
`ForwarderAssumption`, `InjectorAssumption`, `WallAssumption`, `PowerAssumption`,
`ServiceAssumption`, `DiscoveryAssumption`, `GdiAssumption`, `BitrateAssumption`,
`WireAssumption`), which
TLC evaluates in the runs.

- `ShutdownProofs`. The inductive invariant adds to the three properties the
  types, `SeenBehind` (no signal has seen a version the channel does not have yet;
  without it a step to the newest version could not be told from one past it) and
  `OrphanRecorded` (a moment without receivers is on record). From it:
  `TypeCorrect`, `TriggerStaysInForce`, `NoCauselessRelease`, `NoLostWakeup`, and
  `ImplementsLatchSafety`: every step is a step of `ShutdownLatch` or a stutter.
- `ServerProofs`. To the properties the invariant adds `OutcomeLast` (an outcome is
  recorded only with the end of a session), `MainForCause` (main has left its loop
  after a request or a refused handshake) and `ReportSoFar` (the total does not
  move once it is read for the report). Each action moves one connection between
  the finite sets that the counters count. From it: `TypeCorrect`,
  `CountersCorrect`, `ReportCorrect`, `CutOnlyForCause`, `ImplementsLatchSafety`. That
  `active` is in `Nat` is the absence of a wrap below zero, for any number of viewers.
- `ControlExchangeProofs`. What is on its way in each direction is the stretch of
  one message between what was written and what was read (`Follows`), so that each
  position of a program says which bytes the other side has, is about to get or
  will never get. `Shape` says so of the streams, `RequestInOrder` of the viewer's
  Ping and `ReplyInOrder` of the host's Pong; `StampFromPing` ties the stamp of a Pong
  to the Ping, `ErrorJust` every error to a cause that is still visible, `OkJust` every
  success to the stamp of a Ping or to a plan that needs no answer; the lemma `PongToCome`
  says where a written Pong is. From them: `TypeCorrect`, `AnswersRight` and `ResultJust`.
- `ServedSessionProofs`. Each step of the composition is a step of `Server` and a
  step of `ControlExchange`, or leaves one of them alone, by the way it is put together;
  the lemmas `StepsOfServer` and `StepsOfSession` say so for the proofs. What is inherited
  is stated for the composition: `ServedBooksRight` (the three properties of `Server`)
  and `ServedSessionsRight` (the two of `ControlExchange`), by instances of the proof
  modules, whose invariants the composed steps keep. `AnswersAreServed` needs both
  parts: `TaskTells` relates where a viewer's task is to where its session is, so that
  a Pong in a viewer's hands has been counted, and that a session which answered ends
  neither as an error nor as cut.
- `MetricsProofs`. A counter is what all calls begun amount to, less what the calls
  under way still owe it (`Balanced`). A sum over the tasks is the cardinality of a
  set with as many elements for each task as its amount, so that no induction over
  the tasks is needed. `GaugeCounts` says the same of the gauge by the sets of tasks
  whose opening and whose closing has reached it, and `SnapshotBetween` what each
  `Load` can have seen. From them: `MetricsTypeCorrect`, `NothingIsLost`,
  `GaugeStaysInRange`, `SnapshotIsBetween`, for any number of tasks and any width.
- `DataFlowProofs`. *Codec*: each payload is the encoding of its frame (`Encoded`), and
  until a reset disrupts them the payloads chain from the decoder's reference to
  the encoder's (`Chained`). What a reset leaves standing is `LengthsFollow`:
  references that both exist agree on their length, which is why the next change
  of resolution repairs the stream. That `Xor` undoes itself for frames of one
  length is a lemma. From it: `Faithful`, `Recovers`, `ErrorStays`. *Video*: each
  payload is that of the header at its place (`Paired`, `Coded`), the headers in
  flight of the viewed display are those after the frame that is rendered, all of
  them and in order (`NoneMissed`), and what the viewer has is what was captured
  (`ViewerHas`): `ViewerShowsCaptured`. The same invariant gives the refinement: the
  header at the head of the stream, if it is of the viewed display, has the number
  after that of the rendered frame (`HeadFollows`), and a refusal shows that some
  display is too large (`TooLargeExists`), so each step is one of `FaithfulView` or a
  stutter (`StepSeen`): `ViewIsFaithful`. *Forwarder*: what was accepted is what was
  received and what waits in the channel, in order; who waits has called `send`
  (`WaitersCalled`, without which the event that is accepted might not be one), and what
  is accepted of a sender that waits is of earlier calls (`AcceptedCalls`):
  `AcceptedReach`. *Injector*: the inputs of a batch are a recursive function of how
  many events are counted; that each of its values extends the one before is shown
  by the least counterexample. The call has injected the inputs of its whole events
  and the first of the next one's: `InjectsInOrder`. *Wire*: numbers, names and each
  kind of item are read back from any bytes that begin with their encoding
  (`UnsignedReads`, `SignedReads`, `MouseReads`, `KeyReads`, `ScrollReads`, `HeaderReads`,
  together `ItemReads`), for all numbers of an `i32` or a `u32`. In `WireInv` the bytes
  ahead of a reader, arrived or not, are exactly the encodings of the items it has
  not got, in order (`IsLaid` says where each begins). Without it a reader could be
  in the middle of an item; with it, an error says what the next item is or that
  a part of it has not arrived: `ReadsBack`. *Together*: in `MCDataFlow` each
  part keeps its own invariant, in focus or not (`PartsInv`): `FlowTypeCorrect`.
- `DisplayProofs`. *Wall*: the invariant adds to `EachClientItsDisplay` the types (ids
  are below `nextId`) and `WallKeepsItsOwn` (nobody else creates or destroys
  displays of a manager that a wall owns): `ClientsOwnDisplays`. That rectangles of
  one size on different cells do not overlap, and that a bounding box is the least
  one, are lemmas about integers: `LayoutFitsAlways`. *Power*: `used` of an entry is
  the time of its display's last use, for the first entry of that display, which is
  the one `touch` finds; duplicates were registered later; and what `tick` tells of a
  display registered once is of its only entry (`ReportedOnce`): `OnlyUnusedSleep`.
- `HostPartsProofs`. `PinnedReachesIssuer` is made inductive by `HandshakeHere` (the
  handshake that `accept()` awaits is with the running start) and
  `VerifiedIsPinned` (a pinning viewer that has verified it has that start's
  fingerprint). A restart keeps it because a process that ends takes its handshake
  and its connections with it. `NegotiationInv` ties each state to the calls that
  led to it; `FoundAsAdvertised` is inductive with the types; `HeldAfter` says
  which handles are held after each call of a grab, with room for the frame it will
  count, and `ReleaseAllReleases` that the
  clean-up gives back any set of them; in `BitrateInv` the window is the recent end of
  the log (`RecentOf`), and the two counts are runs of frames at its end that were
  over and under the target (`CountsInARow`). From them:
  `PinnedReachesIssuerAlways`, `AcceptedAfterHandshakeAlways`,
  `FoundAsAdvertisedAlways`, `HandlesReleasedAlways`, `QualityMovesOnEvidence`. With
  those of `DisplayProofs` and `MetricsProofs` these invariants make up `PartsInv`, which
  all of `MCHostParts` keeps: `HostTypeCorrect`.

Every invariant and every action property of the passing runs is a theorem, and so is
the safety part of each refinement. Only model-checked are the liveness properties
(`BothEnd`, `ShutdownCompletes`, `EveryArrivalTaken`, `SessionsEnd`, `SendsEnd`) and the
fairness half of `ImplementsLatch` and `ServerUsesLatch`: they need ENABLED and
reasoning under fairness, which are out of the prover's reach. The operators that a
run evaluates by recursion are recursive functions, about which facts are proved by
the least counterexample, where a proof needs them.

## 5. Not modelled

- Stubs of other platforms, audio, clipboard and FFI: no state beyond a flag or
  a variable with one caller.
- Authentication and roles: stateless predicates that nothing calls. Keys,
  signatures and the TLS handshake inside: of certificates, `HostService` has what
  tells one from another and who accepts which.
- Pixel conversion: stateless copies of bytes that nothing calls. `LogRenderer`, which
  only counts and logs. The JSON of the control messages.
- The values of the configuration, logging, `status`; `extend` is not implemented.
- Unchecked arithmetic (`i32` in layouts, `u32` in buffer sizes, `u64` in rates)
  beyond what any real screen, wall or stream reaches. The counters of `Metrics`
  do wrap in the model.

## 6. Plan

Done: the core (shutdown, server, control exchange, metrics, delta codec), the
separate host and input parts, the video pipeline and what it promises its viewer, the
service with its restarts, the server composed with a session, and the proofs of
section 4.

When the code connects more of its parts (frames and input over the streams of a
session), the parts of `MCDataFlow` and `MCHostParts` are to be composed with
`ServedSession` in the way that one composes `Server` and `ControlExchange`: their
invariants, proved here for each part, are what such a composition inherits.
