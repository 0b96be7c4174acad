# A TLA+ model of the remote desktop

The repository is a RustDesk-derived remote desktop: a program that runs on the
controlled machine (the *server* side, `src/server.rs`, `src/server/`), a client that
shows and controls it (`src/client.rs`, `src/client/`), the libraries they share
(`libs/`), and a Flutter user interface. This directory models the parts of it in which
threads, processes or peers share state or follow a protocol: first of all the services
of the controlled machine and the connections they serve, then file transfers,
terminals, forwarded ports, keys, privacy mode, registration at rendezvous servers, the
portable service, and the rounds of a client session. Paths below are relative to the
repository's root.

## The system and its parts

| Part | State | Operations | What is hard about it | Module |
|---|---|---|---|---|
| Generic service, `src/server/service.rs` | two maps of subscribers, `active` | subscribe, unsubscribe, snapshot and swap, join | the thread and all connections work on the maps, one short lock at a time | `Service` |
| Video service, `src/server/video_service.rs` | encoder, `DISPLAY_CONN_IDS`, a channel of fetched frames, the option `refresh` | set up, capture, encode, send, wait, switch | newcomers need a key frame; acknowledgements come late, from closing connections, or never | `VideoService` |
| Registry, `mod raii` in `connection.rs` | `AUTHED_CONNS`, wake lock thread, wallpaper, changed resolutions | register, drop, restore | several lock sections per operation; the last one out cleans up | `AuthedConns` |
| Server, `src/server.rs`, and permissions | services, connections, flags | add, remove, subscribe, switch permission | subscribes under its own lock to services with locks of theirs | `Subscriptions` |
| Cursor service, `input_service.rs` | last cursor, caches of images in three places | poll, send, snapshot, reset | the caches have different lifetimes | `CursorService` |
| Keys, `input_service.rs`, `connection.rs` | `KEYS_DOWN`, an input thread per connection | press, release, time-out, reset, exit | record and key change in separate steps; threads outlive connections | `KeyInput` |
| Video QoS, `video_qos.rs` | frame rate, bitrate ratio, per-user delays | samples, overdue answers, wishes, adjustment | one controller fed by all users and displays | `VideoQoS` |
| Display service, `display_service.rs` | `SYNC_DISPLAYS`, `is_synced` | check, sync, ignore for a while | a change is found by one thread and delivered once by another | `DisplayService` |
| Privacy mode, `src/privacy_mode/` | owner, implementation, window, displays, hooks | turn on, switch, turn off, time out | turning on fails half-way; requests of connections overlap | `PrivacyMode` |
| File transfer, `libs/hbb_common/src/fs.rs` and both ends | jobs, digests, partial files | read, write, confirm, skip, resume | two sides confirm each file; the connection may be lost anywhere | `FileTransfer`, `FileDelivery` |
| Terminal service, `terminal_service.rs` | `TERMINAL_SERVICES`, sessions, three kinds of threads | open, data, close, stop, clean up | threads are joined under locks and outlive connections | `Terminal`, `TerminalBuffer` |
| Port forwarding, `src/port_forward.rs`, `connection.rs` | framed or raw on each side | login, test delay, authorize, forward | each side leaves the framing at its own moment | `PortForward` |
| Rendezvous, `rendezvous_mediator.rs` | mediators, `SHOULD_EXIT`, id and confirmations, latencies | register, confirm, change id, restart | datagrams lost or overtaken; restarts race with start-up | `Rendezvous`, `RendezvousLatency` |
| Portable service, `portable_service.rs` | shared memory with counters, `RUNNING`, processes | capture, switch display, start, ping, end | two processes without a lock; overlapping starts | `PortableCapture`, `PortableService` |
| Client session, `ui_session_interface.rs`, `client/io_loop.rs` | `ConnectionRoundState`, a thread and a channel per round | connect, reconnect, close | threads are never joined and report late | `ClientSession` |
| Downloader, `src/hbbs_http/downloader.rs` | `DOWNLOADERS`, a thread per download | download, poll, cancel, remove | an entry outlives its thread | `Downloader` |

Connections call the server and services directly; services send messages into the
connections' unbounded queues; connections tell the video thread through a channel that
they fetched a frame; clients send acknowledgements, refresh requests, options, input and
test delay answers; the connection manager of the local user switches permissions,
accepts connections and writes files; service, connections and mediators share statics
behind mutexes and atomics.

Correct means: every subscriber gets what it needs to decode and show what it is sent;
nothing is sent to those who left or lost the permission; nobody's silence stops the
others; what a session changed on the machine (wallpaper, resolution, privacy mode, keys,
shells, processes) is undone when it ends; a file appears under its name only when it is
whole; a device stays registered where its user configured it; loops, jobs and waits end.

`PROJECT.json` lists every component with its sources and what of it is left out, the
lines each definition translates, and the hazards the properties are about.

## Modules

`Service` — records and operators, no behaviour: `ServiceInner` with its maps, one
operator per method, each one critical section of the `RwLock`. `VideoService`,
`Subscriptions`, `CursorService` and `DisplayService` apply them to their services.

`VideoService` — the capture thread of one display and the connections watching it.
`pc` follows `GenericService::run` and `video_service::run`; every `?`, `bail!` and early
return ends in `Leave`, which is `Drop for Raii`. The snapshot is split into its sections
(look for new ones, look for old ones, swap) because the lock is free between them.
Frames are abstracted to whether the client can decode them: encoders produce a key frame
only first, so a client is `synced` when it got the first frame of the current encoder
and all since. A connection goes from `open` over `closing` (the loop has broken, waiting
threads were notified) to `closed` (`Server::remove_connection`). `AckConns` are the web
clients that acknowledge frames themselves. "codec" in `switch` stands for every reason to
restart that broadcasts nothing.

`AuthedConns` — `AuthedConnID::new` and its `Drop`, `check_wake_lock`, the wake lock
thread, `on_remote_authorized`, `change_resolution` and `restore_resolutions` for one
display, one action per lock section. `overlap` is a history variable.

`Subscriptions` — what a remote-control connection is subscribed to. A handler sets a
flag and then makes its `Server::subscribe` calls in order (`todo`); a call holds the
server's lock and goes through the two reads of `is_subed` and the action in separate
steps. `raced` names subscriptions an unsubscribe missed because of a swap between the
two reads.

`CursorService` — `run_cursor` under `ServiceTmpl::repeat`, `MouseCursorSub`, and the
client's cache of images. `missed` names connections that joined between a snapshot's
send and its swap.

`VideoQoS` — `VideoQoS` behind its mutex, one action per method and one for `check_qos`.
The average delay is a choice from `AvgDelays` (an over-approximation of the history and
of `RttCalculator`), ratios are integers in thousandths rounded down, `None` is 0.
`recent` orders users by the time of their quality choice; equal milliseconds, and a
clock set back, are not modelled.

`DisplayService` — `check_changed` called by the service's own thread, by video threads
and at logins; the thread's message, snapshot and swap; suspending of messages by privacy
mode. A list of displays is a number. `alone` names connections swapped in when there was
no other subscriber.

`PrivacyMode` — both kinds of implementation (a topmost window, a virtual display) with
every outcome of turning on (`WindowOutcomes`, `VirtualOutcomes`, `GuardOutcomes`), the
thread of the input hooks, time-outs of the task that turns on, and the connections'
handlers. An action is a section under the lock of `PRIVACY_MODE`.

`FileTransfer` — one job and its successors in either direction: reader and writer with
their queues, digests and confirmations, override, skip and cancel, I/O errors, changes of
the source between jobs, loss of the connection, resume with offsets. A file's content is
the sequence of its blocks, each with the version it was read from. `FileDelivery` is the
abstract specification: under its own name a file appears only whole, in a version since
the transfer began, and "done" is reported only when all files that are not excused have
arrived. `FileTransfer!Delivery` is the refinement mapping (`target` is what is on disk
under the files' own names).

`Terminal` — one service id: registry, service threads, sessions with reader, writer and
child process, `stop` with its bounded channel and joins, removal, the cleanup task.
`TerminalBuffer` — `OutputBuffer::append` on line lengths, with `total_size` as the
unsigned number it is.

`PortForward` — both ends from the first login to raw bytes, the connection manager's
decision and its other messages, test delays; message kinds stand for contents.

`KeyInput` — `handle_input` of each connection's thread, the rdev handlers (record, then
simulate) and the legacy handler (both under the lock of `ENIGO`), and the three callers of
`fix_key_down_timeout`, which clones the records, and then removes and releases one key
after the other. `aged` are records beyond 360 s. `raced` names held keys that went down
without a record, or around the end of the process.

`Rendezvous` — `start_all`, one mediator per server over UDP or TCP, `restart`, the id
and its confirmation (`key_confirmed`, one flag and one per host); the server is external. A network of at most
`MaxNet` messages per host loses and reorders datagrams. `RendezvousLatency` — the timer
and `update_latency` for one server.

`PortableCapture` — parameters, frame information and the two counters in the shared
memory; each access is an action. `PortableService` — starting processes, the ipc tasks
that take turns, pings, `RUNNING`.

`ClientSession` — `ConnectionRoundState`, the threads of rounds, calls from the interface
on several threads, `close`. `overlapped` and `unheard` are history variables.

`Downloader` — `DOWNLOADERS` for one url, its threads, and the progress dialog's calls.

`MC…` modules give the instances. The `…Proofs` modules hold the theorems: `ServiceProofs`,
`VideoServiceProofs`, `VideoQoSProofs` and `FileTransferProofs` those of the module they
are named after; `HostProofs` those of `AuthedConns` and `PrivacyMode`; `SubscribersProofs` those of `Subscriptions`,
`CursorService` and `DisplayService`; `SessionProofs` those of `ClientSession`,
`RendezvousLatency` and `Rendezvous`; `PeerProofs` those of `Terminal` and `PortForward`.

Definitions named "Mutated form of …" are deliberately wrong variants of the definition
they name: with them in its place the property they are paired with (`PROJECT.json`,
"mutants") fails. Nothing else uses them.

## Runs

Run one with `tlc -workers 2 -config X.cfg Module`.

| Run (module) | Parts | Shows |
|---|---|---|
| `video_safety` (`MCVideoService`) | two connections, one acknowledging; one wait slice; queues of 1 | `OneMapEach`, `AllOrNoneDecode`, `EntryOnlyWhileWaiting`, `ClosedNotSubscribed` |
| `video_liveness` (`MCVideoService`) | two connections, queues of 1 | `WaitEnds`, `EventuallyDecodes`, `RefreshServed` |
| `sessions` (`MCSessions`) | registry with two remote connections, a camera viewer and two resolutions; QoS with two users for the rate, and with a display and bitrates for the ratio | `QosUsersAuthed`, `CleanedUp`, `LoneStepSetsWakeLock`; `DelayedThrottles`; `RatioInRange`, `RaisedOnlyWhenAllGood` |
| `components` (`MCComponents`) | subscriptions (one connection, all ten flags), cursor, displays, privacy mode, terminals (two connections each), latency, download, forwarded port, file transfer (two files of two blocks and one, two versions, two jobs) | `GrantedAreSubscribed`, `NoneOutlivesItsPermission`, `IdsAreKnown`, `SubscribersUpToDate`, `DisplaysKnown`, `EffectsHaveOwner`, `NoShellIsForgotten`, `OnlineInStep`, `ForwardsCleanly`, `Delivers` (the refinement) |
| `protocols` (`MCProtocols`) | file transfer, client session of four rounds, terminals, keys (one connection, an rdev modifier, a control key, a character, two events) | `StateOfNewestRound`, `JobEnds`, `SupersededEnd`, `ClosedEnd`, `RegistryIsUnlocked`, `ShellsEnd`, `KeysComeUp` |
| `device` (`MCDevice`) | two rendezvous servers of which one knows the id as taken, capture with one change of the screen, two processes of the portable service | `ServersFollowed`, `OneExitsAllExit`, `Registered`, `FramesFlow`, `ServiceFollows` |
| `video_acks`, `qos_stuck`, `file_offsets`, `terminal_buffer`, `download_retry`, `port_forward` | violated | findings 1 to 6 |

Components that share no state share a run. A variable `part` chooses the component that
moves; the others rest in one initial state, so that the states of the run are the sum
and not the product of theirs. `MCX == part = "x" => X` states a liveness property for the
behaviours of its part. The liveness properties of `protocols` and `device` have their
fairness as a premise (`XFairness => …`), because it differs from part to part;
`video_liveness` runs under `ThreadSpec`.

`CHECK_DEADLOCK FALSE` where the system may stop: all connections are closed, the job is
done, the page is closed.

### Bounds

Two connections give every race between an old and a new subscriber, between two drops
and between two owners; a third one only adds to sets that are treated alike (and the
theorems cover any number where there are some). Permissions of different connections do
not interact: they meet only at the server's lock, which orders their calls, and in a
swap, which moves everyone, so one connection with all flags covers them.

`MaxQueue`, `MaxUnacked`, `MaxCursors`, `MaxPfQueue`, `MaxNet` bound unbounded queues: a
sender waits when one is full, which the liveness properties accept because queues are
drained fairly. `WaitSlices` counts 300 ms slices; 1 distinguishes "first try" from
"over". `ChannelSize = 1` for the writer's channel of a terminal (100 in the code) makes
the full channel reachable. `MaxVersion`, `MaxJobs`: a source that changes once, and a job
that is resumed or repeated once (`file_offsets`: twice). `MaxRounds = 4` allows two
overlapping reconnects after a first one. `MaxTroubles` bounds errors and losses
of the mediators: without a bound nothing would ever get through. `CounterMax = 2` is where
the frame counters wrap (`i32::MAX` in the code); with 1 two frames could not be told
apart. `MaxScreenChanges = 1`: the size changing back before the client looked cannot be
seen by the client, which compares sizes. `MaxProcs`, `MaxLogins`, `MaxDownloads`,
`MaxInputs = 2` (a key pressed and another or its release).

In `VideoQoS` the ratio does not depend on the frame rate: a `VIEW` keeps, for each part
of `sessions`, what it depends on. Delays are chosen so that each part has a class that
raises and one that lowers.

### Fairness

`WF` on threads and tasks (`Thread`, `InputThread`, `TermStep`, `MainStep`,
`MediatorStep`, `ReaderStep`, the steps of a session's round): operating system threads
and tasks of the runtime in loops without unbounded blocking calls other than the ones
modelled. `WF` on fetching, acknowledging, refreshing and removing: a connection's task is
polled, and clients acknowledge what they get and ask for a refresh when decoding fails
(`src/client.rs:2885`). `SF` on set-up, capture and encoding, in the video service as in
the portable one: the loops retry after errors, and the claim is only made for machines
where the retried operation succeeds again and again. `SF` on the ipc steps of the portable
service: its tasks take turns on one receiver. `<>[][~Disturb]_vars` in `VideoService`:
users stop coming, going, clicking and changing settings; without it a user who refreshes
for ever keeps the encoder restarting for ever. `ThreadSpec` has the thread's fairness
only, since the wait has to end without help. In `Rendezvous` timers tick, and messages
that are not lost arrive. In `KeyInput` time passes (`RecordAges`); nothing is assumed about
peers, or about the process ending. `VideoQoS!Recovers` assumes that connected users keep
answering test delays, and that seconds pass.

### Exceptions the properties name

Where the code leaves a window, the property names it, so that everything else is still
checked. A history variable of the module records it.

- `NoneOutlivesItsPermission`: an unsubscribe that `is_subed` misses during a swap.
- `SubscribersUpToDate`: a subscriber that joins between a snapshot's send and its swap.
- `DisplaysKnown`: a subscriber swapped in when there was no other; it relies on the list
  it got at its login.
- `StateOfNewestRound`, `SupersededEnd`, `ClosedEnd`: two first reconnects that overlap,
  and a Close on a round that has not installed its channel.
- `ServersFollowed`, `Registered`: a `restart()` between `start_all`'s look at the options
  and its reset of `SHOULD_EXIT`.
- `FramesFlow`: a request overwritten by the server's `set_para`.
- `Delivers`: files the user skipped, could not be read, had blocks in flight at a loss,
  or fell under finding 3.
- `ForwardsCleanly`: messages of the connection manager while the server waits for a test
  delay's answer, and finding 6.
- `KeysComeUp`: characters of the legacy mode (`record_key_is_chr` accepts no record of a
  character, so none is released), and keys whose record is removed by another thread
  between their record and their press.

## Findings

1. `video_acks`: "break if all connections have received current frame"
   (`src/server/video_service.rs:875`). Ids of fetched frames carry no frame number, so
   an acknowledgement of a frame whose 3 s were over counts for the next frame.
2. `qos_stuck`: "When network delay < DELAY_THRESHOLD_150MS, … increase fps"
   (`src/server/video_qos.rs:12`). Above `normal_fps` a user's rate is the common rate,
   plus one (or five) on each third good sample. With two users whose third samples do
   not coincide the minimum never moves.
3. `file_offsets`: "It is ok. Because `confirm()` in `ui_cm_interface.rs` is only used for
   resuming." (`libs/hbb_common/src/fs.rs:981`). When a resumed job goes on to a later file
   with a partial download, the manager's writer is still at the file before and ignores
   the offset to which the reader seeks.
4. `terminal_buffer`: "Trim old data if buffer is too large"
   (`src/server/terminal_service.rs:415`). `total_size` is not increased when an incomplete
   line is completed, but is decreased by the whole line: it wraps below zero, and the
   trimming loop does not end.
5. `download_retry`: "The caller should check if the file is downloaded successfully and
   remove the job from the map." (`src/hbbs_http/downloader.rs:49`). The dialog removes the
   entry only after a success: Retry finds the failed one.
6. `port_forward`: "Avoid TestDelay reply injection into rdp data stream"
   (`src/server/connection.rs:739`). When the local user accepts the connection the loop
   ends at once, with a test delay possibly unanswered.

## Proofs

Checked by `tlapm`, for every value of the constants that satisfies the named `ASSUME`s of
the modules: the bounds are natural numbers (positive where something has to fit),
placeholders such as `NoOwner` are no members of the sets they stand beside,
`FiniteAssumption` makes the connections of the registry finite, since
`AUTHED_CONNS` is counted. Every theorem but the refinement `TransferDelivers` states an
invariant, `Spec => []Inv`, or an action property, `Spec => [][A]_vars`; all follow from
inductive invariants: a conjunction of the property, of the types, and of what makes them
survive every action. These invariants hold on the small instances too: TLC checked them
before they were proved.

`ServiceProofs`: each operator of `Service` keeps the type and the disjointness of the
two maps, and says what it does to their union. The proofs about services cite it.

`VideoServiceProofs`: `Inductive` proves `IInv`, the conjunction of the type invariant,
`EntryOnlyWhileWaiting`, `ClosedNotSubscribed` and `Stream`. `AllOrNoneDecode` alone is
not inductive: it speaks of one location. `Stream` strengthens it to every location from
which the current encoder can still produce a frame (`AllOrNone`), and adds why the swap
cannot break it: only old subscribers are synced (`SyncedSubscribed`), between the
snapshot's look and its swap nobody becomes an old subscriber (`NoOldAtSwap`), and the
maps are disjoint, without which an unsubscribe could leave a second entry. The
corollaries `NeverMixed`, `MapsDisjoint`, `EntryWhileWaiting`, `ClosedGone`, `TypeCorrect`
state the checked properties.

`HostProofs`, on the registry: `RegistryInductive` strengthens `CleanedUp` by which
locations imply being registered; `CleanedUpAlways`, `QosUsersAlwaysAuthed`,
`RegistryTypeCorrect` follow.
`LoneStepAlwaysSetsWakeLock` needs `WakeIInv`: a registration or drop that started alone
stays alone unless `overlap` says otherwise, so the count it read is that of the registry
when it sends it, and the last message in the queue decides what the wake lock will be.

`SubscribersProofs`, one invariant per service.
- `GrantedAlwaysSubscribed` and `NoneEverOutlivesItsPermission` from `SubsIInv`: a service
  for which no call is due suits the flags, and each call that is due suits the flags of
  the moment (`Consistent`). A handler that changes a flag must therefore make a call for
  every service the flag matters to (`Covers`); `CallsOK` says where in
  `Server::subscribe` a call is, `EndsOK` that a closing connection loses everything.
- `IdsAlwaysKnown` and `SubscribersAlwaysUpToDate` from `CursorIInv`. The first speaks of
  the head of a queue only; `QueuesKnown` says of every position that the image is in the
  client's cache or earlier in the queue, and the same of everything in the server's cache
  for that connection. `UpToDate` follows the state's cursor through snapshot and swap.
- `DisplaysAlwaysKnown` from `DisplayIInv`: newcomers are swapped in only when a message
  is due to all, or when there is no old subscriber (`NewcomersCovered`).

`VideoQoSProofs`: `QosIInv` joins the type invariant, `DelayedThrottles`, the range of the
ratio, `Listed` (nobody chose a quality twice in `recent`, and every quality in it was
converted) and `Bounded` (the worst delay exists). The type invariant needs the ranges:
rates and ratios are quotients and clamps of each other. Least and greatest elements come
from well-foundedness of the natural numbers, and the arithmetic of `adjust_ratio` and
`adjust_fps` is in lemmas of its own. `AlwaysRaisedOnlyWhenAllGood` is an action property;
it follows from the same invariant.

`HostProofs`, on privacy mode: every action passes a value of mode, screen and hook through
`turn_off_privacy` or `turn_on_privacy_sync`. The lemmas show that each of these operators
maps `Sound` values to `Sound` ones, whatever fails in between (`PrivacyInductive`);
`EffectsAlwaysHaveOwner` and `PrivacyTypeCorrect` follow.

`SessionProofs`: `StateAlwaysOfNewestRound` needs that no loop but the newest can still
connect (`OldAreOver`), because `set_connected` takes no round. That holds because a round
begins only when the one before it is over, which the first reconnect has from the error
that offered it (`FirstReconnect`). `OnlineAlwaysInStep` holds with the types of the
counters. `RzTypeCorrect` is the type invariant of the mediators with the bound on
messages under way: a mediator that was told of a mismatch sends its key when the id has
changed, and `RoomToAnswer` keeps the place of the message that told it.

`PeerProofs`:
- `NoShellIsEverForgotten` from `TermIInv`: what connections, service threads and the
  clean-up hold on to exists (`SessionsOK`, `AgentsOK`), a registered service is one that
  runs or is about to be removed (`RegisteredRuns`), so that whoever takes a service out
  of the registry takes its sessions to stop them, and an open that comes too late stops
  its own.
- `ForwardsAlwaysCleanly` from `PfIInv`. The property speaks of heads of streams and of
  what has arrived; the invariant of everything on its way. Towards the client, first
  messages, then PeerInfo, then data (`DownOK`); towards the server, logins and replies,
  then data (`UpOK`). At most one test delay is under way and the server knows of it
  (`TestOK`), so that when the server goes raw no reply can follow; a single login has
  been read by then (`LoginOK`). What was written is then what has arrived, what is on its
  way and what the client buffers, one after the other (`DataOK`, `BufferOK`).

`FileTransferProofs`: `TransferDelivers` is the refinement `FileSpec => Delivers`, that
`FileTransfer` implements `FileDelivery`, for any number of files of any size, any number
of jobs, versions and messages under way, either direction, with or without I/O errors.
It rests on `FileInvariant`. What a block written to the disk makes of the file depends on
everything that was under way in both directions when it was sent, so the invariant has
four layers, each of which needs the ones before it:
- `Shapes`: jobs, messages and the disk have the fields the handlers read;
- `Protocol`: which messages can be under way together and where the two jobs are then.
  A request comes first and nothing has been sent back yet; a reader waits for the answer
  to one digest, with nothing else under way; a confirmation comes before the blocks of
  its file, and those of two files are never under way together; the writer is ahead of
  the reader only by a file it skips;
- `Contents`: a `.download` file holds the first blocks of the version its `.digest` names,
  the blocks under way are those that follow what the writer has, and an offer to go on
  from an offset is true of the disk it was made from;
- `Owed`: a file the reader has passed is there, or its last block is under way, or the job
  is excused for it.

There is a lemma for every handler, or for every branch of one; each goes through the
conjuncts in this order. `NextStep` joins them and says what the step is in
`FileDelivery`: `Advances` is a `Progress`, `Starts` a `Begin`, `SourceChanges` a `Modify`,
or a stutter.

Only model-checked:
- liveness under fairness, which the prover cannot express: `WaitEnds`,
  `EventuallyDecodes`, `RefreshServed`, and the liveness properties of `protocols` and
  `device`;
- `ComponentsTypeOK`, the conjunction of the type invariants of the modules of one run.
  Those of the display, cursor, subscription, privacy and latency modules are proved as
  parts of the invariants above; the rest are not.

## Not modelled

Most of the repository's lines are bindings to operating systems, codecs and toolkits
(`src/platform/`, `libs/scrap`, `libs/enigo`, `libs/clipboard`, drivers), glue to and from
the user interface (`src/flutter.rs`, `src/flutter_ffi.rs`, `src/ui/`), key tables, options
and translations, and third-party transports. They keep no state of their own that two
actors share, or are sequences of library calls: a model of them would repeat them. What
they do is an outcome, a choice of the modules above.

Left out although it has state: login, sessions and the second factor (a subject of its
own); how a client's direct and relayed attempts race, decided by sockets' timing; audio
and clipboard services (the shape of the services modelled, with device I/O); cursor
position and window focus (the shape of the cursor service, without caches); blocking of
local input, mouse and pointer events; uploads of recordings, LAN discovery, whiteboard,
plugins and session monitor.

## Plan

1. For `KeyInput`, the invariant behind `KeysComeUp`: a held key has a record, or is about
   to be released, or is excepted.
2. Compositions: two video services sharing the statics keyed by a display's index;
   `VideoService` with `VideoQoS`, whose displays are forgotten when the last user leaves.
3. `ClientConnect`: racing attempts.
