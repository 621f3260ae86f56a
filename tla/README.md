# TLA+ verification of waybeam_venc

`venc` is the camera side of an FPV video link. It drives a SigmaStar SoC (sensor,
ISP, scaler, H.26x encoder), sends RTP over UDP, a Unix socket or a shared-memory
ring to `wfb_tx`, records to SD card, and is controlled over HTTP and by signals.
These modules model the parts of it where threads, processes, failures and orders
of calls decide whether it works; TLC checks all of them on small instances, and TLAPS
proves all their safety properties for every value of their constants.
Paths below are relative to the repository.

## 1. Inventory

| Part | State | Operations | Met by | What makes it correct |
|---|---|---|---|---|
| SHM packet ring (`include/venc_ring.h`) | slots, `write_idx`, `read_idx`, `futex_seq`, `consumer_waiting`, statistics | `venc_ring_write`, `venc_ring_read`, `venc_ring_read_wait` | venc process, wfb_tx process, anyone who maps the object | bounded FIFO; no slot used by both; no copy out of bounds; no packet forgotten |
| SHM life cycle (`src/venc_ring.c`, `wfb/shm-input.patch`) | object, name, `init_complete`, `epoch` | create, attach, destroy, crash, re-attach, skip backlog | both processes, restarts of both | no half-made header used; no old packet sent; the ring never wedges |
| Datagram outputs (`src/star6e_output.c`, `src/output_socket.c`) | sockets and addresses of video, audio, dual stream and sidecar, `transport_gen`, cached copy | init, `apply_server`, sends, `resolve_cached_audio_target`, teardown | HTTP, main, audio encode and recording thread | packets go to the server that is configured, through a socket of their own; nothing foreign is closed, nothing leaks |
| Reinit control (`src/venc_api.c`, `src/star6e_runtime.c`, `src/venc_config.c`) | `g_reinit`, shared configuration, `venc.json` | restart-type set, restart, SIGHUP, SIGTERM, reload, clamp, rebuild | HTTP thread, signal handler, main loop | no request lost; pipeline and configuration agree when all is quiet |
| Recording (`src/star6e_runtime.c`, `src/star6e_ts_recorder.c`, `src/star6e_recorder.c`) | record flags, recorder descriptors, segment | start, stop, write, rotate, disk full, reinit, exit | HTTP thread, main loop, dual recording thread | one file, never written after close, playable, closed at the end |
| Audio path (`include/audio_ring.h`, `src/star6e_audio.c`) | capture ring, recording ring, mutex and condition | capture, push, pop with wait, encode, attach recording, teardown | capture, encode and main threads | order kept; nothing destroyed under a thread; teardown ends |
| Pipeline (`src/star6e_pipeline.c`, `src/star6e_cus3a.c`, `src/star6e_runtime.c`) | what is enabled and bound in the driver, `pipeline_started`, dual channel, threads | start, stop, reinit, each with its failure paths | main loop, recording thread, 3A thread, hardware | no hang in the driver, nothing destroyed while in use, nothing left behind |
| Live settings (`src/venc_api.c`, `src/star6e_controls.c`) | `*g_cfg`, what encoder, bind and output were last told, `stored_fps` | batch set with grouping, callbacks, roll-back; enable and disable output | HTTP thread | the answer tells the truth; hardware and configuration agree |
| HTTP server and JSON API (`src/venc_httpd.c`, rest of `src/venc_api.c`) | one connection | parse, dispatch, format | one thread | not modelled: parsing and wording |
| Dual channel (`src/venc_api.c`, `src/star6e_runtime.c`, `src/star6e_pipeline.c`) | the driver's attributes, `g_dual`, `g_dual_mutex`, the back-off's own bitrate | create, register, status, set, IDR, back-off, unregister, destroy | main, HTTP and recording thread | no driver call without a channel; what is reported runs; teardown is not blocked |
| Frame path (`src/star6e_hevc_rtp.c`, `src/rtp_packetizer.c`, `src/rtp_sidecar.c`, `src/star6e_video.c`) | sequence number, timestamp, parameter sets, aggregation packet, subscription | take entries, prepend, gather, fragment, flush, report | main loop, a socket or ring that refuses | a receiver rebuilds whole NALs in order, can decode keyframes, and is told the packets' numbers |
| Maruko (`src/maruko_pipeline.c`, `src/maruko_runtime.c`, `src/maruko_output.c`) | what is created, started and bound, `g_maruko_running`, reinit flags | configure, loop, rebuild, teardown | main loop, HTTP thread, signals | teardown undoes what was done; ISP channel outlives 3A; SIGTERM ends it |
| TS multiplexer, scene detector | continuity counters; averages and hold-off | multiplex; classify a frame | one thread each | sequential, reached by unit tests |
| IMU/EIS, ISP tuning, OSD, sensor selection, probes | see `PROJECT.json` | | | not modelled, reasons there |

Interaction: the HTTP thread changes the configuration and sets flags (reinit,
record), and calls some driver functions and `apply_server` directly; the main loop
takes one frame per turn, looks at the flags, and rebuilds the pipeline; the audio
threads and the recording thread share the output, the rings and the TS recorder with
it; `wfb_tx` shares only memory. Most of this sharing has no lock, which is what is
hard here: flags read and written in two steps, a file closed by one thread under
another, a sequence counter used as a lock, driver calls that hang in the kernel if
they come in the wrong order, and two processes of which either may die.

## 2. Modules

### VencRing, RingIndex, PacketFifo, VencRingProofs

`VencRing` has one action per access to shared memory, in program order: the loads of
both indexes, the length, the header bytes and the payload bytes of a slot (kept apart
so that a torn packet shows), the release store of the index, the futex word, the
flag, and the kernel's compare-and-sleep. Program counters `ppc` and `cpc` stand
between two accesses; `w`, `rd`, `seq`, `len` and `buf` are the local variables. A
packet is an identity and a length. Memory is sequentially consistent in the model:
the code's acquire loads and release stores of the indexes order exactly the accesses
whose order the properties need. `DamageSlot` is a third process that overwrites the
length of an unread slot, as a unit test of the repository does.

`PacketFifo` is what the ring promises: a bounded queue that refuses a packet when
full, hands each accepted packet out once, whole and in order, and may skip a packet
only if its slot was damaged. `FifoSpec` is the refinement: `Publish` sends,
`WriteFull` refuses, `Release` takes, `SkipBadSlot` skips, everything else stutters.
`RingIndex` has what this module and the next share: the number of slots and the
subtraction of two 64-bit indexes.

### VencRingLifecycle, VencRingProofs

Objects are numbered; `name` is the object that `shm_open` finds. `venc_ring_create` is
one action per system call or group of stores (`creator` says where it is, `attacher`
where the consumer is), so that the consumer can attach in the middle; `Crash` ends the producer at any step, leaving name and contents; a later
create takes the same object over (`O_TRUNC`, zeroing). The consumer is the loop of
`wfb/shm-input.patch`. `straddled` is history: the consumer had the object mapped when
it was created anew. `LifeInit`, `LifeSpec` and the like have their prefix because the
proof module extends this module and VencRing; LiveSet and Maruko have theirs for the same
reason.

### Output, OutputProofs

The descriptor table (`file`: what each number is now; the kernel gives the lowest free
one) and the five places that hold a number: the video output, audio, the dual stream,
its sidecar and the HTTP connection. `wpc` runs `apply_server` on the HTTP thread: odd
generation, close, forget, open, clear and fill the address, even generation, with its
failures, the roll-back that calls it again, and the control context it checks first.
`mpc` runs the loop, the sends and a rebuild's teardown and init; `rpc` the audio thread's
look at the cache and, on a miss, the copies of handle and address, field by field;
`recpc` the recording thread's send. A server is a UDP address, a Unix socket, a ring
(`shm`) or none; a change to or from the latter two is refused. History: `overlap` (a
change overlapped the read that is now cached), `racy` (who loaded a number that was
closed since), `straddle` (a change was past its check when a teardown began), `early` (a
rebuild took its server from the configuration before the request that put it there had
reached `apply_server`), `unsettled` (a change lost the socket, or was refused when the
output had been built early for it; the next change or rebuild ends it).

### ReinitControl, ReinitControlProofs

`g_reinit` with its separate compare and store in three places, the shared
configuration (`fps`, which the file names and which is clamped, and fields that the
file leaves at their defaults), the file itself, which an operator may edit or
break, and the main loop's reinit with its 200 ms wait, second look, clear, defaults, load,
clamp and rebuild. The mutex binds the HTTP thread only, so whatever reads or writes the
whole configuration does it field by field: a request's copy (`CopyField`) and commit
(`SetCommit`), the defaults, the load (from `root`, what was parsed) and the rebuild. A
signal handler runs on the main thread, so the main thread stands still while `spc` is not
idle. History: `torn` (a request copied a field between a reload's first default and the
last field of its file, or there was no file), `asked` (a reload was asked for and not
carried out; "gave_way" when it met a set's request in the flag).

### Recording, RecordingProofs

The flags; the main loop's turn; `write_stream` with disk check, rotation and error
paths, executed by the main loop (mirror) or by the recording thread (dual), of frames
with an IDR, with an IDR that did not fit the buffer ("cut") and without; both recorders; start-up, reinit and exit. Descriptors are numbered and `open` is the
kernel's view of them. `Raced` marks runs in which a reinit closed the file while the
recording thread was alive: there the properties are known to fail (see 5).

### AudioPath, AudioPathProofs

Capture and encode threads over the capture ring (drop-oldest, condition variable
with timeout) and the recording ring, start with failures, and teardown: flag, wake,
two joins, destruction. The recorder drains the recording ring from whichever thread it
runs on; the encode thread looks at `rec_ring` and pushes in two steps, between which it
may be detached (that the compiled code loads the pointer once for both is assumed).

### Pipeline, BackendProofs

Start, stop and reinit are lists of steps that the main thread takes one at a time;
a step that fails replaces the list by the clean-up the code has at that point. The
kernel is what is enabled (`hw`), bound (`links`), receiving (`recv`) and queued
(`queue`); `dstate` is the uninterruptible sleep that `documentation/` and comments
describe: unbinding a channel during `GetStream`, `StopRecvPic` on a full channel that
is still bound, `MI_SNR_Disable` while the VPE is fed. These three rules about the
vendor driver are taken from the repository's own notes and comments; the driver is
not in the repository. `SensorUnread` is the one step whose failure leaves what it did:
`sensor_select` enables the sensor and then cannot read it. `remains` is history: whether a
failed reinit or such a sensor is left behind.

### LiveSet

One `/api/v1/set` request at a time, as `apply_live_set_query` serves it under
`g_cfg_mutex`: reject, or take the groups in the order in which the request names them,
commit a group's values, make its callbacks one by one, go on or roll back. Each callback
is a set of outcomes, a return code and what is left behind in `dev`; the failing
outcomes are the code's early returns. Roll-back is the same loop over another list of
groups (`groups`) with the old values. `dev.fresh` is history: which of GOP and encoder rate are
still as the start counted them, by the rate the sensor accepted. `unsure` is too: a response said that a
roll-back was incomplete. Fields whose callback touches nothing else are represented by
`bitrate`.

### DualControl, DualControlProofs

`chan` is the driver's attribute record of the second channel, `dual` is `g_dual`. The
HTTP thread's request is one action per driver call, with `mutex` held from `Lock` to
`Answer`; the recording thread's back-off reads the record (`GetAttr`), computes from its
own `kbps` and writes it back (`Reduce`), without the mutex. Per-second counts of frames
are chosen freely at the end of a second. History: `strays` (a driver call without a
channel), `tuned` (a request has set the bitrate), and `parted`: which of bitrate, GOP,
threshold and the back-off's `kbps` one thread set without the other's knowing, by the
back-off, by a request, by a threshold call that failed after its `SetChnAttr`, or by
writing back a record read before the other's update. Setting a value again takes it out.

### FramePath, FramePathProofs

One frame at a time, as `star6e_video_send_frame` serves it: NAL entries in any order and
number, each a type, a length and an identity; each send accepted or refused by the
environment. `handed` is what went in, parameter sets put in front included, and `todo` how
many NALs at its end are still to be sent; `ap` and `payload_len` are the aggregation packet.
`sent` is what was accepted: each packet has the NALs in it, the byte of the NAL it begins at
(`at`), size, number, timestamp and marker. A receiver is the set of conclusions that
packets with consecutive numbers allow (`Joins`). `keys` is history: the keyframes of the
frame, each with the parameter sets in force when it came. Sequence numbers count modulo `Numbers`
from `FirstSeq`, which `rtp_session_init` takes from `rand()`.

### Maruko, BackendProofs

Configuration and teardown are lists of steps (`steps`) as in Pipeline, but what a teardown
undoes is decided by the flags the steps have set (`started`, `created`), and the ISP
channel and both devices are never destroyed by a teardown. `serving` is the HTTP thread
at a request; `venc_httpd_stop` detaches the thread, so a request under way outlives it.
History: `lostIsp` (the ISP channel was destroyed while the 3A framework ran), `sensorLeft`
(`sensor_select` failed with the sensor enabled).

## 3. Runs

| Run | Module | Asks | Result |
|---|---|---|---|
| MCVencRing | MCVencRing | FIFO refinement, index order, slot separation, copies in bounds, every packet taken | holds |
| MCVencRingLifecycle | VencRingLifecycle | stale packets, half-made headers, crossing indexes, destroyed rings, with a crash and restarts of both sides | holds |
| MCOutput | MCOutput | is the cached target right, does each stream use, close and keep its own descriptors, and is the configured server served? | holds |
| MCAudioSnapshot | MCOutput | is what is cached a snapshot? | violated, see 5 |
| MCReinitControl | MCReinitControl | pipeline agrees with configuration when quiet; reloads are carried out | holds |
| MCRecording | Recording | descriptors, one recording, stop, audio, rotation, closing, exit | holds |
| MCAudioPath | AudioPath | order, rings, lifetimes, end of teardown | holds |
| MCPipeline | Pipeline | driver hangs, lifetimes, clean-up after every failure, end of teardown | holds |
| MCLiveSet | MCLiveSet | is a batch all or nothing, and does the hardware run what the configuration says, whichever callback fails? | holds |
| MCDualControl | DualControl | does the driver have a channel when it is called, what it was told, and a rate that only falls; does teardown end? | holds |
| MCFramePath | MCFramePath | is what a receiver rebuilds whole, ordered, decodable and accounted for? | holds |
| MCMaruko | Maruko | is the graph sound through failures and rebuilds, and does SIGTERM end it? | holds |

Bounds, and why they are enough to make the cases happen:

- MCVencRing: 2 slots and 3 writes, so a slot is reused, the ring is full once and
  empty in between; lengths 1, 2 and 3 with slots of 2 and a read buffer of 1, so
  packets fit, are truncated and are refused; one damaged position; all three ways to
  read. `IdxMod` stands for 2^64 and the indexes start at 0 as in the code; that they
  never wrap in practice is their width.
- MCVencRingLifecycle: 2 creates, 1 crash, 2 starts of wfb_tx, 2 writes per ring: one
  takeover of a left object, one change to a new object, one backlog.
- MCOutput: 1 request (a change and its roll-back, which makes two changes) and 1
  rebuild, started with a UDP server, a ring or none, among these, a Unix socket and
  addresses of both kinds that are refused, with and without dedicated audio, dual stream
  and sidecar; 7 descriptors are never used up.
  MCAudioSnapshot has no rebuild.
- MCReinitControl: 2 sets, so that one meets what the other left, 2 reloads, so that a
  reload after a set is seen to be carried out, 1 edit of the file to good, absent or bad;
  the sensor's rate and one above it, so that the clamp happens, and the file may hold
  either at the start; one field that the file names and one that it does not.
- MCRecording: all modes and formats, 2 requests, 1 reinit, 3 files (one rotation and
  one new start).
- MCAudioPath: rings of 2 and 4 frames, so that both overflow; 2 starts.
- MCPipeline: all modes with and without the 3A thread, 2 frames per channel, 2
  reinits (a reinit after a reinit), every step may fail.
- MCLiveSet: 2 requests, so that a change meets what an earlier change or roll-back
  left; rates below and above the sensor's, above what `apply_fps` takes, and invalid; a sensor
  that accepted less than its mode's maximum; started with the output on and off;
  scene detector on and off. After an incomplete roll-back nothing is promised and no
  further request is explored.
- MCDualControl: 2 requests, so that one meets the other's result; rates below and above
  the configured 1200 kbps and the floor of 1000; 2 frames a second, of which the back-off
  needs three seconds; unlimited seconds.
- MCFramePath: 3 frames of up to 2 entries: a parameter set is replaced and then used; a
  keyframe brings up to four NALs; payload sizes 3, at which fragments are impossible,
  and 12, at which NALs are gathered, sent alone or cut into three; a set that does not
  fit; 32 sequence numbers, beginning two before the wrap.
- MCMaruko: no bounds; every step may fail once it is reached, rebuilds and signals
  without limit.

Deadlock checking is off where the process may end or the bounds exhaust its inputs;
MCVencRing and MCOutput check it, because there a thread always has a next step.

## 4. Fairness

Weak fairness, per thread, for the steps of a call that has begun and for loops that
run until told to stop: each is a thread of a general-purpose scheduler. Nothing is
assumed about requests, writes, signals, crashes, frames or the network. A timed wait
is fair because its timeout is; a wait without timeout is not, which is why
`EveryPacketTaken` excepts it. In Pipeline the loop's end is only fair once
`g_running` is 0. In Maruko and DualControl a driver call is assumed to return, and a failure
of the loop's turn (`TurnFails`) is not: it may never come.

## 5. Where the code and its documentation disagree

The first has a run whose counterexample is the argument; the quotation is in
`PROJECT.json`. The others are what the named properties except.

- **A cached audio target may be a mixture** (MCAudioSnapshot): the second load of
  `transport_gen` replaces the first instead of being compared with it.
- **A restart after a crash is not noticed** (`HarmNeedsStraddling`). `init_complete` goes
  1, 0, 1 while the consumer is elsewhere in its loop; the epoch, which would tell, is
  not compared, although `documentation/SHM_RING_HARDENING.md` lines 55-56 rely on
  `init_complete` alone. What this can lead to: a fault on a truncated object, a packet
  from before the attach, or `read_idx` ahead of `write_idx`, after which the producer
  finds the ring full for ever.
- **Defaults leak out of a reload** (`DefaultsStayInside`): the main thread rewrites the
  shared configuration without the mutex that `src/venc_api.c:22-25` says serializes it; a
  set request that copies any field of it between the first default and the last field of
  the file commits what it found.
- **A set's request takes a reload's place** (`ReloadHonoured`). `src/venc_api.c:57` says
  that mode 1 (reload) takes priority over mode 2; the comparison below it keeps the greater
  number. A reload that is in the flag when a set's request comes is replaced, and one that
  comes when a set's is in the flag is not stored: the file is not read. The property holds for
  every other reload, however many sets and reloads came before.
- **A rebuild may serve a server that is then refused** (`ServesConfigured`). A request
  writes `outgoing.server` before `apply_server` runs; a rebuild on the main thread that reads
  it in between builds the output for it. If the server is then refused, and the old one
  cannot be applied to that output either (a ring has been made, say), only the configuration
  is restored, and the output keeps the other server until the next change or rebuild.
- **The recording file is closed under the recording thread** (`FilesSound`): at a reinit
  in dual mode the recorder is stopped before the thread is, although
  `src/star6e_runtime.c:844-846` says that thread owns it exclusively.
- **Descriptors** (`OwnDescriptors`): the dual output's teardown closes 0 if it was never
  initialised; the dual stream's sidecar is never closed; the recording thread may send
  once on a number that was closed; a server change past its check when a teardown
  begins brings a socket nobody closes.
- **A sensor is left enabled** (`NothingLeft` in `Standing`, `UnitsGone` in `GraphSound`,
  `MarukoTypeOK`): `src/sensor_select.c:438-448` returns an error after `MI_SNR_Enable` without
  disabling the sensor; `star6e_pipeline_start` returns without `stop_sensor`, and maruko
  sets `sensor_enabled` after a success only, so its teardown passes the sensor over.
- **The GOP is counted by two rates** (`DeviceAgrees`): the start takes the rate the sensor
  accepted (`src/star6e_pipeline.c:858-860`), the live callbacks `video0.fps`. Where the two
  differ, any request that touches the GOP, one that is rolled back too, changes it.
- **Dual channel** (`ChannelAsReported`, `BackoffLowers`, `CallsHaveChannel`): the comment at
  `g_dual.bitrate` says it may differ from the configuration after adaptive changes, but
  the back-off never writes it; nor does a request whose threshold call fails after its
  `SetChnAttr`; the back-off does not learn of a bitrate a request sets, and may raise a rate
  that a request lowered; the back-off acts every third second under pressure,
  where comment and `README.md` say every second; a rate configured below 1000 kbps is
  raised by it; an update crossing the other thread's is undone; an IDR request is made
  after the mutex is released.
- **Frames** (`Decodable`): a refused send uses no sequence number, so a receiver does not
  see that something is missing; an aggregation packet that is refused takes the parameter
  sets gathered in it with it, and the keyframe behind it may arrive without them; if a frame's last entry is unusable and the one before
  was fragmented, no packet has the marker (`FrameAccounted`).
- **Maruko** (`GraphSound`, `TermHonoured`): SIGHUP rebuilds but does not reload the
  configuration, which `documentation/SIGHUP_REINIT.md` says it does; a SIGTERM during the
  teardown of a rebuild is lost; an ISP or SCL failure in a rebuild destroys the ISP
  channel, which the comment at `maruko_stop_vpe_channels` says crashes; the HTTP controls
  stay registered while there is no encoder in a rebuild, and a request that is being served
  when the server is stopped goes on during the teardown, because the thread is detached
  (`src/venc_httpd.c:386-389`); `maruko_stop_vpe` is never called.

Met while modelling, and visible in the properties' exceptions rather than in runs of
their own: a reader that waits without timeout may sleep on a ring that holds a packet
(`EveryPacketTaken`); after one failed re-attach wfb_tx does not try again (the
consumer's `lost` state); the order of `star6e_pipeline_stop` is not the one its
leading comment gives, and `NeverStuck` shows that the order it takes is safe; an HTTP
start requests its IDR after the first frame may have been written; a reinit that
fails leaves the front end enabled (`NothingLeft` has the exception); setting the rate while
the output is off neither waits for it to be on nor updates `stored_fps`, so enabling
later brings the old rate back while the configuration keeps the new one
(`DeviceAgrees` admits both rates).

## 6. Proofs

Every safety property that a passing run checks is also a theorem, `Spec => []P`, for every
value of the constants that the model's named assumption allows. Eight modules hold the
proofs; two of them serve several models that share lemmas. The assumptions only say what
kind of value a constant is and that indexes or numbers do not run out, and TLC
evaluates them in every run. For each model everything follows from one inductive
invariant, named below, with one lemma per thread's steps or per action; the proof of a
lemma has one step per action and under it one per conjunct. TLC checked each of these
invariants on the instance of the run first.

| Module | Assumption | Theorem | Property |
|---|---|---|---|
| VencRingProofs | `SizesAssumption`, `CallsAssumption` | TypeCorrect | `TypeOK` |
| | | IndexesInOrder | `IndexOrder` |
| | | CopiesInBounds | `CopyInBounds` |
| | | SlotsSeparate | `NoSlotShared` |
| | | RingIsFifo | `FifoSpec`, the refinement of PacketFifo |
| | `LifecycleAssumption` | LifecycleTypes | `LifeTypeOK` |
| | | RestartsHarmless | `HarmNeedsStraddling` |
| OutputProofs | `OutputAssumption` | TypeCorrect | `TypeOK` |
| | | CacheFollowsOutput | `QuietCacheIsLive` |
| | | ConfiguredIsServed | `ServesConfigured` |
| | | DescriptorsOwned | `OwnDescriptors` |
| ReinitControlProofs | `FieldsAssumption` | TypeCorrect | `TypeOK` |
| | | QuietIsConfigured | `QuietPipeline` |
| RecordingProofs | `RecordingAssumption` | TypeCorrect | `TypeOK` |
| | | RecordingSound | `FilesSound` |
| | | LastStopWins | `StopHonoured` |
| AudioPathProofs | `AudioAssumption` | TypeCorrect | `TypeOK` |
| | | RingsKeepOrder | `RingsSound` |
| | | AudioInOrder | `InOrder`, an action property |
| DualControlProofs | `DualAssumption` | TypeCorrect | `TypeOK` |
| | | ChannelOutlivesCalls | `CallsHaveChannel` |
| | | StatusIsTrue | `ChannelAsReported` |
| | | BackoffOnlyLowers | `BackoffLowers`, an action property |
| BackendProofs | `PipelineAssumption` | PipelineTypes | `TypeOK` |
| | | PipelineStands | `Standing` |
| | `LiveSetAssumption` | HardwareFollows | `DeviceAgrees` |
| | | ResponseTellsTruth | `AllOrNothing`, an action property |
| | none: no constants | MarukoTypes | `MarukoTypeOK` |
| | | GraphStands | `GraphSound` |
| FramePathProofs | `FrameAssumption`, `NumbersSuffice` | FrameTypes | `TypeOK` |
| | | FrameDecodable | `Decodable` |
| | | FrameAccountedFor | `FrameAccounted` |

**VencRing, `RingInv`.** Assumed: sizes are natural numbers, there is at least one slot of
at least one byte, the index range exceeds what the run uses, and the ways to read are the
three of the code. `IndexOrder` alone is not inductive: a reader in the middle of a copy
has its own `rd`, a writer in the middle of a write its own `w`. `RingInv` adds that these
agree with the shared indexes while a call is under way, that the writer is in a slot below
the limit it checked, that the slots between the indexes hold the packets of `sent` from
there on unless damaged, that the slot being written holds the parts written so far, and
that the buffer holds what was copied so far of the packet at `read_idx`. `SlotOfDistinct`
(two indexes less than `slot_count` apart have different slots) is the arithmetic under
all of it. `FifoStep` maps each action to an action of PacketFifo or a stutter.

**VencRingLifecycle, `LifeInv`.** Any ring size, any number of creations, crashes, writes
and starts; the index range exceeds the writes of one ring. `HarmNeedsStraddling` speaks of
the consumer only. Added is what the producer owes it: an object under construction cannot
pass for a complete one (`Unfinished`: fields and `init_complete` are still zero after
`O_TRUNC`), so nobody who was not there before has it mapped; every object's indexes are in
order; and the consumer's copies `cw` and `crd` still bound the object it holds (`Known`).
All but `Unfinished` is lost once a consumer straddled a re-creation, which is why the
invariant is a disjunction.

**Output, `OutInv`.** Any set of servers, any descriptor table that contains 0, any number
of changes and rebuilds. `Threads` says who may be where while another is where it is: that
requests reach a pipeline that runs, and that the audio and recording threads live no longer
than what they send on. `Reading` follows the audio thread's look at the cache field by
field: what it copied so far is what it would copy now, unless a change overlapped.
`Serving` needs the server that *will* be configured when the request is over (`Aim`), since
the configuration is ahead of the output during a change and behind it during a roll-back;
`early` and `unsettled` are part of it, since a rebuild may have taken either.
`Belongs`, `Standard` and `Loaded` are the reason for `OwnDescriptors`: each open descriptor
is named by exactly one place, and the numbers that threads have loaded are those in force,
unless a change straddled a teardown. `Generation`, part of the type invariant, is the
parity of `transport_gen`. `OpenEffect`, `CloseEffect` and `GiveUpEffect` state what the
kernel's lowest-free rule does to the table; `LowestFree` and `MinIn` found it on
well-foundedness of the natural numbers.

**ReinitControl, `ReinitInv`.** Any disjoint sets of filed and other fields, any values, any
number of requests, reloads and edits. `QuietPipeline` speaks of quiet states; `Pending` says
of every state and every field that the pipeline has the configured value or something is
under way that makes the loop read the field again (`Awaited`: a request on its way to the
flag, the flag, a rebuild that has not reached the field yet). `NoDefaults` follows the
built-in defaults, field by field, through memory, a request's copy and the pipeline.

**Recording, `RecInv`.** Any modes, formats, requests, reinits and files. `Places` says which
thread may be where. `Descriptors` says that the number the TS recorder holds is the one that
is open and that the two recorders exclude each other; it fails when a reinit raced the
recording thread (section 5), so it stands under `Raced`. `Stops` strengthens
`StopHonoured` to the steps between a request and its effect, and `Rotated` follows a
segment begun by rotation from `open` to its first frame, which must be the one that
caused the rotation.

**AudioPath, `AudioInv`.** Any ring capacity, any number of frames and starts. The rings come
first: `PushSound` and `PopSound` say what `audio_ring.h` does to a ring whose frames, counted
from the oldest, lie in order between two bounds (`Sound`); `Wrapped` and `NextWraps` are the
modular arithmetic. The invariant then bounds the capture ring by the last frame encoded and
the last captured, and the recording ring by the last stored and the last forwarded; a
thread between taking a frame and handing it on has to be counted out (`Pushed`, `Forwarded`).
`InOrder` follows from `Progress`.

**DualControl, `DualInv`.** Any configured bitrate, frame rate, set of requests. `Lifetimes`
ties channel, registration and recording thread to the main thread's steps, and keeps a
handler past its check of `g_dual.active` registered because it holds the mutex. `Promised`
is `ChannelAsReported` in the middle of a request, where the driver is ahead of the record.
`BackoffBelow` is why a back-off never raises the rate although it computes from its own
`kbps`: that is at most the driver's, and at most what a handler has read and will write back.

**Pipeline, `PipeInv`.** Any modes, any number of frames and reinits, every step may fail.
What stands depends on which steps of a list are behind; lists are put together from parts
and cut short by failures, so the invariant does not speak of lists but of places: each
phase has a course, which gives every step its place (`Course`), and `todo` follows it
(`InOrder`) with nothing missing that the phase must not leave out (`Complete`). `Left`, the set of
steps still to be taken, then says all that is needed: what is not to be made any more
stands (`Built`), nothing is made before its step (`Made`), what stands is still to be taken
down (`TakenDown`), a bind is undone before an end of it (`UnboundFirst`), and who runs is
still to be joined (`Threads`). `GoesOn` and `Onward` are the two facts about courses: two
lists one behind the other, and a list without its first step. `LinkEndsExist`, `NeverStuck`
and `DualOutlivesThread`, three of the parts of `Standing`, are part of the induction; the
other parts of `Standing` follow from it.

**LiveSet, `LiveInv`.** Any values the fields may be set to, any sensor limit, any number of
requests. `DeviceAgrees` speaks of the time between requests. `Hardware` says of every
moment that the device runs what is committed but for the callbacks still to be made and, in
a roll-back, those of the group to be rolled back next (`Agrees(dev, cfg, X)`); `Taken` says
which fields have new and which old values; `Locals` what the handler's variables have to do
with each other. `CallbackAgrees` is the heart: a callback that succeeds takes its own field
off `X` and disturbs no other, although fps and enabling both write the rate and enabling
reads `stored_fps`. Once a roll-back was incomplete nothing is said of the hardware, but
`Taken` still yields what the response says.

**Maruko, `MarukoInv`.** The model has no constants and no bounds, so TLC's run is
exhaustive; the proof says why it holds. `Followed` is Pipeline's argument about courses, of
which there are two, configuring and ending. `Configured`, `NotYet` and `ToUndo` relate the
steps ahead to what is made. `Flagged` is the part that is not a matter of order: the teardown
goes by flags, and the VPE's single flag stands for ISP and SCL, which is false
between the two, and harmless because SCL's failure takes the ISP with it. `Rebuilt` is what
makes the loss of the ISP channel a matter of rebuilds only: the 3A framework runs before
`isp_bin` in a rebuild alone.

**FramePath, `FrameInv`.** Any NALs, payload sizes, capacity of the parameter sets' buffers,
first number. The one assumption beyond types is `NumbersSuffice`: a frame's packets do
not use up the sequence numbers; without it `(seq - before.seq) % Numbers` would not be the
count. `PerNal` is the bound on a NAL's fragments it yields, and `Counted` keeps the count
below it. The code does not check `maxPayloadSize`: the default is 1400, where 65536
numbers are enough for any frame, and with a size of a few bytes they would not be. `Place`
and `GatheredInv` say what the sender has in hand, `Numbered` and `Marked` what is on the
packets, `Linked` that a fragment that does not start its NAL is right behind the one
before it, byte for byte, from which `JoinedWhole` gets that whatever joins is whole,
`Ordered` and `Arrived` which NALs have passed. `Remembered` is the parameter sets'
part; `Prepended` says what is put in front of a keyframe, and `Supplied` that every keyframe
of the frame had it, and has it at the receiver if nothing was refused. `Wraps`, `NextNumber` and
`CountedBack` are the modular arithmetic of the numbers.

Proving these changed how some definitions are written, to what they could be reasoned
about, without changing the steps they allow: names of steps are no longer put together from strings but are parameters of the actions
(`UnbindLink`, `Stop`); Pipeline's `Undo` has guards that exclude each other; FramePath
keeps the size of the aggregation packet as the code does (`payload_len`), and the position of
a fragment in its NAL, where it summed over sequences; `FirstSeq` became a constant.

Only model-checked, because liveness under fairness is out of the prover's reach:
`EveryPacketTaken`, `DestroyNoticed`, `ReloadHonoured`, `ExitReached`, the three
`TeardownEnds` and `TermHonoured`. `CacheIsSnapshot` is false (section 5).

## 7. Not modelled, and why

- Byte formats (RTP, TS, JSON, HTTP), image tuning, OSD, sensor tables: no concurrency
  and no state that outlives a call, or the vendor's.
- Weak memory beyond the acquire/release argument above.
- The second-signal force exit, `alarm(5)` and the watchdog child of the teardown: they
  end the process whatever its state.
- The HTTP server's own life cycle and its parsing; `apply_fps` against the main loop, where
  what the driver does is not known; maruko's server change against its teardown (the
  pattern of Output). The latter two are hazards with a note.
- Scene detector and TS multiplexer: sequential. A spike that does not settle within 30
  frames leaves the detector's `consecutive_spikes` as it was, which a unit test reaches.
- That a consumer which mapped the ring while its creator fails for lack of memory never
  learns of it (`src/venc_ring.c:97`): nothing is lost but the stream that never began.
- Vendored code, SDK, drivers and the hardware probes.

## 8. What could be added

Everything section 1 calls modelled is modelled, checked and, but for liveness, proved. Two
extensions would be worth their effort once what they depend on is known: the live settings
of LiveSet against Pipeline's main loop, which needs to be told what the driver does when
`apply_fps` unbinds an encoder from which a frame is being taken; and maruko's output with
its sockets as descriptors, for which `Output` is the pattern.
