------------------------------- MODULE Recording ------------------------------
(***************************************************************************)
(* Recording to the SD card.  The HTTP thread asks for a start or a stop   *)
(* through two flags; the streaming loop consumes them once per frame.     *)
(* Frames go to a raw HEVC recorder or to a TS recorder that rotates its   *)
(* files.  In mirror mode the streaming loop writes them; in dual mode a   *)
(* recording thread of its own does, so that the TS recorder is then       *)
(* reached from two threads.                                               *)
(* write_stream is the same code in both modes: its steps (wpc) are those  *)
(* of the recording thread if dual = 1 and of the streaming loop if not.   *)
(***************************************************************************)
EXTENDS Integers, FiniteSets

CONSTANTS Modes,        \* record.mode: "off", "mirror", "dual", "dual-stream"
          Formats,      \* record.format: "ts", "hevc"
          Audio,        \* audio.enabled, 0 or 1
          MaxRequests,  \* bound on HTTP requests
          MaxReinits,   \* bound on pipeline reinits
          MaxFiles      \* bound on files the TS recorder opens

ASSUME RecordingAssumption ==
    /\ Modes \subseteq {"off", "mirror", "dual", "dual-stream"}
    /\ Formats \subseteq {"ts", "hevc"} /\ Audio \in {0, 1}
    /\ MaxRequests \in Nat /\ MaxReinits \in Nat /\ MaxFiles \in Nat

VARIABLES
    start_pending, stop_pending, requests,  \* the flags of venc_api
    mode, format, reinits, g_running,
    mpc, back,          \* streaming loop; where it goes on after ts_recorder_start
    dual, rec_running,  \* ch1 exists; its recording thread runs
    hevc,               \* 1: the HEVC recorder has a file open
    fd,                 \* the TS recorder's descriptor, 0 for -1
    open, nfiles,       \* descriptors that are open; how many were opened
    rec_ring,           \* 1: the audio encode thread feeds the recording
    wpc, wfd, kind,     \* write_stream: program counter, descriptor, kind of frame
    seg,                \* the current file: how it began, tables, first frame
    last                \* history: the last request

flags == <<start_pending, stop_pending, requests, last>>
loop  == <<mpc, back, reinits, g_running>>
conf  == <<mode, format>>
ch1   == <<dual, rec_running>>
ts    == <<fd, open, nfiles, seg>>
wr    == <<wpc, wfd, kind>>
vars  == <<flags, loop, conf, ch1, hevc, ts, rec_ring, wr>>

NoSeg == [how |-> "none", tables |-> 0, first |-> "none"]

Init ==
    /\ start_pending = 0 /\ stop_pending = 0 /\ requests = 0 /\ last = "none"
    /\ mode \in Modes /\ format \in Formats
    /\ mpc = "boot" /\ back = "frame" /\ reinits = 0 /\ g_running = 1
    /\ dual = 0 /\ rec_running = 0
    /\ hevc = 0 /\ fd = 0 /\ open = {} /\ nfiles = 0 /\ seg = NoSeg
    /\ rec_ring = 0
    /\ wpc = "idle" /\ wfd = 0 /\ kind = "p"

-------------------------------------------------------------------------------
(* HTTP thread: the flags are set under g_record_mutex.                    *)

RequestStart ==
    /\ requests < MaxRequests /\ requests' = requests + 1
    /\ start_pending' = 1 /\ stop_pending' = 0 /\ last' = "start"
    /\ UNCHANGED <<loop, conf, ch1, hevc, ts, rec_ring, wr>>

\* Mutant of RequestStop: the start that is pending stays pending.
RequestStopOnly ==
    /\ requests < MaxRequests /\ requests' = requests + 1
    /\ stop_pending' = 1 /\ last' = "stop"
    /\ UNCHANGED <<start_pending, loop, conf, ch1, hevc, ts, rec_ring, wr>>

RequestStop ==
    /\ requests < MaxRequests /\ requests' = requests + 1
    /\ stop_pending' = 1 /\ start_pending' = 0 /\ last' = "stop"
    /\ UNCHANGED <<loop, conf, ch1, hevc, ts, rec_ring, wr>>

\* record.format is written at once; the reinit it asks for comes later.
SetFormat(f) ==
    /\ requests < MaxRequests /\ requests' = requests + 1
    /\ format' = f
    /\ UNCHANGED <<start_pending, stop_pending, last, mode, loop, ch1, hevc, ts,
                   rec_ring, wr>>

Terminate ==
    /\ g_running = 1 /\ g_running' = 0
    /\ UNCHANGED <<flags, mpc, back, reinits, conf, ch1, hevc, ts, rec_ring, wr>>

-------------------------------------------------------------------------------
(* The recorders.                                                          *)

\* stop_with_reason of the TS recorder, by the thread that owns it.
Stopped == fd' = 0 /\ open' = open \ {fd} /\ UNCHANGED <<nfiles, seg>>

\* open() in open_new_segment.
Opened(how) ==
    /\ nfiles < MaxFiles
    /\ nfiles' = nfiles + 1 /\ fd' = nfiles + 1 /\ open' = open \cup {nfiles + 1}
    /\ seg' = [how |-> how, tables |-> 0, first |-> "none"]

Writer == IF dual = 1 THEN rec_running = 1 /\ mode = "dual"
                      ELSE mpc = "frame" /\ g_running = 1

\* In mirror mode the HEVC recorder comes first, and the loop goes on with
\* the flags when the TS recorder is done.
HevcWrite == IF dual = 1 THEN UNCHANGED hevc ELSE hevc' \in {0, hevc}
LoopGoesOn == IF dual = 1 THEN UNCHANGED mpc ELSE mpc' = "take_start"

\* No TS file is open.
WriteNothing ==
    /\ Writer /\ dual = 0 /\ fd = 0
    /\ HevcWrite /\ LoopGoesOn
    /\ UNCHANGED <<flags, back, reinits, g_running, conf, ch1, ts, rec_ring, wr>>

\* The recording thread writes no more once the process is shutting down.  A frame
\* passes for an IDR as soon as it has an IDR NAL unit: "cut" is one whose IDR did not
\* fit nal_buf and was left out.
WriteBegin(k) ==
    /\ Writer /\ wpc = "idle" /\ fd # 0 /\ (dual = 1 => g_running = 1)
    /\ HevcWrite
    /\ kind' = k /\ wpc' = "space"
    /\ mpc' = IF dual = 1 THEN mpc ELSE "writing"
    /\ UNCHANGED <<flags, back, reinits, g_running, conf, ch1, ts, rec_ring, wfd>>

\* check_disk_space: the card is full.
SpaceLow ==
    /\ wpc = "space"
    /\ Stopped
    /\ wpc' = "idle" /\ LoopGoesOn
    /\ UNCHANGED <<flags, back, reinits, g_running, conf, ch1, hevc, rec_ring, wfd, kind>>

SpaceGood ==
    /\ wpc = "space"
    /\ wpc' = "load"
    /\ UNCHANGED <<flags, loop, conf, ch1, hevc, ts, rec_ring, wfd, kind>>

\* Mutant of RotateClose: any frame may begin the next file.
RotateCloseAnywhere ==
    /\ wpc = "space"
    /\ Stopped
    /\ wpc' = "rotate"
    /\ UNCHANGED <<flags, loop, conf, ch1, hevc, rec_ring, wfd, kind>>

\* check_rotation: the limit of time or size is reached and this is an IDR.
RotateClose ==
    /\ wpc = "space" /\ kind \in {"idr", "cut"}
    /\ Stopped
    /\ wpc' = "rotate"
    /\ UNCHANGED <<flags, loop, conf, ch1, hevc, rec_ring, wfd, kind>>

RotateOpen ==
    /\ wpc = "rotate"
    /\ Opened("rotate")
    /\ wpc' = "rotate_tables"
    /\ UNCHANGED <<flags, loop, conf, ch1, hevc, rec_ring, wfd, kind>>

RotateTables ==
    /\ wpc = "rotate_tables"
    /\ seg' = [seg EXCEPT !.tables = 1]
    /\ wpc' = "load"
    /\ UNCHANGED <<flags, loop, conf, ch1, hevc, fd, open, nfiles, rec_ring, wfd, kind>>

\* open() failed, or the tables could not be written.
RotateFails ==
    /\ wpc \in {"rotate", "rotate_tables"}
    /\ Stopped
    /\ wpc' = "idle" /\ LoopGoesOn
    /\ UNCHANGED <<flags, back, reinits, g_running, conf, ch1, hevc, rec_ring, wfd, kind>>

\* Mutant of LoadFd: the descriptor of the first file is kept.
LoadFdCached ==
    /\ wpc = "load"
    /\ wfd' = (IF wfd = 0 THEN fd ELSE wfd) /\ wpc' = "write"
    /\ UNCHANGED <<flags, loop, conf, ch1, hevc, ts, rec_ring, kind>>

\* write_all is called with the descriptor of this moment.
LoadFd ==
    /\ wpc = "load"
    /\ wfd' = fd /\ wpc' = "write"
    /\ UNCHANGED <<flags, loop, conf, ch1, hevc, ts, rec_ring, kind>>

WriteFrame ==
    /\ wpc = "write" /\ wfd \in open
    /\ seg' = IF seg.first = "none" THEN [seg EXCEPT !.first = kind] ELSE seg
    /\ wpc' = "idle" /\ LoopGoesOn
    /\ UNCHANGED <<flags, back, reinits, g_running, conf, ch1, hevc, fd, open, nfiles,
                   rec_ring, wfd, kind>>

\* ENOSPC or another error (a closed descriptor is one): the recording stops.
WriteError ==
    /\ wpc = "write"
    /\ Stopped
    /\ wpc' = "idle" /\ LoopGoesOn
    /\ UNCHANGED <<flags, back, reinits, g_running, conf, ch1, hevc, rec_ring, wfd, kind>>

WriteStep == \/ WriteNothing \/ SpaceLow \/ SpaceGood \/ RotateClose \/ RotateOpen
             \/ RotateTables \/ RotateFails \/ LoadFd \/ WriteFrame \/ WriteError
             \/ \E k \in {"idr", "cut", "p"} : WriteBegin(k)

-------------------------------------------------------------------------------
(* star6e_recorder_start and star6e_ts_recorder_start by the main thread.  *)

\* Mutant of StartRecording: the audio ring is not attached.
StartRecordingSilent(next) ==
    IF format = "hevc" THEN hevc' = 1 /\ rec_ring' = 0 /\ mpc' = next /\ UNCHANGED back
    ELSE hevc' = 0 /\ rec_ring' = 0 /\ mpc' = "ts_start" /\ back' = next

\* The format decides; the audio ring is attached before the TS recorder
\* starts, which takes two steps more.
StartRecording(next) ==
    \/ /\ format = "hevc"
       /\ hevc' \in {0, 1} /\ rec_ring' = 0
       /\ mpc' = next /\ UNCHANGED back
    \/ /\ format = "ts"
       /\ hevc' = 0 /\ rec_ring' = Audio
       /\ mpc' = "ts_start" /\ back' = next

TsStart ==
    /\ mpc = "ts_start"
    /\ \/ Opened("start") /\ mpc' = "ts_tables"
       \/ mpc' = back /\ UNCHANGED ts
    /\ UNCHANGED <<flags, back, reinits, g_running, conf, ch1, hevc, rec_ring, wr>>

TsTables ==
    /\ mpc = "ts_tables"
    /\ mpc' = back
    /\ \/ seg' = [seg EXCEPT !.tables = 1] /\ UNCHANGED <<fd, open, nfiles>>
       \/ Stopped
    /\ UNCHANGED <<flags, back, reinits, g_running, conf, ch1, hevc, rec_ring, wr>>

\* apply_startup_controls: ch1 and its thread come first; if ch1 cannot be
\* made, recording falls back to mirror mode.
BootDual ==
    /\ mpc = "boot" /\ mpc' = "boot_start"
    /\ \/ mode \in {"dual", "dual-stream"} /\ dual' = 1 /\ rec_running' \in {0, 1}
       \/ UNCHANGED ch1
    /\ UNCHANGED <<flags, back, reinits, g_running, conf, hevc, ts, rec_ring, wr>>

\* No recording if it is off, if ch1 is streamed, or without a directory.
BootStart ==
    /\ mpc = "boot_start"
    /\ \/ mode \in {"mirror", "dual"} /\ StartRecording("frame")
       \/ mpc' = "frame" /\ UNCHANGED <<back, hevc, rec_ring>>
    /\ UNCHANGED <<flags, reinits, g_running, conf, ch1, ts, wr>>

-------------------------------------------------------------------------------
(* The streaming loop, after a frame: the flags, unless in dual mode.      *)

\* Mutant of TakeStart: the recording that runs is not stopped first.
TakeStartOver ==
    /\ mpc = "take_start" /\ start_pending = 1
    /\ start_pending' = 0
    /\ IF format = "hevc" THEN hevc' = 1 /\ mpc' = "take_stop" /\ UNCHANGED <<rec_ring, back>>
       ELSE rec_ring' = Audio /\ mpc' = "ts_start" /\ back' = "take_stop" /\ UNCHANGED hevc
    /\ UNCHANGED <<stop_pending, requests, last, reinits, g_running, conf, ch1, ts, wr>>

TakeStart ==
    /\ mpc = "take_start"
    /\ \/ /\ start_pending = 1 /\ start_pending' = 0
          /\ Stopped /\ StartRecording("take_stop")
       \/ /\ start_pending = 0 /\ mpc' = "take_stop"
          /\ UNCHANGED <<start_pending, back, hevc, ts, rec_ring>>
    /\ UNCHANGED <<stop_pending, requests, last, reinits, g_running, conf, ch1, wr>>

TakeStop ==
    /\ mpc = "take_stop" /\ mpc' = "frame"
    /\ \/ /\ stop_pending = 1 /\ stop_pending' = 0
          /\ Stopped /\ hevc' = 0 /\ rec_ring' = 0
       \/ stop_pending = 0 /\ UNCHANGED <<stop_pending, hevc, ts, rec_ring>>
    /\ UNCHANGED <<start_pending, requests, last, back, reinits, g_running, conf, ch1, wr>>

-------------------------------------------------------------------------------
(* restart_pipeline: both recorders are stopped, then ch1 and its thread   *)
(* go with the encoder; neither is started again.                          *)

Reinit ==
    /\ mpc = "frame" /\ g_running = 1 /\ reinits < MaxReinits
    /\ reinits' = reinits + 1
    /\ hevc' = 0 /\ mpc' = "reinit_close"
    /\ UNCHANGED <<flags, back, g_running, conf, ch1, ts, rec_ring, wr>>

\* close(state->fd), and then state->fd = -1.
ReinitClose ==
    /\ mpc = "reinit_close"
    /\ open' = open \ {fd} /\ mpc' = "reinit_reset"
    /\ UNCHANGED <<flags, back, reinits, g_running, conf, ch1, hevc, fd, nfiles, seg,
                   rec_ring, wr>>

\* A configuration file that cannot be loaded ends the loop before ch1 goes.
ReinitReset ==
    /\ mpc = "reinit_reset"
    /\ fd' = 0 /\ rec_ring' = 0 /\ mpc' \in {"reinit_signal", "exit_signal"}
    /\ UNCHANGED <<flags, back, reinits, g_running, conf, ch1, hevc, open, nfiles, seg, wr>>

\* Mutant of Joined: ch1 is freed without waiting for the thread.
NotJoined == dual' = 0 /\ UNCHANGED rec_running

\* The thread ends between two frames; ch1 goes.
Joined == wpc = "idle" /\ dual' = 0 /\ UNCHANGED rec_running

ReinitSignal ==
    /\ mpc = "reinit_signal" /\ mpc' = "reinit_join"
    /\ rec_running' = 0
    /\ UNCHANGED <<flags, back, reinits, g_running, conf, dual, hevc, ts, rec_ring, wr>>

\* A reinit that fails ends the loop.
ReinitJoin ==
    /\ mpc = "reinit_join" /\ Joined
    /\ mpc' \in {"frame", "exit_stop"}
    /\ UNCHANGED <<flags, back, reinits, g_running, conf, hevc, ts, rec_ring, wr>>

\* Mutant of LoopEnds: a recording has to end first.
LoopEndsAfterRecording ==
    /\ mpc = "frame" /\ g_running = 0 /\ fd = 0
    /\ mpc' = "exit_signal"
    /\ UNCHANGED <<flags, back, reinits, g_running, conf, ch1, hevc, ts, rec_ring, wr>>

\* The loop ends when g_running is 0.
LoopEnds ==
    /\ mpc = "frame" /\ g_running = 0
    /\ mpc' = "exit_signal"
    /\ UNCHANGED <<flags, back, reinits, g_running, conf, ch1, hevc, ts, rec_ring, wr>>

\* It also ends when the encoder fails.
StreamError ==
    /\ mpc = "frame" /\ g_running = 1
    /\ mpc' = "exit_signal"
    /\ UNCHANGED <<flags, back, reinits, g_running, conf, ch1, hevc, ts, rec_ring, wr>>

\* star6e_runner_teardown: the thread is joined before the files are closed.
ExitSignal ==
    /\ mpc = "exit_signal" /\ mpc' = "exit_join"
    /\ rec_running' = 0
    /\ UNCHANGED <<flags, back, reinits, g_running, conf, dual, hevc, ts, rec_ring, wr>>

ExitJoin ==
    /\ mpc = "exit_join" /\ Joined
    /\ mpc' = "exit_stop"
    /\ UNCHANGED <<flags, back, reinits, g_running, conf, hevc, ts, rec_ring, wr>>

\* Mutant of ExitStop: only the HEVC recorder is stopped.
ExitStopHevc ==
    /\ mpc = "exit_stop" /\ mpc' = "exited"
    /\ hevc' = 0
    /\ UNCHANGED <<flags, back, reinits, g_running, conf, ch1, ts, rec_ring, wr>>

ExitStop ==
    /\ mpc = "exit_stop" /\ mpc' = "exited"
    /\ Stopped /\ hevc' = 0
    /\ UNCHANGED <<flags, back, reinits, g_running, conf, ch1, rec_ring, wr>>

MainStep == \/ TsStart \/ TsTables \/ BootDual \/ BootStart \/ TakeStart \/ TakeStop
            \/ ReinitClose \/ ReinitReset \/ ReinitSignal \/ ReinitJoin
            \/ LoopEnds \/ ExitSignal \/ ExitJoin \/ ExitStop

Requests == RequestStart \/ RequestStop \/ Terminate \/ \E f \in Formats : SetFormat(f)

Next == WriteStep \/ MainStep \/ Reinit \/ StreamError \/ Requests

\* The loop and the recording thread are scheduled.
Fairness == WF_vars(MainStep) /\ WF_vars(WriteStep)

Spec     == Init /\ [][Next]_vars
FairSpec == Spec /\ Fairness

-------------------------------------------------------------------------------
(* Properties.                                                             *)

ConfigType ==
    /\ mode \in Modes /\ format \in Formats /\ reinits \in Nat /\ g_running \in {0, 1}
    /\ start_pending \in {0, 1} /\ stop_pending \in {0, 1} /\ requests \in Nat
    /\ last \in {"none", "start", "stop"}

FileType ==
    /\ nfiles \in Nat /\ fd \in 0 .. nfiles /\ wfd \in 0 .. nfiles /\ open \subseteq 1 .. nfiles
    /\ seg \in [how : {"none", "start", "rotate"}, tables : {0, 1},
                first : {"none", "idr", "cut", "p"}]

ControlType ==
    /\ mpc \in {"boot", "boot_start", "frame", "writing", "take_start", "take_stop",
                "ts_start", "ts_tables", "reinit_close", "reinit_reset", "reinit_signal",
                "reinit_join", "exit_signal", "exit_join", "exit_stop", "exited"}
    /\ back \in {"frame", "take_stop"}
    /\ hevc \in {0, 1} /\ rec_ring \in {0, 1} /\ dual \in {0, 1} /\ rec_running \in {0, 1}
    /\ wpc \in {"idle", "space", "rotate", "rotate_tables", "load", "write"}
    /\ kind \in {"idr", "cut", "p"}
    /\ wpc # "idle" => (dual = 1 \/ mpc = "writing")

\* Every variable has its type; write_stream has a thread that runs it.
TypeOK == ConfigType /\ FileType /\ ControlType

\* A frame is never written to a descriptor that another thread has closed.
DescriptorOpen == wpc = "write" /\ wfd # 0 => wfd \in open

Duals == {"dual", "dual-stream"}

\* As long as the streaming loop is the only writer, nothing closes a file
\* between the load of its descriptor and the write: not a rotation, an HTTP
\* request, a reinit or the exit.
SoleWriterSafe == mode \notin Duals => DescriptorOpen

\* A reinit in dual mode closes the recording under the recording thread.
Raced == reinits > 0 /\ mode \in Duals

\* One recording at a time, unless a reinit raced the recording thread: no
\* frame is stored twice, and no file is left open behind another.
OneRecording == Raced \/ (~(hevc = 1 /\ fd # 0) /\ Cardinality(open) <= 1)

\* The later of two requests decides: once the loop has taken the flags, a
\* stop that came last has left nothing running.
StopHonoured ==
    last = "stop" /\ stop_pending = 0 /\ mpc = "frame" /\ dual = 0
        => fd = 0 /\ hevc = 0 /\ rec_ring = 0

\* A TS recording is fed with audio if that is enabled, unless a reinit raced
\* the recording thread.
AudioAttached ==
    Raced \/ (fd # 0 /\ mpc # "reinit_reset" => rec_ring = Audio)

\* A file begun by rotation begins with its tables and the frame of an IDR, which
\* may itself have been left out if it was too large for nal_buf.
RotatedPlayable ==
    seg.how = "rotate" /\ seg.first # "none" =>
        seg.tables = 1 /\ seg.first \in {"idr", "cut"}

\* Every file the process opened is closed when it ends, unless a reinit raced
\* the recording thread.
AllClosed == mpc = "exited" => Raced \/ (open = {} /\ hevc = 0)

\* Shutting down is not held up by recording.
ExitReached == (g_running = 0) ~> (mpc = "exited")

\* Whatever requests, disk errors, rotations, rebuilds and the exit do to each other:
\* one recording, with its audio, into files that are whole and closed in the end.
FilesSound ==
    SoleWriterSafe /\ OneRecording /\ AudioAttached /\ RotatedPlayable /\ AllClosed
===============================================================================
