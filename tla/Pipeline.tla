------------------------------- MODULE Pipeline -------------------------------
(***************************************************************************)
(* The star6e pipeline: sensor -> VIF -> VPE -> VENC ch0 (streamed) and    *)
(* ch1 (recorded, in dual mode).  It is built by star6e_pipeline_start,    *)
(* taken down by star6e_pipeline_stop, and rebuilt from the encoder on, or *)
(* from the VPE on if the aspect ratio changes, by star6e_pipeline_reinit. *)
(* Each of these is a list of steps, todo, that the main thread takes one  *)
(* by one while the recording thread drains ch1, the 3A thread calls the   *)
(* ISP and the hardware delivers frames.  A step that can fail replaces    *)
(* the list by the clean-up the code has for it.                           *)
(***************************************************************************)
EXTENDS Integers, Sequences

CONSTANTS DualModes,   \* record.mode: subset of {"off", "dual", "dual-stream"}
          LegacyAe,    \* isp.legacy_ae: subset of {0, 1}
          Depth,       \* frames a channel buffers before it holds up the VPE
          MaxReinits   \* bound on reinits

ASSUME PipelineAssumption ==
    /\ DualModes \subseteq {"off", "dual", "dual-stream"} /\ LegacyAe \subseteq {0, 1}
    /\ Depth \in Nat \ {0} /\ MaxReinits \in Nat

VARIABLES
    mode, legacy_ae,
    hw, links, recv,      \* kernel: what is enabled, what is bound, who receives
    queue,                \* kernel: frames waiting in each channel
    dstate,               \* kernel: a thread is stuck in uninterruptible sleep
    bound,                \* bound_vif_vpe, bound_vpe_venc and dual->bound
    objs,                 \* objects of Star6ePipelineState that exist
    phase, todo,          \* main thread
    g_running, pipeline_started, reinits,
    remains,              \* history: what a failure leaves standing
    rpc, rec_running,     \* recording thread
    apc, ae_running       \* 3A thread

conf   == <<mode, legacy_ae>>
kernel == <<hw, links, recv, queue, dstate>>
main   == <<phase, todo, pipeline_started, reinits, remains>>
rec    == <<rpc, rec_running>>
ae     == <<apc, ae_running>>
vars   == <<conf, kernel, bound, objs, main, g_running, rec, ae>>

Channels == {"ch0", "ch1"}
Ends     == [vif_vpe |-> {"vif", "vpe"}, vpe_ch0 |-> {"vpe", "ch0"},
             vpe_ch1 |-> {"vpe", "ch1"}]
Link(ch) == IF ch = "ch0" THEN "vpe_ch0" ELSE "vpe_ch1"
FrontEnd == {"sensor", "vif", "vif_port", "vpe", "vpe_port"}

\* bind_and_finalize_pipeline.
Finalize == <<"bind_vif", "bind_ch0", "output", "peripherals">>

StartSteps == <<"prepare", "sensor", "vif", "vpe", "ch0">> \o Finalize

\* star6e_runtime_apply_startup_controls.
ControlSteps == <<"ae", "dual", "dual_output", "rec_thread">>

Halt == <<"free_peripherals", "free_output", "free_dual_output">>

\* Mutant of QuietChannels: the channels are unbound under the recording thread.
QuietChannelsLate ==
    <<"unbind_ch1", "unbind_ch0", "rec_stop", "rec_join", "drain_ch0", "drain_ch1",
      "stop_ch1", "stop_ch0">>

\* Mutant of QuietChannels: the recording thread is joined but not told to end.
QuietChannelsUntold ==
    <<"rec_join", "unbind_ch1", "unbind_ch0", "drain_ch0", "drain_ch1", "stop_ch1",
      "stop_ch0">>

\* What pipeline_stop and stop_venc_level have in common.
QuietChannels ==
    <<"rec_stop", "rec_join", "unbind_ch1", "unbind_ch0", "drain_ch0", "drain_ch1",
      "stop_ch1", "stop_ch0">>

\* Mutant of StopSteps: the VIF stays bound to the VPE.
StopStepsBound == Halt \o QuietChannels
    \o <<"destroy_ch1", "destroy_ch0", "stop_vpe", "stop_vif", "stop_sensor">>

StopSteps == Halt \o QuietChannels
    \o <<"unbind_vif", "destroy_ch1", "destroy_ch0", "stop_vpe", "stop_vif", "stop_sensor">>

StopVencSteps == Halt \o QuietChannels \o <<"destroy_ch1", "destroy_ch0">>

\* Mutant of RestartSteps: the whole pipeline is stopped.
RestartStepsFull ==
    <<"ae_stop", "ae_join", "load">> \o StopSteps \o StartSteps \o <<"ae">>

\* Mutant of RestartSteps: the 3A thread is only told to stop.
RestartStepsUnjoined ==
    <<"ae_stop", "load">> \o StopVencSteps \o <<"prepare", "resize", "ch0">> \o Finalize
        \o <<"ae_join", "ae">>

\* star6e_runtime_restart_pipeline and star6e_pipeline_reinit.
RestartSteps ==
    <<"ae_stop", "ae_join", "load">> \o StopVencSteps
        \o <<"prepare", "resize", "ch0">> \o Finalize \o <<"ae">>

\* The aspect ratio changes: the VPE is made anew.
AspectSteps == <<"unbind_vif", "stop_vpe", "vif_port", "vpe">>

Init ==
    /\ mode \in DualModes /\ legacy_ae \in LegacyAe
    /\ hw = {} /\ links = {} /\ recv = {} /\ queue = [c \in Channels |-> 0]
    /\ dstate = FALSE
    /\ bound = {} /\ objs = {}
    /\ phase = "start" /\ todo = StartSteps
    /\ g_running = 1 /\ pipeline_started = 0 /\ reinits = 0 /\ remains = "nothing"
    /\ rpc = "none" /\ rec_running = 0 /\ apc = "none" /\ ae_running = 0

Do(step) == ~dstate /\ todo # <<>> /\ Head(todo) = step
Pop      == todo' = Tail(todo)
Popped   == Pop /\ UNCHANGED <<phase, pipeline_started, reinits, remains>>

\* The clean-up, and then the end.
FailLeaving(cleanup, what) ==
    /\ todo' = cleanup /\ phase' = "failing" /\ remains' = what
    /\ UNCHANGED <<pipeline_started, reinits>>

\* A failed reinit leaves what it does not undo.
Fail(cleanup) == FailLeaving(cleanup, IF phase = "reinit" THEN "reinit" ELSE "nothing")

-------------------------------------------------------------------------------
(* Building.                                                               *)

\* Mutant of Undo: a start that fails leaves the front enabled, as a reinit does.
UndoAsReinit(step) == IF step = "finalize" THEN <<"stop_ch0", "destroy_ch0">> ELSE <<>>

\* The failure labels of star6e_pipeline_start; a reinit keeps the front.
Undo(step) ==
    IF phase = "start"
    THEN CASE step = "sensor" -> <<>>
           [] step = "vif"    -> <<"stop_sensor">>
           [] step = "vpe"    -> <<"stop_vif", "stop_sensor">>
           [] step = "ch0"    -> <<"stop_vpe", "stop_vif", "stop_sensor">>
           [] step = "finalize" -> <<"stop_ch0", "destroy_ch0", "stop_vpe", "stop_vif",
                                     "stop_sensor">>
    ELSE CASE step = "vpe"    -> <<"stop_vif">>
           [] step = "ch0"    -> <<>>
           [] step = "finalize" -> <<"stop_ch0", "destroy_ch0">>

\* prepare_pipeline_config: a configuration that cannot be used.
Prepare ==
    /\ Do("prepare")
    /\ Popped \/ Fail(<<>>)
    /\ UNCHANGED <<conf, kernel, bound, objs, g_running, rec, ae>>

\* start_vif, start_vpe and start_venc undo their own failures.
Enable(step, parts) ==
    /\ Do(step)
    /\ \/ /\ hw' = hw \cup parts /\ recv' = recv \cup (parts \cap Channels)
          /\ Popped
       \/ Fail(Undo(step)) /\ UNCHANGED <<hw, recv>>
    /\ UNCHANGED <<conf, links, queue, dstate, bound, objs, g_running, rec, ae>>

\* The sensor is enabled and its pad cannot be read: sensor_select returns the error
\* without disabling it, and star6e_pipeline_start returns without stop_sensor.
SensorUnread ==
    /\ Do("sensor")
    /\ hw' = hw \cup {"sensor"} /\ FailLeaving(Undo("sensor"), "sensor")
    /\ UNCHANGED <<conf, links, recv, queue, dstate, bound, objs, g_running, rec, ae>>

StartSensor == Enable("sensor", {"sensor"}) \/ SensorUnread
StartVif    == Enable("vif", {"vif", "vif_port"})
StartVpe    == Enable("vpe", {"vpe", "vpe_port"})
StartVenc   == Enable("ch0", {"ch0"})

\* The VIF is bound to the VPE unless it is bound already.
BindVif ==
    /\ Do("bind_vif")
    /\ \/ links' = links \cup ({"vif_vpe"} \ bound) /\ bound' = bound \cup {"vif_vpe"}
          /\ Popped
       \/ Fail(Undo("finalize")) /\ UNCHANGED <<links, bound>>
    /\ UNCHANGED <<conf, hw, recv, queue, dstate, objs, g_running, rec, ae>>

BindVenc ==
    /\ Do("bind_ch0")
    /\ \/ links' = links \cup {"vpe_ch0"} /\ bound' = bound \cup {"vpe_ch0"} /\ Popped
       \/ Fail(<<"unbind_vif">> \o Undo("finalize")) /\ UNCHANGED <<links, bound>>
    /\ UNCHANGED <<conf, hw, recv, queue, dstate, objs, g_running, rec, ae>>

\* Mutant of InitOutput: the channels stay bound when the output fails.
InitOutputLeaving ==
    /\ Do("output")
    /\ \/ objs' = objs \cup {"output"} /\ Popped
       \/ Fail(<<"free_output">> \o Undo("finalize")) /\ UNCHANGED objs
    /\ UNCHANGED <<conf, kernel, bound, g_running, rec, ae>>

InitOutput ==
    /\ Do("output")
    /\ \/ objs' = objs \cup {"output"} /\ Popped
       \/ Fail(<<"free_output", "unbind_ch0", "unbind_vif">> \o Undo("finalize"))
          /\ UNCHANGED objs
    /\ UNCHANGED <<conf, kernel, bound, g_running, rec, ae>>

\* Audio, IMU, EIS and OSD: the pipeline goes on without the ones that fail;
\* EIS is only made with an IMU or in its test mode.
InitPeripherals(made) ==
    /\ Do("peripherals") /\ made \subseteq {"audio", "imu", "eis", "osd"}
    /\ objs' = objs \cup made /\ Popped
    /\ UNCHANGED <<conf, kernel, bound, g_running, rec, ae>>

StartAe ==
    /\ Do("ae") /\ Popped
    /\ \/ legacy_ae = 0 /\ ae_running = 0 /\ ae_running' = 1 /\ apc' = "check"
       \/ UNCHANGED ae
    /\ UNCHANGED <<conf, kernel, bound, objs, g_running, rec>>

\* star6e_pipeline_start_dual: without ch1 recording falls back to ch0.
StartDual ==
    /\ Do("dual") /\ Popped
    /\ \/ /\ mode # "off"
          /\ hw' = hw \cup {"ch1"} /\ recv' = recv \cup {"ch1"}
          /\ links' = links \cup {"vpe_ch1"} /\ bound' = bound \cup {"vpe_ch1"}
          /\ objs' = objs \cup {"dual"}
       \/ UNCHANGED <<hw, recv, links, bound, objs>>
    /\ UNCHANGED <<conf, queue, dstate, g_running, rec, ae>>

InitDualOutput ==
    /\ Do("dual_output") /\ Popped
    /\ \/ mode = "dual-stream" /\ "dual" \in objs /\ objs' = objs \cup {"dual_output"}
       \/ UNCHANGED objs
    /\ UNCHANGED <<conf, kernel, bound, g_running, rec, ae>>

StartRecThread ==
    /\ Do("rec_thread") /\ Popped
    /\ \/ "dual" \in objs /\ rec_running' = 1 /\ rpc' = "check"
       \/ UNCHANGED rec
    /\ UNCHANGED <<conf, kernel, bound, objs, g_running, ae>>

-------------------------------------------------------------------------------
(* Taking down.                                                            *)

FreePeripherals ==
    /\ Do("free_peripherals") /\ Popped
    /\ objs' = objs \ {"audio", "imu", "eis", "osd"}
    /\ UNCHANGED <<conf, kernel, bound, g_running, rec, ae>>

\* Mutant of FreeOutput: ch1 goes with its output.
FreeOutputAndDual(step, out) ==
    /\ Do(step) /\ Popped
    /\ objs' = objs \ (IF out = "dual_output" THEN {out, "dual"} ELSE {out})
    /\ UNCHANGED <<conf, kernel, bound, g_running, rec, ae>>

FreeOutput(step, out) ==
    /\ Do(step) /\ Popped
    /\ objs' = objs \ {out}
    /\ UNCHANGED <<conf, kernel, bound, g_running, rec, ae>>

RecStop ==
    /\ Do("rec_stop") /\ Popped
    /\ rec_running' = 0
    /\ UNCHANGED <<conf, kernel, bound, objs, g_running, rpc, ae>>

RecJoin ==
    /\ Do("rec_join") /\ rpc \in {"none", "done"} /\ Popped
    /\ rpc' = "none"
    /\ UNCHANGED <<conf, kernel, bound, objs, g_running, rec_running, ae>>

\* Mutant of Unbind: the flag is not cleared.
UnbindFlagKept(step, l) ==
    /\ Do(step) /\ Popped
    /\ links' = links \ {l} /\ UNCHANGED <<bound, dstate>>
    /\ UNCHANGED <<conf, hw, recv, queue, objs, g_running, rec, ae>>

\* MI_SYS_UnBindChnPort, if the flag says it is bound.  Unbinding a channel
\* while a thread is in GetStream takes the VPE lock both want.
Unbind(step, l) ==
    /\ Do(step) /\ Popped
    /\ IF l \in bound
       THEN /\ links' = links \ {l} /\ bound' = bound \ {l}
            /\ dstate' = (l # "vif_vpe" /\ rpc = "get")
       ELSE UNCHANGED <<links, bound, dstate>>
    /\ UNCHANGED <<conf, hw, recv, queue, objs, g_running, rec, ae>>

\* drain_venc_channel: until the channel is empty, or for 500 ms.
Drain(step, ch) ==
    /\ Do(step) /\ Popped
    /\ \E n \in 0 .. queue[ch] : queue' = [queue EXCEPT ![ch] = n]
    /\ UNCHANGED <<conf, hw, links, recv, dstate, bound, objs, g_running, rec, ae>>

\* MI_VENC_StopRecvPic flushes the VPE, which waits for a full channel.
StopRecv(step, ch) ==
    /\ Do(step) /\ Popped
    /\ recv' = recv \ {ch}
    /\ dstate' = (Link(ch) \in links /\ queue[ch] = Depth)
    /\ UNCHANGED <<conf, hw, links, queue, bound, objs, g_running, rec, ae>>

Destroy(step, ch) ==
    /\ Do(step) /\ Popped
    /\ hw' = hw \ {ch} /\ queue' = [queue EXCEPT ![ch] = 0]
    /\ objs' = IF ch = "ch1" THEN objs \ {"dual"} ELSE objs
    /\ UNCHANGED <<conf, links, recv, dstate, bound, g_running, rec, ae>>

\* MI_SNR_Disable hangs while the VPE is fed.
Disable(step, parts) ==
    /\ Do(step) /\ Popped
    /\ hw' = hw \ parts
    /\ dstate' = ("sensor" \in parts /\ "vif_vpe" \in links)
    /\ UNCHANGED <<conf, links, recv, queue, bound, objs, g_running, rec, ae>>

AeStop ==
    /\ Do("ae_stop") /\ Popped
    /\ ae_running' = 0
    /\ UNCHANGED <<conf, kernel, bound, objs, g_running, rec, apc>>

AeJoin ==
    /\ Do("ae_join") /\ apc \in {"none", "done"} /\ Popped
    /\ apc' = "none"
    /\ UNCHANGED <<conf, kernel, bound, objs, g_running, rec, ae_running>>

-------------------------------------------------------------------------------
(* Reinit: what a new image size asks for.                                 *)

SameSize ==
    /\ Do("resize") /\ Popped
    /\ UNCHANGED <<conf, kernel, bound, objs, g_running, rec, ae>>

\* Mutant of ResizePort: that the port cannot be enabled is not noticed.
ResizePortUnchecked ==
    /\ Do("resize") /\ Popped
    /\ hw' \in {hw, hw \ {"vpe_port"}}
    /\ UNCHANGED <<conf, links, recv, queue, dstate, bound, objs, g_running, rec, ae>>

\* Same aspect ratio: only the output port of the VPE is set again.  If that
\* fails it is enabled as it was; if enabling fails it stays disabled.
ResizePort ==
    /\ Do("resize")
    /\ \/ Popped /\ UNCHANGED hw
       \/ Fail(<<>>) /\ hw' \in {hw, hw \ {"vpe_port"}}
    /\ UNCHANGED <<conf, links, recv, queue, dstate, bound, objs, g_running, rec, ae>>

ChangeAspect ==
    /\ Do("resize")
    /\ todo' = AspectSteps \o Tail(todo)
    /\ UNCHANGED <<conf, kernel, bound, objs, phase, pipeline_started, reinits,
                   remains, g_running, rec, ae>>

\* The VIF port is set again; if that fails the VIF is disabled.
SetVifPort ==
    /\ Do("vif_port")
    /\ \/ Popped /\ UNCHANGED hw
       \/ Fail(<<>>) /\ hw' = hw \ {"vif", "vif_port"}
    /\ UNCHANGED <<conf, links, recv, queue, dstate, bound, objs, g_running, rec, ae>>

\* venc_config_load: the loop ends, the pipeline is still up.
LoadConfig ==
    /\ Do("load")
    /\ \/ Popped
       \/ todo' = <<>> /\ phase' = "ended"
          /\ UNCHANGED <<pipeline_started, reinits, remains>>
    /\ UNCHANGED <<conf, kernel, bound, objs, g_running, rec, ae>>

-------------------------------------------------------------------------------
(* The main thread between two lists.                                      *)

Idle(p) == ~dstate /\ todo = <<>> /\ phase = p
Others  == <<conf, kernel, bound, objs, g_running, rec, ae>>

Started ==
    /\ Idle("start")
    /\ pipeline_started' = 1 /\ phase' = "controls" /\ todo' = ControlSteps
    /\ UNCHANGED <<reinits, remains, Others>>

LoopBegins ==
    /\ Idle("controls") \/ Idle("reinit")
    /\ phase' = "loop"
    /\ UNCHANGED <<todo, pipeline_started, reinits, remains, Others>>

\* star6e_runtime_process_stream takes a frame from ch0.
StreamFrame ==
    /\ Idle("loop") /\ g_running = 1 /\ queue["ch0"] > 0
    /\ queue' = [queue EXCEPT !["ch0"] = @ - 1]
    /\ UNCHANGED <<conf, hw, links, recv, dstate, bound, objs, main, g_running, rec, ae>>

Reinit ==
    /\ Idle("loop") /\ g_running = 1 /\ reinits < MaxReinits
    /\ reinits' = reinits + 1 /\ phase' = "reinit" /\ todo' = RestartSteps
    /\ UNCHANGED <<pipeline_started, remains, Others>>

\* A frame that cannot be had ends the loop, and so does g_running = 0.
LoopEnds ==
    /\ Idle("loop")
    /\ phase' = "ended"
    /\ UNCHANGED <<todo, pipeline_started, reinits, remains, Others>>

Failed ==
    /\ Idle("failing")
    /\ pipeline_started' = 0 /\ phase' = "ended"
    /\ UNCHANGED <<todo, reinits, remains, Others>>

\* star6e_runner_teardown: the pipeline is stopped if it was started.
Teardown ==
    /\ Idle("ended")
    /\ phase' = "teardown"
    /\ todo' = <<"ae_stop">> \o (IF pipeline_started = 1 THEN StopSteps ELSE <<>>)
                   \o <<"ae_join">>
    /\ UNCHANGED <<pipeline_started, reinits, remains, Others>>

Exit ==
    /\ Idle("teardown")
    /\ phase' = "exited" /\ pipeline_started' = 0
    /\ UNCHANGED <<todo, reinits, remains, Others>>

Terminate ==
    /\ g_running = 1 /\ phase # "exited"
    /\ g_running' = 0
    /\ UNCHANGED <<conf, kernel, bound, objs, main, rec, ae>>

-------------------------------------------------------------------------------
(* The other threads, and the hardware.                                    *)

\* dual_rec_thread_fn.
RecCheck ==
    /\ ~dstate /\ rpc = "check"
    /\ rpc' = IF rec_running = 0 THEN "done" ELSE IF queue["ch1"] > 0 THEN "get" ELSE rpc
    /\ UNCHANGED <<conf, kernel, bound, objs, main, g_running, rec_running, ae>>

\* MI_VENC_GetStream; a frame is written unless the process is going down.
RecGet ==
    /\ ~dstate /\ rpc = "get"
    /\ \/ queue["ch1"] > 0 /\ queue' = [queue EXCEPT !["ch1"] = @ - 1]
          /\ rpc' = IF g_running = 1 THEN "write" ELSE "check"
       \/ rpc' = "check" /\ UNCHANGED queue
    /\ UNCHANGED <<conf, hw, links, recv, dstate, bound, objs, main, g_running,
                   rec_running, ae>>

RecWritten ==
    /\ ~dstate /\ rpc = "write"
    /\ rpc' = "check"
    /\ UNCHANGED <<conf, kernel, bound, objs, main, g_running, rec_running, ae>>

\* cus3a_thread: limits are read from and written to the ISP.
AeCheck ==
    /\ ~dstate /\ apc = "check"
    /\ apc' = IF ae_running = 0 THEN "done" ELSE "isp"
    /\ UNCHANGED <<conf, kernel, bound, objs, main, g_running, rec, ae_running>>

AeTick ==
    /\ ~dstate /\ apc = "isp"
    /\ apc' = "check"
    /\ UNCHANGED <<conf, kernel, bound, objs, main, g_running, rec, ae_running>>

\* The VPE delivers a frame to a channel that receives.
Deliver(ch) ==
    /\ ~dstate /\ FrontEnd \subseteq hw /\ "vif_vpe" \in links
    /\ Link(ch) \in links /\ ch \in recv /\ queue[ch] < Depth
    /\ queue' = [queue EXCEPT ![ch] = @ + 1]
    /\ UNCHANGED <<conf, hw, links, recv, dstate, bound, objs, main, g_running, rec, ae>>

Build == \/ Prepare \/ StartSensor \/ StartVif \/ StartVpe \/ StartVenc \/ BindVif
         \/ BindVenc \/ InitOutput \/ StartAe \/ StartDual \/ InitDualOutput
         \/ StartRecThread
         \/ \E made \in {{}, {"audio"}, {"audio", "imu", "eis", "osd"}} :
                InitPeripherals(made)

TakeDown == \/ FreePeripherals \/ RecStop \/ RecJoin \/ AeStop \/ AeJoin
            \/ FreeOutput("free_output", "output")
            \/ FreeOutput("free_dual_output", "dual_output")
            \/ Unbind("unbind_ch1", "vpe_ch1") \/ Unbind("unbind_ch0", "vpe_ch0")
            \/ Unbind("unbind_vif", "vif_vpe")
            \/ Drain("drain_ch0", "ch0") \/ Drain("drain_ch1", "ch1")
            \/ StopRecv("stop_ch0", "ch0") \/ StopRecv("stop_ch1", "ch1")
            \/ Destroy("destroy_ch0", "ch0") \/ Destroy("destroy_ch1", "ch1")
            \/ Disable("stop_vpe", {"vpe", "vpe_port"})
            \/ Disable("stop_vif", {"vif", "vif_port"})
            \/ Disable("stop_sensor", {"sensor"})

Between == Started \/ LoopBegins \/ Failed \/ Teardown \/ Exit

MainStep == \/ Build \/ TakeDown \/ Between
            \/ SameSize \/ ResizePort \/ ChangeAspect \/ SetVifPort \/ LoadConfig
RecStep  == RecCheck \/ RecGet \/ RecWritten
AeStep   == AeCheck \/ AeTick

Next == \/ MainStep \/ RecStep \/ AeStep
        \/ StreamFrame \/ Reinit \/ LoopEnds \/ Terminate
        \/ \E ch \in Channels : Deliver(ch)

\* The three threads are scheduled, and the loop looks at g_running.
Fairness == /\ WF_vars(MainStep) /\ WF_vars(RecStep) /\ WF_vars(AeStep)
            /\ WF_vars(g_running = 0 /\ LoopEnds)

Spec     == Init /\ [][Next]_vars
FairSpec == Spec /\ Fairness

-------------------------------------------------------------------------------
(* Properties.                                                             *)

\* Every variable has its type; what is bound exists, and the flags say so.
TypeOK ==
    /\ hw \subseteq FrontEnd \cup Channels /\ recv \subseteq Channels
    /\ links \subseteq DOMAIN Ends /\ bound \subseteq DOMAIN Ends
    /\ queue \in [Channels -> 0 .. Depth] /\ dstate \in BOOLEAN
    /\ objs \subseteq {"output", "audio", "imu", "eis", "osd", "dual", "dual_output"}
    /\ phase \in {"start", "controls", "loop", "reinit", "failing", "ended", "teardown",
                  "exited"}
    /\ g_running \in {0, 1} /\ pipeline_started \in {0, 1}
    /\ rpc \in {"none", "check", "get", "write", "done"} /\ rec_running \in {0, 1}
    /\ apc \in {"none", "check", "isp", "done"} /\ ae_running \in {0, 1}
    /\ bound = links

\* Nothing is destroyed while it is bound, whichever step failed before.
LinkEndsExist == \A l \in links : Ends[l] \subseteq hw

\* No order of steps, frames and threads leaves a thread stuck in the driver:
\* no unbind during GetStream, no StopRecvPic on a full bound channel, no
\* MI_SNR_Disable while the VPE is fed.
NeverStuck == ~dstate

\* The loop runs on a whole pipeline, also after a reinit that made the VPE anew.
LoopIsWhole ==
    phase = "loop" => /\ FrontEnd \cup {"ch0"} \subseteq hw /\ "ch0" \in recv
                      /\ {"vif_vpe", "vpe_ch0"} \subseteq links /\ "output" \in objs

\* A reinit keeps sensor and VIF device running: the PHY does not recover.
PhyUntouched == phase = "reinit" => {"sensor", "vif"} \subseteq hw

\* ch1 is not freed under the recording thread.
DualOutlivesThread == rpc \in {"check", "get", "write"} => "dual" \in objs

\* The 3A thread makes no ISP call while a reinit has no VPE.
AeSeesVpe == apc = "isp" /\ phase = "reinit" => "vpe" \in hw

\* The process leaves no thread behind and no hardware enabled or bound, with two
\* exceptions: a reinit that failed, and a sensor that failed after it was enabled.
NothingLeft ==
    phase = "exited" =>
        /\ rpc = "none" /\ apc = "none"
        /\ \/ remains = "reinit"
           \/ links = {} /\ objs = {} /\ hw \subseteq {remains} \cap {"sensor"}

\* SIGTERM ends the process, whatever was under way.
TeardownEnds == (g_running = 0) ~> (phase = "exited")

\* Through every start, rebuild, failure and teardown, each part stands as long as
\* another needs it, nothing is stuck in the driver, and nothing is left behind but
\* what a failed reinit or a sensor that fails once enabled leaves.
Standing ==
    /\ LinkEndsExist /\ LoopIsWhole /\ PhyUntouched /\ NeverStuck
    /\ DualOutlivesThread /\ AeSeesVpe /\ NothingLeft
===============================================================================
