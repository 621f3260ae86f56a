--------------------------------- MODULE Maruko ---------------------------------
(***************************************************************************)
(* The pipeline of the maruko backend: sensor -> VIF -> ISP -> SCL ->      *)
(* VENC, and the loop that runs, rebuilds and ends it.  The graph is       *)
(* configured and torn down by lists of steps that the main thread takes   *)
(* one by one; a step that fails leaves the rest of the cleaning up to the *)
(* flags the earlier ones have set.  Unlike star6e's, a rebuild takes the  *)
(* whole graph down, except the ISP channel: once the 3A framework runs in *)
(* the kernel, destroying that channel is fatal.  The HTTP thread goes on  *)
(* calling the encoder all the while.                                      *)
(***************************************************************************)
EXTENDS Integers, Sequences

VARIABLES
    units, binds, output,  \* what exists in the driver, what is bound, the socket
    created,               \* g_mi_isp_*_created, g_mi_scl_*_created
    started,               \* *_started, sensor_enabled, venc_dev_created, bound_*
    g_mi_isp_initialized,
    stage, steps,          \* main thread
    g_maruko_running, hup, reinit,  \* and g_maruko_reinit, g_reinit
    httpd, controls,       \* the server runs; the callbacks are registered
    serving,               \* the HTTP thread is at a request
    rebuilding,            \* history: since a rebuild began; for good if it fails
    lostIsp,               \* history: the ISP channel went under the 3A framework
    sensorLeft             \* history: the sensor failed after it was enabled

graph == <<units, binds, output, created, started, g_mi_isp_initialized>>
flags == <<g_maruko_running, hup, reinit>>
http  == <<httpd, controls, serving>>
hist  == <<rebuilding, lostIsp, sensorLeft>>

marukoVars == <<graph, stage, steps, flags, http, hist>>

BindEnds == [vif_isp |-> {"vif", "isp"}, isp_scl |-> {"isp", "scl"},
             scl_venc |-> {"scl", "venc"}]
Vpe      == {"isp_dev", "isp_chn", "isp", "scl_dev", "scl_chn", "scl"}

ConfigureSteps == <<"sensor", "vif", "isp", "scl", "venc", "vif_isp", "isp_scl",
                    "scl_venc", "isp_bin", "output">>

\* Mutant of TeardownSteps: the encoder is stopped before it is unbound.
TeardownStepsBound == <<"free_output", "stop_venc", "unbind_scl_venc", "unbind_isp_scl",
                        "unbind_vif_isp", "stop_vpe", "stop_vif", "stop_sensor">>

\* maruko_pipeline_teardown_graph.
TeardownSteps == <<"free_output", "unbind_scl_venc", "unbind_isp_scl", "unbind_vif_isp",
                   "stop_venc", "stop_vpe", "stop_vif", "stop_sensor">>

MarukoInit ==
    /\ units = {} /\ binds = {} /\ output = FALSE /\ created = {} /\ started = {}
    /\ g_mi_isp_initialized = FALSE
    /\ stage = "init" /\ steps = <<"httpd", "sys">> \o ConfigureSteps \o <<"controls">>
    /\ g_maruko_running = 1 /\ hup = 0 /\ reinit = 0
    /\ httpd = FALSE /\ controls = FALSE /\ serving = FALSE
    /\ rebuilding = FALSE /\ lostIsp = FALSE /\ sensorLeft = FALSE

MarukoDo(step) == steps # <<>> /\ Head(steps) = step
MarukoPop      == steps' = Tail(steps) /\ UNCHANGED stage

\* init and run return an error: the backend's teardown follows.
Down == stage' = "down" /\ steps' = <<"httpd_stop">> \o TeardownSteps \o <<"sys_exit">>

rest == <<flags, http, rebuilding, sensorLeft>>

-------------------------------------------------------------------------------
(* Configuring: maruko_pipeline_init and maruko_pipeline_configure_graph.  *)

StartHttpd ==
    /\ MarukoDo("httpd") /\ MarukoPop
    /\ httpd' \in BOOLEAN
    /\ UNCHANGED <<graph, flags, controls, serving, hist>>

\* The MI libraries and MI_SYS_Init.
SysInit ==
    /\ MarukoDo("sys")
    /\ \/ units' = units \cup {"sys"} /\ MarukoPop
       \/ units' = units /\ Down
    /\ UNCHANGED <<binds, output, created, started, g_mi_isp_initialized, rest, lostIsp>>

\* sensor_select; maruko_start_vif, which undoes its own failure.
Start(step) ==
    /\ MarukoDo(step)
    /\ \/ units' = units \cup {step} /\ started' = started \cup {step} /\ MarukoPop
       \/ UNCHANGED <<units, started>> /\ Down
    /\ UNCHANGED <<binds, output, created, g_mi_isp_initialized, rest, lostIsp>>

\* The sensor is enabled and its pad cannot be read: sensor_select returns the error
\* without disabling it, and sensor_enabled is set after a success only.
MarukoSensorUnread ==
    /\ MarukoDo("sensor") /\ Down
    /\ units' = units \cup {"sensor"} /\ sensorLeft' = TRUE
    /\ UNCHANGED <<binds, output, created, started, g_mi_isp_initialized, flags, http,
                   rebuilding, lostIsp>>

\* The ISP channel goes while the kernel keeps the 3A framework's mutex.
Lost(gone) ==
    lostIsp' = (lostIsp \/ (g_mi_isp_initialized /\ "isp_chn" \in units \cap gone))

\* configure_maruko_isp, configure_maruko_scl: device and channel are created once
\* and started each time.
ConfigureUnit(unit, dev, chn) ==
    /\ MarukoDo(unit)
    /\ units' = units \cup {unit, dev, chn} /\ created' = created \cup {dev, chn}
    /\ started' = IF unit = "scl" THEN started \cup {"vpe"} ELSE started
    /\ MarukoPop
    /\ UNCHANGED <<binds, output, g_mi_isp_initialized, rest, lostIsp>>

ConfigureIsp == ConfigureUnit("isp", "isp_dev", "isp_chn")
ConfigureScl == ConfigureUnit("scl", "scl_dev", "scl_chn")

\* What was created by then is destroyed again, created before or not, and the
\* flags stay; a failing SCL takes the ISP with it.
UnitFails(unit, dev, chn, others) ==
    /\ MarukoDo(unit)
    /\ \E done \in {{}, {dev}, {dev, chn}} :
           /\ {dev, chn} \cap created \subseteq done
           /\ created' = created \cup done
           /\ units' = units \ (done \cup others \cup {unit})
           /\ Lost(done \cup others)
    /\ Down
    /\ UNCHANGED <<binds, output, started, g_mi_isp_initialized, rest>>

IspFails == UnitFails("isp", "isp_dev", "isp_chn", {})
SclFails == UnitFails("scl", "scl_dev", "scl_chn", {"isp", "isp_dev", "isp_chn"})

\* maruko_start_venc: without a device of its own it goes on.
MarukoStartVenc ==
    /\ MarukoDo("venc")
    /\ \/ \E own \in {{}, {"venc_dev"}} :
              /\ units' = units \cup own \cup {"venc"}
              /\ started' = started \cup own \cup {"venc"}
          /\ MarukoPop
       \/ UNCHANGED <<units, started>> /\ Down
    /\ UNCHANGED <<binds, output, created, g_mi_isp_initialized, rest, lostIsp>>

Bind(l) ==
    /\ MarukoDo(l)
    /\ \/ binds' = binds \cup {l} /\ started' = started \cup {l} /\ MarukoPop
       \/ UNCHANGED <<binds, started>> /\ Down
    /\ UNCHANGED <<units, output, created, g_mi_isp_initialized, rest, lostIsp>>

\* The ISP's binary and the 3A framework, once in the life of the process.
LoadIspBin ==
    /\ MarukoDo("isp_bin")
    /\ \/ g_mi_isp_initialized' = TRUE /\ MarukoPop
       \/ ~g_mi_isp_initialized /\ UNCHANGED g_mi_isp_initialized /\ Down
    /\ UNCHANGED <<units, binds, output, created, started, rest, lostIsp>>

OutputInit ==
    /\ MarukoDo("output")
    /\ \/ output' = TRUE /\ MarukoPop
       \/ UNCHANGED output /\ Down
    /\ UNCHANGED <<units, binds, created, started, g_mi_isp_initialized, rest, lostIsp>>

\* maruko_bind_controls and venc_api_register.
BindControls ==
    /\ MarukoDo("controls") /\ MarukoPop
    /\ controls' = TRUE
    /\ UNCHANGED <<graph, flags, httpd, serving, hist>>

-------------------------------------------------------------------------------
(* Tearing down: whatever the flags say was started.                       *)

OutputTeardown ==
    /\ MarukoDo("free_output") /\ MarukoPop
    /\ output' = FALSE
    /\ UNCHANGED <<units, binds, created, started, g_mi_isp_initialized, rest, lostIsp>>

UnbindLink(step, l) ==
    /\ MarukoDo(step) /\ MarukoPop
    /\ binds' = binds \ (started \cap {l}) /\ started' = started \ {l}
    /\ UNCHANGED <<units, output, created, g_mi_isp_initialized, rest, lostIsp>>

\* Mutant of StopVenc: the flags are not cleared.
StopVencKeepsFlags ==
    /\ MarukoDo("stop_venc") /\ MarukoPop
    /\ units' = IF "venc" \in started THEN units \ (started \cap {"venc", "venc_dev"})
                                      ELSE units
    /\ UNCHANGED <<binds, output, created, started, g_mi_isp_initialized, rest, lostIsp>>

StopVenc ==
    /\ MarukoDo("stop_venc") /\ MarukoPop
    /\ IF "venc" \in started
       THEN /\ units' = units \ (started \cap {"venc", "venc_dev"})
            /\ started' = started \ {"venc", "venc_dev"}
       ELSE UNCHANGED <<units, started>>
    /\ UNCHANGED <<binds, output, created, g_mi_isp_initialized, rest, lostIsp>>

\* maruko_stop_vpe_channels: both units are stopped, the SCL channel is destroyed,
\* the ISP channel and the devices stay.
StopVpe ==
    /\ MarukoDo("stop_vpe") /\ MarukoPop
    /\ IF "vpe" \in started
       THEN /\ units' = units \ ((created \cap {"scl_chn"}) \cup {"isp", "scl"})
            /\ created' = created \ {"scl_chn"} /\ started' = started \ {"vpe"}
       ELSE UNCHANGED <<units, created, started>>
    /\ UNCHANGED <<binds, output, g_mi_isp_initialized, rest, lostIsp>>

Stop(step, part) ==
    /\ MarukoDo(step) /\ MarukoPop
    /\ units' = units \ (started \cap {part}) /\ started' = started \ {part}
    /\ UNCHANGED <<binds, output, created, g_mi_isp_initialized, rest, lostIsp>>

\* venc_httpd_stop: no request arrives any more; the thread is detached, so one that
\* is being served goes on.
StopHttpd ==
    /\ MarukoDo("httpd_stop") /\ MarukoPop
    /\ httpd' = FALSE
    /\ UNCHANGED <<graph, flags, controls, serving, hist>>

SysExit ==
    /\ MarukoDo("sys_exit") /\ MarukoPop
    /\ units' = units \ {"sys"}
    /\ UNCHANGED <<binds, output, created, started, g_mi_isp_initialized, rest, lostIsp>>

-------------------------------------------------------------------------------
(* The main thread between two lists: maruko_runner_run.                   *)

MarukoIdle(p) == steps = <<>> /\ stage = p

RunBegins ==
    /\ MarukoIdle("init") \/ MarukoIdle("rebuild")
    /\ stage' = "top" /\ rebuilding' = FALSE
    /\ UNCHANGED <<graph, steps, flags, http, lostIsp, sensorLeft>>

\* Mutant of LoopTop: a rebuild is looked for first.
LoopTopReinitFirst ==
    /\ MarukoIdle("top")
    /\ IF hup # 0 \/ reinit # 0 \/ g_maruko_running = 1
       THEN stage' = "check" /\ UNCHANGED steps
       ELSE Down
    /\ UNCHANGED <<graph, flags, http, hist>>

LoopTop ==
    /\ MarukoIdle("top")
    /\ IF g_maruko_running = 1 THEN stage' = "check" /\ UNCHANGED steps ELSE Down
    /\ UNCHANGED <<graph, flags, http, hist>>

CheckReinit ==
    /\ MarukoIdle("check")
    /\ IF hup = 1 \/ reinit # 0
       THEN /\ stage' = "teardown" /\ steps' = TeardownSteps
            /\ hup' = 0 /\ rebuilding' = TRUE
       ELSE stage' = "turn" /\ UNCHANGED <<steps, hup, rebuilding>>
    /\ UNCHANGED <<graph, g_maruko_running, reinit, http, lostIsp, sensorLeft>>

\* A frame is sent, or there is none yet.
Turn ==
    /\ MarukoIdle("turn")
    /\ stage' = "top"
    /\ UNCHANGED <<graph, steps, flags, http, hist>>

\* The encoder fails, or has been silent for ten thousand turns.
TurnFails ==
    /\ MarukoIdle("turn") /\ Down
    /\ UNCHANGED <<graph, flags, http, hist>>

\* maruko_reinit_pipeline: the request is read and cleared; the configuration, read
\* from disk for mode 1 only and whether or not that succeeds, is taken over.
Rebuild ==
    /\ MarukoIdle("teardown")
    /\ reinit' = 0 /\ g_maruko_running' = 1
    /\ stage' = "rebuild" /\ steps' = ConfigureSteps \o <<"controls">>
    /\ UNCHANGED <<graph, hup, http, hist>>

\* A configuration that cannot be used.
RebuildFails ==
    /\ MarukoIdle("teardown")
    /\ reinit' = 0 /\ Down
    /\ UNCHANGED <<graph, g_maruko_running, hup, http, hist>>

MarukoExit ==
    /\ MarukoIdle("down") /\ stage' = "exited"
    /\ UNCHANGED <<graph, steps, flags, http, hist>>

-------------------------------------------------------------------------------
(* Signals and the HTTP thread, which restarts the pipeline by request.    *)

MarukoSigterm ==
    /\ stage # "exited" /\ g_maruko_running' = 0
    /\ UNCHANGED <<graph, stage, steps, hup, reinit, http, hist>>

Hangup ==
    /\ stage # "exited" /\ hup' = 1
    /\ UNCHANGED <<graph, stage, steps, g_maruko_running, reinit, http, hist>>

\* httpd_thread: accept returns a client, and its request is dispatched and closed.
RequestArrives ==
    /\ httpd /\ ~serving /\ serving' = TRUE
    /\ UNCHANGED <<graph, stage, steps, flags, httpd, controls, hist>>

RequestEnds ==
    /\ serving /\ serving' = FALSE
    /\ UNCHANGED <<graph, stage, steps, flags, httpd, controls, hist>>

\* venc_api_request_reinit.
RequestRestart(m) ==
    /\ serving /\ controls /\ m > reinit /\ reinit' = m
    /\ UNCHANGED <<graph, stage, steps, g_maruko_running, hup, http, hist>>

Configure ==
    \/ StartHttpd \/ SysInit \/ Start("sensor") \/ MarukoSensorUnread
    \/ Start("vif") \/ ConfigureIsp \/ IspFails \/ ConfigureScl \/ SclFails \/ MarukoStartVenc
    \/ \E l \in DOMAIN BindEnds : Bind(l)
    \/ LoadIspBin \/ OutputInit \/ BindControls

TakeDownGraph ==
    \/ OutputTeardown \/ UnbindLink("unbind_vif_isp", "vif_isp")
    \/ UnbindLink("unbind_isp_scl", "isp_scl")
    \/ UnbindLink("unbind_scl_venc", "scl_venc")
    \/ StopVenc \/ StopVpe \/ Stop("stop_vif", "vif") \/ Stop("stop_sensor", "sensor")
    \/ StopHttpd \/ SysExit

MarukoStep ==
    \/ Configure \/ TakeDownGraph
    \/ RunBegins \/ LoopTop \/ CheckReinit \/ Turn \/ Rebuild \/ RebuildFails
    \/ MarukoExit

MarukoNext ==
    \/ MarukoStep \/ TurnFails \/ MarukoSigterm \/ Hangup
    \/ RequestArrives \/ RequestEnds
    \/ \E m \in {1, 2} : RequestRestart(m)

MarukoSpec == MarukoInit /\ [][MarukoNext]_marukoVars

\* The main thread is scheduled and the driver's calls return.
MarukoFairSpec == MarukoSpec /\ WF_marukoVars(MarukoStep)

-------------------------------------------------------------------------------
(* Properties.                                                             *)

\* Every variable has its type, and the flags the teardown goes by say what is
\* there after any failure but one: a sensor that fails once enabled has no flag.
MarukoTypeOK ==
    /\ units \subseteq Vpe \cup {"sys", "sensor", "vif", "venc", "venc_dev"}
    /\ binds \subseteq DOMAIN BindEnds /\ created \subseteq Vpe
    /\ started \subseteq {"sensor", "vif", "venc", "venc_dev", "vpe"} \cup DOMAIN BindEnds
    /\ LET flagged == {"sensor", "vif", "venc", "venc_dev"}
           unflagged == IF sensorLeft THEN {"sensor"} ELSE {}
       IN  started \cap flagged = (units \cap flagged) \ unflagged
    /\ started \cap DOMAIN BindEnds = binds
    /\ "vpe" \in started => Vpe \subseteq units
    /\ stage \in {"init", "top", "check", "turn", "teardown", "rebuild", "down", "exited"}
    /\ {output, g_mi_isp_initialized, httpd, controls, serving} \subseteq BOOLEAN
    /\ {rebuilding, lostIsp, sensorLeft} \subseteq BOOLEAN
    /\ g_maruko_running \in {0, 1} /\ hup \in {0, 1} /\ reinit \in 0..2

\* Nothing is stopped while it is bound.
BoundUnitsExist == \A l \in binds : BindEnds[l] \subseteq units

\* The loop runs on a whole graph, also one rebuilt around a kept ISP channel.
GraphIsWhole ==
    stage \in {"top", "check", "turn"} =>
        /\ Vpe \cup {"sys", "sensor", "vif", "venc"} \subseteq units
        /\ binds = DOMAIN BindEnds /\ output /\ g_mi_isp_initialized

\* The ISP channel outlives the 3A framework, unless ISP or SCL fail in a rebuild.
IspKept == lostIsp => rebuilding /\ stage \in {"down", "exited"}

\* A request finds the encoder its callbacks work on, with two exceptions: while a
\* rebuild is under way, which nothing tells it of, and once the server was stopped,
\* which does not wait for a request that is being served.
ControlsFindEncoder == serving /\ controls => "venc" \in units \/ rebuilding \/ ~httpd

\* The process leaves only the units that are never destroyed, and a sensor that
\* failed once it was enabled.
UnitsGone ==
    stage = "exited" =>
        /\ units \subseteq {"isp_dev", "isp_chn", "scl_dev"}
                               \cup (IF sensorLeft THEN {"sensor"} ELSE {})
        /\ binds = {} /\ ~output /\ ~httpd

\* Through failing steps, rebuilds and the exit: what is bound exists, the loop has
\* all it needs, the ISP channel survives but for a failing ISP or SCL, a request
\* finds the encoder but during a rebuild and the final teardown, and the exit cleans
\* up but for a sensor that failed once enabled.
GraphSound ==
    BoundUnitsExist /\ GraphIsWhole /\ IspKept /\ ControlsFindEncoder /\ UnitsGone

\* SIGTERM ends the process, unless it comes between the loop's test of
\* g_maruko_running and the end of a teardown: the rebuild that follows sets
\* g_maruko_running again.
TermHonoured ==
    g_maruko_running = 0 /\ stage \in {"init", "top", "turn", "down"} ~> stage = "exited"
===============================================================================
