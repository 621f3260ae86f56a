------------------------------- MODULE LiveSet --------------------------------
(***************************************************************************)
(* /api/v1/set with live fields.  One request may name several; the fields *)
(* fall into groups, each group has callbacks that reach into the encoder, *)
(* the bind between VPE and encoder and the output, and each callback may  *)
(* fail half-way.  A group that fails is rolled back, and the groups       *)
(* before it in reverse order; roll-back uses the same callbacks and may   *)
(* fail as well.  All of it runs on the HTTP thread under g_cfg_mutex.     *)
(* The fields here are those whose callbacks reach each other's state;     *)
(* bitrate stands for every group with one callback of its own.            *)
(***************************************************************************)
EXTENDS Integers, SequencesExt

CONSTANTS Bitrates, Rates, Gops, Servers,  \* values a request may give a field
          SensorFps,                       \* sensor_fps of the control context
          BootFps,                         \* rate the sensor accepted at the start
          HighestFps,                      \* rates apply_fps takes
          IdleFps,                         \* STAR6E_CONTROLS_IDLE_FPS
          Boot,                            \* configurations venc starts with
          MaxRequests                      \* bound on requests

Config == [bitrate : Bitrates, fps : Rates, gop : Gops, server : Servers,
           enabled : {0, 1}]
Fields == {"bitrate", "fps", "gop", "server", "enabled"}

NoServer == ""    \* none configured

ASSUME LiveSetAssumption ==
    /\ Boot \subseteq Config
    /\ Rates \subseteq Nat /\ SensorFps \in Nat \ {0} /\ BootFps \in 1 .. SensorFps
    /\ IdleFps \in 1 .. SensorFps /\ HighestFps \in Nat /\ IdleFps <= HighestFps
    /\ MaxRequests \in Nat
    /\ \A c \in Boot : c.fps # 0 /\ (c.server = NoServer => c.enabled = 0)

VARIABLES
    scene,       \* 1: scene_threshold > 0, the GOP is the scene detector's
    cfg,         \* *g_cfg
    dev,         \* driver and pipeline state the callbacks write
    pc, requests,
    touched, new, old, actual,  \* the request: fields it names, configurations
    groups, done,  \* groups still to do; groups applied, latest first
    calls,       \* callbacks of the current group still to make
    rolling, incomplete,        \* rolling back; a roll-back failed
    status,      \* of the last response
    unsure       \* history: some response said "rollback incomplete"

request  == <<touched, new, old, groups, done, rolling>>
liveVars == <<scene, cfg, dev, pc, requests, request, actual, calls, incomplete,
              status, unsure>>

\* live_group_for_key.
GroupOf(f) == CASE f = "bitrate" -> "bitrate"
                [] f \in {"fps", "gop"} -> "timing"
                [] OTHER -> "outgoing"

Lesser(a, b) == IF a < b THEN a ELSE b

\* pipeline_common_gop_frames: frames per GOP from its length in seconds.
Frames(gop, fps) ==
    LET n == gop * (IF fps = 0 THEN 30 ELSE fps) IN IF n < 1 THEN 1 ELSE n
GopFrames(c) == Frames(c.gop, c.fps)

\* What star6e_pipeline_start and the start-up controls make of c.  The start
\* counts the GOP, and limits the encoder, by the rate the sensor accepted;
\* the bind and the callbacks go by the mode's maximum, and the callbacks count
\* the GOP by the configured rate.  fresh: what is still as the start left it.
Booted(c) ==
    [bitrate |-> c.bitrate, gop |-> Frames(c.gop, BootFps), server |-> c.server,
     output_enabled |-> c.enabled,
     bind |-> IF c.enabled = 1 THEN Lesser(c.fps, SensorFps) ELSE IdleFps,
     rate |-> IF c.enabled = 1 THEN Lesser(c.fps, BootFps) ELSE IdleFps,
     stored_fps |-> IF c.enabled = 1 THEN 0 ELSE c.fps,
     fresh |-> IF c.enabled = 1 THEN {"gop", "rate"} ELSE {"gop"}]

LiveInit ==
    /\ scene \in {0, 1}
    /\ cfg \in Boot
    /\ dev = Booted(cfg)
    /\ pc = "idle" /\ requests = 0
    /\ touched = {} /\ new = cfg /\ old = cfg /\ actual = cfg
    /\ groups = <<>> /\ done = <<>> /\ calls = <<>>
    /\ rolling = FALSE /\ incomplete = FALSE /\ status = "none" /\ unsure = FALSE

-------------------------------------------------------------------------------
(* Callbacks: what each may return, and leave behind.                      *)

Ok(d)   == [rc |-> 0, dev |-> d]
Bad(d)  == [rc |-> -1, dev |-> d]

\* The attribute may be set and the frame-lost threshold refused after it.
ApplyBitrate(d) ==
    LET e == [d EXCEPT !.bitrate = cfg.bitrate] IN {Ok(e), Bad(e), Bad(d)}

ApplyGop(d) ==
    {Ok([d EXCEPT !.gop = GopFrames(cfg), !.fresh = @ \ {"gop"}]), Bad(d)}

\* Mutant of ApplyFps: the sensor's limit is forgotten.
ApplyFpsUnlimited(d, f) ==
    IF f = 0 THEN {Bad(d)}
    ELSE {Ok([d EXCEPT !.bind = f, !.rate = f, !.fresh = @ \ {"rate"}]), Bad(d)}

\* VPE and encoder are unbound and bound at the new rate; a bind that fails is
\* made at the full rate, or not at all; the encoder's rate comes last.
ApplyFps(d, f) ==
    LET r == Lesser(f, SensorFps)
    IN  IF f = 0 \/ f > HighestFps THEN {Bad(d)}
        ELSE {Ok([d EXCEPT !.bind = r, !.rate = r, !.fresh = @ \ {"rate"}]),
              Bad([d EXCEPT !.bind = r]),
              Bad([d EXCEPT !.bind = SensorFps]), Bad([d EXCEPT !.bind = 0])}

\* Enabling needs a server, brings the stored rate back and asks for an IDR.
EnableOutput(d) ==
    LET f == IF d.stored_fps # 0 THEN d.stored_fps ELSE cfg.fps
        off(e) == Bad([e EXCEPT !.output_enabled = 0])
    IN  IF cfg.server = NoServer THEN {Bad(d)}
        ELSE UNION {IF o.rc = 0 THEN {o, off(o.dev)} ELSE {off(o.dev)} :
                    o \in ApplyFps([d EXCEPT !.output_enabled = 1], f)}

DisableOutput(d) ==
    LET e == [d EXCEPT !.output_enabled = 0, !.stored_fps = cfg.fps]
    IN  {IF o.rc = 0 THEN o ELSE Bad([o.dev EXCEPT !.output_enabled = 1]) :
         o \in ApplyFps(e, IdleFps)}

\* An address that does not parse changes nothing; a socket that cannot be
\* configured is lost; the IDR may fail after the change.
ApplyServer(d) ==
    LET e == [d EXCEPT !.server = cfg.server]
    IN  IF cfg.server = NoServer THEN {Bad(d)}
        ELSE {Ok(e), Bad(e), Bad(d), Bad([d EXCEPT !.server = "closed"])}

Outcomes(c) ==
    CASE c = "bitrate" -> ApplyBitrate(dev)
      [] c = "fps"     -> ApplyFps(dev, cfg.fps)
      [] c = "gop"     -> ApplyGop(dev)
      [] c = "server"  -> ApplyServer(dev)
      [] c = "enabled" -> IF cfg.enabled = 1 THEN EnableOutput(dev) ELSE DisableOutput(dev)

\* The callbacks of a group, in order: an output is pointed at its server
\* before it is enabled and after it is disabled.
Calls(g, c) ==
    CASE g = "bitrate" -> <<"bitrate">>
      [] g = "timing" ->
             (IF "fps" \in touched THEN <<"fps">> ELSE <<>>)
                 \o (IF scene = 0 THEN <<"gop">> ELSE <<>>)
      [] g = "outgoing" ->
             LET call(f) == IF f \in touched THEN <<f>> ELSE <<>>
             IN  IF c.enabled = 1 THEN call("server") \o call("enabled")
                                  ELSE call("enabled") \o call("server")

-------------------------------------------------------------------------------
(* apply_live_set_query.                                                   *)

\* Bounds: MaxRequests, and no request after an incomplete roll-back was
\* reported, for DeviceAgrees promises nothing from there on.
Explored == requests < MaxRequests /\ ~unsure

\* Not found, not live, twice, invalid, or with no callback: nothing happens.
Reject ==
    /\ pc = "idle" /\ Explored
    /\ requests' = requests + 1 /\ status' = "rejected"
    /\ UNCHANGED <<scene, cfg, dev, pc, request, actual, calls, incomplete, unsure>>

\* Groups are taken in the order in which the request first names them.  With
\* the scene detector on, the GOP has no callback.
Request(fields, wanted, order) ==
    /\ ~(scene = 1 /\ "gop" \in fields)
    /\ requests' = requests + 1
    /\ touched' = fields
    /\ old' = cfg /\ actual' = cfg
    /\ new' = wanted
    /\ groups' = order /\ done' = <<>> /\ calls' = <<>>
    /\ rolling' = FALSE /\ incomplete' = FALSE /\ status' = "none"
    /\ pc' = "next"
    /\ UNCHANGED <<scene, cfg, dev, unsure>>

\* build_live_group_config: only the fields of group g that the request names.
Merge(base, updates, g) ==
    [f \in Fields |-> IF f \in touched /\ GroupOf(f) = g THEN updates[f] ELSE base[f]]

\* The group's values are committed before its callbacks see them.
BeginGroup ==
    /\ pc = "next" /\ groups # <<>>
    /\ cfg' = Merge(actual, IF rolling THEN old ELSE new, Head(groups))
    /\ calls' = Calls(Head(groups), cfg')
    /\ pc' = "call"
    /\ UNCHANGED <<scene, dev, requests, request, actual, incomplete, status, unsure>>

CallSucceeds ==
    /\ pc = "call" /\ calls # <<>>
    /\ \E o \in Outcomes(Head(calls)) : o.rc = 0 /\ dev' = o.dev
    /\ calls' = Tail(calls)
    /\ UNCHANGED <<scene, cfg, pc, requests, request, actual, incomplete, status, unsure>>

\* Mutant of RollBack: the group that failed half-way is not rolled back.
RollBackOthers == done

\* The groups to roll back: the one that failed, then the applied ones.
RollBack == <<Head(groups)>> \o done

\* The first failure starts the roll-back; a failure during it is passed over.
CallFails ==
    /\ pc = "call" /\ calls # <<>>
    /\ \E o \in Outcomes(Head(calls)) : o.rc # 0 /\ dev' = o.dev
    /\ cfg' = actual
    /\ rolling' = TRUE
    /\ groups' = IF rolling THEN Tail(groups) ELSE RollBack
    /\ incomplete' = rolling
    /\ calls' = <<>> /\ pc' = "next"
    /\ UNCHANGED <<scene, requests, touched, new, old, done, actual, status, unsure>>

\* Mutant of GroupDone: a roll-back is not recorded.
GroupDoneForward ==
    /\ pc = "call" /\ calls = <<>>
    /\ actual' = IF rolling THEN actual ELSE cfg
    /\ groups' = Tail(groups) /\ done' = <<Head(groups)>> \o done
    /\ pc' = "next"
    /\ UNCHANGED <<scene, cfg, dev, requests, touched, new, old, rolling, calls,
                   incomplete, status, unsure>>

GroupDone ==
    /\ pc = "call" /\ calls = <<>>
    /\ actual' = cfg
    /\ groups' = Tail(groups) /\ done' = <<Head(groups)>> \o done
    /\ pc' = "next"
    /\ UNCHANGED <<scene, cfg, dev, requests, touched, new, old, rolling, calls,
                   incomplete, status, unsure>>

\* The locals of apply_live_set_query end with it.
Respond ==
    /\ pc = "next" /\ groups = <<>>
    /\ cfg' = actual
    /\ status' = IF ~rolling THEN "ok" ELSE IF incomplete THEN "incomplete" ELSE "failed"
    /\ unsure' = (unsure \/ incomplete)
    /\ pc' = "idle"
    /\ touched' = {} /\ new' = actual /\ old' = actual /\ done' = <<>>
    /\ rolling' = FALSE /\ incomplete' = FALSE
    /\ UNCHANGED <<scene, dev, requests, actual, groups, calls>>

LiveNext ==
    \/ Reject \/ BeginGroup \/ CallSucceeds \/ CallFails \/ GroupDone \/ Respond
    \/ /\ pc = "idle" /\ Explored
       /\ \E fields \in SUBSET Fields \ {{}} :
         \E wanted \in {c \in Config : \A f \in Fields \ fields : c[f] = cfg[f]},
            order \in SetToSeqs({GroupOf(f) : f \in fields}) :
                Request(fields, wanted, order)

LiveSpec == LiveInit /\ [][LiveNext]_liveVars

-------------------------------------------------------------------------------
(* Properties.                                                             *)

Groups == {"bitrate", "timing", "outgoing"}

FrameCounts == {Frames(g, f) : g \in Gops, f \in Rates \cup {BootFps}}

Device == [bitrate : Bitrates, gop : FrameCounts,
           server : Servers \cup {"closed"}, output_enabled : {0, 1},
           bind : 0 .. SensorFps, rate : 0 .. SensorFps, stored_fps : Rates \cup {0},
           fresh : SUBSET {"gop", "rate"}]

\* Every variable has its type; no rate is above the sensor's.
LiveTypeOK ==
    /\ {cfg, new, old, actual} \subseteq Config
    /\ dev \in Device /\ scene \in {0, 1} /\ requests \in 0 .. MaxRequests
    /\ pc \in {"idle", "next", "call"} /\ touched \subseteq Fields
    /\ groups \in Seq(Groups) /\ done \in Seq(Groups) /\ calls \in Seq(Fields)
    /\ {rolling, incomplete, unsure} \subseteq BOOLEAN
    /\ status \in {"none", "rejected", "ok", "failed", "incomplete"}

\* The response tells the truth: after success every field named has its new
\* value and after a failure with complete roll-back the configuration is the
\* one from before, whichever callback failed and in whichever order.
AllOrNothing ==
    [][Respond => /\ status' = "ok" => cfg' = new
                  /\ status' = "failed" => cfg' = old]_liveVars

\* Between requests, as long as no roll-back was reported incomplete, the
\* hardware runs what the configuration says.  Until a request touches the GOP,
\* even one that is rolled back, it is counted by the rate the sensor accepted,
\* and by the configured rate from then on.  Until a request touches the rate,
\* the encoder is limited by what the sensor accepted and the bind by its mode;
\* from then on the two are the same, and may also be the rate stored when the
\* output was last disabled or, while it is, idle.
DeviceAgrees ==
    pc = "idle" /\ ~unsure =>
        /\ dev.bitrate = cfg.bitrate /\ dev.server = cfg.server
        /\ dev.output_enabled = cfg.enabled
        /\ scene = 0 =>
              dev.gop = Frames(cfg.gop, IF "gop" \in dev.fresh THEN BootFps ELSE cfg.fps)
        /\ IF "rate" \in dev.fresh
           THEN dev.rate = Lesser(cfg.fps, BootFps) /\ dev.bind = Lesser(cfg.fps, SensorFps)
           ELSE /\ dev.rate = dev.bind
                /\ dev.rate \in {Lesser(cfg.fps, SensorFps), Lesser(dev.stored_fps, SensorFps)}
                      \cup (IF dev.output_enabled = 0 THEN {IdleFps} ELSE {})
===============================================================================
