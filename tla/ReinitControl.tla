----------------------------- MODULE ReinitControl ----------------------------
(***************************************************************************)
(* How a configuration change reaches the pipeline.  The HTTP thread       *)
(* writes restart-required fields to the shared VencConfig and raises      *)
(* g_reinit to 2; /api/v1/restart and SIGHUP raise it to 1 (reload from    *)
(* disk).  The streaming loop reads the flag, waits 200 ms, reads it       *)
(* again, clears it and rebuilds the pipeline from the VencConfig.         *)
(* g_cfg_mutex is held by the HTTP thread only: the loop reads and writes  *)
(* the same VencConfig without it, so every field is read and written in a *)
(* step of its own.  Requests for live fields, the frame rate among them,  *)
(* are applied without a reinit and are not in this model.                 *)
(***************************************************************************)
EXTENDS Integers

CONSTANTS InFile,      \* fields venc.json names
          Unfiled,     \* fields it leaves at their defaults
          Values,      \* values a request or the file may give a field
          MaxFps,      \* maxFps of the sensor mode
          SensorFps,   \* rate the sensor was started at
          FileStates,  \* what the file may be: "ok", "absent", "bad"
          MaxSets, MaxReloads, MaxFileEdits  \* bounds on requests and file edits

Fields  == InFile \cup Unfiled
Default == -1

ASSUME FieldsAssumption ==
    /\ InFile \cap Unfiled = {} /\ "fps" \in Fields
    /\ Values \subseteq Nat /\ MaxFps \in Values
    /\ SensorFps \in Values /\ 0 < SensorFps /\ SensorFps <= MaxFps
    /\ FileStates \subseteq {"ok", "absent", "bad"} /\ "ok" \in FileStates
    /\ MaxSets \in Nat /\ MaxReloads \in Nat /\ MaxFileEdits \in Nat

VARIABLES
    disk, root,        \* venc.json, its state and values; the values a reload parsed
    mem,               \* ctx->vcfg, which is *g_cfg
    pipe,              \* the values the running pipeline was built from
    g_reinit, g_running,
    mpc, mode, todo,   \* streaming loop: program counter, reinit_mode, fields to read
    hpc, hmode, new, left,  \* HTTP thread: program counter, mode to request, new_cfg,
                       \* fields to copy
    spc,               \* SIGHUP handler, which runs on the streaming thread
    sets, reloads, edits,
    asked,             \* history: a reload was requested and no load came after it
                       \* yet, or it met a set's request in the flag
    torn               \* history: the configuration was copied half reloaded, or no file found

main  == <<mpc, mode, todo>>
http  == <<hpc, hmode, new, left>>
count == <<sets, reloads, edits>>
hist  == <<asked, torn>>
vars  == <<disk, root, mem, pipe, g_reinit, g_running, main, http, spc, count, hist>>

Config == [Fields -> Values \cup {Default}]
Disk   == [state : FileStates, val : [InFile -> Values]]

Defaults == [f \in Fields |-> Default]

\* What the pipeline makes of a field: the frame rate is limited to the
\* sensor's, and 0 asks for just that.
Used(f, v) == IF f = "fps" /\ (v = 0 \/ v > SensorFps) THEN SensorFps ELSE v

Init ==
    /\ disk \in [state : {"ok"}, val : [InFile -> Values]]
    /\ root = disk.val
    /\ mem = [f \in Fields |-> IF f \in InFile THEN disk.val[f] ELSE Default]
    /\ pipe = [f \in Fields |-> Used(f, mem[f])]
    /\ g_reinit = 0 /\ g_running = 1
    /\ mpc = "loop" /\ mode = 0 /\ todo = {}
    /\ hpc = "idle" /\ hmode = 0 /\ new = Defaults /\ left = {}
    /\ spc = "idle"
    /\ sets = 0 /\ reloads = 0 /\ edits = 0 /\ asked = "no" /\ torn = FALSE

-------------------------------------------------------------------------------
(* HTTP thread: process_restart_set_query and handle_restart.              *)

\* Under g_cfg_mutex: the whole configuration is copied and a field of it, one
\* that requires a restart, is staged; its own copy would be lost.
SetCopy(f, v) ==
    /\ hpc = "idle" /\ sets < MaxSets /\ f # "fps"
    /\ sets' = sets + 1
    /\ new' = [new EXCEPT ![f] = v] /\ left' = Fields \ {f}
    /\ hpc' = "copy"
    /\ UNCHANGED <<disk, root, mem, pipe, g_reinit, g_running, main, hmode, spc, reloads,
                   edits, hist>>

Reloading == mpc \in {"defaults", "parse", "load"}

CopyField(f) ==
    /\ hpc = "copy" /\ f \in left
    /\ new' = [new EXCEPT ![f] = mem[f]]
    /\ left' = IF left = {f} THEN Fields ELSE left \ {f}
    /\ hpc' = IF left = {f} THEN "commit" ELSE "copy"
    /\ torn' = (torn \/ Reloading)
    /\ UNCHANGED <<disk, root, mem, pipe, g_reinit, g_running, main, hmode, spc, count,
                   asked>>

\* *g_cfg = new_cfg, all fields.
SetCommit(f) ==
    /\ hpc = "commit" /\ f \in left
    /\ mem' = [mem EXCEPT ![f] = new[f]]
    /\ left' = left \ {f} /\ hmode' = 2
    /\ hpc' = IF left = {f} THEN "check" ELSE "commit"
    /\ new' = IF left = {f} THEN Defaults ELSE new
    /\ UNCHANGED <<disk, root, pipe, g_reinit, g_running, main, spc, count, hist>>

Restart ==
    /\ hpc = "idle" /\ reloads < MaxReloads
    /\ reloads' = reloads + 1 /\ asked' = "yes"
    /\ hmode' = 1 /\ hpc' = "check"
    /\ UNCHANGED <<disk, root, mem, pipe, g_reinit, g_running, main, new, left, spc, sets, edits,
                   torn>>

\* A reload that is in the flag when a set's request comes, or comes when that
\* is in the flag, gives way to it: 2 is the greater number.
GivesWay == asked' = IF asked = "yes" THEN "gave_way" ELSE asked

\* venc_api_request_reinit: the load and the store are separate.
RequestCheck ==
    /\ hpc = "check"
    /\ \/ hmode > g_reinit /\ hpc' = "store" /\ hmode' = hmode
       \/ hmode <= g_reinit /\ hpc' = "idle" /\ hmode' = 0
    /\ IF hmode < g_reinit THEN GivesWay ELSE UNCHANGED asked
    /\ UNCHANGED <<disk, root, mem, pipe, g_reinit, g_running, main, new, left, spc,
                   count, torn>>

RequestStore ==
    /\ hpc = "store"
    /\ g_reinit' = hmode
    /\ hpc' = "idle" /\ hmode' = 0
    /\ IF hmode > g_reinit /\ g_reinit # 0 THEN GivesWay ELSE UNCHANGED asked
    /\ UNCHANGED <<disk, root, mem, pipe, g_running, main, new, left, spc, count, torn>>

-------------------------------------------------------------------------------
(* Signals, delivered to the streaming thread: it stands still meanwhile.  *)

Hangup ==
    /\ spc = "idle" /\ mpc # "stopped" /\ reloads < MaxReloads
    /\ reloads' = reloads + 1 /\ asked' = "yes"
    /\ spc' = "check"
    /\ UNCHANGED <<disk, root, mem, pipe, g_reinit, g_running, main, http, sets, edits, torn>>

HangupCheck ==
    /\ spc = "check"
    /\ spc' = IF 1 > g_reinit THEN "store" ELSE "idle"
    /\ IF 1 < g_reinit THEN GivesWay ELSE UNCHANGED asked
    /\ UNCHANGED <<disk, root, mem, pipe, g_reinit, g_running, main, http, count, torn>>

HangupStore ==
    /\ spc = "store"
    /\ g_reinit' = 1
    /\ spc' = "idle"
    /\ UNCHANGED <<disk, root, mem, pipe, g_running, main, http, count, hist>>

\* SIGINT or SIGTERM.
Terminate ==
    /\ g_running = 1
    /\ g_running' = 0
    /\ UNCHANGED <<disk, root, mem, pipe, g_reinit, main, http, spc, count, hist>>

\* Somebody edits venc.json, spoils it or takes it away.
EditFile(d) ==
    /\ edits < MaxFileEdits
    /\ d.state # "ok" => d.val = disk.val
    /\ edits' = edits + 1 /\ disk' = d
    /\ UNCHANGED <<root, mem, pipe, g_reinit, g_running, main, http, spc, sets, reloads, hist>>

-------------------------------------------------------------------------------
(* Streaming thread: star6e_runner_run, handle_reinit, restart_pipeline.   *)

At(pc) == mpc = pc /\ spc = "idle"

\* Mutant of LoopTop: the pipeline is restarted whether or not it was asked for.
LoopTopUnguarded ==
    /\ At("loop")
    /\ g_running = 1 /\ mode' = g_reinit /\ mpc' = "nap"
    /\ UNCHANGED <<disk, root, mem, pipe, g_reinit, g_running, todo, http, spc, count, hist>>

\* Top of the loop; with no reinit pending a frame is processed, which does
\* not touch the configuration.
LoopTop ==
    /\ At("loop")
    /\ \/ g_running = 0 /\ mpc' = "stopped" /\ UNCHANGED mode
       \/ g_running = 1 /\ g_reinit # 0 /\ mode' = g_reinit /\ mpc' = "nap"
    /\ UNCHANGED <<disk, root, mem, pipe, g_reinit, g_running, todo, http, spc, count, hist>>

\* A frame that cannot be processed ends the loop.
StreamFails ==
    /\ At("loop") /\ g_running = 1 /\ g_reinit = 0
    /\ mpc' = "stopped"
    /\ UNCHANGED <<disk, root, mem, pipe, g_reinit, g_running, mode, todo, http, spc, count,
                   hist>>

\* After the 200 ms wait the flag is read again.
Reread ==
    /\ At("nap")
    /\ mode' = IF g_reinit # 0 THEN g_reinit ELSE mode
    /\ mpc' = "clear"
    /\ UNCHANGED <<disk, root, mem, pipe, g_reinit, g_running, todo, http, spc, count, hist>>

Clear ==
    /\ At("clear")
    /\ g_reinit' = 0
    /\ mpc' = IF mode = 1 THEN "defaults" ELSE "clamp_check"
    /\ todo' = IF mode = 1 THEN Fields ELSE todo
    /\ mode' = 0
    /\ UNCHANGED <<disk, root, mem, pipe, g_running, http, spc, count, hist>>

ReloadDefaults(f) ==
    /\ At("defaults") /\ f \in todo
    /\ mem' = [mem EXCEPT ![f] = Default]
    /\ todo' = todo \ {f}
    /\ mpc' = IF todo = {f} THEN "parse" ELSE "defaults"
    /\ UNCHANGED <<disk, root, pipe, g_reinit, g_running, mode, http, spc, count, hist>>

\* An unreadable or malformed file ends the loop; a missing one does not.
ReloadFile ==
    /\ At("parse")
    /\ asked' = "no" /\ torn' = (torn \/ disk.state = "absent")
    /\ mpc' = CASE disk.state = "bad" -> "stopped"
                 [] disk.state = "absent" -> "clamp_check"
                 [] disk.state = "ok" -> "load"
    /\ root' = disk.val /\ todo' = InFile
    /\ UNCHANGED <<disk, mem, pipe, g_reinit, g_running, mode, http, spc, count>>

\* A field the file does not name keeps the value it has.
ReloadField(f) ==
    /\ At("load") /\ f \in todo
    /\ mem' = [mem EXCEPT ![f] = root[f]]
    /\ todo' = todo \ {f}
    /\ mpc' = IF todo = {f} THEN "clamp_check" ELSE "load"
    /\ UNCHANGED <<disk, root, pipe, g_reinit, g_running, mode, http, spc, count, hist>>

ClampCheck ==
    /\ At("clamp_check")
    /\ mpc' = IF mem["fps"] > MaxFps THEN "clamp_store" ELSE "rebuild"
    /\ todo' = Fields
    /\ UNCHANGED <<disk, root, mem, pipe, g_reinit, g_running, mode, http, spc, count, hist>>

ClampStore ==
    /\ At("clamp_store")
    /\ mem' = [mem EXCEPT !["fps"] = MaxFps]
    /\ mpc' = "rebuild"
    /\ UNCHANGED <<disk, root, pipe, g_reinit, g_running, mode, todo, http, spc, count, hist>>

\* star6e_pipeline_reinit reads the fields one after the other.
RebuildField(f) ==
    /\ At("rebuild") /\ f \in todo
    /\ pipe' = [pipe EXCEPT ![f] = Used(f, mem[f])]
    /\ todo' = todo \ {f}
    /\ UNCHANGED <<disk, root, mem, g_reinit, g_running, mpc, mode, http, spc, count, hist>>

RebuildFails ==
    /\ At("rebuild")
    /\ mpc' = "stopped"
    /\ UNCHANGED <<disk, root, mem, pipe, g_reinit, g_running, mode, todo, http, spc, count,
                   hist>>

\* Mutant of RebuildDone: the flag is cleared after the rebuild once more.
RebuildDoneClearing ==
    /\ At("rebuild") /\ todo = {}
    /\ mpc' = "loop" /\ g_reinit' = 0
    /\ UNCHANGED <<disk, root, mem, pipe, g_running, mode, todo, http, spc, count, hist>>

RebuildDone ==
    /\ At("rebuild") /\ todo = {}
    /\ mpc' = "loop"
    /\ UNCHANGED <<disk, root, mem, pipe, g_reinit, g_running, mode, todo, http, spc, count,
                   hist>>

-------------------------------------------------------------------------------
HttpStep == \/ RequestCheck \/ RequestStore
            \/ \E f \in Fields : CopyField(f) \/ SetCommit(f)
SignalStep == HangupCheck \/ HangupStore
MainStep == \/ LoopTop \/ Reread \/ Clear \/ ReloadFile
            \/ ClampCheck \/ ClampStore \/ RebuildDone
            \/ \E f \in Fields : ReloadDefaults(f) \/ ReloadField(f) \/ RebuildField(f)

Requests == \/ Restart \/ Hangup \/ Terminate
            \/ \E f \in Fields, v \in Values : SetCopy(f, v)
            \/ \E d \in Disk : EditFile(d)

Failures == StreamFails \/ RebuildFails

Next == HttpStep \/ SignalStep \/ MainStep \/ Failures \/ Requests

\* Three threads that are scheduled; nothing makes a request come.
Fairness == WF_vars(HttpStep) /\ WF_vars(SignalStep) /\ WF_vars(MainStep)

Spec     == Init /\ [][Next]_vars
FairSpec == Spec /\ Fairness

-------------------------------------------------------------------------------
(* Properties.                                                             *)

DataType ==
    /\ disk \in Disk /\ root \in [InFile -> Values]
    /\ mem \in Config /\ pipe \in Config /\ new \in Config

ControlType ==
    /\ g_reinit \in {0, 1, 2} /\ g_running \in {0, 1}
    /\ mpc \in {"loop", "nap", "clear", "defaults", "parse", "load", "clamp_check",
                "clamp_store", "rebuild", "stopped"}
    /\ mode \in {0, 1, 2} /\ (mpc \in {"nap", "clear"} => mode # 0)
    /\ hpc \in {"idle", "copy", "commit", "check", "store"} /\ hmode \in {0, 1, 2}
    /\ (hpc \in {"check", "store"} => hmode # 0)
    /\ spc \in {"idle", "check", "store"} /\ asked \in {"no", "yes", "gave_way"}

FieldType == todo \subseteq Fields /\ left \subseteq Fields /\ torn \in BOOLEAN

\* Every variable has its type; a mode is only acted on, or asked for, if
\* there is one.
TypeOK == DataType /\ ControlType /\ FieldType

Quiet == mpc = "loop" /\ g_running = 1 /\ g_reinit = 0 /\ hpc = "idle" /\ spc = "idle"

\* When no request is under way the pipeline runs the configuration that the
\* API reports: a change accepted while a reinit was going on is not forgotten.
AppliedWhenQuiet == Quiet => pipe = [f \in Fields |-> Used(f, mem[f])]

\* Every requested reload (SIGHUP, /api/v1/restart) does load the file, also if
\* it is asked for in the middle of another one or of a rebuild, unless it met a
\* set's request in the flag: the comment in venc_api_request_reinit gives the
\* reload priority, its comparison gives it to the set, and the file is not read.
ReloadHonoured == asked = "yes" ~> (asked # "yes" \/ mpc = "stopped")

\* A field that the file names never runs at its built-in default, unless the file
\* is gone or a request copied a part of the configuration between a reload's first
\* default and the last field of its file: such a request publishes defaults that
\* nobody asked for.
DefaultsStayInside == Quiet /\ ~torn => \A f \in InFile : pipe[f] # Default

\* At rest the pipeline runs what was last configured, whatever overlapped.
QuietPipeline == AppliedWhenQuiet /\ DefaultsStayInside
===============================================================================
