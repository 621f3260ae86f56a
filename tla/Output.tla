-------------------------------- MODULE Output ---------------------------------
(***************************************************************************)
(* The datagram outputs and the threads that share them.  The main thread  *)
(* builds and tears down the video output, its sidecar and the dual        *)
(* stream's output; it sends frames, as the recording thread does on the   *)
(* dual stream's socket and the audio thread on the video's or on one of   *)
(* its own; the HTTP thread points the video output at another server.  No *)
(* mutex covers them: transport_gen is meant as a sequence lock, odd while *)
(* a write goes on, and the control context keeps requests out of a        *)
(* pipeline that is being rebuilt.  Descriptors are the kernel's: a number *)
(* that was closed is given out again.                                     *)
(***************************************************************************)
EXTENDS Integers, FiniteSetsExt

CONSTANTS Uris,        \* servers a request may name: [type, addr, ok]
          Boot,        \* servers that may be configured at start-up
          Fds,         \* descriptor numbers of the process
          MaxApplies,  \* bound on server requests
          MaxReinits   \* bound on rebuilds of the pipeline

ASSUME OutputAssumption ==
    /\ Boot \subseteq Uris /\ \A u \in Boot : u.ok
    /\ Fds \subseteq Nat /\ 0 \in Fds
    /\ MaxApplies \in Nat /\ MaxReinits \in Nat
    /\ \A u \in Uris : /\ u.type \in {"udp", "unix", "shm", "none"} /\ u.ok \in BOOLEAN
                       /\ u.addr \notin {"none", "fallback"}

VARIABLES
    file,        \* what each descriptor number stands for
    gen, out,    \* transport_gen; the video output's socket and address
    cfg,         \* outgoing.server
    wpc, uri, old, rolling, conn, applies,    \* HTTP thread
    mpc, server, ctl, mh, side, dual, reinits, stopping,  \* main thread
    port_override, aud, rpc, target, cache,   \* audio; 0: share the video socket
    recpc, rh,   \* recording thread
    racy,        \* history: threads whose send overlapped a server change
    overlap,     \* history: a server change overlapped the read in the cache
    straddle,    \* history: a server change was going on at a controls_reset
    early,       \* history: the output was built for the server of a request that
                 \* had not reached apply_server yet
    unsettled    \* history: the last change failed after the old socket was lost,
                 \* or was refused when the output had been built early for it

http   == <<uri, old, rolling, conn, applies>>
main   == <<server, ctl, side, dual, reinits, stopping>>
audio  == <<port_override, aud, cache>>
rec    == <<recpc, rh>>
hist   == <<racy, overlap, straddle, early, unsettled>>
vars   == <<file, gen, out, cfg, wpc, http, mpc, mh, main, audio, rpc, target, rec, hist>>

sockets  == <<file, gen, out>>
notHttp  == <<mpc, mh, main, audio, rpc, target, rec>>
notMain  == <<cfg, wpc, http, audio, rpc, target, rec>>
notAudio == <<cfg, wpc, http, mpc, mh, main, rec>>
notRec   == <<cfg, wpc, http, mpc, mh, main, audio, rpc, target>>

None   == -1
Closed == [handle |-> None, transport |-> "udp", dst |-> "none", dst_len |-> "none"]
NoDual == [handle |-> None, dst_len |-> "none"]
NoCopy == [handle |-> None, dst |-> "none"]
SocketTypes == {"udp", "unix"}
Empty  == [valid |-> FALSE, gen |-> 0, target |-> NoCopy]

\* Descriptor 0 is the standard input; the lowest free number is given out.
FreeFds   == {f \in Fds : file[f] = "free"}
Lowest    == Min(FreeFds)
Open(o)   == [file EXCEPT ![Lowest] = o]
Close(f)  == IF f = None THEN file ELSE [file EXCEPT ![f] = "free"]

Init ==
    /\ file = [f \in Fds |-> IF f = 0 THEN "std" ELSE "free"]
    /\ gen = 0 /\ out = Closed
    /\ cfg \in Boot /\ uri = cfg /\ old = cfg /\ server = cfg
    /\ wpc = "idle" /\ rolling = FALSE /\ conn = None /\ applies = 0
    /\ mpc = "init" /\ ctl = FALSE /\ mh = None /\ side = None
    /\ dual = NoDual /\ reinits = 0 /\ stopping = FALSE
    /\ port_override \in {0, 1} /\ aud = None
    /\ rpc = "off" /\ target = NoCopy /\ cache = Empty
    /\ recpc = "off" /\ rh = None
    /\ racy = {} /\ overlap = FALSE /\ straddle = FALSE
    /\ early = FALSE /\ unsettled = FALSE

-------------------------------------------------------------------------------
(* HTTP thread: connections, and apply_server for a request of them.       *)

\* A server change is going on: transport_gen is odd.
Busy == wpc \notin {"idle", "call"}

Accept ==
    /\ wpc = "idle" /\ conn = None /\ FreeFds # {}
    /\ conn' = Lowest /\ file' = Open("conn")
    /\ UNCHANGED <<gen, out, cfg, wpc, uri, old, rolling, applies, notHttp, hist>>

Hangup ==
    /\ wpc = "idle" /\ conn # None
    /\ file' = Close(conn) /\ conn' = None
    /\ UNCHANGED <<gen, out, cfg, wpc, uri, old, rolling, applies, notHttp, hist>>

\* The new server is in the configuration before the callback runs.
SetServer(u) ==
    /\ wpc = "idle" /\ conn # None /\ applies < MaxApplies
    /\ applies' = applies + 1
    /\ old' = cfg /\ cfg' = u /\ uri' = u /\ rolling' = FALSE
    /\ wpc' = "call" /\ early' = FALSE
    /\ UNCHANGED <<sockets, conn, notHttp, racy, overlap, straddle, unsettled>>

\* Mutant of GiveUp: the configuration keeps the server that failed.
GiveUpKeepsServer ==
    IF rolling THEN wpc' = "idle" /\ rolling' = FALSE /\ UNCHANGED <<cfg, uri, old>>
    ELSE uri' = old /\ rolling' = TRUE /\ wpc' = "call" /\ UNCHANGED <<cfg, old>>

\* A failed request puts the old server back and applies it; a failure of that
\* ends the request.
GiveUp ==
    IF rolling THEN wpc' = "idle" /\ rolling' = FALSE /\ UNCHANGED <<cfg, uri, old>>
    ELSE cfg' = old /\ uri' = old /\ rolling' = TRUE /\ wpc' = "call" /\ old' = old

\* No pipeline bound, one that writes to a ring, or a server that is none or
\* cannot be switched to live.
Refused == ~ctl \/ out.transport = "shm" \/ uri.type \notin SocketTypes

ApplyRefused ==
    /\ wpc = "call" /\ Refused
    /\ unsettled' = (unsettled \/ (early /\ ~rolling))
    /\ GiveUp
    /\ UNCHANGED <<sockets, conn, applies, notHttp, racy, overlap, straddle, early>>

\* Mutant of NextGen: the generation stands still.
SameGen(g) == g

NextGen(g) == g + 1

ApplyBegin ==
    /\ wpc = "call" /\ ~Refused
    /\ gen' = NextGen(gen)
    /\ wpc' = IF out.handle = None \/ out.transport # uri.type THEN "close" ELSE "clear"
    /\ racy' = racy \cup (IF mpc = "send" THEN {"main"} ELSE {})
                    \cup (IF rpc \notin {"off", "idle"} THEN {"audio"} ELSE {})
    /\ overlap' = (overlap \/ rpc \notin {"off", "idle", "send"})
    /\ UNCHANGED <<file, out, cfg, http, notHttp, straddle, early, unsettled>>

\* close_socket_if_open, before another kind of socket is opened and after an
\* address that does not parse.
CloseSocket ==
    /\ wpc \in {"close", "unfilled"}
    /\ file' = Close(out.handle)
    /\ wpc' = IF wpc = "close" THEN "forget" ELSE "forget_unfilled"
    /\ UNCHANGED <<gen, out, cfg, http, notHttp, hist>>

\* Mutant of ForgetSocket: the socket is closed, its number kept.
KeepNumber ==
    /\ wpc \in {"forget", "forget_unfilled"}
    /\ wpc' = IF wpc = "forget" THEN "open" ELSE "failed"
    /\ UNCHANGED <<sockets, cfg, http, notHttp, hist>>

ForgetSocket ==
    /\ wpc \in {"forget", "forget_unfilled"}
    /\ out' = [out EXCEPT !.handle = None]
    /\ wpc' = IF wpc = "forget" THEN "open" ELSE "failed"
    /\ UNCHANGED <<file, gen, cfg, http, notHttp, hist>>

OpenNew ==
    /\ wpc = "open"
    /\ \/ /\ FreeFds # {}
          /\ file' = Open("net")
          /\ out' = [out EXCEPT !.handle = Lowest, !.transport = uri.type]
          /\ wpc' = "clear"
       \/ wpc' = "failed" /\ UNCHANGED <<file, out>>
    /\ UNCHANGED <<gen, cfg, http, notHttp, hist>>

\* output_socket_fill_destination clears the address before it fills it in, but
\* for a socket name that is too long; an address it refuses costs the socket.
ClearDestination ==
    /\ wpc = "clear"
    /\ out' = IF uri.ok \/ uri.type = "udp" THEN [out EXCEPT !.dst = "none"] ELSE out
    /\ wpc' = IF uri.ok THEN "fill" ELSE "unfilled"
    /\ UNCHANGED <<file, gen, cfg, http, notHttp, hist>>

FillDestination ==
    /\ wpc = "fill"
    /\ out' = [out EXCEPT !.dst = uri.addr, !.dst_len = uri.type]
    /\ wpc' = "done"
    /\ UNCHANGED <<file, gen, cfg, http, notHttp, hist>>

\* The change is made; the request ends, unless the IDR request fails.
ApplyDone ==
    /\ wpc = "done"
    /\ gen' = NextGen(gen)
    /\ \/ wpc' = "idle" /\ unsettled' = FALSE /\ rolling' = FALSE /\ old' = uri /\ UNCHANGED <<cfg, uri>>
       \/ unsettled' = ~rolling /\ GiveUp
    /\ UNCHANGED <<file, out, conn, applies, notHttp, racy, overlap, straddle, early>>

\* Mutant of ApplyFailed: an early return that leaves the generation odd.
ApplyFailedEarlyReturn ==
    /\ wpc = "failed"
    /\ unsettled' = TRUE /\ GiveUp
    /\ UNCHANGED <<sockets, conn, applies, notHttp, racy, overlap, straddle, early>>

ApplyFailed ==
    /\ wpc = "failed"
    /\ gen' = NextGen(gen)
    /\ unsettled' = TRUE /\ GiveUp
    /\ UNCHANGED <<file, out, conn, applies, notHttp, racy, overlap, straddle, early>>

HttpStep == \/ Accept \/ Hangup \/ ApplyRefused \/ ApplyBegin \/ CloseSocket
            \/ ForgetSocket \/ OpenNew \/ ClearDestination \/ FillDestination \/ ApplyDone \/ ApplyFailed
            \/ \E u \in Uris : SetServer(u)

-------------------------------------------------------------------------------
(* Main thread: build, run, tear down and rebuild.                         *)

\* star6e_output_init clears the whole output, the generation with it, and opens
\* a socket, creates a ring or, without a server, does neither; a socket, a ring
\* or an address that cannot be had ends the process.
OutputInit ==
    /\ mpc = "init"
    /\ server' = cfg /\ early' = (wpc = "call" /\ ~rolling) /\ unsettled' = FALSE
    /\ \/ /\ cfg.type \in SocketTypes /\ FreeFds # {}
          /\ file' = Open("net")
          /\ out' = [Closed EXCEPT !.handle = Lowest, !.transport = cfg.type]
          /\ gen' = 0 /\ mpc' = "fill"
       \/ /\ cfg.type = "shm"
          /\ out' = [Closed EXCEPT !.transport = "shm"] /\ gen' = 2
          /\ mpc' = "side" /\ UNCHANGED file
       \/ /\ out' = Closed /\ gen' = 0
          /\ mpc' = IF cfg.type = "none" THEN "side" ELSE "exit"
          /\ UNCHANGED file
    /\ UNCHANGED <<notMain, mh, ctl, side, dual, reinits, stopping, racy, overlap,
                   straddle>>

OutputFill ==
    /\ mpc = "fill"
    /\ IF server.ok
       THEN /\ out' = [out EXCEPT !.dst = server.addr, !.dst_len = server.type]
            /\ gen' = gen + 2 /\ mpc' = "side"
       ELSE mpc' = "exit" /\ UNCHANGED <<out, gen>>
    /\ UNCHANGED <<file, notMain, mh, main, hist>>

\* star6e_video_init: without its socket the sidecar is off.
SidecarInit ==
    /\ mpc = "side"
    /\ IF FreeFds # {} THEN side' = Lowest /\ file' = Open("side")
                       ELSE side' = None /\ UNCHANGED file
    /\ mpc' = "audio"
    /\ UNCHANGED <<gen, out, notMain, mh, server, ctl, dual, reinits, stopping, hist>>

\* Audio of its own port needs its own socket, and is off without; audio that
\* shares the video's is off if that is a ring.
AudioInit ==
    /\ mpc = "audio"
    /\ \/ /\ port_override = 0 /\ UNCHANGED <<file, aud>>
          /\ rpc' = IF out.transport = "shm" THEN rpc ELSE "idle"
       \/ port_override = 1 /\ FreeFds # {} /\ rpc' = "idle"
          /\ aud' = Lowest /\ file' = Open("audio")
       \/ port_override = 1 /\ FreeFds = {} /\ UNCHANGED <<file, aud, rpc>>
    /\ mpc' = "bind"
    /\ UNCHANGED <<gen, out, cfg, wpc, http, mh, main, port_override, cache, target,
                   rec, hist>>

\* star6e_controls_bind.  The dual encoder is started once, at start-up.
ControlsBind ==
    /\ mpc = "bind"
    /\ ctl' = TRUE
    /\ mpc' = IF reinits = 0 THEN "dual" ELSE "loop"
    /\ UNCHANGED <<sockets, notMain, mh, server, side, dual, reinits, stopping, hist>>

\* The dual encoder is allocated cleared: unless its stream has an output that
\* was initialised, its handle is number 0.  Its stream's output has a sidecar
\* too, whose number the model does not keep, for nothing closes it.
StartDual ==
    /\ mpc = "dual" /\ mpc' = "loop"
    /\ \/ UNCHANGED <<file, dual, recpc>>
       \/ dual' = [NoDual EXCEPT !.handle = 0] /\ UNCHANGED <<file, recpc>>
       \/ /\ Cardinality(FreeFds) > 1
          /\ dual' = [handle |-> Lowest, dst_len |-> "udp"]
          /\ file' = [Open("dual") EXCEPT ![Min(FreeFds \ {Lowest})] = "dualside"]
          /\ recpc' = "idle"
    /\ UNCHANGED <<gen, out, cfg, wpc, http, mh, server, ctl, side, reinits, stopping,
                   audio, rpc, target, rh, hist>>

\* A packet of a frame: the handle is read, and sent on.
MainLoad ==
    /\ mpc = "loop" /\ out.handle # None /\ out.dst_len # "none"
    /\ mh' = out.handle /\ mpc' = "send"
    /\ racy' = IF Busy THEN racy \cup {"main"} ELSE racy \ {"main"}
    /\ UNCHANGED <<sockets, notMain, main, overlap, straddle, early, unsettled>>

MainSend ==
    /\ mpc = "send" /\ mpc' = "loop"
    /\ mh' = None /\ racy' = racy \ {"main"}
    /\ UNCHANGED <<sockets, notMain, main, overlap, straddle, early, unsettled>>

\* Mutant of ControlsReset: requests still reach the pipeline.
NoControlsReset ==
    /\ mpc = "loop"
    /\ \/ reinits < MaxReinits /\ reinits' = reinits + 1 /\ stopping' = FALSE
       \/ stopping' = TRUE /\ UNCHANGED reinits
    /\ straddle' = (straddle \/ Busy)
    /\ mpc' = "join_audio"
    /\ UNCHANGED <<sockets, notMain, mh, server, ctl, side, dual, racy, overlap,
                   early, unsettled>>

\* star6e_runtime_restart_pipeline, or the end of the run.
ControlsReset ==
    /\ mpc = "loop"
    /\ \/ reinits < MaxReinits /\ reinits' = reinits + 1 /\ stopping' = FALSE
       \/ stopping' = TRUE /\ UNCHANGED reinits
    /\ ctl' = FALSE
    /\ straddle' = (straddle \/ Busy)
    /\ mpc' = "join_audio"
    /\ UNCHANGED <<sockets, notMain, mh, server, side, dual, racy, overlap, early,
                   unsettled>>

JoinAudio ==
    /\ mpc = "join_audio" /\ rpc \in {"off", "idle"}
    /\ rpc' = "off" /\ cache' = Empty /\ overlap' = FALSE /\ target' = NoCopy
    /\ racy' = racy \ {"audio"}
    /\ file' = Close(aud) /\ aud' = None
    /\ mpc' = "close"
    /\ UNCHANGED <<gen, out, cfg, wpc, http, mh, main, port_override, rec, straddle,
                   early, unsettled>>

\* star6e_output_teardown: the descriptor first, then the fields.
CloseOutput ==
    /\ mpc = "close" /\ mpc' = "clear"
    /\ file' = Close(out.handle)
    /\ UNCHANGED <<gen, out, notMain, mh, main, hist>>

ClearOutput ==
    /\ mpc = "clear" /\ mpc' = "close_dual"
    /\ out' = Closed
    /\ UNCHANGED <<file, gen, notMain, mh, main, hist>>

\* The dual output goes before the thread that sends on it has been joined.
CloseDual ==
    /\ mpc = "close_dual" /\ mpc' = "join_rec"
    /\ file' = Close(dual.handle)
    /\ dual' = [dual EXCEPT !.handle = None, !.dst_len = "none"]
    /\ UNCHANGED <<gen, out, notMain, mh, server, ctl, side, reinits, stopping, hist>>

\* Mutant of JoinRec: the thread is told to stop and not waited for.
DontJoinRec ==
    /\ mpc = "join_rec"
    /\ dual' = NoDual
    /\ mpc' = IF stopping THEN "exit" ELSE "reset"
    /\ UNCHANGED <<sockets, notMain, mh, server, ctl, side, reinits, stopping, hist>>

JoinRec ==
    /\ mpc = "join_rec" /\ recpc \in {"off", "idle"}
    /\ recpc' = "off" /\ dual' = NoDual
    /\ mpc' = IF stopping THEN "exit" ELSE "reset"
    /\ UNCHANGED <<sockets, cfg, wpc, http, mh, server, ctl, side, reinits, stopping,
                   audio, rpc, target, rh, hist>>

\* Mutant of OutputReset: the sidecar's state is cleared and not closed.
OutputResetOnly ==
    /\ mpc = "reset" /\ mpc' = "init"
    /\ gen' = 0 /\ out' = Closed /\ side' = None
    /\ UNCHANGED <<file, notMain, mh, server, ctl, dual, reinits, stopping, hist>>

\* star6e_output_reset and star6e_video_reset.
OutputReset ==
    /\ mpc = "reset" /\ mpc' = "init"
    /\ gen' = 0 /\ out' = Closed
    /\ file' = Close(side) /\ side' = None
    /\ UNCHANGED <<notMain, mh, server, ctl, dual, reinits, stopping, hist>>

MainStep == \/ OutputInit \/ OutputFill \/ SidecarInit \/ AudioInit \/ ControlsBind
            \/ StartDual \/ MainLoad \/ MainSend \/ ControlsReset \/ JoinAudio
            \/ CloseOutput \/ ClearOutput \/ CloseDual \/ JoinRec \/ OutputReset

-------------------------------------------------------------------------------
(* Audio encode thread: resolve_cached_audio_target and the send.          *)

Even(g) == g % 2 = 0

Hit == cache.valid /\ cache.gen = gen /\ Even(gen)

Call == racy' = IF Busy THEN racy \cup {"audio"} ELSE racy \ {"audio"}

ResolveHit ==
    /\ rpc = "idle" /\ Hit
    /\ target' = cache.target /\ rpc' = "send"
    /\ Call
    /\ UNCHANGED <<sockets, notAudio, audio, overlap, straddle, early, unsettled>>

ResolveMiss ==
    /\ rpc = "idle" /\ ~Hit
    /\ rpc' = "check" /\ overlap' = Busy
    /\ Call
    /\ UNCHANGED <<sockets, notAudio, audio, target, straddle, early, unsettled>>

\* The shared socket must be open; the audio output's own always is.
CheckTarget ==
    /\ rpc = "check"
    /\ rpc' = IF port_override = 0 /\ (out.handle = None \/ out.dst_len = "none")
              THEN "idle" ELSE "handle"
    /\ UNCHANGED <<sockets, notAudio, audio, target, hist>>

CopyHandle ==
    /\ rpc = "handle"
    /\ target' = [target EXCEPT !.handle = IF port_override = 0 THEN out.handle ELSE aud]
    /\ rpc' = IF port_override = 0 THEN "dst" ELSE "kind"
    /\ UNCHANGED <<sockets, notAudio, audio, hist>>

\* With a port of its own audio goes to the video host if that is a UDP
\* address, and to 127.0.0.1 otherwise.
IsUdp == out.transport = "udp" /\ out.dst_len = "udp"

CheckKind ==
    /\ rpc = "kind"
    /\ \/ IsUdp /\ rpc' = "dst" /\ UNCHANGED target
       \/ ~IsUdp /\ rpc' = "store" /\ target' = [target EXCEPT !.dst = "fallback"]
    /\ UNCHANGED <<sockets, notAudio, audio, hist>>

CopyDestination ==
    /\ rpc = "dst" /\ rpc' = "store"
    /\ target' = [target EXCEPT !.dst = out.dst]
    /\ UNCHANGED <<sockets, notAudio, audio, hist>>

\* The generation is loaded again and, if even, the target is cached under it.
StoreCache ==
    /\ rpc = "store" /\ rpc' = "send"
    /\ cache' = IF Even(gen) THEN [valid |-> TRUE, gen |-> gen, target |-> target] ELSE cache
    /\ UNCHANGED <<sockets, notAudio, port_override, aud, target, hist>>

AudioSend ==
    /\ rpc = "send" /\ rpc' = "idle"
    /\ target' = NoCopy /\ racy' = racy \ {"audio"}
    /\ UNCHANGED <<sockets, notAudio, audio, overlap, straddle, early, unsettled>>

AudioStep == \/ ResolveHit \/ ResolveMiss \/ CheckTarget \/ CopyHandle \/ CheckKind
             \/ CopyDestination \/ StoreCache \/ AudioSend

-------------------------------------------------------------------------------
(* Recording thread of the dual stream.                                    *)

\* A packet needs an address and a handle.
RecLoad ==
    /\ recpc = "idle" /\ dual.handle # None /\ dual.dst_len # "none"
    /\ recpc' = "send" /\ rh' = dual.handle
    /\ UNCHANGED <<sockets, notRec, hist>>

RecSend ==
    /\ recpc = "send" /\ recpc' = "idle" /\ rh' = None
    /\ UNCHANGED <<sockets, notRec, hist>>

Next == HttpStep \/ MainStep \/ AudioStep \/ RecLoad \/ RecSend

Spec == Init /\ [][Next]_vars

-------------------------------------------------------------------------------
(* Properties.                                                             *)

Handles   == Fds \cup {None}
Addresses == {u.addr : u \in Uris} \cup {"none"}
Targets   == [handle : Handles, dst : Addresses \cup {"fallback"}]
Kinds     == {"free", "std", "conn", "net", "audio", "side", "dual", "dualside"}

DescriptorType ==
    /\ file \in [Fds -> Kinds]
    /\ conn \in Handles /\ mh \in Handles /\ side \in Handles
    /\ aud \in Handles /\ rh \in Handles
    /\ dual \in [handle : Handles, dst_len : {"udp", "none"}]

TargetType ==
    /\ out \in [handle : Handles, transport : {"udp", "unix", "shm"}, dst : Addresses,
               dst_len : {"udp", "unix", "none"}]
    /\ target \in Targets /\ cache \in [valid : BOOLEAN, gen : Nat, target : Targets]

Generation == gen \in Nat /\ (~straddle => (Busy <=> ~Even(gen)))

RequestType ==
    /\ cfg \in Uris /\ uri \in Uris /\ old \in Uris /\ server \in Uris
    /\ Busy => uri.type \in SocketTypes
    /\ mpc = "fill" => server.type \in SocketTypes
    /\ applies \in 0 .. MaxApplies /\ reinits \in 0 .. MaxReinits

ControlType ==
    /\ wpc \in {"idle", "call", "close", "forget", "open", "clear", "fill", "unfilled",
               "forget_unfilled", "failed", "done"}
    /\ mpc \in {"init", "fill", "side", "audio", "bind", "dual", "loop", "send", "join_audio",
               "close", "clear", "close_dual", "join_rec", "reset", "exit"}
    /\ rpc \in {"off", "idle", "check", "handle", "kind", "dst", "store", "send"}
    /\ recpc \in {"off", "idle", "send"} /\ port_override \in {0, 1}

FlagType ==
    /\ rolling \in BOOLEAN /\ ctl \in BOOLEAN /\ stopping \in BOOLEAN
    /\ overlap \in BOOLEAN /\ straddle \in BOOLEAN
    /\ early \in BOOLEAN /\ unsettled \in BOOLEAN
    /\ racy \subseteq {"main", "audio"}

\* Every variable of the outputs and of the four threads has its type; the
\* generation is odd exactly while a change goes on, so that audio caches no
\* target during one and can cache again after it.
TypeOK == DescriptorType /\ TargetType /\ Generation /\ RequestType /\ ControlType /\ FlagType

\* The target audio would use now if it read the output afresh.
Live == IF port_override = 0
        THEN [handle |-> out.handle, dst |-> out.dst]
        ELSE [handle |-> aud, dst |-> IF IsUdp THEN out.dst ELSE "fallback"]

InForce == rpc # "off" /\ Hit /\ ~Busy

\* A target read while no server change was going on is never used after a
\* later change, successful or failed, nor after a rebuild that no change
\* straddled: every path through apply_server moves transport_gen.
QuietCacheIsLive == InForce /\ ~overlap => cache.target = Live

\* A target is cached only if the generation did not move while it was read:
\* what later packets are sent to is the output's target of that generation.
CacheIsSnapshot == InForce => cache.target = Live

\* A packet leaves through a socket of its own stream.  A number that was
\* closed may be another file by then, but only for the packet that a server
\* change overtakes, for audio that cached a target during one, and for the
\* dual stream's last packet before its thread is joined.
SendsOwn ==
    ~straddle =>
    /\ mpc = "send" => file[mh] = "net" \/ "main" \in racy
    /\ rpc = "send" /\ target.handle # None =>
           \/ file[target.handle] = (IF port_override = 0 THEN "net" ELSE "audio")
           \/ "audio" \in racy \/ overlap
    /\ recpc = "send" => file[rh] = "dual" \/ mpc = "join_rec"

\* What a teardown or a server change closes is a descriptor of its own, or the
\* 0 of a dual encoder that has no output; unless a server change was already
\* past the control context's check when the teardown began.
ClosesOwn ==
    ~straddle =>
    /\ mpc = "close" /\ out.handle # None => file[out.handle] = "net"
    /\ mpc = "close_dual" /\ dual.handle # None =>
           file[dual.handle] = "dual" \/ (dual.handle = 0 /\ dual.dst_len = "none")
    /\ mpc = "join_audio" /\ aud # None => file[aud] = "audio"
    /\ mpc = "reset" /\ side # None => file[side] = "side"
    /\ wpc \in {"close", "unfilled"} /\ out.handle # None => file[out.handle] = "net"

\* What the output does for server u: it has a socket for it, or a ring, or none.
Serves(u) ==
    IF u.type \in SocketTypes
    THEN /\ out.dst = u.addr /\ out.transport = u.type /\ out.dst_len = u.type
         /\ out.handle # None
    ELSE out.handle = None /\ (out.transport = "shm" <=> u.type = "shm")

\* Between requests the running pipeline serves the configured server, through
\* failed changes, their roll-backs and rebuilds in any order; with a socket that
\* is open, unless a server change straddled a teardown.  Two failures leave it
\* unsettled until the next change or rebuild settles it: a change that cost the
\* socket and whose roll-back failed as well, and a change that was refused, and
\* rolled back in the configuration alone, when a rebuild had already taken its
\* server from there.
ServesConfigured ==
    mpc \in {"loop", "send"} /\ wpc = "idle" /\ ~unsettled =>
        /\ Serves(cfg)
        /\ straddle \/ out.handle = None \/ file[out.handle] = "net"

\* No descriptor outlives what it was opened for, but the dual stream's sidecar,
\* which nothing closes, and the socket of a server change that straddled a
\* teardown.
NothingLeaks ==
    mpc \in {"loop", "send"} /\ wpc = "idle" /\ ~straddle =>
        \A f \in Fds : /\ file[f] = "net" => f = out.handle
                       /\ file[f] = "audio" => f = aud
                       /\ file[f] = "side" => f = side
                       /\ file[f] = "dual" => f = dual.handle
                       /\ file[f] = "conn" => f = conn

\* Through every interleaving of requests, rebuilds and sends a descriptor number is
\* used, closed and left open by the stream it belongs to alone.
OwnDescriptors == SendsOwn /\ ClosesOwn /\ NothingLeaks
===============================================================================
