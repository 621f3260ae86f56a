------------------------------- MODULE DualControl ------------------------------
(***************************************************************************)
(* The second encoder channel and the three threads that set it: the main  *)
(* thread creates it, registers it with the HTTP API, and tears it down;   *)
(* the HTTP thread reads and writes its attributes; the recording thread   *)
(* lowers its bitrate when the card cannot keep up.  g_dual_mutex covers   *)
(* the registration and the HTTP handlers; the recording thread takes no   *)
(* lock.  A driver's attribute record is read whole and written whole.     *)
(***************************************************************************)
EXTENDS Integers, FiniteSetsExt

CONSTANTS Configured,   \* record.bitrate, kbps
          Rates,        \* bitrates a request may ask for
          Seconds,      \* GOP lengths a request may ask for, tenths of a second
          Fps,          \* frames per second of the channel
          MaxRequests   \* bound on HTTP requests

ASSUME DualAssumption ==
    /\ Configured \in Nat \ {0}
    /\ Rates \subseteq Nat \ {0}
    /\ Seconds \subseteq Nat \ {0} /\ Fps \in Nat \ {0} /\ MaxRequests \in Nat

VARIABLES
    chan,       \* the driver's channel: exists, bitrate, gop, threshold
    dual,       \* g_dual
    mutex,      \* holder of g_dual_mutex
    mpc, started,                      \* main thread
    hpc, req, hattr, requests,         \* HTTP thread
    running, recpc, attr, kbps, pressure,  \* recording thread
    tuned,      \* history: a request has set the bitrate
    parted,     \* history: what one thread set without the other's knowing, or undid
                \* by writing back what it had read before: the driver's "bitrate" and
                \* "gop" against g_dual, its "threshold" against its bitrate, its
                \* bitrate against the back-off's own ("kbps")
    strays      \* history: threads that called the driver without a channel

main == <<mpc, started>>
http == <<hpc, req, hattr, requests>>
rec  == <<recpc, attr, kbps, pressure>>
hist == <<tuned, parted>>
vars == <<chan, dual, mutex, main, http, running, rec, hist, strays>>

Threshold(b) == b + Max({b \div 5, 512})
Frames(s)    == Max({1, (s * Fps * 2 + 10) \div 20})
Floor        == Max({1000, Configured \div 4})
Gone         == [exists |-> FALSE, bitrate |-> 0, gop |-> 0, threshold |-> 0]
Requests     == [kind : {"status", "idr", "bad"}, value : {0}]
                \cup [kind : {"bitrate"}, value : Rates]
                \cup [kind : {"gop"}, value : Seconds]

\* Thread t calls the driver on the channel.
Calls(t) == strays' = strays \cup (IF chan.exists THEN {} ELSE {t})

Init ==
    /\ chan = Gone
    /\ \E lost \in BOOLEAN :
           dual = [active |-> FALSE, bitrate |-> 0, gop |-> 0, frame_lost |-> lost]
    /\ mutex = "free" /\ mpc = "create" /\ started = FALSE
    /\ hpc = "idle" /\ req = [kind |-> "status", value |-> 0]
    /\ hattr = Gone /\ requests = 0
    /\ running = FALSE /\ recpc = "off" /\ attr = Gone /\ kbps = 0 /\ pressure = 0
    /\ tuned = FALSE /\ parted = {} /\ strays = {}

-------------------------------------------------------------------------------
(* Main thread.                                                            *)

\* start_dual, with a GOP of a second; a failing threshold is only warned of.
Create ==
    /\ mpc = "create" /\ mpc' = "thread"
    /\ \E t \in {0} \cup (IF dual.frame_lost THEN {Threshold(Configured)} ELSE {}) :
           /\ chan' = [exists |-> TRUE, bitrate |-> Configured, gop |-> Fps, threshold |-> t]
           /\ parted' = IF t = 0 THEN {"threshold"} ELSE {}
    /\ UNCHANGED <<dual, mutex, started, http, running, rec, tuned, strays>>

\* The channel cannot be created or bound: recording falls back to mirror mode.
CreateFails ==
    /\ mpc = "create" /\ mpc' = "gone"
    /\ UNCHANGED <<chan, dual, mutex, started, http, running, rec, hist, strays>>

\* A thread that cannot be created leaves the channel without a consumer, and
\* registered.
StartThread ==
    /\ mpc = "thread" /\ mpc' = "register"
    /\ \/ running' = TRUE /\ started' = TRUE /\ recpc' = "top" /\ kbps' = Configured
       \/ UNCHANGED <<running, started, recpc, kbps>>
    /\ UNCHANGED <<chan, dual, mutex, http, attr, pressure, hist, strays>>

Register ==
    /\ mpc = "register" /\ mutex = "free" /\ mpc' = "run"
    /\ dual' = [active |-> TRUE, bitrate |-> Configured, gop |-> Fps,
                frame_lost |-> dual.frame_lost]
    /\ UNCHANGED <<chan, mutex, started, http, running, rec, hist, strays>>

\* A reinit or the end of the process; nothing starts the channel again.
Teardown ==
    /\ mpc = "run" /\ mpc' = "join" /\ running' = FALSE
    /\ UNCHANGED <<chan, dual, mutex, started, http, rec, hist, strays>>

Joined == started => recpc = "exited"

\* The thread is joined, the channel unbound, drained and stopped.
StopRecv ==
    /\ mpc = "join" /\ Joined /\ mpc' = "unregister" /\ started' = FALSE
    /\ Calls("main")
    /\ UNCHANGED <<chan, dual, mutex, http, running, rec, hist>>

\* Mutant of Unregister: without the lock.
UnregisterUnlocked ==
    /\ mpc = "unregister" /\ mpc' = "destroy"
    /\ dual' = [dual EXCEPT !.active = FALSE]
    /\ UNCHANGED <<chan, mutex, started, http, running, rec, hist, strays>>

Unregister ==
    /\ mpc = "unregister" /\ mutex = "free" /\ mpc' = "destroy"
    /\ dual' = [dual EXCEPT !.active = FALSE]
    /\ UNCHANGED <<chan, mutex, started, http, running, rec, hist, strays>>

Destroy ==
    /\ mpc = "destroy" /\ mpc' = "gone"
    /\ chan' = Gone /\ Calls("main")
    /\ UNCHANGED <<dual, mutex, started, http, running, rec, hist>>

MainStep == Create \/ CreateFails \/ StartThread \/ Register \/ StopRecv \/ Unregister \/ Destroy

-------------------------------------------------------------------------------
(* HTTP thread.                                                            *)

other == <<main, running, rec>>

Request(r) ==
    /\ hpc = "idle" /\ requests < MaxRequests
    /\ req' = r /\ requests' = requests + 1 /\ hpc' = "lock"
    /\ UNCHANGED <<chan, dual, mutex, hattr, other, hist, strays>>

\* Mutant of Answer: an error is returned with the mutex held.
AnswerLocked == hpc' = "idle" /\ mutex' = mutex

Answer == hpc' = "idle" /\ mutex' = "free"

\* No channel, a request that does not parse, or the status: answered with what
\* is found under the lock.
HttpAnswer ==
    /\ hpc = "locked" /\ Answer
    /\ ~dual.active \/ req.kind \in {"status", "bad"}
    /\ UNCHANGED <<chan, dual, req, hattr, requests, other, hist, strays>>

Lock ==
    /\ hpc = "lock" /\ mutex = "free"
    /\ mutex' = "http" /\ hpc' = "locked" /\ hattr' = Gone
    /\ UNCHANGED <<chan, dual, req, requests, other, hist, strays>>

\* An IDR is requested after the mutex is released.
IdrUnlock ==
    /\ hpc = "locked" /\ dual.active /\ req.kind = "idr"
    /\ mutex' = "free" /\ hpc' = "idr"
    /\ UNCHANGED <<chan, dual, req, hattr, requests, other, hist, strays>>

RequestIdr ==
    /\ hpc = "idr" /\ hpc' = "idle" /\ Calls("idr")
    /\ UNCHANGED <<chan, dual, mutex, req, hattr, requests, other, hist>>

\* MI_VENC_GetChnAttr, which may fail like every call of the driver.
HttpGet ==
    /\ hpc = "locked" /\ dual.active /\ req.kind \in {"bitrate", "gop"}
    /\ Calls("http")
    /\ \/ Answer /\ UNCHANGED hattr
       \/ hattr' = chan /\ hpc' = "set" /\ UNCHANGED mutex
    /\ UNCHANGED <<chan, dual, req, requests, other, hist>>

SetFails ==
    /\ hpc = "set" /\ Answer /\ Calls("http")
    /\ UNCHANGED <<chan, dual, req, hattr, requests, other, hist>>

\* Mutant of Attributes: a record that was not read first.
Unread(a) == [Gone EXCEPT !.bitrate = a.bitrate]

\* What SetChnAttr takes over of a record: all but the threshold, which is a
\* parameter of its own.
Attributes(a) == a

Put(a) == [Attributes(a) EXCEPT !.exists = chan.exists, !.threshold = chan.threshold]

\* Fields of the driver that writing a back changes for the other thread.
Undone(a) == {f \in {"bitrate", "gop"} : a[f] # chan[f]}

SetGop ==
    /\ hpc = "set" /\ req.kind = "gop" /\ Calls("http")
    /\ chan' = Put([hattr EXCEPT !.gop = Frames(req.value)])
    /\ dual' = [dual EXCEPT !.gop = Frames(req.value)]
    /\ parted' = (parted \ {"gop"}) \cup
                 (IF "bitrate" \in Undone(hattr) THEN {"bitrate", "threshold", "kbps"} ELSE {})
    /\ Answer
    /\ UNCHANGED <<req, hattr, requests, other, tuned>>

SetBitrate ==
    /\ hpc = "set" /\ req.kind = "bitrate" /\ Calls("http")
    /\ chan' = Put([hattr EXCEPT !.bitrate = req.value])
    /\ hpc' = "threshold" /\ tuned' = TRUE
    /\ parted' = (parted \ {"bitrate"}) \cup {"kbps"} \cup (Undone(hattr) \ {"bitrate"})
    /\ UNCHANGED <<dual, mutex, req, hattr, requests, other>>

\* The threshold of dropped frames follows the bitrate, where it is switched on.
SetThreshold ==
    /\ hpc = "threshold"
    /\ IF dual.frame_lost
       THEN Calls("http") /\ chan' = [chan EXCEPT !.threshold = Threshold(req.value)]
       ELSE UNCHANGED <<chan, strays>>
    /\ dual' = [dual EXCEPT !.bitrate = req.value] /\ Answer
    /\ parted' = IF "bitrate" \in parted THEN parted ELSE parted \ {"threshold"}
    /\ UNCHANGED <<req, hattr, requests, other, tuned>>

\* The bitrate is set then, and g_dual keeps the old one.
ThresholdFails ==
    /\ hpc = "threshold" /\ dual.frame_lost /\ Calls("http") /\ Answer
    /\ parted' = parted \cup {"bitrate", "threshold"}
    /\ UNCHANGED <<chan, dual, req, hattr, requests, other, tuned>>

HttpStep == Lock \/ HttpAnswer \/ IdrUnlock \/ RequestIdr \/ HttpGet \/ SetFails
            \/ SetGop \/ SetBitrate \/ SetThreshold \/ ThresholdFails

-------------------------------------------------------------------------------
(* Recording thread: a frame at a time, the pressure once a second.        *)

notRec == <<dual, mutex, main, http, running>>

Top ==
    /\ recpc = "top" /\ recpc' = IF running THEN "frame" ELSE "exited"
    /\ attr' = Gone
    /\ UNCHANGED <<chan, notRec, kbps, pressure, hist, strays>>

\* No frame, or one that is written before the second is over.
Frame ==
    /\ recpc = "frame" /\ recpc' = "top" /\ Calls("rec")
    /\ UNCHANGED <<chan, notRec, attr, kbps, pressure, hist>>

Behind(total, waiting) == waiting > (total * 4) \div 5

\* The frame that ends a second; the third one under pressure lowers the bitrate.
SecondOver(total, waiting) ==
    /\ recpc = "frame" /\ Calls("rec")
    /\ LET p == IF Behind(total, waiting) THEN pressure + 1 ELSE 0
       IN  IF p >= 3 THEN pressure' = 0 /\ recpc' = "get"
                     ELSE pressure' = p /\ recpc' = "top"
    /\ UNCHANGED <<chan, notRec, attr, kbps, hist>>

\* Mutant of Reduced: the wrong way round.
Raised == (kbps * 10) \div 9

Reduced == Max({(kbps * 9) \div 10, Floor})

GetAttr ==
    /\ recpc = "get" /\ Calls("rec")
    /\ \/ recpc' = "top" /\ UNCHANGED attr
       \/ attr' = chan /\ recpc' = IF Reduced = kbps THEN "top" ELSE "set"
    /\ UNCHANGED <<chan, notRec, kbps, pressure, hist>>

ReduceFails ==
    /\ recpc = "set" /\ recpc' = "top" /\ Calls("rec")
    /\ UNCHANGED <<chan, notRec, attr, kbps, pressure, hist>>

\* Neither g_dual nor the threshold follows.
Reduce ==
    /\ recpc = "set" /\ recpc' = "top" /\ Calls("rec")
    /\ chan' = Put([attr EXCEPT !.bitrate = Reduced]) /\ kbps' = Reduced
    /\ parted' = (parted \ {"kbps"}) \cup {"bitrate", "threshold"} \cup Undone(attr)
    /\ UNCHANGED <<notRec, attr, pressure, tuned>>

RecStep == \/ Top \/ Frame \/ GetAttr \/ ReduceFails \/ Reduce
           \/ \E total \in 1..Fps : \E waiting \in 0..total : SecondOver(total, waiting)

Next == MainStep \/ Teardown \/ HttpStep \/ RecStep \/ \E r \in Requests : Request(r)

Spec == Init /\ [][Next]_vars

\* The threads are scheduled and the driver's calls return; requests and the
\* teardown come when they come.
Fairness == WF_vars(MainStep) /\ WF_vars(HttpStep) /\ WF_vars(RecStep)

FairSpec == Spec /\ Fairness

-------------------------------------------------------------------------------
(* Properties.                                                             *)

Records == [exists : BOOLEAN, bitrate : Nat, gop : Nat, threshold : Nat]

RecordType ==
    /\ chan \in Records /\ hattr \in Records /\ attr \in Records
    /\ dual \in [active : BOOLEAN, bitrate : Nat, gop : Nat, frame_lost : BOOLEAN]

ControlType ==
    /\ mutex = IF hpc \in {"locked", "set", "threshold"} THEN "http" ELSE "free"
    /\ mpc \in {"create", "thread", "register", "run", "join", "unregister", "destroy", "gone"}
    /\ hpc \in {"idle", "lock", "locked", "idr", "set", "threshold"}
    /\ recpc \in {"off", "top", "frame", "get", "set", "exited"}
    /\ req \in Requests /\ requests \in 0..MaxRequests
    /\ kbps \in Nat /\ pressure \in 0..2
    /\ started \in BOOLEAN /\ running \in BOOLEAN
    /\ tuned \in BOOLEAN
    /\ parted \subseteq {"bitrate", "threshold", "gop", "kbps"}

\* Every variable of the channel and the three threads has its type; the HTTP
\* thread holds the mutex exactly between its lock and its answer.
TypeOK == RecordType /\ ControlType

\* The driver is called on a channel that exists, by whichever thread, through
\* every teardown: the recording thread is joined and the handlers are shut out
\* before the channel goes.  An IDR request alone may come too late.
CallsHaveChannel == strays \subseteq {"idr"}

\* Between requests what /dual/status reports is what the driver runs with, the
\* threshold goes with the bitrate, and the back-off knows the bitrate it lowers.
\* What they may part by is this, each until it is set again: the back-off sets the
\* bitrate alone; a request sets the bitrate and its threshold call fails, after
\* which g_dual keeps the old bitrate; a request sets it, which the back-off does
\* not hear of; and a thread that writes the attributes back undoes what the other
\* set since it had read them.  A threshold may also fail when the channel is made.
ChannelAsReported ==
    mutex = "free" /\ dual.active =>
        /\ "gop" \notin parted => chan.gop = dual.gop
        /\ "bitrate" \notin parted => chan.bitrate = dual.bitrate
        /\ dual.frame_lost /\ "threshold" \notin parted => chan.threshold = Threshold(chan.bitrate)
        /\ "kbps" \notin parted /\ recpc # "off" => chan.bitrate = kbps

\* The back-off lowers the bitrate and stays above its floor, whatever changes of
\* GOP and bitrate it meets, unless a request had set the bitrate, of which the
\* thread does not know, or less than the floor is configured.
BackoffLowers ==
    [][recpc = "set" /\ chan' # chan /\ hpc' = hpc =>
           \/ tuned \/ Configured < Floor
           \/ chan'.bitrate \in Floor..chan.bitrate]_vars

\* Once begun, a teardown gets through: no handler and no recording thread keeps
\* the main thread waiting for the mutex or for the join.
TeardownEnds == mpc = "join" ~> mpc = "gone"
===============================================================================
