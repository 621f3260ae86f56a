------------------------------- MODULE AudioPath ------------------------------
(***************************************************************************)
(* Audio from the microphone to the network and to the recording.  The     *)
(* capture thread pushes PCM frames into cap_ring; the encode thread pops  *)
(* them, copies each into the recording's ring if one is attached, encodes *)
(* and sends; the recorder pops the recording's ring, and the streaming    *)
(* loop starts the two threads and tears them down.                        *)
(* An AudioRing operation holds the ring's mutex and is one step.  A frame *)
(* is its sequence number.                                                 *)
(***************************************************************************)
EXTENDS Integers

CONSTANTS Capacity,   \* AUDIO_RING_CAPACITY
          MaxFrames,  \* bound on captured frames
          MaxStarts   \* bound on calls of star6e_audio_init

ASSUME AudioAssumption ==
    Capacity \in Nat \ {0} /\ MaxFrames \in Nat /\ MaxStarts \in Nat

VARIABLES
    cap, rec,          \* cap_ring and ps->audio_ring
    cap_live,          \* 1 between audio_ring_init and audio_ring_destroy of cap_ring
    rec_ring,          \* 1: state->rec_ring points to rec
    running, started,
    mpc, starts,       \* streaming loop
    cpc, frames,       \* capture thread; frames captured so far
    epc, woken, entry, \* encode thread; cond signalled while it waits; its frame
    sent,              \* the last frame the encode thread has sent
    stored             \* the last frame that went into a recording

threads == <<running, started, mpc, starts>>
capture == <<cpc, frames>>
encode  == <<epc, woken, entry>>
vars    == <<cap, rec, cap_live, rec_ring, threads, capture, encode, sent, stored>>

-------------------------------------------------------------------------------
(* audio_ring.h                                                            *)

Ring == [buf : [0 .. Capacity - 1 -> 0 .. MaxFrames], head : 0 .. Capacity - 1,
         tail : 0 .. Capacity - 1, count : 0 .. Capacity, dropped : 0 .. MaxFrames]

RingInit == [buf |-> [i \in 0 .. Capacity - 1 |-> 0], head |-> 0, tail |-> 0,
             count |-> 0, dropped |-> 0]

NextIndex(i) == (i + 1) % Capacity

\* Mutant of RingPush: the count is not limited on overflow.
RingPushUncapped(r, e) ==
    [buf |-> [r.buf EXCEPT ![r.head] = e], head |-> NextIndex(r.head), tail |-> r.tail,
     count |-> r.count + 1, dropped |-> r.dropped]

\* Mutant of RingPush: on overflow the oldest frame's place is not given up.
RingPushNoDrop(r, e) ==
    [buf |-> [r.buf EXCEPT ![r.head] = e], head |-> NextIndex(r.head), tail |-> r.tail,
     count |-> IF r.count < Capacity THEN r.count + 1 ELSE r.count,
     dropped |-> IF r.count < Capacity THEN r.dropped ELSE r.dropped + 1]

\* On overflow the oldest frame is dropped.
RingPush(r, e) ==
    LET full == r.count = Capacity
    IN  [buf     |-> [r.buf EXCEPT ![r.head] = e],
         head    |-> NextIndex(r.head),
         tail    |-> IF full THEN NextIndex(r.tail) ELSE r.tail,
         count   |-> IF full THEN r.count ELSE r.count + 1,
         dropped |-> IF full THEN r.dropped + 1 ELSE r.dropped]

RingPop(r) == [r EXCEPT !.tail = NextIndex(@), !.count = @ - 1]

\* Mutant of Oldest: the frame pushed last.
Newest(r) == r.buf[(r.head + Capacity - 1) % Capacity]

Oldest(r) == r.buf[r.tail]

-------------------------------------------------------------------------------
Init ==
    /\ cap = RingInit /\ rec = RingInit /\ cap_live = 0 /\ rec_ring = 0
    /\ running = 0 /\ started = 0 /\ mpc = "loop" /\ starts = 0
    /\ cpc = "off" /\ frames = 0
    /\ epc = "off" /\ woken = 0 /\ entry = 0
    /\ sent = 0 /\ stored = 0

(* Streaming loop: start_audio_output_and_thread, star6e_audio_teardown,   *)
(* and the recorder's side of the recording ring.                          *)

\* star6e_audio_init clears the state, and with it the recording's ring.
StartCapture ==
    /\ mpc = "loop" /\ started = 0 /\ starts < MaxStarts
    /\ starts' = starts + 1
    /\ cap' = RingInit /\ rec_ring' = 0
    /\ \/ /\ cap_live' = 1 /\ running' = 1 /\ cpc' = "get" /\ mpc' = "start_encode"
       \/ UNCHANGED <<cap_live, running, cpc, mpc>>   \* pthread_create failed
    /\ UNCHANGED <<rec, started, frames, encode, sent, stored>>

StartEncode ==
    /\ mpc = "start_encode"
    /\ \/ epc' = "check" /\ started' = 1 /\ mpc' = "loop" /\ UNCHANGED running
       \/ running' = 0 /\ mpc' = "join_capture" /\ UNCHANGED <<epc, started>>
    /\ UNCHANGED <<cap, rec, cap_live, rec_ring, starts, capture, woken, entry, sent,
                   stored>>

\* Mutant of Stop: the threads are not told.
StopUntold ==
    /\ mpc = "loop" /\ started = 1
    /\ mpc' = "wake"
    /\ UNCHANGED <<cap, rec, cap_live, rec_ring, running, started, starts, capture,
                   encode, sent, stored>>

Stop ==
    /\ mpc = "loop" /\ started = 1
    /\ running' = 0 /\ mpc' = "wake"
    /\ UNCHANGED <<cap, rec, cap_live, rec_ring, started, starts, capture, encode, sent,
                   stored>>

\* audio_ring_wake, in case the encode thread is blocked.
WakeEncode ==
    /\ mpc = "wake" /\ mpc' = "join_capture"
    /\ woken' = IF epc = "waiting" THEN 1 ELSE woken
    /\ UNCHANGED <<cap, rec, cap_live, rec_ring, running, started, starts, capture, epc,
                   entry, sent, stored>>

JoinCapture ==
    /\ mpc = "join_capture" /\ cpc = "done"
    /\ cpc' = "off" /\ mpc' = "join_encode"
    /\ UNCHANGED <<cap, rec, cap_live, rec_ring, running, started, starts, frames, encode,
                   sent, stored>>

\* Mutant of JoinEncode: the ring is destroyed without waiting.
JoinEncodeNot ==
    /\ mpc = "join_encode"
    /\ mpc' = "loop" /\ cap_live' = 0 /\ started' = 0
    /\ UNCHANGED <<cap, rec, rec_ring, running, starts, capture, encode, sent, stored>>

\* The encode thread, if there was one, is joined and the ring destroyed.
JoinEncode ==
    /\ mpc = "join_encode" /\ epc \in {"done", "off"}
    /\ epc' = "off" /\ mpc' = "loop" /\ cap_live' = 0 /\ started' = 0
    /\ UNCHANGED <<cap, rec, rec_ring, running, starts, capture, woken, entry, sent,
                   stored>>

\* A recording starts or stops; the ring keeps what is in it.
AttachRecording ==
    /\ mpc = "loop"
    /\ rec_ring' = 1 - rec_ring
    /\ UNCHANGED <<cap, rec, cap_live, threads, capture, encode, sent, stored>>

\* write_video drains the recording ring: in the streaming loop, or in dual mode in
\* the recording thread, whatever the loop is at meanwhile.
StoreAudio ==
    /\ rec_ring = 1 /\ rec.count > 0
    /\ stored' = Oldest(rec) /\ rec' = RingPop(rec)
    /\ UNCHANGED <<cap, cap_live, rec_ring, threads, capture, encode, sent>>

MainStep == WakeEncode \/ JoinCapture \/ JoinEncode \/ StartEncode

-------------------------------------------------------------------------------
(* star6e_audio_capture_fn                                                 *)

\* GetFrame returned a frame; or it timed out and running is looked at again.
GetFrame ==
    /\ cpc = "get" /\ running = 1 /\ frames < MaxFrames
    /\ frames' = frames + 1 /\ cpc' = "push"
    /\ UNCHANGED <<cap, rec, cap_live, rec_ring, threads, encode, sent, stored>>

PushFrame ==
    /\ cpc = "push" /\ cpc' = "get"
    /\ cap' = RingPush(cap, frames)
    /\ woken' = IF epc = "waiting" THEN 1 ELSE woken
    /\ UNCHANGED <<rec, cap_live, rec_ring, threads, frames, epc, entry, sent, stored>>

CaptureEnds ==
    /\ cpc = "get" /\ running = 0
    /\ cpc' = "done"
    /\ UNCHANGED <<cap, rec, cap_live, rec_ring, threads, frames, encode, sent, stored>>

CaptureStep == PushFrame \/ CaptureEnds

-------------------------------------------------------------------------------
(* star6e_audio_encode_fn                                                  *)

\* Frames that are in the ring when running goes to 0 are still sent.
EncodeCheck ==
    /\ epc = "check"
    /\ epc' = IF running = 1 \/ cap.count > 0 THEN "pop" ELSE "done"
    /\ UNCHANGED <<cap, rec, cap_live, rec_ring, threads, capture, woken, entry, sent,
                   stored>>

PopFrame ==
    /\ epc = "pop" /\ cap.count > 0
    /\ entry' = Oldest(cap) /\ cap' = RingPop(cap)
    /\ epc' = "forward"
    /\ UNCHANGED <<rec, cap_live, rec_ring, threads, capture, woken, sent, stored>>

\* pthread_cond_timedwait; a wakeup leads back to the test of the count.
PopWait ==
    /\ epc = "pop" /\ cap.count = 0
    /\ woken' = 0 /\ epc' = "waiting"
    /\ UNCHANGED <<cap, rec, cap_live, rec_ring, threads, capture, entry, sent, stored>>

PopWoken ==
    /\ epc = "waiting" /\ woken = 1
    /\ epc' = "pop"
    /\ UNCHANGED <<cap, rec, cap_live, rec_ring, threads, capture, woken, entry, sent,
                   stored>>

\* 25 ms have passed.
PopTimeout ==
    /\ epc = "waiting" /\ epc' = "check"
    /\ UNCHANGED <<cap, rec, cap_live, rec_ring, threads, capture, woken, entry, sent,
                   stored>>

\* The recording's ring may be detached between this look and the push.
Forward ==
    /\ epc = "forward"
    /\ epc' = IF rec_ring = 1 THEN "record" ELSE "send"
    /\ UNCHANGED <<cap, rec, cap_live, rec_ring, threads, capture, woken, entry, sent,
                   stored>>

PushRecord ==
    /\ epc = "record" /\ epc' = "send"
    /\ rec' = RingPush(rec, entry)
    /\ UNCHANGED <<cap, cap_live, rec_ring, threads, capture, woken, entry, sent, stored>>

\* Encoded and sent, or dropped because the encoder failed.
EncodeSend ==
    /\ epc = "send" /\ epc' = "check"
    /\ sent' = entry
    /\ UNCHANGED <<cap, rec, cap_live, rec_ring, threads, capture, woken, entry, stored>>

EncodeStep == \/ EncodeCheck \/ PopFrame \/ PopWait \/ PopWoken \/ PopTimeout
              \/ Forward \/ PushRecord \/ EncodeSend

-------------------------------------------------------------------------------
Next == \/ MainStep \/ CaptureStep \/ EncodeStep
        \/ StartCapture \/ Stop \/ AttachRecording \/ StoreAudio \/ GetFrame

\* Each thread is scheduled, timed waits end, and a join returns when its
\* thread is done.
Fairness == WF_vars(MainStep) /\ WF_vars(CaptureStep) /\ WF_vars(EncodeStep)

Spec     == Init /\ [][Next]_vars
FairSpec == Spec /\ Fairness

-------------------------------------------------------------------------------
(* Properties.                                                             *)

ControlType ==
    /\ cap_live \in {0, 1} /\ rec_ring \in {0, 1} /\ running \in {0, 1}
    /\ started \in {0, 1}
    /\ mpc \in {"loop", "start_encode", "wake", "join_capture", "join_encode"}
    /\ cpc \in {"off", "get", "push", "done"} /\ frames \in 0 .. MaxFrames
    /\ epc \in {"off", "check", "pop", "waiting", "forward", "record", "send", "done"}
    /\ woken \in {0, 1} /\ entry \in 0 .. MaxFrames
    /\ sent \in 0 .. MaxFrames /\ stored \in 0 .. MaxFrames

\* Every variable has its type.
TypeOK == cap \in Ring /\ rec \in Ring /\ ControlType

Holds(r, i) == r.buf[(r.tail + i) % Capacity]

\* After any number of overflows a ring still holds its frames oldest first.
Ordered(r) == \A i, j \in 0 .. r.count - 1 : i < j => Holds(r, i) < Holds(r, j)

\* Neither ring ever gives frames out of order, whatever was dropped, and the
\* capture ring holds exactly the newest frames.
RingsOrdered ==
    /\ Ordered(cap) /\ Ordered(rec)
    /\ cap_live = 1 /\ cap.count > 0 =>
           Holds(cap, cap.count - 1) = IF cpc = "push" THEN frames - 1 ELSE frames

\* cap_ring's mutex is never used after it was destroyed: no thread outlives
\* the ring.
RingOutlivesThreads ==
    cap_live = 0 => cpc \in {"off", "done"} /\ epc \in {"off", "done"}

\* Audio is sent and recorded in the order in which it was captured, and no
\* frame is sent twice.
InOrder == [][ /\ epc = "send" /\ epc' = "check" => sent' > sent
               /\ stored' >= stored ]_vars

\* Tearing audio down ends: both threads notice and are joined.
TeardownEnds == (mpc # "loop") ~> (mpc = "loop")

\* Both rings keep their order through overflow, and cap_ring, the one that is
\* destroyed at a teardown, outlives its threads.
RingsSound == RingsOrdered /\ RingOutlivesThreads
===============================================================================
