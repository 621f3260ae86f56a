-------------------------------- MODULE FramePath -------------------------------
(***************************************************************************)
(* How an encoded H.265 frame leaves as RTP packets: parameter sets are    *)
(* remembered and put before each keyframe, small NAL units are gathered   *)
(* in an aggregation packet, large ones are cut into fragments, and any    *)
(* send may be refused by the socket or the ring.  After the frame the     *)
(* sidecar tells a subscriber which packets were its own.                  *)
(* The network and the receiver are seen through what was accepted: sent.  *)
(***************************************************************************)
EXTENDS Integers, SequencesExt

CONSTANTS Nals,        \* what the encoder may hand over: [type, len, id]
          MaxSlots,    \* bound on NAL entries of a frame
          MaxFrames,   \* bound on frames
          Payloads,    \* outgoing.maxPayloadSize
          SetCap,      \* size of a parameter set's buffer
          Numbers,     \* of sequence numbers; 2^16 in the code
          FirstSeq     \* the sequence number rtp_session_init starts with

ASSUME FrameAssumption ==
    /\ \A n \in Nals : n.len \in Nat \ {0} /\ n.type \in {"vps", "sps", "pps", "idr", "trail"}
    /\ {MaxSlots, MaxFrames, SetCap} \subseteq Nat /\ Payloads \subseteq Nat
    /\ Numbers \in Nat \ {0} /\ FirstSeq \in 0..Numbers - 1

\* An entry puts at most four NALs into its frame, itself and the parameter sets,
\* and no NAL makes more than k fragments: a frame does not use up the numbers.
ASSUME NumbersSuffice ==
    \E k \in 1..Numbers :
        /\ \A n \in Nals, m \in Payloads : m > 3 => n.len - 2 <= k * (m - 3)
        /\ 4 * MaxSlots * k < Numbers

VARIABLES
    max,            \* the payload size configured
    seq, timestamp, \* rtp_state
    stored,         \* the parameter sets remembered
    pc, left,       \* the sending thread; entries left of the frame
    todo,           \* how many of the NALs handed over last are still to be sent
    ap, payload_len,  \* the NALs gathered and the size of their packet
    rest,           \* bytes left of a fragmented NAL
    last,           \* the NAL handed over last is the frame's last entry
    before,         \* rtp_state when the frame began
    sub, frame_id, report,  \* sidecar: subscription, counter, FRAME sent for this frame
    handed,         \* history: the NALs of this frame, prepended ones included
    latest,         \* history: the parameter sets last seen
    keys,           \* history: the keyframes of this frame, each with the sets then in force
    sent,           \* history: the packets of this frame
    whole,          \* history: no send of this frame was refused
    frames

rtp     == <<seq, timestamp>>
work    == <<todo, ap, payload_len, rest, last, handed>>
sidecar == <<sub, frame_id, report>>
vars    == <<max, rtp, stored, pc, left, work, before, sidecar, latest, keys, sent, whole, frames>>

ParamTypes == {"vps", "sps", "pps"}
NoNal      == [type |-> "none", len |-> 0, id |-> 0]
NoReport   == [ts |-> -1, first |-> 0, count |-> 0, id |-> -1]

Init ==
    /\ max \in Payloads /\ seq = FirstSeq /\ timestamp = 0
    /\ stored = [p \in ParamTypes |-> NoNal] /\ latest = stored
    /\ pc = "idle" /\ left = 0
    /\ todo = 0 /\ ap = <<>> /\ payload_len = 0 /\ rest = 0 /\ last = FALSE
    /\ before = [seq |-> seq, ts |-> 0]
    /\ sub = FALSE /\ frame_id = 0 /\ report = NoReport
    /\ handed = <<>> /\ keys = {} /\ sent = <<>> /\ whole = TRUE /\ frames = 0

-------------------------------------------------------------------------------
(* One packet.  NALs are named by their index in handed.                   *)

\* nals travel from their byte number "at" on, in a packet of the given size.
Packet(kind, nals, at, size, start, end, marker) ==
    [kind |-> kind, nals |-> nals, at |-> at, size |-> size, start |-> start,
     end |-> end, marker |-> marker, seq |-> seq, ts |-> timestamp]

Single(i, marker) == Packet("single", <<i>>, 0, handed[i].len, TRUE, TRUE, marker)

Aggregate(marker) == Packet("ap", ap, 0, payload_len, TRUE, TRUE, marker)

\* n bytes of a NAL; the two of its header travel in each fragment's own.
Fragment(i, n) ==
    LET at == handed[i].len - rest
    IN  Packet("fu", <<i>>, at, n + 3, at = 2, n = rest, last /\ todo = 1 /\ n = rest)

Accept(p) ==
    /\ sent' = Append(sent, p)
    /\ seq' = (seq + 1) % Numbers
    /\ UNCHANGED whole

\* rtp_packetizer_send_packet: a packet that is refused takes no number.
Refuse == whole' = FALSE /\ UNCHANGED <<sent, seq>>

Send(p) == Accept(p) \/ Refuse

-------------------------------------------------------------------------------
(* A frame begins: star6e_video_send_frame.                                *)

\* rtp_sidecar_poll takes what has come; a subscription or a clock request renews.
BeginFrame(n, renewed) ==
    /\ pc = "idle" /\ frames < MaxFrames
    /\ sub' = (sub \/ renewed)
    /\ before' = [seq |-> seq, ts |-> timestamp]
    /\ left' = n /\ pc' = "entry" /\ frames' = frames + 1
    /\ sent' = <<>> /\ handed' = <<>> /\ keys' = {} /\ whole' = TRUE /\ last' = FALSE
    /\ report' = NoReport
    /\ UNCHANGED <<max, rtp, stored, todo, ap, payload_len, rest, frame_id, latest>>

\* An entry without data, or with an offset outside its pack.
SkipEntry ==
    /\ pc = "entry" /\ left > 0
    /\ left' = left - 1
    /\ UNCHANGED <<max, rtp, stored, pc, work, before, sidecar, latest, keys, sent, whole, frames>>

\* Mutant of Store: the first set is kept.
StoreFirst(n) ==
    IF n.type \in ParamTypes /\ stored[n.type] = NoNal THEN [stored EXCEPT ![n.type] = n]
    ELSE stored

\* h26x_param_sets_update: a set that does not fit leaves the one before it.
Store(n) ==
    IF n.type \in ParamTypes /\ n.len < SetCap THEN [stored EXCEPT ![n.type] = n] ELSE stored

Known(p) == IF stored[p] = NoNal THEN <<>> ELSE <<stored[p]>>

\* h26x_param_sets_get_prepend.
Prepend(n) ==
    IF n.type = "idr" THEN Known("vps") \o Known("sps") \o Known("pps") ELSE <<>>

TakeEntry(n) ==
    /\ pc = "entry" /\ left > 0
    /\ stored' = Store(n)
    /\ latest' = IF n.type \in ParamTypes THEN [latest EXCEPT ![n.type] = n] ELSE latest
    /\ LET nals == Append(Prepend(n), n)
       IN  handed' = handed \o nals /\ todo' = Len(nals)
    /\ keys' = IF n.type = "idr" THEN keys \cup {[nal |-> Len(handed'), sets |-> latest]} ELSE keys
    /\ left' = left - 1 /\ last' = (left = 1) /\ pc' = "nal"
    /\ UNCHANGED <<max, rtp, ap, payload_len, rest, before, sidecar, sent, whole, frames>>

-------------------------------------------------------------------------------
(* send_or_queue_nal_rtp_hevc, for the first NAL that is to be sent.       *)

Nal     == Len(handed) - todo + 1
Marker  == last /\ todo = 1
Done    == todo' = todo - 1 /\ pc' = IF todo = 1 THEN "entry" ELSE "nal"

\* The size of the packet that is being gathered.
Gathering == IF ap = <<>> THEN 2 ELSE payload_len

\* Mutant of CanAdd: the length field is not counted.
CanAddShort(i) == Gathering + handed[i].len <= max

\* hevc_ap_can_add.
CanAdd(i) == Gathering + 2 + handed[i].len <= max

Large(i) == handed[i].len > max

MustFlush == ap # <<>> /\ ~CanAdd(Nal)

Gathered(marker) == IF Len(ap) = 1 THEN Single(ap[1], marker) ELSE Aggregate(marker)

\* hevc_ap_reset.
ResetAp == ap' = <<>> /\ payload_len' = 0

\* hevc_ap_flush: the packet is reset whether or not it could be sent.
Flush ==
    /\ pc = "nal" /\ MustFlush
    /\ Send(Gathered(FALSE)) /\ ResetAp
    /\ UNCHANGED <<max, timestamp, stored, pc, left, todo, rest, last, before, sidecar,
                   handed, latest, keys, frames>>

Gather ==
    /\ pc = "nal" /\ ~MustFlush /\ ~Large(Nal) /\ CanAdd(Nal)
    /\ ap' = Append(ap, Nal) /\ payload_len' = Gathering + 2 + handed[Nal].len
    /\ IF Marker THEN pc' = "last" /\ UNCHANGED todo ELSE Done
    /\ UNCHANGED <<max, rtp, stored, left, rest, last, before, sidecar, handed, latest, keys,
                   sent, whole, frames>>

FlushLast ==
    /\ pc = "last"
    /\ Send(Gathered(TRUE)) /\ ResetAp /\ Done
    /\ UNCHANGED <<max, timestamp, stored, left, rest, last, before, sidecar, handed,
                   latest, keys, frames>>

SendSingle ==
    /\ pc = "nal" /\ ~MustFlush /\ ~Large(Nal) /\ ~CanAdd(Nal)
    /\ Send(Single(Nal, Marker)) /\ Done
    /\ UNCHANGED <<max, timestamp, stored, left, ap, payload_len, rest, last, before,
                   sidecar, handed, latest, keys, frames>>

\* Too small a payload size, or nothing behind the header: the NAL is dropped.
BeginFragments ==
    /\ pc = "nal" /\ ~MustFlush /\ Large(Nal)
    /\ IF max <= 3 \/ handed[Nal].len <= 2
       THEN Done /\ UNCHANGED rest
       ELSE rest' = handed[Nal].len - 2 /\ pc' = "fragment" /\ UNCHANGED todo
    /\ UNCHANGED <<max, rtp, stored, left, ap, payload_len, last, before, sidecar, handed,
                   latest, keys, sent, whole, frames>>

\* Mutant of Remaining: a refused fragment is passed over.
RemainingAnyway(chunk) == rest - chunk

\* A refused fragment ends the NAL.
Remaining(chunk) == IF sent' # sent THEN rest - chunk ELSE 0

SendFragment ==
    /\ pc = "fragment"
    /\ LET chunk == IF rest > max - 3 THEN max - 3 ELSE rest
       IN  Send(Fragment(Nal, chunk)) /\ rest' = Remaining(chunk)
    /\ IF rest' = 0 THEN Done ELSE UNCHANGED <<todo, pc>>
    /\ UNCHANGED <<max, timestamp, stored, left, ap, payload_len, last, before, sidecar,
                   handed, latest, keys, frames>>

-------------------------------------------------------------------------------
(* The frame ends.                                                         *)

\* Mutant of EndFrame: the clock moves before the last packet is sent.
EndFrameLate ==
    /\ pc = "entry" /\ left = 0
    /\ timestamp' = timestamp + 1
    /\ IF ap = <<>> THEN UNCHANGED <<sent, seq, whole>>
       ELSE /\ sent' = Append(sent, [Gathered(TRUE) EXCEPT !.ts = timestamp'])
            /\ seq' = (seq + 1) % Numbers /\ UNCHANGED whole
    /\ ResetAp /\ pc' = "report"
    /\ UNCHANGED <<max, stored, left, todo, rest, last, before, sidecar, handed, latest, keys,
                   frames>>

\* What is still gathered goes out with the marker; then the clock moves on.
EndFrame ==
    /\ pc = "entry" /\ left = 0
    /\ IF ap = <<>> THEN UNCHANGED <<sent, seq, whole>> ELSE Send(Gathered(TRUE))
    /\ timestamp' = timestamp + 1
    /\ ResetAp /\ pc' = "report"
    /\ UNCHANGED <<max, stored, left, todo, rest, last, before, sidecar, handed, latest, keys,
                   frames>>

\* rtp_sidecar_send_frame: five seconds without a message of the subscriber end the
\* subscription.  The counter moves although the datagram may be lost.
Report ==
    /\ pc = "report" /\ pc' = "idle" /\ sub' \in {sub, FALSE}
    /\ IF sub'
       THEN /\ frame_id' = frame_id + 1
            /\ report' = [ts |-> before.ts, first |-> before.seq, id |-> frame_id,
                          count |-> (seq - before.seq) % Numbers]
       ELSE UNCHANGED <<frame_id, report>>
    /\ UNCHANGED <<max, rtp, stored, left, work, before, latest, keys, sent, whole, frames>>

Next == \/ \E n \in 0..MaxSlots, r \in BOOLEAN : BeginFrame(n, r)
        \/ SkipEntry \/ \E n \in Nals : TakeEntry(n)
        \/ Flush \/ Gather \/ FlushLast \/ SendSingle \/ BeginFragments \/ SendFragment
        \/ EndFrame \/ Report

Spec == Init /\ [][Next]_vars

-------------------------------------------------------------------------------
(* Properties.                                                             *)

Indexes == 1..Len(handed)

\* Every variable of the sender has its type, and no packet is larger than the
\* payload size: a slot of the ring or a datagram always takes it.
TypeOK ==
    /\ seq \in 0..Numbers - 1 /\ timestamp \in 0..MaxFrames
    /\ pc \in {"idle", "entry", "nal", "last", "fragment", "report"}
    /\ left \in 0..MaxSlots /\ rest \in Nat /\ {last, sub, whole} \subseteq BOOLEAN
    /\ Range(stored) \cup Range(latest) \cup Range(handed) \subseteq Nals \cup {NoNal}
    /\ todo \in 0..Len(handed) /\ Range(ap) \subseteq Indexes /\ payload_len \in 0..max
    /\ \A p \in Range(sent) : p.size <= max /\ p.seq \in 0..Numbers - 1

\* The packets from..to are what a receiver takes for one NAL: the first says start,
\* the last end, and no other does.
Joins(from, to) ==
    /\ from <= to /\ sent[from].kind = "fu" /\ sent[from].start /\ sent[to].end
    /\ \A k \in from..to : /\ sent[k].kind = "fu"
                           /\ sent[k].start => k = from
                           /\ sent[k].end => k = to

\* The byte of its NAL behind packet k, which has three bytes of header.
Behind(k) == sent[k].at + sent[k].size - 3

\* A NAL is sent: whole in one packet, or as a run of fragments.
Arrives(i) ==
    \/ \E p \in Range(sent) : p.kind # "fu" /\ i \in Range(p.nals)
    \/ \E from, to \in 1..Len(sent) :
           Joins(from, to) /\ sent[from].nals = <<i>> /\ sent[to].nals = <<i>>

\* Whatever sends are refused, a receiver that joins fragments by their numbers
\* never builds a NAL with a hole or of two NALs' parts, and never gets one twice
\* or before an earlier one; if none is refused, it gets all.
NalsWhole ==
    /\ \A from, to \in 1..Len(sent) :
           Joins(from, to) =>
               /\ \A k \in from..to : sent[k].nals = sent[from].nals
               /\ sent[from].at = 2 /\ Behind(to) = handed[sent[from].nals[1]].len
               /\ \A k \in from..to - 1 : Behind(k) = sent[k + 1].at
    /\ \A j, k \in 1..Len(sent) :
           j < k => \A a \in Range(sent[j].nals), b \in Range(sent[k].nals) :
                        a < b \/ (a = b /\ sent[j].kind = "fu" /\ ~sent[j].end)
    /\ pc = "report" /\ whole /\ max > 3 => \A i \in Indexes : Arrives(i)

\* A keyframe follows, in its own frame, the parameter sets that were in force when
\* it came, unless one does not fit the buffer that remembers it; and when it arrives
\* they arrive with it, if no send of the frame was refused.  A refused packet takes
\* the sets gathered in it with it (hevc_ap_flush resets whatever became of it), and
\* the keyframe behind it may still arrive, without them.
KeyframesDecodable ==
    \A key \in keys, p \in ParamTypes :
        key.sets[p] # NoNal /\ key.sets[p].len < SetCap =>
            \E j \in 1..key.nal :
                /\ handed[j] = key.sets[p]
                /\ \A k \in j + 1..key.nal : handed[k].type # p
                /\ whole /\ max > 3 /\ Arrives(key.nal) => Arrives(j)

\* A marker is on a frame's last packet only, and is there if no send was refused
\* and the frame's last entry is a NAL; its packets carry
\* its own timestamp; and a subscriber is told their numbers exactly, across the
\* wrap of the sequence number and refused sends.
FrameAccounted ==
    /\ \A k \in 1..Len(sent) : sent[k].marker => k = Len(sent)
    /\ pc \in {"report", "idle"} /\ whole /\ max > 3 /\ last => Last(sent).marker
    /\ \A p \in Range(sent) : p.ts = before.ts
    /\ pc = "idle" /\ report.ts = before.ts /\ report # NoReport =>
           /\ report.count = Len(sent)
           /\ \A k \in 1..Len(sent) : sent[k].seq = (report.first + k - 1) % Numbers

\* Whatever a receiver of the packets rebuilds is whole and in order; and a keyframe
\* of a frame none of whose sends was refused comes with its parameter sets.
Decodable == NalsWhole /\ KeyframesDecodable
===============================================================================
