------------------------------- MODULE VencRing -------------------------------
(***************************************************************************)
(* The single-producer single-consumer packet ring of venc_ring.h: venc    *)
(* writes RTP packets with venc_ring_write, wfb_tx takes them out with     *)
(* venc_ring_read or venc_ring_read_wait.  One step is one access to the   *)
(* shared mapping (with the local computation around it), so every         *)
(* interleaving of the two processes is a behaviour.  Memory is taken to   *)
(* be sequentially consistent: the acquire/release pairs on the two        *)
(* indexes order exactly the accesses this module keeps in order.          *)
(***************************************************************************)
EXTENDS RingIndex, Sequences

CONSTANTS SlotDataSize,   \* slot_data_size
          BufSize,        \* buf_size the consumer passes
          Lens,           \* packet lengths the producer may try to write
          ReadCalls,      \* entry points the consumer uses
          MaxCalls,       \* bound on the number of venc_ring_write calls
          Damageable      \* positions of the stream a third party may damage

ASSUME SizesAssumption ==
    /\ SlotCount \in Nat \ {0}
    /\ SlotDataSize \in Nat \ {0}
    /\ BufSize \in Nat
    /\ Lens \subseteq Nat
    /\ MaxCalls \in Nat
    /\ IdxMod \in Nat /\ IdxMod > MaxCalls + SlotCount
    /\ Damageable \subseteq Nat

ASSUME CallsAssumption ==
    ReadCalls \subseteq {"read", "wait_timeout", "wait_forever"}

VARIABLES
    \* the shared mapping
    write_idx, read_idx, slot, futex_seq, consumer_waiting,
    \* the producer: program counter, packet in hand, its copy of write_idx
    ppc, pkt, w, calls, pstats,
    \* the consumer: program counter, call in progress, which of the two
    \* reads of venc_ring_read_wait this is, its copies of read_idx, slot and futex_seq
    cpc, call, attempt, rd, len, buf, seq, cstats,
    \* history: packets published, what was taken for them, damaged positions
    sent, taken, damaged

shm      == <<write_idx, read_idx, slot, futex_seq, consumer_waiting>>
producer == <<ppc, pkt, w, calls, pstats>>
consumer == <<cpc, call, attempt, rd, len, buf, seq, cstats>>
history  == <<sent, taken, damaged>>
vars     == <<shm, producer, consumer, history>>

-------------------------------------------------------------------------------
(* Data: a packet is an identity and a length; a slot keeps the identity   *)
(* of the packet whose header bytes and whose payload bytes it holds, so   *)
(* that a slot half overwritten is told from a whole one.                  *)

Packet  == [id : 1 .. MaxCalls, len : Lens]
NoPkt   == [id |-> 0, len |-> 0]
Slot    == [length : Nat, hdr : 0 .. MaxCalls, payload : 0 .. MaxCalls]
Skipped == [hdr |-> 0, payload |-> 0, len |-> 0]

\* w & (slot_count - 1): the remainder, slot_count being a power of two.
SlotOf(i) == i % SlotCount

\* Mutant of Truncate: the caller's buffer size is ignored.
NoTruncate(n) == n

\* len > buf_size is truncated to buf_size.
Truncate(n) == IF n > BufSize THEN BufSize ELSE n

\* What venc_ring_read hands its caller for a packet that arrived whole.
Received(p) == [hdr |-> p.id, payload |-> p.id, len |-> Truncate(p.len)]

Init ==
    /\ write_idx = 0 /\ read_idx = 0
    /\ slot = [i \in 0 .. SlotCount - 1 |-> [length |-> 0, hdr |-> 0, payload |-> 0]]
    /\ futex_seq = 0 /\ consumer_waiting = 0
    /\ ppc = "idle" /\ pkt = NoPkt /\ w = 0 /\ calls = 0
    /\ pstats = [writes |-> 0, full_drops |-> 0, oversize_drops |-> 0]
    /\ cpc = "idle" /\ call = "read" /\ attempt = 1
    /\ rd = 0 /\ len = 0 /\ buf = [hdr |-> 0, payload |-> 0] /\ seq = 0
    /\ cstats = [reads |-> 0, bad_slot_drops |-> 0]
    /\ sent = <<>> /\ taken = <<>> /\ damaged = {}

-------------------------------------------------------------------------------
(* venc_ring_write.                                                        *)

Calling(n) == ppc = "idle" /\ calls < MaxCalls /\ n \in Lens /\ calls' = calls + 1

WriteOversize(n) ==
    /\ Calling(n)
    /\ n > SlotDataSize
    /\ pstats' = [pstats EXCEPT !.oversize_drops = @ + 1]
    /\ UNCHANGED <<shm, consumer, history, ppc, pkt, w>>

\* Mutant of Full: one packet too many is let in.
FullOffByOne == U64Sub(write_idx, read_idx) > SlotCount

\* The test for a full ring: the producer's own index against the
\* consumer's index as it is when it is loaded.
Full == U64Sub(write_idx, read_idx) >= SlotCount

WriteFull(n) ==
    /\ Calling(n)
    /\ n <= SlotDataSize
    /\ Full
    /\ pstats' = [pstats EXCEPT !.full_drops = @ + 1]
    /\ UNCHANGED <<shm, consumer, history, ppc, pkt, w>>

WriteBegin(n) ==
    /\ Calling(n)
    /\ n <= SlotDataSize
    /\ ~Full
    /\ w' = write_idx
    /\ pkt' = [id |-> calls + 1, len |-> n]
    /\ ppc' = "length"
    /\ UNCHANGED <<shm, consumer, history, pstats>>

\* Mutant of WriteLength: the index is published before the data is there.
WriteLengthPublishing ==
    /\ ppc = "length"
    /\ slot' = [slot EXCEPT ![SlotOf(w)].length = pkt.len]
    /\ write_idx' = w + 1
    /\ ppc' = "hdr"
    /\ UNCHANGED <<read_idx, futex_seq, consumer_waiting, consumer,
                   history, pkt, w, calls, pstats>>

WriteLength ==
    /\ ppc = "length"
    /\ slot' = [slot EXCEPT ![SlotOf(w)].length = pkt.len]
    /\ ppc' = "hdr"
    /\ UNCHANGED <<write_idx, read_idx, futex_seq, consumer_waiting, consumer,
                   history, pkt, w, calls, pstats>>

WriteHeader ==
    /\ ppc = "hdr"
    /\ slot' = [slot EXCEPT ![SlotOf(w)].hdr = pkt.id]
    /\ ppc' = "payload"
    /\ UNCHANGED <<write_idx, read_idx, futex_seq, consumer_waiting, consumer,
                   history, pkt, w, calls, pstats>>

WritePayload ==
    /\ ppc = "payload"
    /\ slot' = [slot EXCEPT ![SlotOf(w)].payload = pkt.id]
    /\ ppc' = "publish"
    /\ UNCHANGED <<write_idx, read_idx, futex_seq, consumer_waiting, consumer,
                   history, pkt, w, calls, pstats>>

Publish ==
    /\ ppc = "publish"
    /\ write_idx' = w + 1
    /\ pstats' = [pstats EXCEPT !.writes = @ + 1]
    /\ sent' = Append(sent, pkt)
    /\ ppc' = "notify"
    /\ UNCHANGED <<read_idx, slot, futex_seq, consumer_waiting, consumer,
                   taken, damaged, pkt, w, calls>>

Notify ==
    /\ ppc = "notify"
    /\ futex_seq' = futex_seq + 1
    /\ ppc' = "wake"
    /\ UNCHANGED <<write_idx, read_idx, slot, consumer_waiting, consumer,
                   history, pkt, w, calls, pstats>>

\* FUTEX_WAKE only if the flag is up; it reaches the consumer only if that
\* is asleep by now.
Wake ==
    /\ ppc = "wake"
    /\ cpc' = IF consumer_waiting = 1 /\ cpc = "asleep" THEN "woken" ELSE cpc
    /\ ppc' = "idle"
    /\ UNCHANGED <<shm, call, attempt, rd, len, buf, seq, cstats, history,
                   pkt, w, calls, pstats>>

InWrite == WriteLength \/ WriteHeader \/ WritePayload \/ Publish \/ Notify \/ Wake

ProducerNext == InWrite \/ \E n \in Lens :
                    WriteOversize(n) \/ WriteFull(n) \/ WriteBegin(n)

-------------------------------------------------------------------------------
(* venc_ring_read and venc_ring_read_wait.                                 *)

ReadCall(m) ==
    /\ cpc = "idle"
    /\ call' = m /\ attempt' = 1 /\ cpc' = "load"
    /\ UNCHANGED <<shm, producer, history, rd, len, buf, seq, cstats>>

\* What a failed venc_ring_read leads to: plain reads return -1; the waiting
\* form goes to sleep after its first try, and after the re-check returns -1
\* if it has a timeout and otherwise goes round its loop.
ReadFails ==
    /\ \/ call = "read" /\ cpc' = "idle"
       \/ call # "read" /\ attempt = 1 /\ cpc' = "seq"
       \/ call = "wait_timeout" /\ attempt = 2 /\ cpc' = "idle"
       \/ call = "wait_forever" /\ attempt = 2 /\ cpc' = "load"
    /\ attempt' = 1
    /\ UNCHANGED call

\* Mutant of Empty: the newest packet is left behind.
EmptyOffByOne == read_idx + 1 >= write_idx

\* The test for an empty ring: the consumer's own index against the
\* producer's index as it is when it is loaded.
Empty == read_idx >= write_idx

ReadEmpty ==
    /\ cpc = "load"
    /\ Empty
    /\ rd' = read_idx
    /\ ReadFails
    /\ UNCHANGED <<shm, producer, history, len, buf, seq, cstats>>

\* Mutant of ReadBegin: the slot is given back before it is copied.
ReadBeginReleasing ==
    /\ cpc = "load"
    /\ ~Empty
    /\ rd' = read_idx
    /\ read_idx' = read_idx + 1
    /\ cpc' = "length"
    /\ UNCHANGED <<write_idx, slot, futex_seq, consumer_waiting, producer, history,
                   call, attempt, len, buf, seq, cstats>>

ReadBegin ==
    /\ cpc = "load"
    /\ ~Empty
    /\ rd' = read_idx
    /\ cpc' = "length"
    /\ UNCHANGED <<shm, producer, history, call, attempt, len, buf, seq, cstats>>

\* Mutant of ReadLength: the length in the slot is trusted.
ReadLengthTrusting ==
    /\ cpc = "length"
    /\ len' = slot[SlotOf(rd)].length
    /\ cpc' = "hdr"
    /\ UNCHANGED <<shm, producer, history, call, attempt, rd, buf, seq, cstats>>

ReadLength ==
    /\ cpc = "length"
    /\ LET n == slot[SlotOf(rd)].length
       IN  /\ len' = Truncate(n)
           /\ cpc' = IF n > SlotDataSize THEN "skip" ELSE "hdr"
    /\ UNCHANGED <<shm, producer, history, call, attempt, rd, buf, seq, cstats>>

SkipBadSlot ==
    /\ cpc = "skip"
    /\ cstats' = [cstats EXCEPT !.bad_slot_drops = @ + 1]
    /\ read_idx' = rd + 1
    /\ taken' = Append(taken, Skipped)
    /\ ReadFails
    /\ UNCHANGED <<write_idx, slot, futex_seq, consumer_waiting, producer,
                   rd, len, buf, seq, sent, damaged>>

CopyHeader ==
    /\ cpc = "hdr"
    /\ buf' = [buf EXCEPT !.hdr = slot[SlotOf(rd)].hdr]
    /\ cpc' = "payload"
    /\ UNCHANGED <<shm, producer, history, call, attempt, rd, len, seq, cstats>>

CopyPayload ==
    /\ cpc = "payload"
    /\ buf' = [buf EXCEPT !.payload = slot[SlotOf(rd)].payload]
    /\ cpc' = "release"
    /\ UNCHANGED <<shm, producer, history, call, attempt, rd, len, seq, cstats>>

Release ==
    /\ cpc = "release"
    /\ read_idx' = rd + 1
    /\ cstats' = [cstats EXCEPT !.reads = @ + 1]
    /\ taken' = Append(taken, [hdr |-> buf.hdr, payload |-> buf.payload, len |-> len])
    /\ cpc' = "idle"
    /\ UNCHANGED <<write_idx, slot, futex_seq, consumer_waiting, producer,
                   call, attempt, rd, len, buf, seq, sent, damaged>>

LoadSeq ==
    /\ cpc = "seq"
    /\ seq' = futex_seq
    /\ cpc' = "flag"
    /\ UNCHANGED <<shm, producer, history, call, attempt, rd, len, buf, cstats>>

RaiseFlag ==
    /\ cpc = "flag"
    /\ consumer_waiting' = 1
    /\ cpc' = "wait"
    /\ UNCHANGED <<write_idx, read_idx, slot, futex_seq, producer, history,
                   call, attempt, rd, len, buf, seq, cstats>>

\* FUTEX_WAIT: the kernel compares the word and puts the caller to sleep in
\* one step.
FutexWait ==
    /\ cpc = "wait"
    /\ cpc' = IF futex_seq = seq THEN "asleep" ELSE "woken"
    /\ UNCHANGED <<shm, producer, history, call, attempt, rd, len, buf, seq, cstats>>

FutexTimeout ==
    /\ cpc = "asleep" /\ call = "wait_timeout"
    /\ cpc' = "woken"
    /\ UNCHANGED <<shm, producer, history, call, attempt, rd, len, buf, seq, cstats>>

\* FUTEX_WAIT also returns when a signal interrupts it.
FutexInterrupted ==
    /\ cpc = "asleep"
    /\ cpc' = "woken"
    /\ UNCHANGED <<shm, producer, history, call, attempt, rd, len, buf, seq, cstats>>

LowerFlag ==
    /\ cpc = "woken"
    /\ consumer_waiting' = 0
    /\ attempt' = 2
    /\ cpc' = "load"
    /\ UNCHANGED <<write_idx, read_idx, slot, futex_seq, producer, history,
                   call, rd, len, buf, seq, cstats>>

ConsumerStep == \/ ReadEmpty \/ ReadBegin \/ ReadLength \/ SkipBadSlot
                \/ CopyHeader \/ CopyPayload \/ Release
                \/ LoadSeq \/ RaiseFlag \/ FutexWait \/ FutexTimeout \/ LowerFlag
                \/ \E m \in ReadCalls : ReadCall(m)

ConsumerNext == ConsumerStep \/ FutexInterrupted

-------------------------------------------------------------------------------
\* A third process with the mapping open overwrites the length of a slot that
\* holds an unread packet (what test_corrupt_slot_length does by hand).
DamageSlot ==
    /\ \E i \in read_idx .. write_idx - 1 :
          /\ i + 1 \in Damageable \ damaged
          /\ slot' = [slot EXCEPT ![SlotOf(i)].length = SlotDataSize + 1]
          /\ damaged' = damaged \cup {i + 1}
    /\ UNCHANGED <<write_idx, read_idx, futex_seq, consumer_waiting, producer,
                   consumer, sent, taken>>

Next == ProducerNext \/ ConsumerNext \/ DamageSlot

\* A venc_ring_write that has begun runs to its end, and wfb_tx's loop keeps
\* reading; nothing makes venc write again, or a signal arrive.
Fairness == WF_vars(InWrite) /\ WF_vars(ConsumerStep)

Spec     == Init /\ [][Next]_vars
FairSpec == Spec /\ Fairness

-------------------------------------------------------------------------------
(* Properties.                                                             *)

ProducerPCs == {"idle", "length", "hdr", "payload", "publish", "notify", "wake"}
ConsumerPCs == {"idle", "load", "length", "skip", "hdr", "payload", "release",
                "seq", "flag", "wait", "asleep", "woken"}

ShmType ==
    /\ write_idx \in Nat /\ read_idx \in Nat
    /\ slot \in [0 .. SlotCount - 1 -> Slot]
    /\ futex_seq \in Nat /\ consumer_waiting \in {0, 1}

ProducerType ==
    /\ ppc \in ProducerPCs /\ pkt \in Packet \cup {NoPkt}
    /\ w \in Nat /\ calls \in 0 .. MaxCalls
    /\ pstats \in [writes : Nat, full_drops : Nat, oversize_drops : Nat]

ConsumerType ==
    /\ cpc \in ConsumerPCs
    /\ call \in {"read", "wait_timeout", "wait_forever"} /\ attempt \in {1, 2}
    /\ rd \in Nat /\ len \in 0 .. BufSize /\ seq \in Nat
    /\ buf \in [hdr : 0 .. MaxCalls, payload : 0 .. MaxCalls]
    /\ cstats \in [reads : Nat, bad_slot_drops : Nat]

HistoryType ==
    /\ sent \in Seq(Packet)
    /\ taken \in Seq([hdr : 0 .. MaxCalls, payload : 0 .. MaxCalls, len : Nat])
    /\ damaged \subseteq Nat

\* Every variable of the ring, the two processes and the history has its type.
TypeOK == ShmType /\ ProducerType /\ ConsumerType /\ HistoryType

\* The indexes never cross and never drift apart by more than the ring holds,
\* so the unsigned w - rd of venc_ring_write never wraps round.
IndexOrder == read_idx <= write_idx /\ write_idx - read_idx <= SlotCount

\* venc_ring_read never copies more bytes than a slot has or than the caller's
\* buffer takes, whatever a third process wrote into the length field.
CopyInBounds ==
    cpc \in {"hdr", "payload", "release"} => len <= SlotDataSize /\ len <= BufSize

\* The slot venc_ring_write is filling is never the slot venc_ring_read is
\* copying from: full detection cannot overwrite a packet being read.
NoSlotShared ==
    (ppc \in {"length", "hdr", "payload"} /\ cpc \in {"length", "hdr", "payload"})
        => SlotOf(w) # SlotOf(rd)

\* The ring is a FIFO: a packet is refused only when SlotCount packets are
\* held, each published packet is handed out once, in order, whole and with
\* its own length, and only a slot somebody else damaged is skipped.
Fifo == INSTANCE PacketFifo
            WITH Capacity <- SlotCount,
                 Packets <- {p \in Packet : p.len <= SlotDataSize},
                 fullDrops <- pstats.full_drops
FifoSpec == Fifo!Spec

\* Every packet venc_ring_write accepted is taken out sooner or later, even if
\* nothing else is ever written and whichever wake-ups are lost, unless the
\* consumer sleeps for good in a venc_ring_read_wait without a timeout.
EveryPacketTaken ==
    \A n \in 1 .. MaxCalls :
        Len(sent) >= n ~> \/ Len(taken) >= n
                          \/ [](cpc = "asleep" /\ call = "wait_forever")
===============================================================================
