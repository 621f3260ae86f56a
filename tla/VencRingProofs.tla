---------------------------- MODULE VencRingProofs ----------------------------
(***************************************************************************)
(* Proofs about VencRing for every ring size, packet length, consumer and  *)
(* number of packets.  The inductive invariant says what each process has  *)
(* done so far at each of its steps and what every unread slot holds.      *)
(*                                                                         *)
(* And about VencRingLifecycle, for every number of creates, writes,       *)
(* crashes and starts.  Its inductive invariant says what an object under  *)
(* construction looks like, and what a consumer that was never cut off     *)
(* from its object knows of it.                                            *)
(***************************************************************************)
EXTENDS VencRing, VencRingLifecycle, TLAPS

(* The packet being written: the producer's copy of write_idx is current,  *)
(* its slot is free, and the slot holds what has been copied so far.       *)
ProducerInv ==
    /\ ppc \in {"length", "hdr", "payload", "publish"} =>
          /\ w = write_idx
          /\ write_idx < read_idx + SlotCount
          /\ pkt \in Packet /\ pkt.len <= SlotDataSize
    /\ ppc \in {"hdr", "payload", "publish"} => slot[SlotOf(w)].length = pkt.len
    /\ ppc \in {"payload", "publish"} => slot[SlotOf(w)].hdr = pkt.id
    /\ ppc = "publish" => slot[SlotOf(w)].payload = pkt.id

(* The packet being read: the consumer's copy of read_idx is current, its  *)
(* slot is published, and what has been copied is that packet's.           *)
ConsumerInv ==
    /\ cpc \in {"length", "skip", "hdr", "payload", "release"} =>
          rd = read_idx /\ read_idx < write_idx
    /\ cpc = "skip" => rd + 1 \in damaged
    /\ cpc \in {"hdr", "payload", "release"} => len = Truncate(sent[rd + 1].len)
    /\ cpc \in {"payload", "release"} => buf.hdr = sent[rd + 1].id
    /\ cpc = "release" => buf.payload = sent[rd + 1].id

HistoryInv ==
    /\ Len(sent) = write_idx /\ Len(taken) = read_idx
    /\ damaged \subseteq 1 .. write_idx

(* Every published, unread slot holds the whole of its packet, but for the *)
(* length field of a damaged one.                                          *)
Holds(i) ==
    /\ slot[SlotOf(i)].hdr = sent[i + 1].id
    /\ slot[SlotOf(i)].payload = sent[i + 1].id
    /\ sent[i + 1].len <= SlotDataSize
    /\ slot[SlotOf(i)].length = IF i + 1 \in damaged THEN SlotDataSize + 1
                                                     ELSE sent[i + 1].len

SlotsInv == \A i \in read_idx .. write_idx - 1 : Holds(i)

RingInv == TypeOK /\ IndexOrder /\ ProducerInv /\ ConsumerInv /\ HistoryInv /\ SlotsInv

-------------------------------------------------------------------------------
(* Slots.                                                                  *)

\* Masking an index with slot_count - 1 always names a slot of the ring.
LEMMA SlotOfType ==
    ASSUME NEW i \in Nat
    PROVE  SlotOf(i) \in 0 .. SlotCount - 1
  BY SizesAssumption DEF SlotOf

\* Two indexes less than slot_count apart never share a slot.
LEMMA SlotOfDistinct ==
    ASSUME NEW a \in Nat, NEW b \in Nat, a < b, b < a + SlotCount
    PROVE  SlotOf(a) # SlotOf(b)
<1> DEFINE n == SlotCount
           k == (b \div n) - (a \div n)
<1>1. n \in Nat \ {0}
  BY SizesAssumption
<1>2. /\ a = n * (a \div n) + (a % n) /\ a % n \in 0 .. n - 1 /\ a \div n \in Int
      /\ b = n * (b \div n) + (b % n) /\ b % n \in 0 .. n - 1 /\ b \div n \in Int
  BY <1>1
<1>3. SUFFICES ASSUME a % n = b % n PROVE FALSE
  BY DEF SlotOf
<1>4. k \in Int /\ n * k = b - a
  <2>1. n * ((b \div n) - (a \div n)) = n * (b \div n) - n * (a \div n)
    BY <1>1, <1>2
  <2> QED BY <2>1, <1>1, <1>2, <1>3
<1>5. a < b /\ b < a + n
  OBVIOUS
<1> HIDE DEF k, n
<1>6. CASE k <= 0
  <2>1. n * k <= 0 BY <1>1, <1>4, <1>6
  <2> QED BY <2>1, <1>4, <1>5
<1>7. CASE k >= 1
  <2>1. n * k >= n BY <1>1, <1>4, <1>7
  <2> QED BY <2>1, <1>1, <1>4, <1>5
<1> QED BY <1>4, <1>6, <1>7

-------------------------------------------------------------------------------
(* The invariant is inductive.                                             *)

\* The ring venc_ring_create leaves behind satisfies the invariant.
LEMMA InitInv == Init => RingInv
<1> SUFFICES ASSUME Init PROVE RingInv
  OBVIOUS
<1> USE SizesAssumption DEF Init
<1>1. ShmType
  BY DEF ShmType, Slot
<1>2. ProducerType
  BY DEF ProducerType, ProducerPCs
<1>3. ConsumerType
  BY DEF ConsumerType, ConsumerPCs
<1>4. HistoryType
  BY DEF HistoryType
<1>5. IndexOrder /\ ProducerInv /\ ConsumerInv
  BY DEF IndexOrder, ProducerInv, ConsumerInv
<1>6. HistoryInv /\ SlotsInv
  BY DEF HistoryInv, SlotsInv
<1> QED
  BY <1>1, <1>2, <1>3, <1>4, <1>5, <1>6 DEF RingInv, TypeOK

\* What a step leaves alone keeps the parts of the invariant that speak of it.
LEMMA Frame ==
    ASSUME RingInv
    PROVE  /\ UNCHANGED shm => ShmType'
           /\ UNCHANGED producer => ProducerType'
           /\ UNCHANGED consumer => ConsumerType'
           /\ UNCHANGED history => HistoryType'
           /\ UNCHANGED <<write_idx, read_idx>> => IndexOrder'
           /\ UNCHANGED <<write_idx, read_idx, slot, ppc, pkt, w>> => ProducerInv'
           /\ UNCHANGED <<write_idx, read_idx, sent, damaged, cpc, rd, len, buf>>
                 => ConsumerInv'
           /\ UNCHANGED <<write_idx, read_idx, history>> => HistoryInv'
           /\ UNCHANGED <<write_idx, read_idx, slot, sent, damaged>> => SlotsInv'
<1> USE DEF RingInv, TypeOK
<1>1. UNCHANGED shm => ShmType'
  BY DEF ShmType, shm
<1>2. UNCHANGED producer => ProducerType'
  BY DEF ProducerType, producer
<1>3. UNCHANGED consumer => ConsumerType'
  BY DEF ConsumerType, consumer
<1>4. UNCHANGED history => HistoryType'
  BY DEF HistoryType, history
<1>5. UNCHANGED <<write_idx, read_idx>> => IndexOrder'
  BY DEF IndexOrder
<1>6. UNCHANGED <<write_idx, read_idx, slot, ppc, pkt, w>> => ProducerInv'
  BY DEF ProducerInv
<1>7. UNCHANGED <<write_idx, read_idx, sent, damaged, cpc, rd, len, buf>> => ConsumerInv'
  BY DEF ConsumerInv
<1>8. UNCHANGED <<write_idx, read_idx, history>> => HistoryInv'
  BY DEF HistoryInv, history
<1>9. UNCHANGED <<write_idx, read_idx, slot, sent, damaged>> => SlotsInv'
  BY DEF SlotsInv, Holds
<1> QED
  BY <1>1, <1>2, <1>3, <1>4, <1>5, <1>6, <1>7, <1>8, <1>9

\* Every step of venc_ring_write preserves the invariant.
LEMMA ProducerStepInv == RingInv /\ ProducerNext => RingInv'
<1> SUFFICES ASSUME RingInv, ProducerNext PROVE RingInv'
  OBVIOUS
<1> USE SizesAssumption
<1>0. SlotOf(w) \in 0 .. SlotCount - 1
  BY SlotOfType DEF RingInv, TypeOK, ProducerType
<1>1. ASSUME NEW n \in Lens, WriteOversize(n) PROVE RingInv'
  <2>1. ShmType' /\ ConsumerType' /\ HistoryType' /\ IndexOrder' /\ ProducerInv' /\
     ConsumerInv' /\ HistoryInv' /\ SlotsInv'
    BY <1>1, Frame DEF WriteOversize, Calling, shm, producer, consumer, history
  <2>2. ProducerType'
    BY <1>1 DEF WriteOversize, Calling, RingInv, TypeOK, ProducerType, ProducerPCs,
       Packet, NoPkt
  <2> QED BY <2>1, <2>2 DEF RingInv, TypeOK
<1>2. ASSUME NEW n \in Lens, WriteFull(n) PROVE RingInv'
  <2>1. ShmType' /\ ConsumerType' /\ HistoryType' /\ IndexOrder' /\ ProducerInv' /\
     ConsumerInv' /\ HistoryInv' /\ SlotsInv'
    BY <1>2, Frame DEF WriteFull, Calling, shm, producer, consumer, history
  <2>2. ProducerType'
    BY <1>2 DEF WriteFull, Calling, RingInv, TypeOK, ProducerType, ProducerPCs, Packet,
       NoPkt
  <2> QED BY <2>1, <2>2 DEF RingInv, TypeOK
<1>3. ASSUME NEW n \in Lens, WriteBegin(n) PROVE RingInv'
  <2>1. ShmType' /\ ConsumerType' /\ HistoryType' /\ IndexOrder' /\ ConsumerInv' /\
     HistoryInv' /\ SlotsInv'
    BY <1>3, Frame DEF WriteBegin, Calling, shm, producer, consumer, history
  <2>2. ProducerType'
    BY <1>3 DEF WriteBegin, Calling, RingInv, TypeOK, ShmType, ProducerType,
       ProducerPCs, Packet, shm
  <2>3. ProducerInv'
    BY <1>3 DEF WriteBegin, Calling, RingInv, TypeOK, ShmType, ProducerType, IndexOrder,
       Full, U64Sub, ProducerInv, Packet, shm
  <2> QED BY <2>1, <2>2, <2>3 DEF RingInv, TypeOK
<1>4. CASE WriteLength
  <2>1. ConsumerType' /\ HistoryType' /\ IndexOrder' /\ ConsumerInv' /\ HistoryInv'
    BY <1>4, Frame DEF WriteLength, shm, producer, consumer, history
  <2>2. ShmType'
    <3>1. pkt.len \in Nat /\ pkt.id \in 0 .. MaxCalls
      BY <1>4 DEF WriteLength, RingInv, ProducerInv, Packet
    <3> QED BY <3>1, <1>4, <1>0 DEF WriteLength, RingInv, TypeOK, ShmType, Slot
  <2>3. ProducerType'
    BY <1>4 DEF WriteLength, RingInv, TypeOK, ProducerType, ProducerPCs
  <2>4. ProducerInv'
    BY <1>4, <1>0 DEF WriteLength, RingInv, TypeOK, ShmType, ProducerType, ProducerInv,
       Packet, Slot
  <2>5. SlotsInv'
    <3> SUFFICES ASSUME NEW i \in read_idx .. write_idx - 1
                 PROVE  Holds(i)'
      BY <1>4 DEF WriteLength, SlotsInv
    <3>1. i \in Nat /\ i < w /\ w < i + SlotCount /\ w \in Nat
      BY <1>4 DEF WriteLength, RingInv, TypeOK, ShmType, ProducerInv
    <3>2. SlotOf(i) # SlotOf(w) /\ SlotOf(i) \in 0 .. SlotCount - 1
      BY <3>1, SlotOfDistinct, SlotOfType
    <3>3. slot'[SlotOf(i)] = slot[SlotOf(i)]
      BY <3>2, <1>4, <1>0 DEF WriteLength, RingInv, TypeOK, ShmType
    <3> QED BY <3>3, <1>4 DEF WriteLength, RingInv, SlotsInv, Holds, history
  <2> QED BY <2>1, <2>2, <2>3, <2>4, <2>5 DEF RingInv, TypeOK
<1>5. CASE WriteHeader
  <2>1. ConsumerType' /\ HistoryType' /\ IndexOrder' /\ ConsumerInv' /\ HistoryInv'
    BY <1>5, Frame DEF WriteHeader, shm, producer, consumer, history
  <2>2. ShmType'
    <3>1. pkt.len \in Nat /\ pkt.id \in 0 .. MaxCalls
      BY <1>5 DEF WriteHeader, RingInv, ProducerInv, Packet
    <3> QED BY <3>1, <1>5, <1>0 DEF WriteHeader, RingInv, TypeOK, ShmType, Slot
  <2>3. ProducerType'
    BY <1>5 DEF WriteHeader, RingInv, TypeOK, ProducerType, ProducerPCs
  <2>4. ProducerInv'
    BY <1>5, <1>0 DEF WriteHeader, RingInv, TypeOK, ShmType, ProducerType, ProducerInv,
       Packet, Slot
  <2>5. SlotsInv'
    <3> SUFFICES ASSUME NEW i \in read_idx .. write_idx - 1
                 PROVE  Holds(i)'
      BY <1>5 DEF WriteHeader, SlotsInv
    <3>1. i \in Nat /\ i < w /\ w < i + SlotCount /\ w \in Nat
      BY <1>5 DEF WriteHeader, RingInv, TypeOK, ShmType, ProducerInv
    <3>2. SlotOf(i) # SlotOf(w) /\ SlotOf(i) \in 0 .. SlotCount - 1
      BY <3>1, SlotOfDistinct, SlotOfType
    <3>3. slot'[SlotOf(i)] = slot[SlotOf(i)]
      BY <3>2, <1>5, <1>0 DEF WriteHeader, RingInv, TypeOK, ShmType
    <3> QED BY <3>3, <1>5 DEF WriteHeader, RingInv, SlotsInv, Holds, history
  <2> QED BY <2>1, <2>2, <2>3, <2>4, <2>5 DEF RingInv, TypeOK
<1>6. CASE WritePayload
  <2>1. ConsumerType' /\ HistoryType' /\ IndexOrder' /\ ConsumerInv' /\ HistoryInv'
    BY <1>6, Frame DEF WritePayload, shm, producer, consumer, history
  <2>2. ShmType'
    <3>1. pkt.len \in Nat /\ pkt.id \in 0 .. MaxCalls
      BY <1>6 DEF WritePayload, RingInv, ProducerInv, Packet
    <3> QED BY <3>1, <1>6, <1>0 DEF WritePayload, RingInv, TypeOK, ShmType, Slot
  <2>3. ProducerType'
    BY <1>6 DEF WritePayload, RingInv, TypeOK, ProducerType, ProducerPCs
  <2>4. ProducerInv'
    BY <1>6, <1>0 DEF WritePayload, RingInv, TypeOK, ShmType, ProducerType, ProducerInv,
       Packet, Slot
  <2>5. SlotsInv'
    <3> SUFFICES ASSUME NEW i \in read_idx .. write_idx - 1
                 PROVE  Holds(i)'
      BY <1>6 DEF WritePayload, SlotsInv
    <3>1. i \in Nat /\ i < w /\ w < i + SlotCount /\ w \in Nat
      BY <1>6 DEF WritePayload, RingInv, TypeOK, ShmType, ProducerInv
    <3>2. SlotOf(i) # SlotOf(w) /\ SlotOf(i) \in 0 .. SlotCount - 1
      BY <3>1, SlotOfDistinct, SlotOfType
    <3>3. slot'[SlotOf(i)] = slot[SlotOf(i)]
      BY <3>2, <1>6, <1>0 DEF WritePayload, RingInv, TypeOK, ShmType
    <3> QED BY <3>3, <1>6 DEF WritePayload, RingInv, SlotsInv, Holds, history
  <2> QED BY <2>1, <2>2, <2>3, <2>4, <2>5 DEF RingInv, TypeOK
<1>7. CASE Publish
  <2>1. ConsumerType'
    BY <1>7, Frame DEF Publish, consumer
  <2>2. /\ write_idx' = write_idx + 1 /\ ppc' = "notify"
        /\ UNCHANGED <<read_idx, slot, damaged, taken, cpc, rd, len, buf>>
        /\ UNCHANGED <<futex_seq, consumer_waiting, pkt, w, calls>>
    BY <1>7 DEF Publish, RingInv, ProducerInv, consumer
  <2>3. sent' = Append(sent, pkt) /\ pkt \in Packet /\ pkt.len <= SlotDataSize
    BY <1>7 DEF Publish, RingInv, ProducerInv
  <2>4. /\ sent' \in Seq(Packet) /\ Len(sent') = Len(sent) + 1
        /\ \A j \in 1 .. Len(sent) : sent'[j] = sent[j]
        /\ sent'[Len(sent) + 1] = pkt
    BY <2>3 DEF RingInv, TypeOK, HistoryType
  <2>5. ShmType'
    BY <2>2 DEF RingInv, TypeOK, ShmType
  <2>6. ProducerType'
    <3>1. pstats' \in [writes : Nat, full_drops : Nat, oversize_drops : Nat]
      <4>1. pstats' = [pstats EXCEPT !.writes = @ + 1]
        BY <1>7 DEF Publish
      <4> QED BY <4>1 DEF RingInv, TypeOK, ProducerType
    <3> QED BY <3>1, <2>2 DEF RingInv, TypeOK, ProducerType, ProducerPCs
  <2>7. HistoryType'
    BY <2>2, <2>4 DEF RingInv, TypeOK, HistoryType
  <2>8. IndexOrder'
    BY <1>7, <2>2 DEF Publish, RingInv, TypeOK, ShmType, IndexOrder, ProducerInv
  <2>9. ProducerInv'
    BY <2>2 DEF ProducerInv
  <2>10. ConsumerInv'
    <3>1. cpc \in {"length", "skip", "hdr", "payload", "release"}
              => rd + 1 \in 1 .. Len(sent)
      BY DEF RingInv, TypeOK, ShmType, ConsumerInv, HistoryInv
    <3> QED BY <3>1, <2>2, <2>4 DEF RingInv, TypeOK, ShmType, ConsumerInv
  <2>11. HistoryInv'
    BY <2>2, <2>4 DEF RingInv, TypeOK, ShmType, HistoryInv
  <2>12. SlotsInv'
    <3> SUFFICES ASSUME NEW i \in read_idx .. write_idx
                 PROVE  Holds(i)'
      BY <2>2 DEF SlotsInv, RingInv, TypeOK, ShmType
    <3>1. CASE i = write_idx
      <4>1. sent'[i + 1] = pkt /\ i + 1 \notin damaged
        BY <2>4, <3>1 DEF RingInv, TypeOK, ShmType, HistoryInv
      <4>2. /\ slot[SlotOf(i)].length = pkt.len
            /\ slot[SlotOf(i)].hdr = pkt.id
            /\ slot[SlotOf(i)].payload = pkt.id
        BY <1>7, <3>1 DEF Publish, RingInv, ProducerInv
      <4> QED BY <4>1, <4>2, <2>2, <2>3 DEF Holds
    <3>2. CASE i # write_idx
      <4>1. i \in read_idx .. write_idx - 1 /\ i + 1 \in 1 .. Len(sent)
        BY <3>2 DEF RingInv, TypeOK, ShmType, HistoryInv
      <4>2. Holds(i) /\ sent'[i + 1] = sent[i + 1]
        BY <4>1, <2>4 DEF RingInv, SlotsInv
      <4> QED BY <4>2, <2>2 DEF Holds
    <3> QED BY <3>1, <3>2
  <2> QED
    BY <2>1, <2>5, <2>6, <2>7, <2>8, <2>9, <2>10, <2>11, <2>12 DEF RingInv, TypeOK
<1>8. CASE Notify
  <2>1. ConsumerType' /\ HistoryType' /\ IndexOrder' /\ ConsumerInv' /\ HistoryInv' /\
     SlotsInv'
    BY <1>8, Frame DEF Notify, shm, producer, consumer, history
  <2>2. ShmType'
    BY <1>8 DEF Notify, RingInv, TypeOK, ShmType
  <2>3. ProducerType'
    BY <1>8 DEF Notify, RingInv, TypeOK, ProducerType, ProducerPCs
  <2>4. ProducerInv'
    BY <1>8 DEF Notify, RingInv, TypeOK, ProducerInv
  <2> QED BY <2>1, <2>2, <2>3, <2>4 DEF RingInv, TypeOK
<1>9. CASE Wake
  <2>1. ShmType' /\ HistoryType' /\ IndexOrder' /\ HistoryInv' /\ SlotsInv'
    BY <1>9, Frame DEF Wake, shm, producer, consumer, history
  <2>2. ProducerType'
    BY <1>9 DEF Wake, RingInv, TypeOK, ProducerType, ProducerPCs
  <2>3. ConsumerType'
    BY <1>9 DEF Wake, RingInv, TypeOK, ConsumerType, ConsumerPCs
  <2>4. ProducerInv'
    BY <1>9 DEF Wake, RingInv, TypeOK, ProducerInv, shm
  <2>5. ConsumerInv'
    BY <1>9 DEF Wake, RingInv, TypeOK, ConsumerInv, shm, history
  <2> QED BY <2>1, <2>2, <2>3, <2>4, <2>5 DEF RingInv, TypeOK
<1> QED
  BY <1>1, <1>2, <1>3, <1>4, <1>5, <1>6, <1>7, <1>8, <1>9 DEF ProducerNext, InWrite

\* Every step of venc_ring_read and venc_ring_read_wait preserves it.
LEMMA ConsumerStepInv == RingInv /\ ConsumerNext => RingInv'
<1> SUFFICES ASSUME RingInv, ConsumerNext PROVE RingInv'
  OBVIOUS
<1> USE SizesAssumption, CallsAssumption
<1>0. SlotOf(rd) \in 0 .. SlotCount - 1
  BY SlotOfType DEF RingInv, TypeOK, ConsumerType
<1>1. ASSUME NEW m \in ReadCalls, ReadCall(m) PROVE RingInv'
  <2>1. ShmType' /\ ProducerType' /\ HistoryType' /\ IndexOrder' /\ ProducerInv' /\
     HistoryInv' /\ SlotsInv'
    BY <1>1, Frame DEF ReadCall, shm, producer, consumer, history
  <2>2. ConsumerType'
    BY <1>1 DEF ReadCall, RingInv, TypeOK, ConsumerType, ConsumerPCs
  <2>3. ConsumerInv'
    BY <1>1 DEF ReadCall, RingInv, TypeOK, ConsumerInv, shm, history
  <2> QED BY <2>1, <2>2, <2>3 DEF RingInv, TypeOK
<1>2. CASE ReadEmpty
  <2>1. ShmType' /\ ProducerType' /\ HistoryType' /\ IndexOrder' /\ ProducerInv' /\
     HistoryInv' /\ SlotsInv'
    BY <1>2, Frame DEF ReadEmpty, ReadFails, shm, producer, consumer, history
  <2>2. ConsumerType'
    BY <1>2 DEF ReadEmpty, ReadFails, Empty, RingInv, TypeOK, ConsumerType, ConsumerPCs,
       ShmType
  <2>3. ConsumerInv'
    BY <1>2 DEF ReadEmpty, ReadFails, Empty, RingInv, TypeOK, ConsumerInv, shm, history
  <2> QED BY <2>1, <2>2, <2>3 DEF RingInv, TypeOK
<1>3. CASE ReadBegin
  <2>1. ShmType' /\ ProducerType' /\ HistoryType' /\ IndexOrder' /\ ProducerInv' /\
     HistoryInv' /\ SlotsInv'
    BY <1>3, Frame DEF ReadBegin, shm, producer, consumer, history
  <2>2. ConsumerType'
    BY <1>3 DEF ReadBegin, Empty, RingInv, TypeOK, ConsumerType, ConsumerPCs, ShmType
  <2>3. ConsumerInv'
    BY <1>3 DEF ReadBegin, Empty, RingInv, TypeOK, ConsumerInv, shm, history, ShmType
  <2> QED BY <2>1, <2>2, <2>3 DEF RingInv, TypeOK
<1>4. CASE ReadLength
  <2>1. ShmType' /\ ProducerType' /\ HistoryType' /\ IndexOrder' /\ ProducerInv' /\
     HistoryInv' /\ SlotsInv'
    BY <1>4, Frame DEF ReadLength, shm, producer, consumer, history
  <2>2. ConsumerType'
    BY <1>4, <1>0 DEF ReadLength, RingInv, TypeOK, ConsumerType, ConsumerPCs, ShmType,
       Slot, Truncate
  <2>3. ConsumerInv'
    <3> DEFINE n == slot[SlotOf(rd)].length
    <3>1. rd \in read_idx .. write_idx - 1 /\ rd + 1 \in 1 .. Len(sent)
      BY <1>4 DEF ReadLength, RingInv, TypeOK, ShmType, ConsumerInv, HistoryInv
    <3>2. sent[rd + 1].len \in Nat
      <4>1. sent[rd + 1] \in Packet
        BY <3>1 DEF RingInv, TypeOK, HistoryType
      <4> QED BY <4>1 DEF Packet
    <3>3. /\ sent[rd + 1].len <= SlotDataSize
          /\ n = IF rd + 1 \in damaged THEN SlotDataSize + 1 ELSE sent[rd + 1].len
      BY <3>1 DEF RingInv, SlotsInv, Holds
    <3>4. /\ len' = Truncate(n)
          /\ cpc' = IF n > SlotDataSize THEN "skip" ELSE "hdr"
          /\ rd = read_idx /\ read_idx < write_idx
          /\ UNCHANGED <<write_idx, read_idx, damaged, sent, rd, buf>>
      BY <1>4 DEF ReadLength, RingInv, ConsumerInv, shm, history
    <3>5. CASE rd + 1 \in damaged
      <4>1. cpc' = "skip"
        BY <3>3, <3>4, <3>5
      <4> QED BY <4>1, <3>4, <3>5 DEF ConsumerInv
    <3>6. CASE rd + 1 \notin damaged
      <4>1. cpc' = "hdr" /\ n = sent[rd + 1].len
        BY <3>2, <3>3, <3>4, <3>6
      <4> QED BY <4>1, <3>4 DEF ConsumerInv
    <3> QED BY <3>5, <3>6
  <2> QED BY <2>1, <2>2, <2>3 DEF RingInv, TypeOK
<1>5. CASE SkipBadSlot
  <2>1. ProducerType'
    BY <1>5, Frame DEF SkipBadSlot, producer
  <2>2. /\ read_idx' = read_idx + 1 /\ read_idx < write_idx
        /\ cpc' \in {"idle", "seq", "load"} /\ attempt' \in {1, 2}
        /\ UNCHANGED <<write_idx, slot, futex_seq, consumer_waiting>>
        /\ UNCHANGED <<sent, damaged, call, rd, len, buf, seq, ppc, pkt, w>>
    BY <1>5 DEF SkipBadSlot, ReadFails, RingInv, TypeOK, ConsumerType, ConsumerInv,
       producer
  <2>3. PICK v \in [hdr : 0 .. MaxCalls, payload : 0 .. MaxCalls, len : Nat] :
           taken' = Append(taken, v)
    <3>1. taken' = Append(taken, Skipped)
      BY <1>5 DEF SkipBadSlot
    <3>2. Skipped \in [hdr : 0 .. MaxCalls, payload : 0 .. MaxCalls, len : Nat]
      BY DEF Skipped
    <3> QED BY <3>1, <3>2
  <2>4. /\ taken' \in Seq([hdr : 0 .. MaxCalls, payload : 0 .. MaxCalls, len : Nat])
        /\ Len(taken') = Len(taken) + 1
    BY <2>3 DEF RingInv, TypeOK, HistoryType
  <2>5. ShmType'
    BY <2>2 DEF RingInv, TypeOK, ShmType
  <2>6. ConsumerType'
    <3>1. cstats' \in [reads : Nat, bad_slot_drops : Nat]
      <4>1. cstats' = [cstats EXCEPT !.bad_slot_drops = @ + 1]
        BY <1>5 DEF SkipBadSlot
      <4> QED BY <4>1 DEF RingInv, TypeOK, ConsumerType
    <3> QED BY <3>1, <2>2 DEF RingInv, TypeOK, ConsumerType, ConsumerPCs
  <2>7. HistoryType'
    BY <2>2, <2>4 DEF RingInv, TypeOK, HistoryType
  <2>8. IndexOrder'
    BY <2>2 DEF RingInv, TypeOK, ShmType, IndexOrder
  <2>9. ProducerInv'
    BY <2>2 DEF RingInv, TypeOK, ShmType, ProducerInv
  <2>10. ConsumerInv'
    BY <2>2 DEF ConsumerInv
  <2>11. HistoryInv'
    BY <2>2, <2>4 DEF RingInv, TypeOK, ShmType, HistoryInv
  <2>12. SlotsInv'
    <3> SUFFICES ASSUME NEW i \in read_idx + 1 .. write_idx - 1
                 PROVE  Holds(i)'
      BY <2>2 DEF SlotsInv
    <3>1. Holds(i)
      BY DEF RingInv, TypeOK, ShmType, SlotsInv
    <3> QED BY <3>1, <2>2 DEF Holds
  <2> QED
    BY <2>1, <2>5, <2>6, <2>7, <2>8, <2>9, <2>10, <2>11, <2>12 DEF RingInv, TypeOK
<1>6. CASE CopyHeader
  <2>1. ShmType' /\ ProducerType' /\ HistoryType' /\ IndexOrder' /\ ProducerInv' /\
     HistoryInv' /\ SlotsInv'
    BY <1>6, Frame DEF CopyHeader, shm, producer, consumer, history
  <2>2. ConsumerType'
    BY <1>6, <1>0 DEF CopyHeader, RingInv, TypeOK, ConsumerType, ConsumerPCs, ShmType,
       Slot
  <2>3. ConsumerInv'
    <3>1. rd \in read_idx .. write_idx - 1
      BY <1>6 DEF CopyHeader, RingInv, TypeOK, ShmType, ConsumerInv
    <3>2. Holds(rd)
      BY <3>1 DEF RingInv, SlotsInv
    <3> QED BY <3>2, <1>6 DEF CopyHeader, RingInv, TypeOK, ConsumerInv, Holds, shm,
       history, ConsumerType
  <2> QED BY <2>1, <2>2, <2>3 DEF RingInv, TypeOK
<1>7. CASE CopyPayload
  <2>1. ShmType' /\ ProducerType' /\ HistoryType' /\ IndexOrder' /\ ProducerInv' /\
     HistoryInv' /\ SlotsInv'
    BY <1>7, Frame DEF CopyPayload, shm, producer, consumer, history
  <2>2. ConsumerType'
    BY <1>7, <1>0 DEF CopyPayload, RingInv, TypeOK, ConsumerType, ConsumerPCs, ShmType,
       Slot
  <2>3. ConsumerInv'
    <3>1. rd \in read_idx .. write_idx - 1
      BY <1>7 DEF CopyPayload, RingInv, TypeOK, ShmType, ConsumerInv
    <3>2. Holds(rd)
      BY <3>1 DEF RingInv, SlotsInv
    <3> QED BY <3>2, <1>7 DEF CopyPayload, RingInv, TypeOK, ConsumerInv, Holds, shm,
       history, ConsumerType
  <2> QED BY <2>1, <2>2, <2>3 DEF RingInv, TypeOK
<1>8. CASE Release
  <2>1. ProducerType'
    BY <1>8, Frame DEF Release, producer
  <2>2. /\ read_idx' = read_idx + 1 /\ read_idx < write_idx
        /\ cpc' \in {"idle"} /\ attempt' \in {1, 2}
        /\ UNCHANGED <<write_idx, slot, futex_seq, consumer_waiting>>
        /\ UNCHANGED <<sent, damaged, call, rd, len, buf, seq, ppc, pkt, w>>
    BY <1>8 DEF Release, RingInv, TypeOK, ConsumerType, ConsumerInv, producer
  <2>3. PICK v \in [hdr : 0 .. MaxCalls, payload : 0 .. MaxCalls, len : Nat] :
           taken' = Append(taken, v)
    BY <1>8 DEF Release, RingInv, TypeOK, ConsumerType
  <2>4. /\ taken' \in Seq([hdr : 0 .. MaxCalls, payload : 0 .. MaxCalls, len : Nat])
        /\ Len(taken') = Len(taken) + 1
    BY <2>3 DEF RingInv, TypeOK, HistoryType
  <2>5. ShmType'
    BY <2>2 DEF RingInv, TypeOK, ShmType
  <2>6. ConsumerType'
    <3>1. cstats' \in [reads : Nat, bad_slot_drops : Nat]
      <4>1. cstats' = [cstats EXCEPT !.reads = @ + 1]
        BY <1>8 DEF Release
      <4> QED BY <4>1 DEF RingInv, TypeOK, ConsumerType
    <3> QED BY <3>1, <2>2 DEF RingInv, TypeOK, ConsumerType, ConsumerPCs
  <2>7. HistoryType'
    BY <2>2, <2>4 DEF RingInv, TypeOK, HistoryType
  <2>8. IndexOrder'
    BY <2>2 DEF RingInv, TypeOK, ShmType, IndexOrder
  <2>9. ProducerInv'
    BY <2>2 DEF RingInv, TypeOK, ShmType, ProducerInv
  <2>10. ConsumerInv'
    BY <2>2 DEF ConsumerInv
  <2>11. HistoryInv'
    BY <2>2, <2>4 DEF RingInv, TypeOK, ShmType, HistoryInv
  <2>12. SlotsInv'
    <3> SUFFICES ASSUME NEW i \in read_idx + 1 .. write_idx - 1
                 PROVE  Holds(i)'
      BY <2>2 DEF SlotsInv
    <3>1. Holds(i)
      BY DEF RingInv, TypeOK, ShmType, SlotsInv
    <3> QED BY <3>1, <2>2 DEF Holds
  <2> QED
    BY <2>1, <2>5, <2>6, <2>7, <2>8, <2>9, <2>10, <2>11, <2>12 DEF RingInv, TypeOK
<1>9. CASE LoadSeq
  <2>1. ShmType' /\ ProducerType' /\ HistoryType' /\ IndexOrder' /\ ProducerInv' /\
     HistoryInv' /\ SlotsInv'
    BY <1>9, Frame DEF LoadSeq, shm, producer, consumer, history
  <2>2. ConsumerType'
    BY <1>9 DEF LoadSeq, RingInv, TypeOK, ConsumerType, ConsumerPCs, ShmType
  <2>3. ConsumerInv'
    BY <1>9 DEF LoadSeq, RingInv, TypeOK, ConsumerInv, shm, history
  <2> QED BY <2>1, <2>2, <2>3 DEF RingInv, TypeOK
<1>10. CASE FutexWait
  <2>1. ShmType' /\ ProducerType' /\ HistoryType' /\ IndexOrder' /\ ProducerInv' /\
     HistoryInv' /\ SlotsInv'
    BY <1>10, Frame DEF FutexWait, shm, producer, consumer, history
  <2>2. ConsumerType'
    BY <1>10 DEF FutexWait, RingInv, TypeOK, ConsumerType, ConsumerPCs, ShmType
  <2>3. ConsumerInv'
    BY <1>10 DEF FutexWait, RingInv, TypeOK, ConsumerInv, shm, history
  <2> QED BY <2>1, <2>2, <2>3 DEF RingInv, TypeOK
<1>11. CASE FutexTimeout
  <2>1. ShmType' /\ ProducerType' /\ HistoryType' /\ IndexOrder' /\ ProducerInv' /\
     HistoryInv' /\ SlotsInv'
    BY <1>11, Frame DEF FutexTimeout, shm, producer, consumer, history
  <2>2. ConsumerType'
    BY <1>11 DEF FutexTimeout, RingInv, TypeOK, ConsumerType, ConsumerPCs, ShmType
  <2>3. ConsumerInv'
    BY <1>11 DEF FutexTimeout, RingInv, TypeOK, ConsumerInv, shm, history
  <2> QED BY <2>1, <2>2, <2>3 DEF RingInv, TypeOK
<1>12. CASE FutexInterrupted
  <2>1. ShmType' /\ ProducerType' /\ HistoryType' /\ IndexOrder' /\ ProducerInv' /\
     HistoryInv' /\ SlotsInv'
    BY <1>12, Frame DEF FutexInterrupted, shm, producer, consumer, history
  <2>2. ConsumerType'
    BY <1>12 DEF FutexInterrupted, RingInv, TypeOK, ConsumerType, ConsumerPCs, ShmType
  <2>3. ConsumerInv'
    BY <1>12 DEF FutexInterrupted, RingInv, TypeOK, ConsumerInv, shm, history
  <2> QED BY <2>1, <2>2, <2>3 DEF RingInv, TypeOK
<1>13. CASE RaiseFlag
  <2>1. ProducerType' /\ HistoryType' /\ IndexOrder' /\ ProducerInv' /\ HistoryInv' /\
     SlotsInv'
    BY <1>13, Frame DEF RaiseFlag, shm, producer, consumer, history
  <2>2. ShmType'
    BY <1>13 DEF RaiseFlag, RingInv, TypeOK, ShmType
  <2>3. ConsumerType'
    BY <1>13 DEF RaiseFlag, RingInv, TypeOK, ConsumerType, ConsumerPCs
  <2>4. ConsumerInv'
    BY <1>13 DEF RaiseFlag, RingInv, TypeOK, ConsumerInv, history
  <2> QED BY <2>1, <2>2, <2>3, <2>4 DEF RingInv, TypeOK
<1>14. CASE LowerFlag
  <2>1. ProducerType' /\ HistoryType' /\ IndexOrder' /\ ProducerInv' /\ HistoryInv' /\
     SlotsInv'
    BY <1>14, Frame DEF LowerFlag, shm, producer, consumer, history
  <2>2. ShmType'
    BY <1>14 DEF LowerFlag, RingInv, TypeOK, ShmType
  <2>3. ConsumerType'
    BY <1>14 DEF LowerFlag, RingInv, TypeOK, ConsumerType, ConsumerPCs
  <2>4. ConsumerInv'
    BY <1>14 DEF LowerFlag, RingInv, TypeOK, ConsumerInv, history
  <2> QED BY <2>1, <2>2, <2>3, <2>4 DEF RingInv, TypeOK
<1> QED
  BY <1>1, <1>2, <1>3, <1>4, <1>5, <1>6, <1>7, <1>8, <1>9, <1>10, <1>11, <1>12, <1>13,
     <1>14 DEF ConsumerNext, ConsumerStep

\* Damage to an unread slot by a third process preserves the invariant, which
\* already allows for it.
LEMMA DamageInv == RingInv /\ DamageSlot => RingInv'
<1> SUFFICES ASSUME RingInv, DamageSlot PROVE RingInv'
  OBVIOUS
<1> USE SizesAssumption
<1>1. PICK i \in read_idx .. write_idx - 1 :
         /\ slot' = [slot EXCEPT ![SlotOf(i)].length = SlotDataSize + 1]
         /\ damaged' = damaged \cup {i + 1}
  BY DEF DamageSlot
<1>2. /\ i \in Nat /\ i + 1 \in 1 .. write_idx
      /\ SlotOf(i) \in 0 .. SlotCount - 1
  BY SlotOfType DEF RingInv, TypeOK, ShmType
<1>3. /\ UNCHANGED <<write_idx, read_idx, futex_seq, consumer_waiting, sent, taken>>
      /\ UNCHANGED <<producer, consumer>>
      /\ UNCHANGED <<ppc, pkt, w, cpc, rd, len, buf>>
  BY DEF DamageSlot, producer, consumer
<1>4. ProducerType' /\ ConsumerType' /\ IndexOrder'
  BY <1>3, Frame
<1>5. ShmType'
  <2>1. slot' \in [0 .. SlotCount - 1 -> Slot]
    <3> DEFINE n == SlotDataSize + 1
    <3>1. n \in Nat /\ slot \in [0 .. SlotCount - 1 -> Slot]
      BY DEF RingInv, TypeOK, ShmType
    <3>2. slot' = [slot EXCEPT ![SlotOf(i)].length = n]
      BY <1>1
    <3> HIDE DEF n
    <3> QED BY <3>1, <3>2, <1>2 DEF Slot
  <2> QED BY <2>1, <1>3 DEF RingInv, TypeOK, ShmType
<1>6. HistoryType' /\ HistoryInv'
  BY <1>1, <1>2, <1>3 DEF RingInv, TypeOK, ShmType, HistoryType, HistoryInv
<1>7. ProducerInv'
  <2>1. CASE ppc \in {"length", "hdr", "payload", "publish"}
    <3>1. w \in Nat /\ i < w /\ w < i + SlotCount
      BY <1>2, <2>1 DEF RingInv, TypeOK, ShmType, ProducerInv
    <3>2. SlotOf(i) # SlotOf(w) /\ SlotOf(w) \in 0 .. SlotCount - 1
      BY <3>1, <1>2, SlotOfDistinct, SlotOfType
    <3>3. slot'[SlotOf(w)] = slot[SlotOf(w)]
      BY <3>2, <1>1, <1>2 DEF RingInv, TypeOK, ShmType
    <3> QED BY <3>3, <1>3 DEF RingInv, ProducerInv
  <2>2. CASE ppc \notin {"length", "hdr", "payload", "publish"}
    BY <2>2, <1>3 DEF ProducerInv
  <2> QED BY <2>1, <2>2
<1>8. ConsumerInv'
  BY <1>1, <1>3 DEF RingInv, ConsumerInv
<1>9. SlotsInv'
  <2> SUFFICES ASSUME NEW j \in read_idx .. write_idx - 1 PROVE Holds(j)'
    BY <1>3 DEF SlotsInv
  <2>0. j \in Nat /\ SlotOf(j) \in 0 .. SlotCount - 1 /\ Holds(j)
    BY SlotOfType DEF RingInv, TypeOK, ShmType, SlotsInv
  <2>1. CASE j = i
    <3>1. /\ slot'[SlotOf(i)].length = SlotDataSize + 1
          /\ slot'[SlotOf(i)].hdr = slot[SlotOf(i)].hdr
          /\ slot'[SlotOf(i)].payload = slot[SlotOf(i)].payload
      BY <1>1, <1>2 DEF RingInv, TypeOK, ShmType, Slot
    <3> QED BY <3>1, <2>0, <2>1, <1>1, <1>3 DEF Holds
  <2>2. CASE j # i
    <3>1. (i < j /\ j < i + SlotCount) \/ (j < i /\ i < j + SlotCount)
      BY <2>2 DEF RingInv, TypeOK, ShmType, IndexOrder
    <3>2. SlotOf(i) # SlotOf(j)
      BY <3>1, <2>0, <1>2, SlotOfDistinct
    <3>3. slot'[SlotOf(j)] = slot[SlotOf(j)]
      BY <3>2, <2>0, <1>1, <1>2 DEF RingInv, TypeOK, ShmType
    <3>4. j + 1 \in damaged' <=> j + 1 \in damaged
      BY <2>0, <2>2, <1>1, <1>2
    <3> QED BY <3>3, <3>4, <2>0, <1>3 DEF Holds
  <2> QED BY <2>1, <2>2
<1> QED
  BY <1>4, <1>5, <1>6, <1>7, <1>8, <1>9 DEF RingInv, TypeOK

\* Every step of either process, damage and stuttering preserve the invariant.
LEMMA StepInv == RingInv /\ [Next]_vars => RingInv'
<1> SUFFICES ASSUME RingInv, [Next]_vars PROVE RingInv'
  OBVIOUS
<1>1. CASE Next
  BY <1>1, ProducerStepInv, ConsumerStepInv, DamageInv DEF Next
<1>2. CASE UNCHANGED vars
  <2>1. /\ UNCHANGED <<shm, producer, consumer, history>>
        /\ UNCHANGED <<write_idx, read_idx, slot, ppc, pkt, w>>
        /\ UNCHANGED <<sent, damaged, cpc, rd, len, buf>>
    BY <1>2 DEF vars, shm, producer, consumer, history
  <2> QED BY <2>1, Frame DEF RingInv, TypeOK
<1> QED BY <1>1, <1>2

\* RingInv, which ties what each process of venc_ring.h remembers to the shared
\* indexes and slots, holds in every reachable state.
THEOREM RingInvariant == Spec => []RingInv
  BY InitInv, StepInv, PTL DEF Spec

-------------------------------------------------------------------------------
(* What follows from it.                                                   *)

\* Type correctness of the ring and of both processes, for every ring size.
THEOREM TypeCorrect == Spec => []TypeOK
<1>1. RingInv => TypeOK
  BY DEF RingInv
<1> QED BY <1>1, RingInvariant, PTL

\* The indexes of the ring never cross and never drift apart by more than
\* slot_count, so the unsigned subtraction of venc_ring_write never wraps.
THEOREM IndexesInOrder == Spec => []IndexOrder
<1>1. RingInv => IndexOrder
  BY DEF RingInv
<1> QED BY <1>1, RingInvariant, PTL

\* venc_ring_read never copies past the slot or past the caller's buffer.
THEOREM CopiesInBounds == Spec => []CopyInBounds
<1>1. RingInv => CopyInBounds
  <2> SUFFICES ASSUME RingInv, cpc \in {"hdr", "payload", "release"}
               PROVE  len <= SlotDataSize /\ len <= BufSize
    BY DEF CopyInBounds
  <2>1. rd \in read_idx .. write_idx - 1 /\ rd + 1 \in 1 .. Len(sent)
    BY DEF RingInv, TypeOK, ShmType, ConsumerInv, HistoryInv
  <2>2. sent[rd + 1] \in Packet /\ sent[rd + 1].len <= SlotDataSize
    BY <2>1 DEF RingInv, TypeOK, HistoryType, SlotsInv, Holds
  <2>3. sent[rd + 1].len \in Nat /\ len = Truncate(sent[rd + 1].len)
    BY <2>2, SizesAssumption DEF Packet, RingInv, ConsumerInv
  <2> QED BY <2>2, <2>3, SizesAssumption DEF Truncate
<1> QED BY <1>1, RingInvariant, PTL

\* venc_ring_write never touches the slot venc_ring_read is copying from.
THEOREM SlotsSeparate == Spec => []NoSlotShared
<1>1. RingInv => NoSlotShared
  <2> SUFFICES ASSUME RingInv,
                      ppc \in {"length", "hdr", "payload"},
                      cpc \in {"length", "hdr", "payload"}
               PROVE  SlotOf(w) # SlotOf(rd)
    BY DEF NoSlotShared
  <2>1. rd \in Nat /\ w \in Nat /\ rd < w /\ w < rd + SlotCount
    BY SizesAssumption DEF RingInv, TypeOK, ShmType, ProducerInv, ConsumerInv
  <2> QED BY <2>1, SlotOfDistinct
<1> QED BY <1>1, RingInvariant, PTL

-------------------------------------------------------------------------------
(* The ring implements the bounded FIFO.                                   *)

\* Each step of the ring is a step of PacketFifo or leaves its state alone:
\* Publish sends, WriteFull refuses, Release takes and SkipBadSlot skips.
LEMMA FifoStep == RingInv /\ [Next]_vars => [Fifo!Next]_(Fifo!vars)
<1> SUFFICES ASSUME RingInv, [Next]_vars,
                    ~ UNCHANGED <<sent, taken, pstats.full_drops, damaged>>
             PROVE  Fifo!Next
  BY DEF Fifo!vars
<1> USE SizesAssumption
<1>0. /\ Len(sent) = write_idx /\ Len(taken) = read_idx
      /\ write_idx \in Nat /\ read_idx \in Nat
      /\ read_idx <= write_idx /\ write_idx - read_idx <= SlotCount
  BY DEF RingInv, TypeOK, ShmType, HistoryInv, IndexOrder
<1>1. ASSUME NEW n \in Lens, WriteFull(n) PROVE Fifo!Refuse
  <2>1. write_idx - read_idx = SlotCount
    BY <1>0, <1>1 DEF WriteFull, Full, U64Sub
  <2>2. pstats'.full_drops = pstats.full_drops + 1
    BY <1>1 DEF WriteFull, RingInv, TypeOK, ProducerType
  <2>3. UNCHANGED <<sent, taken, damaged>>
    BY <1>1 DEF WriteFull, history
  <2> QED BY <1>0, <2>1, <2>2, <2>3 DEF Fifo!Refuse, Fifo!Held
<1>2. CASE Publish
  <2>1. pkt \in Packet /\ pkt.len <= SlotDataSize /\ write_idx - read_idx < SlotCount
    BY <1>0, <1>2 DEF Publish, RingInv, ProducerInv
  <2>2. pstats'.full_drops = pstats.full_drops
    BY <1>2 DEF Publish, RingInv, TypeOK, ProducerType
  <2>3. sent' = Append(sent, pkt) /\ UNCHANGED <<taken, damaged>>
    BY <1>2 DEF Publish
  <2> QED BY <1>0, <2>1, <2>2, <2>3 DEF Fifo!Next, Fifo!Send, Fifo!Held
<1>3. CASE Release
  <2>1. /\ rd = Len(taken) /\ read_idx < write_idx
        /\ buf.hdr = sent[rd + 1].id /\ buf.payload = sent[rd + 1].id
        /\ len = Truncate(sent[rd + 1].len)
    BY <1>0, <1>3 DEF Release, RingInv, ConsumerInv
  <2>2. taken' = Append(taken, Received(sent[Len(taken) + 1]))
    BY <1>3, <2>1 DEF Release, Received
  <2>3. UNCHANGED <<sent, pstats.full_drops, damaged>>
    BY <1>3 DEF Release, producer
  <2> QED BY <1>0, <2>1, <2>2, <2>3 DEF Fifo!Next, Fifo!Take, Fifo!Held
<1>4. CASE SkipBadSlot
  <2>1. rd = Len(taken) /\ read_idx < write_idx /\ rd + 1 \in damaged
    BY <1>0, <1>4 DEF SkipBadSlot, RingInv, ConsumerInv
  <2>2. /\ taken' = Append(taken, Skipped)
        /\ UNCHANGED <<sent, pstats.full_drops, damaged>>
    BY <1>4 DEF SkipBadSlot, producer
  <2> QED BY <1>0, <2>1, <2>2 DEF Fifo!Next, Fifo!Skip, Fifo!Held
<1>5. CASE DamageSlot
  <2>1. PICK i \in read_idx .. write_idx - 1 : damaged' = damaged \cup {i + 1}
    BY <1>5 DEF DamageSlot
  <2>2. i + 1 \in Len(taken) + 1 .. Len(sent)
    BY <1>0
  <2>3. UNCHANGED <<sent, taken, pstats.full_drops>>
    BY <1>5 DEF DamageSlot, producer
  <2> QED BY <2>1, <2>2, <2>3 DEF Fifo!Next, Fifo!Damage
<1>6. ASSUME NEW n \in Lens, WriteOversize(n) PROVE FALSE
  <2>1. pstats'.full_drops = pstats.full_drops
    BY <1>6 DEF WriteOversize, RingInv, TypeOK, ProducerType
  <2> QED BY <1>6, <2>1 DEF WriteOversize, history
<1>7. ASSUME NEW n \in Lens, WriteBegin(n) PROVE FALSE
  BY <1>7 DEF WriteBegin, history
<1>8. CASE WriteLength \/ WriteHeader \/ WritePayload \/ Notify \/ Wake
  BY <1>8 DEF WriteLength, WriteHeader, WritePayload, Notify, Wake, history
<1>9. CASE \/ ReadEmpty \/ ReadBegin \/ ReadLength \/ CopyHeader \/ CopyPayload
           \/ LoadSeq \/ RaiseFlag \/ FutexWait \/ FutexTimeout \/ LowerFlag
           \/ FutexInterrupted \/ \E m \in ReadCalls : ReadCall(m)
  BY <1>9 DEF ReadEmpty, ReadBegin, ReadLength, CopyHeader, CopyPayload, LoadSeq,
     RaiseFlag, FutexWait, FutexTimeout, LowerFlag, FutexInterrupted, ReadCall, history,
     producer
<1>10. CASE UNCHANGED vars
  BY <1>10 DEF vars, history, producer
<1> QED
  BY <1>1, <1>2, <1>3, <1>4, <1>5, <1>6, <1>7, <1>8, <1>9, <1>10
  DEF Next, ProducerNext, InWrite, ConsumerNext, ConsumerStep, Fifo!Next

\* For every ring size, every packet length and every interleaving of the two
\* processes, the ring is a bounded FIFO that loses nothing it accepted.
THEOREM RingIsFifo == Spec => FifoSpec
<1>1. Init => Fifo!Init
  BY DEF Init, Fifo!Init
<1> QED
  BY <1>1, FifoStep, RingInvariant, PTL DEF Spec, FifoSpec, Fifo!Spec

--------------------------------------------------------------------------------
(* The life cycle of rings.                                                *)

(* Until its header is filled in, an object under construction cannot pass *)
(* for a valid one, so no consumer can have mapped it since O_TRUNC.       *)
Unfinished ==
    /\ creator \in {"opened", "sized", "zeroed"} => obj[mine].fields = 0
    /\ creator \in {"opened", "sized", "zeroed", "filled"} => obj[mine].init_complete = 0
    /\ creator \in {"zeroed", "filled", "complete", "up"} => obj[mine].size = 1

(* The indexes of every object, and of the one the consumer works on.      *)
Ordered == \A o \in Objects : obj[o].read_idx <= obj[o].write_idx

Known ==
    /\ HeaderComplete /\ attacher # "faulted"
    /\ attacher = "skip_store" => cw = mark /\ cw <= obj[hold].write_idx
    /\ attacher \in {"loop", "drain", "take"} => obj[hold].read_idx >= mark
    /\ attacher = "take" => crd >= mark /\ crd < obj[hold].write_idx

LifeInv == LifeTypeOK /\ Unfinished /\ (straddled \/ (Ordered /\ Known))

-------------------------------------------------------------------------------
(* The invariant is inductive.                                             *)

\* Creation, writes and destruction by the producer preserve the invariant.
LEMMA CreatesInv == LifeInv /\ (ProducerStep \/ Crash) => LifeInv'
<1> SUFFICES ASSUME LifeInv, ProducerStep \/ Crash PROVE LifeInv'
  OBVIOUS
<1> USE DEF pvars, cvars
<1>1. CASE OpenShm
  <2> DEFINE o == IF name # 0 THEN name ELSE creates + 1
  <2>0. o \in Objects /\ ObjectType
    BY <1>1, LifecycleAssumption DEF LifecycleAssumption, LifeInv, LifeTypeOK,
       ControlType,
       Objects, OpenShm
  <2>6. /\ obj' = [obj EXCEPT ![o] = Blank] /\ name' = o /\ mine' = o
        /\ creator' = "opened"
        /\ straddled' = (straddled \/ hold = o) /\ creates' = creates + 1
        /\ UNCHANGED cvars
        /\ creates < MaxCreates
    BY <1>1 DEF OpenShm
  <2> HIDE DEF o
  <2>1. obj' \in [Objects -> Record]
    BY <2>0, <2>6, LifecycleAssumption DEF LifecycleAssumption, ObjectType, Record,
       Blank
  <2>2. obj'[o] = Blank /\ \A p \in Objects \ {o} : obj'[p] = obj[p]
    BY <2>0, <2>6 DEF ObjectType
  <2>3. ControlType'
    BY <2>0, <2>6, LifecycleAssumption DEF LifecycleAssumption, LifeInv, LifeTypeOK,
       ControlType,
       Mapped, Objects
  <2>4. Unfinished'
    BY <2>0, <2>6, <2>2 DEF Unfinished, Blank
  <2>5. (straddled \/ (Ordered /\ Known))'
    <3> SUFFICES ASSUME ~straddled' PROVE (Ordered /\ Known)'
      OBVIOUS
    <3>1. hold # o /\ Ordered /\ Known
      BY <2>6 DEF LifeInv, LifeTypeOK, ControlType
    <3>2. Ordered'
      BY <3>1, <2>2 DEF Ordered, Blank
    <3>3. Mapped => hold \in Objects \ {o}
      BY <3>1 DEF LifeInv, LifeTypeOK, ControlType, Objects, Mapped
    <3>4. Known'
      BY <3>1, <3>3, <2>2, <2>6 DEF Known, HeaderComplete, Mapped
    <3> QED BY <3>2, <3>4
  <2> QED BY <2>1, <2>3, <2>4, <2>5 DEF LifeInv, LifeTypeOK, ObjectType
<1>2. CASE Resize
  <2>0. mine \in Objects /\ ObjectType
    BY <1>2 DEF LifeInv, LifeTypeOK, ControlType, Mapped, Objects,
       Resize
  <2>1. obj' \in [Objects -> Record]
    BY <1>2, <2>0, LifecycleAssumption DEF LifecycleAssumption, LifeInv, LifeTypeOK,
       ObjectType,
       ControlType, Record, Resize
  <2>2. /\ obj'[mine].size = 1
        /\ obj'[mine].fields = obj[mine].fields
        /\ obj'[mine].init_complete = obj[mine].init_complete
        /\ obj'[mine].write_idx = obj[mine].write_idx
        /\ obj'[mine].read_idx = obj[mine].read_idx
        /\ \A p \in Objects \ {mine} : obj'[p] = obj[p]
    BY <1>2, <2>0 DEF ObjectType, Record, Resize
  <2>3. ControlType'
    BY <1>2, LifecycleAssumption DEF LifecycleAssumption, LifeInv, LifeTypeOK,
       ControlType,
       Mapped, Resize
  <2>4. Unfinished'
    BY <1>2, <2>0, <2>1, <2>2 DEF LifeInv, LifeTypeOK, ControlType, Objects,
       Unfinished, Resize
  <2>5. (straddled \/ (Ordered /\ Known))'
    <3> SUFFICES ASSUME ~straddled' PROVE (Ordered /\ Known)'
      OBVIOUS
    <3>1. UNCHANGED <<cvars, straddled>>
      BY <1>2 DEF Resize
    <3>2. Ordered /\ Known /\ (Mapped => hold \in Objects)
      BY <3>1 DEF LifeInv, LifeTypeOK, ControlType, Objects, Mapped
    <3>3. Ordered'
      BY <3>2, <2>0, <2>2 DEF Ordered, ObjectType, Record
    <3>4. Known'
      BY <1>2, <3>1, <3>2, <2>0, <2>2 DEF LifeInv, LifeTypeOK, ControlType,
         ObjectType, Record, Unfinished, Known, HeaderComplete,
         Mapped, Resize
    <3> QED BY <3>3, <3>4
  <2> QED BY <2>1, <2>3, <2>4, <2>5 DEF LifeInv, LifeTypeOK, ObjectType
<1>3. CASE CreateFails
  <2>1. obj' = obj
    BY <1>3 DEF CreateFails
  <2>3. ControlType'
    BY <1>3, LifecycleAssumption DEF LifecycleAssumption, LifeInv, LifeTypeOK,
       ControlType,
       Mapped, CreateFails
  <2>4. Unfinished'
    BY <1>3, <2>1 DEF LifeInv, LifeTypeOK, ControlType, Objects, Unfinished,
       CreateFails
  <2>5. (straddled \/ (Ordered /\ Known))'
    BY <1>3, <2>1 DEF LifeInv, LifeTypeOK, ObjectType, ControlType,
       Record, Objects, Unfinished, Ordered, Known, HeaderComplete,
       Mapped, CreateFails
  <2> QED BY <2>1, <2>3, <2>4, <2>5 DEF LifeInv, LifeTypeOK, ObjectType
<1>4. CASE Zero
  <2>0. mine \in Objects /\ ObjectType
    BY <1>4 DEF LifeInv, LifeTypeOK, ControlType, Mapped, Objects,
       Zero
  <2>1. obj' \in [Objects -> Record]
    BY <1>4, <2>0, LifecycleAssumption DEF LifecycleAssumption, LifeInv, LifeTypeOK,
       ObjectType,
       ControlType, Record, Zero, Blank
  <2>2. /\ obj'[mine].size = 1
        /\ obj'[mine].fields = 0
        /\ obj'[mine].init_complete = 0
        /\ obj'[mine].write_idx = 0
        /\ obj'[mine].read_idx = 0
        /\ \A p \in Objects \ {mine} : obj'[p] = obj[p]
    BY <1>4, <2>0 DEF ObjectType, Record, Zero, Blank
  <2>3. ControlType'
    BY <1>4, LifecycleAssumption DEF LifecycleAssumption, LifeInv, LifeTypeOK,
       ControlType,
       Mapped, Zero, Blank
  <2>4. Unfinished'
    BY <1>4, <2>0, <2>1, <2>2 DEF LifeInv, LifeTypeOK, ControlType, Objects,
       Unfinished, Zero, Blank
  <2>5. (straddled \/ (Ordered /\ Known))'
    <3> SUFFICES ASSUME ~straddled' PROVE (Ordered /\ Known)'
      OBVIOUS
    <3>1. UNCHANGED <<cvars, straddled>>
      BY <1>4 DEF Zero, Blank
    <3>2. Ordered /\ Known /\ (Mapped => hold \in Objects)
      BY <3>1 DEF LifeInv, LifeTypeOK, ControlType, Objects, Mapped
    <3>3. Ordered'
      BY <3>2, <2>0, <2>2 DEF Ordered, ObjectType, Record
    <3>4. Known'
      BY <1>4, <3>1, <3>2, <2>0, <2>2 DEF LifeInv, LifeTypeOK, ControlType,
         ObjectType, Record, Unfinished, Known, HeaderComplete,
         Mapped, Zero
    <3> QED BY <3>3, <3>4
  <2> QED BY <2>1, <2>3, <2>4, <2>5 DEF LifeInv, LifeTypeOK, ObjectType
<1>5. CASE FillHeader
  <2>0. mine \in Objects /\ ObjectType
    BY <1>5 DEF LifeInv, LifeTypeOK, ControlType, Mapped, Objects,
       FillHeader
  <2>1. obj' \in [Objects -> Record]
    <3>1. creates \in 0 .. MaxCreates /\ 1 \in {0, 1}
      BY DEF LifeInv, LifeTypeOK, ControlType
    <3> QED BY <1>5, <2>0, <3>1 DEF ObjectType, Record, FillHeader
  <2>2. /\ obj'[mine].size = obj[mine].size
        /\ obj'[mine].fields = 1
        /\ obj'[mine].init_complete = obj[mine].init_complete
        /\ obj'[mine].write_idx = obj[mine].write_idx
        /\ obj'[mine].read_idx = obj[mine].read_idx
        /\ \A p \in Objects \ {mine} : obj'[p] = obj[p]
    BY <1>5, <2>0 DEF ObjectType, Record, FillHeader
  <2>3. ControlType'
    BY <1>5, LifecycleAssumption DEF LifecycleAssumption, LifeInv, LifeTypeOK,
       ControlType,
       Mapped, FillHeader
  <2>4. Unfinished'
    BY <1>5, <2>0, <2>1, <2>2 DEF LifeInv, LifeTypeOK, ControlType, Objects,
       Unfinished, FillHeader
  <2>5. (straddled \/ (Ordered /\ Known))'
    <3> SUFFICES ASSUME ~straddled' PROVE (Ordered /\ Known)'
      OBVIOUS
    <3>1. UNCHANGED <<cvars, straddled>>
      BY <1>5 DEF FillHeader
    <3>2. Ordered /\ Known /\ (Mapped => hold \in Objects)
      BY <3>1 DEF LifeInv, LifeTypeOK, ControlType, Objects, Mapped
    <3>3. Ordered'
      BY <3>2, <2>0, <2>2 DEF Ordered, ObjectType, Record
    <3>4. Known'
      BY <1>5, <3>1, <3>2, <2>0, <2>2 DEF LifeInv, LifeTypeOK, ControlType,
         ObjectType, Record, Unfinished, Known, HeaderComplete,
         Mapped, FillHeader
    <3> QED BY <3>3, <3>4
  <2> QED BY <2>1, <2>3, <2>4, <2>5 DEF LifeInv, LifeTypeOK, ObjectType
<1>6. CASE Complete
  <2>0. mine \in Objects /\ ObjectType
    BY <1>6 DEF LifeInv, LifeTypeOK, ControlType, Mapped, Objects,
       Complete
  <2>1. obj' \in [Objects -> Record]
    BY <1>6, <2>0, LifecycleAssumption DEF LifecycleAssumption, LifeInv, LifeTypeOK,
       ObjectType,
       ControlType, Record, Complete
  <2>2. /\ obj'[mine].size = obj[mine].size
        /\ obj'[mine].fields = obj[mine].fields
        /\ obj'[mine].init_complete = 1
        /\ obj'[mine].write_idx = obj[mine].write_idx
        /\ obj'[mine].read_idx = obj[mine].read_idx
        /\ \A p \in Objects \ {mine} : obj'[p] = obj[p]
    BY <1>6, <2>0 DEF ObjectType, Record, Complete
  <2>3. ControlType'
    BY <1>6, LifecycleAssumption DEF LifecycleAssumption, LifeInv, LifeTypeOK,
       ControlType,
       Mapped, Complete
  <2>4. Unfinished'
    BY <1>6, <2>0, <2>1, <2>2 DEF LifeInv, LifeTypeOK, ControlType, Objects,
       Unfinished, Complete
  <2>5. (straddled \/ (Ordered /\ Known))'
    <3> SUFFICES ASSUME ~straddled' PROVE (Ordered /\ Known)'
      OBVIOUS
    <3>1. UNCHANGED <<cvars, straddled>>
      BY <1>6 DEF Complete
    <3>2. Ordered /\ Known /\ (Mapped => hold \in Objects)
      BY <3>1 DEF LifeInv, LifeTypeOK, ControlType, Objects, Mapped
    <3>3. Ordered'
      BY <3>2, <2>0, <2>2 DEF Ordered, ObjectType, Record
    <3>4. Known'
      BY <1>6, <3>1, <3>2, <2>0, <2>2 DEF LifeInv, LifeTypeOK, ControlType,
         ObjectType, Record, Unfinished, Known, HeaderComplete,
         Mapped, Complete
    <3> QED BY <3>3, <3>4
  <2> QED BY <2>1, <2>3, <2>4, <2>5 DEF LifeInv, LifeTypeOK, ObjectType
<1>7. CASE AllocHandle
  <2>1. obj' = obj
    BY <1>7 DEF AllocHandle
  <2>3. ControlType'
    BY <1>7, LifecycleAssumption DEF LifecycleAssumption, LifeInv, LifeTypeOK,
       ControlType,
       Mapped, AllocHandle
  <2>4. Unfinished'
    BY <1>7, <2>1 DEF LifeInv, LifeTypeOK, ControlType, Objects, Unfinished,
       AllocHandle
  <2>5. (straddled \/ (Ordered /\ Known))'
    BY <1>7, <2>1 DEF LifeInv, LifeTypeOK, ObjectType, ControlType,
       Record, Objects, Unfinished, Ordered, Known, HeaderComplete,
       Mapped, AllocHandle
  <2> QED BY <2>1, <2>3, <2>4, <2>5 DEF LifeInv, LifeTypeOK, ObjectType
<1>8. CASE Write
  <2>0. mine \in Objects /\ ObjectType
    BY <1>8 DEF LifeInv, LifeTypeOK, ControlType, Mapped, Objects,
       Write
  <2>1. obj' \in [Objects -> Record]
    BY <1>8, <2>0, LifecycleAssumption DEF LifecycleAssumption, LifeInv, LifeTypeOK,
       ObjectType,
       ControlType, Record, Write
  <2>2. /\ obj'[mine].size = obj[mine].size
        /\ obj'[mine].fields = obj[mine].fields
        /\ obj'[mine].init_complete = obj[mine].init_complete
        /\ obj'[mine].write_idx = obj[mine].write_idx + 1
        /\ obj'[mine].read_idx = obj[mine].read_idx
        /\ \A p \in Objects \ {mine} : obj'[p] = obj[p]
    BY <1>8, <2>0 DEF ObjectType, Record, Write
  <2>3. ControlType'
    BY <1>8, LifecycleAssumption DEF LifecycleAssumption, LifeInv, LifeTypeOK,
       ControlType,
       Mapped, Write
  <2>4. Unfinished'
    BY <1>8, <2>0, <2>1, <2>2 DEF LifeInv, LifeTypeOK, ControlType, Objects,
       Unfinished, Write
  <2>5. (straddled \/ (Ordered /\ Known))'
    <3> SUFFICES ASSUME ~straddled' PROVE (Ordered /\ Known)'
      OBVIOUS
    <3>1. UNCHANGED <<cvars, straddled>>
      BY <1>8 DEF Write
    <3>2. Ordered /\ Known /\ (Mapped => hold \in Objects)
      BY <3>1 DEF LifeInv, LifeTypeOK, ControlType, Objects, Mapped
    <3>3. Ordered'
      BY <3>2, <2>0, <2>2 DEF Ordered, ObjectType, Record
    <3>4. Known'
      BY <1>8, <3>1, <3>2, <2>0, <2>2 DEF LifeInv, LifeTypeOK, ControlType,
         ObjectType, Record, Unfinished, Known, HeaderComplete,
         Mapped, Write
    <3> QED BY <3>3, <3>4
  <2> QED BY <2>1, <2>3, <2>4, <2>5 DEF LifeInv, LifeTypeOK, ObjectType
<1>9. CASE Invalidate
  <2>0. mine \in Objects /\ ObjectType
    BY <1>9 DEF LifeInv, LifeTypeOK, ControlType, Mapped, Objects,
       Invalidate
  <2>1. obj' \in [Objects -> Record]
    BY <1>9, <2>0, LifecycleAssumption DEF LifecycleAssumption, LifeInv, LifeTypeOK,
       ObjectType,
       ControlType, Record, Invalidate
  <2>2. /\ obj'[mine].size = obj[mine].size
        /\ obj'[mine].fields = obj[mine].fields
        /\ obj'[mine].init_complete = 0
        /\ obj'[mine].write_idx = obj[mine].write_idx
        /\ obj'[mine].read_idx = obj[mine].read_idx
        /\ \A p \in Objects \ {mine} : obj'[p] = obj[p]
    BY <1>9, <2>0 DEF ObjectType, Record, Invalidate
  <2>3. ControlType'
    BY <1>9, LifecycleAssumption DEF LifecycleAssumption, LifeInv, LifeTypeOK,
       ControlType,
       Mapped, Invalidate
  <2>4. Unfinished'
    BY <1>9, <2>0, <2>1, <2>2 DEF LifeInv, LifeTypeOK, ControlType, Objects,
       Unfinished, Invalidate
  <2>5. (straddled \/ (Ordered /\ Known))'
    <3> SUFFICES ASSUME ~straddled' PROVE (Ordered /\ Known)'
      OBVIOUS
    <3>1. UNCHANGED <<cvars, straddled>>
      BY <1>9 DEF Invalidate
    <3>2. Ordered /\ Known /\ (Mapped => hold \in Objects)
      BY <3>1 DEF LifeInv, LifeTypeOK, ControlType, Objects, Mapped
    <3>3. Ordered'
      BY <3>2, <2>0, <2>2 DEF Ordered, ObjectType, Record
    <3>4. Known'
      BY <1>9, <3>1, <3>2, <2>0, <2>2 DEF LifeInv, LifeTypeOK, ControlType,
         ObjectType, Record, Unfinished, Known, HeaderComplete,
         Mapped, Invalidate
    <3> QED BY <3>3, <3>4
  <2> QED BY <2>1, <2>3, <2>4, <2>5 DEF LifeInv, LifeTypeOK, ObjectType
<1>10. CASE Unlink
  <2>1. obj' = obj
    BY <1>10 DEF Unlink
  <2>3. ControlType'
    BY <1>10, LifecycleAssumption DEF LifecycleAssumption, LifeInv, LifeTypeOK,
       ControlType,
       Mapped, Unlink
  <2>4. Unfinished'
    BY <1>10, <2>1 DEF LifeInv, LifeTypeOK, ControlType, Objects, Unfinished,
       Unlink
  <2>5. (straddled \/ (Ordered /\ Known))'
    BY <1>10, <2>1 DEF LifeInv, LifeTypeOK, ObjectType, ControlType,
       Record, Objects, Unfinished, Ordered, Known, HeaderComplete,
       Mapped, Unlink
  <2> QED BY <2>1, <2>3, <2>4, <2>5 DEF LifeInv, LifeTypeOK, ObjectType
<1>11. CASE Crash
  <2>1. obj' = obj
    BY <1>11 DEF Crash
  <2>3. ControlType'
    BY <1>11, LifecycleAssumption DEF LifecycleAssumption, LifeInv, LifeTypeOK,
       ControlType,
       Mapped, Crash
  <2>4. Unfinished'
    BY <1>11, <2>1 DEF LifeInv, LifeTypeOK, ControlType, Objects, Unfinished,
       Crash
  <2>5. (straddled \/ (Ordered /\ Known))'
    BY <1>11, <2>1 DEF LifeInv, LifeTypeOK, ObjectType, ControlType,
       Record, Objects, Unfinished, Ordered, Known, HeaderComplete,
       Mapped, Crash
  <2> QED BY <2>1, <2>3, <2>4, <2>5 DEF LifeInv, LifeTypeOK, ObjectType
<1> QED BY <1>1, <1>2, <1>3, <1>4, <1>5, <1>6, <1>7, <1>8, <1>9, <1>10, <1>11 DEF
   ProducerStep

\* Attaching, skipping, draining and detaching by wfb_tx preserve the invariant.
LEMMA AttachesInv == LifeInv /\ (AttacherStep \/ StartConsumer \/ ConsumerExits)
                    => LifeInv'
<1> SUFFICES ASSUME LifeInv,
                    AttacherStep \/ StartConsumer \/ ConsumerExits
             PROVE  LifeInv'
  OBVIOUS
<1> USE DEF pvars, cvars
<1>1. CASE AttachOpen
  <2>1. obj' = obj
    BY <1>1 DEF AttachOpen, AttachFails
  <2>3. ControlType'
    BY <1>1, LifecycleAssumption DEF LifecycleAssumption, LifeInv, LifeTypeOK,
       ControlType,
       Mapped, AttachOpen, AttachFails
  <2>4. Unfinished'
    BY <1>1, <2>1 DEF LifeInv, LifeTypeOK, ControlType, Objects, Unfinished,
       AttachOpen, AttachFails
  <2>5. (straddled \/ (Ordered /\ Known))'
    BY <1>1, <2>1 DEF LifeInv, LifeTypeOK, ObjectType, ControlType,
       Record, Objects, Unfinished, Ordered, Known, HeaderComplete,
       Mapped, AttachOpen, AttachFails
  <2> QED BY <2>1, <2>3, <2>4, <2>5 DEF LifeInv, LifeTypeOK, ObjectType
<1>2. CASE AttachValidate
  <2>1. obj' = obj
    BY <1>2 DEF AttachValidate, AttachFails, Valid
  <2>3. ControlType'
    BY <1>2, LifecycleAssumption DEF LifecycleAssumption, LifeInv, LifeTypeOK,
       ControlType,
       Mapped, AttachValidate, AttachFails, Valid
  <2>4. Unfinished'
    BY <1>2, <2>1 DEF LifeInv, LifeTypeOK, ControlType, Objects, Unfinished,
       AttachValidate, AttachFails, Valid
  <2>5. (straddled \/ (Ordered /\ Known))'
    BY <1>2, <2>1 DEF LifeInv, LifeTypeOK, ObjectType, ControlType,
       Record, Objects, Unfinished, Ordered, Known, HeaderComplete,
       Mapped, AttachValidate, AttachFails, Valid
  <2> QED BY <2>1, <2>3, <2>4, <2>5 DEF LifeInv, LifeTypeOK, ObjectType
<1>3. CASE AttachMap
  <2>1. obj' = obj
    BY <1>3 DEF AttachMap, AttachFails, Valid
  <2>3. ControlType'
    BY <1>3, LifecycleAssumption DEF LifecycleAssumption, LifeInv, LifeTypeOK,
       ControlType,
       Mapped, AttachMap, AttachFails, Valid
  <2>4. Unfinished'
    BY <1>3, <2>1 DEF LifeInv, LifeTypeOK, ControlType, Objects, Unfinished,
       AttachMap, AttachFails, Valid
  <2>5. (straddled \/ (Ordered /\ Known))'
    BY <1>3, <2>1 DEF LifeInv, LifeTypeOK, ObjectType, ControlType,
       Record, Objects, Unfinished, Ordered, Known, HeaderComplete,
       Mapped, AttachMap, AttachFails, Valid
  <2> QED BY <2>1, <2>3, <2>4, <2>5 DEF LifeInv, LifeTypeOK, ObjectType
<1>4. CASE SkipLoad
  <2>1. obj' = obj
    BY <1>4 DEF SkipLoad
  <2>3. ControlType'
    BY <1>4, LifecycleAssumption DEF LifecycleAssumption, LifeInv, LifeTypeOK,
       ControlType,
       Objects, ObjectType, Record, Mapped, SkipLoad
  <2>4. Unfinished'
    BY <1>4, <2>1 DEF LifeInv, LifeTypeOK, ControlType, Objects, Unfinished,
       SkipLoad
  <2>5. (straddled \/ (Ordered /\ Known))'
    BY <1>4, <2>1 DEF LifeInv, LifeTypeOK, ObjectType, ControlType,
       Record, Objects, Unfinished, Ordered, Known, HeaderComplete,
       Mapped, SkipLoad
  <2> QED BY <2>1, <2>3, <2>4, <2>5 DEF LifeInv, LifeTypeOK, ObjectType
<1>5. CASE SkipStore
  <2>0. hold \in Objects /\ ObjectType
    BY <1>5 DEF LifeInv, LifeTypeOK, ControlType, Mapped, Objects,
       SkipStore
  <2>1. obj' \in [Objects -> Record]
    BY <1>5, <2>0, LifecycleAssumption DEF LifecycleAssumption, LifeInv, LifeTypeOK,
       ObjectType,
       ControlType, Record, SkipStore
  <2>2. /\ obj'[hold].size = obj[hold].size
        /\ obj'[hold].fields = obj[hold].fields
        /\ obj'[hold].init_complete = obj[hold].init_complete
        /\ obj'[hold].write_idx = obj[hold].write_idx
        /\ obj'[hold].read_idx = cw
        /\ \A p \in Objects \ {hold} : obj'[p] = obj[p]
    BY <1>5, <2>0 DEF ObjectType, Record, SkipStore
  <2>3. ControlType'
    BY <1>5, LifecycleAssumption DEF LifecycleAssumption, LifeInv, LifeTypeOK,
       ControlType,
       Mapped, SkipStore
  <2>4. Unfinished'
    BY <1>5, <2>0, <2>1, <2>2 DEF LifeInv, LifeTypeOK, ControlType, Objects,
       Unfinished, SkipStore
  <2>5. (straddled \/ (Ordered /\ Known))'
    <3> SUFFICES ASSUME ~straddled' PROVE (Ordered /\ Known)'
      OBVIOUS
    <3>1. Ordered /\ Known
      BY <1>5 DEF LifeInv, SkipStore
    <3>2. obj[hold].write_idx \in Nat /\ obj[hold].read_idx \in Nat /\ Mapped
      BY <1>5, <2>0 DEF ObjectType, Record,
         Mapped, SkipStore
    <3>3. obj'[hold].read_idx <= obj'[hold].write_idx /\ obj'[hold].read_idx >= mark
      BY <1>5, <2>2, <3>1, <3>2 DEF Known, LifeInv, LifeTypeOK, ControlType,
         SkipStore
    <3>4. Ordered'
      BY <2>2, <3>1, <3>3 DEF Ordered
    <3>5. Known'
      BY <1>5, <2>0, <2>2, <3>1, <3>2, <3>3 DEF Known, HeaderComplete,
         Mapped, SkipStore
    <3> QED BY <3>4, <3>5
  <2> QED BY <2>1, <2>3, <2>4, <2>5 DEF LifeInv, LifeTypeOK, ObjectType
<1>6. CASE CheckProducer
  <2>1. obj' = obj
    BY <1>6 DEF CheckProducer
  <2>3. ControlType'
    BY <1>6, LifecycleAssumption DEF LifecycleAssumption, LifeInv, LifeTypeOK,
       ControlType,
       Mapped, CheckProducer
  <2>4. Unfinished'
    BY <1>6, <2>1 DEF LifeInv, LifeTypeOK, ControlType, Objects, Unfinished,
       CheckProducer
  <2>5. (straddled \/ (Ordered /\ Known))'
    BY <1>6, <2>1 DEF LifeInv, LifeTypeOK, ObjectType, ControlType,
       Record, Objects, Unfinished, Ordered, Known, HeaderComplete,
       Mapped, CheckProducer
  <2> QED BY <2>1, <2>3, <2>4, <2>5 DEF LifeInv, LifeTypeOK, ObjectType
<1>7. CASE ReadLoad
  <2>1. obj' = obj
    BY <1>7 DEF ReadLoad
  <2>3. ControlType'
    BY <1>7, LifecycleAssumption DEF LifecycleAssumption, LifeInv, LifeTypeOK,
       ControlType,
       Objects, ObjectType, Record, Mapped, ReadLoad
  <2>4. Unfinished'
    BY <1>7, <2>1 DEF LifeInv, LifeTypeOK, ControlType, Objects, Unfinished,
       ReadLoad
  <2>5. (straddled \/ (Ordered /\ Known))'
    BY <1>7, <2>1 DEF LifeInv, LifeTypeOK, ObjectType, ControlType,
       Record, Objects, Unfinished, Ordered, Known, HeaderComplete,
       Mapped, ReadLoad
  <2> QED BY <2>1, <2>3, <2>4, <2>5 DEF LifeInv, LifeTypeOK, ObjectType
<1>8. CASE ReadStore
  <2>0. hold \in Objects /\ ObjectType
    BY <1>8 DEF LifeInv, LifeTypeOK, ControlType, Mapped, Objects,
       ReadStore
  <2>1. obj' \in [Objects -> Record]
    BY <1>8, <2>0, LifecycleAssumption DEF LifecycleAssumption, LifeInv, LifeTypeOK,
       ObjectType,
       ControlType, Record, ReadStore
  <2>2. /\ obj'[hold].size = obj[hold].size
        /\ obj'[hold].fields = obj[hold].fields
        /\ obj'[hold].init_complete = obj[hold].init_complete
        /\ obj'[hold].write_idx = obj[hold].write_idx
        /\ obj'[hold].read_idx = crd + 1
        /\ \A p \in Objects \ {hold} : obj'[p] = obj[p]
    BY <1>8, <2>0 DEF ObjectType, Record, ReadStore
  <2>3. ControlType'
    BY <1>8, LifecycleAssumption DEF LifecycleAssumption, LifeInv, LifeTypeOK,
       ControlType,
       Mapped, ReadStore
  <2>4. Unfinished'
    BY <1>8, <2>0, <2>1, <2>2 DEF LifeInv, LifeTypeOK, ControlType, Objects,
       Unfinished, ReadStore
  <2>5. (straddled \/ (Ordered /\ Known))'
    <3> SUFFICES ASSUME ~straddled' PROVE (Ordered /\ Known)'
      OBVIOUS
    <3>1. Ordered /\ Known
      BY <1>8 DEF LifeInv, ReadStore
    <3>2. obj[hold].write_idx \in Nat /\ obj[hold].read_idx \in Nat /\ Mapped
      BY <1>8, <2>0 DEF ObjectType, Record,
         Mapped, ReadStore
    <3>3. obj'[hold].read_idx <= obj'[hold].write_idx /\ obj'[hold].read_idx >= mark
      BY <1>8, <2>2, <3>1, <3>2 DEF Known, LifeInv, LifeTypeOK, ControlType,
         ReadStore
    <3>4. Ordered'
      BY <2>2, <3>1, <3>3 DEF Ordered
    <3>5. Known'
      BY <1>8, <2>0, <2>2, <3>1, <3>2, <3>3 DEF Known, HeaderComplete,
         Mapped, ReadStore
    <3> QED BY <3>4, <3>5
  <2> QED BY <2>1, <2>3, <2>4, <2>5 DEF LifeInv, LifeTypeOK, ObjectType
<1>9. CASE Fault
  <2>1. obj' = obj
    BY <1>9 DEF Fault
  <2>3. ControlType'
    BY <1>9, LifecycleAssumption DEF LifecycleAssumption, LifeInv, LifeTypeOK,
       ControlType,
       Mapped, Fault
  <2>4. Unfinished'
    BY <1>9, <2>1 DEF LifeInv, LifeTypeOK, ControlType, Objects, Unfinished,
       Fault
  <2>5. (straddled \/ (Ordered /\ Known))'
    BY <1>9, <2>1 DEF LifeInv, LifeTypeOK, ObjectType, ControlType,
       Record, Objects, Unfinished, Ordered, Known, HeaderComplete,
       Mapped, Fault
  <2> QED BY <2>1, <2>3, <2>4, <2>5 DEF LifeInv, LifeTypeOK, ObjectType
<1>10. CASE StartConsumer
  <2>1. obj' = obj
    BY <1>10 DEF StartConsumer
  <2>3. ControlType'
    BY <1>10, LifecycleAssumption DEF LifecycleAssumption, LifeInv, LifeTypeOK,
       ControlType,
       Mapped, StartConsumer
  <2>4. Unfinished'
    BY <1>10, <2>1 DEF LifeInv, LifeTypeOK, ControlType, Objects, Unfinished,
       StartConsumer
  <2>5. (straddled \/ (Ordered /\ Known))'
    BY <1>10, <2>1 DEF LifeInv, LifeTypeOK, ObjectType, ControlType,
       Record, Objects, Unfinished, Ordered, Known, HeaderComplete,
       Mapped, StartConsumer
  <2> QED BY <2>1, <2>3, <2>4, <2>5 DEF LifeInv, LifeTypeOK, ObjectType
<1>11. CASE ConsumerExits
  <2>1. obj' = obj
    BY <1>11 DEF ConsumerExits
  <2>3. ControlType'
    BY <1>11, LifecycleAssumption DEF LifecycleAssumption, LifeInv, LifeTypeOK,
       ControlType,
       Mapped, ConsumerExits
  <2>4. Unfinished'
    BY <1>11, <2>1 DEF LifeInv, LifeTypeOK, ControlType, Objects, Unfinished,
       ConsumerExits
  <2>5. (straddled \/ (Ordered /\ Known))'
    BY <1>11, <2>1 DEF LifeInv, LifeTypeOK, ObjectType, ControlType,
       Record, Objects, Unfinished, Ordered, Known, HeaderComplete,
       Mapped, ConsumerExits
  <2> QED BY <2>1, <2>3, <2>4, <2>5 DEF LifeInv, LifeTypeOK, ObjectType
<1> QED BY <1>1, <1>2, <1>3, <1>4, <1>5, <1>6, <1>7, <1>8, <1>9, <1>10, <1>11 DEF
   AttacherStep

\* The invariant holds of every behaviour of the life cycle.
LEMMA LifeHolds == LifeSpec => []LifeInv
<1>1. LifeInit => LifeInv
  <2> SUFFICES ASSUME LifeInit PROVE LifeInv
    OBVIOUS
  <2>1. \A o \in Objects : obj[o] = Blank
    BY DEF LifeInit
  <2>2. Blank \in Record
    BY LifecycleAssumption DEF LifecycleAssumption, Blank, Record
  <2>3. ObjectType
    BY <2>2 DEF LifeInit, ObjectType
  <2>4. ControlType
    <3>1. 0 \in 0 .. MaxCreates /\ 0 \in 0 .. MaxWrites
      BY LifecycleAssumption DEF LifecycleAssumption
    <3> QED BY <3>1 DEF LifeInit, ControlType, Mapped
  <2>6. Unfinished /\ Known
    BY DEF LifeInit, Mapped, Unfinished, Known, HeaderComplete
  <2>5. Ordered
    BY <2>1 DEF Ordered, Blank
  <2> QED BY <2>3, <2>4, <2>5, <2>6 DEF LifeInv, LifeTypeOK
<1>2. LifeInv /\ UNCHANGED lifeVars => LifeInv'
  BY DEF lifeVars, pvars, cvars, LifeInv, LifeTypeOK, ObjectType,
     ControlType, Record, Mapped, Unfinished, Ordered, Known,
     HeaderComplete
<1>3. LifeInv /\ [LifeNext]_(lifeVars) => LifeInv'
  BY <1>2, CreatesInv, AttachesInv DEF LifeNext
<1> QED BY <1>1, <1>3, PTL DEF LifeSpec

-------------------------------------------------------------------------------
(* What the runs check.                                                    *)

\* Every variable of the life cycle has its type, whatever restarts when.
THEOREM LifecycleTypes == LifeSpec => []LifeTypeOK
<1>1. LifeInv => LifeTypeOK
  BY DEF LifeInv
<1> QED BY <1>1, LifeHolds, PTL

\* wfb_tx faults, meets a half-made header, finds the indexes crossed or
\* forwards a packet from before its attach only if a venc that had crashed
\* created the ring anew while wfb_tx had it mapped.
THEOREM RestartsHarmless == LifeSpec => []HarmNeedsStraddling
<1>1. LifeInv => HarmNeedsStraddling
  BY DEF LifeInv, LifeTypeOK, ObjectType, ControlType, Record,
     Objects, Ordered, Known, HarmNeedsStraddling, IndexesOrdered,
     StaleSkipped
<1> QED BY <1>1, LifeHolds, PTL
================================================================================
