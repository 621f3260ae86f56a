---------------------------- MODULE FramePathProofs ----------------------------
(***************************************************************************)
(* Proofs about FramePath for every set of NALs, payload size, number of   *)
(* entries and of frames.  The invariant follows a NAL through the sender: *)
(* taken, gathered or being cut, accepted in packets.                      *)
(***************************************************************************)
EXTENDS FramePath, TLAPS

(* No NAL makes more fragments than this.                                  *)
PerNal == CHOOSE k \in 1..Numbers :
              /\ \A n \in Nals, m \in Payloads : m > 3 => n.len - 2 <= k * (m - 3)
              /\ 4 * MaxSlots * k < Numbers

PacketType ==
    [kind : {"single", "ap", "fu"}, nals : Seq(Nat), at : Nat, size : Nat,
     start : BOOLEAN, end : BOOLEAN, marker : BOOLEAN, seq : 0..Numbers - 1, ts : Nat]

Types ==
    /\ max \in Payloads /\ seq \in 0..Numbers - 1
    /\ stored \in [ParamTypes -> Nals \cup {NoNal}] /\ latest \in [ParamTypes -> Nals \cup {NoNal}]
    /\ pc \in {"idle", "entry", "nal", "last", "fragment", "report"}
    /\ left \in 0..MaxSlots /\ frames \in 0..MaxFrames
    /\ handed \in Seq(Nals) /\ todo \in 0..Len(handed)
    /\ ap \in Seq(Indexes) /\ payload_len \in Nat /\ rest \in Nat
    /\ last \in BOOLEAN /\ sub \in BOOLEAN /\ whole \in BOOLEAN
    /\ before \in [seq : 0..Numbers - 1, ts : Nat]
    /\ sent \in Seq(PacketType)

(* How many NALs of the frame were taken: they are passed or gathered.     *)
Taken == Len(handed) - todo + (IF pc = "last" THEN 1 ELSE 0)

(* The NALs of the frame that are behind the sender: in packets, or lost.   *)
Passed == Taken - Len(ap)

(* Where the sender is, and what it has in hand there.                     *)
Place ==
    /\ pc \in {"idle", "entry", "report"} => todo = 0
    /\ pc \in {"nal", "last", "fragment"} => todo > 0
    /\ pc \in {"idle", "report", "fragment"} => ap = <<>>
    /\ pc \in {"idle", "report"} => left = 0
    /\ pc = "last" => ap # <<>> /\ last /\ todo = 1
    /\ last => left = 0 /\ (pc = "entry" => ap = <<>>)
    /\ pc = "fragment" => /\ max > 3 /\ Large(Nal)
                          /\ rest \in 1..handed[Nal].len - 2
    /\ timestamp = (IF pc \in {"idle", "report"} THEN frames ELSE frames - 1)
    /\ pc # "idle" => frames > 0
    /\ pc \notin {"idle", "report"} => before.ts = timestamp

(* What is gathered are the NALs taken last, and fits a packet.            *)
GatheredInv ==
    /\ Len(ap) <= Taken
    /\ \A k \in 1..Len(ap) : ap[k] = Taken - Len(ap) + k
    /\ ap = <<>> => payload_len = 0
    /\ ap # <<>> => payload_len \in 2..max /\ handed[ap[1]].len <= max

(* A frame does not use up the numbers.                                    *)
Counted ==
    /\ Len(handed) <= 4 * (MaxSlots - left)
    /\ pc # "fragment" => Len(sent) + Len(ap) <= PerNal * Taken
    /\ pc = "fragment" =>
          \E j \in 0..Len(sent) : /\ j * (max - 3) + rest = handed[Nal].len - 2
                                  /\ Len(sent) <= PerNal * Taken + j

(* Packets carry consecutive numbers, one timestamp, and fit.              *)
Numbered ==
    /\ seq = (before.seq + Len(sent)) % Numbers
    /\ \A k \in 1..Len(sent) : /\ sent[k].seq = (before.seq + k - 1) % Numbers
                               /\ sent[k].ts = before.ts
                               /\ sent[k].size <= max

(* The marker ends a frame, and is not forgotten.                          *)
Marked ==
    /\ \A k \in 1..Len(sent) :
          sent[k].marker => k = Len(sent) /\ pc \in {"entry", "report", "idle"} /\ left = 0 /\ ap = <<>>
    /\ pc \in {"entry", "report", "idle"} /\ last /\ whole /\ max > 3 =>
          sent # <<>> /\ sent[Len(sent)].marker

Fu(k) == sent[k].kind = "fu"

Names(k) == Range(sent[k].nals)

(* A fragment says truly whether it starts or ends its NAL.                *)
Piece(k) ==
    /\ Len(sent[k].nals) = 1 /\ sent[k].nals[1] \in Indexes
    /\ sent[k].start <=> sent[k].at = 2
    /\ sent[k].end <=> Behind(k) = handed[sent[k].nals[1]].len

(* One that does not start it is right behind the one before.              *)
Follows(k) == /\ k > 1 /\ Fu(k - 1) /\ sent[k - 1].nals = sent[k].nals
              /\ Behind(k - 1) = sent[k].at

(* The fragments from j to k, of which none but j may start a NAL.         *)
Run(j, k) == j <= k /\ Fu(j) /\ \A m \in j + 1..k : Fu(m) /\ ~sent[m].start

Linked ==
    /\ \A k \in 1..Len(sent) : Fu(k) => Piece(k) /\ (sent[k].start \/ Follows(k))
    /\ \A j, k \in 1..Len(sent) : Run(j, k) => sent[j].nals = sent[k].nals
    /\ pc = "fragment" =>
          \/ rest = handed[Nal].len - 2
          \/ /\ sent # <<>> /\ Fu(Len(sent)) /\ sent[Len(sent)].nals = <<Nal>>
             /\ Behind(Len(sent)) = handed[Nal].len - rest

(* Packets keep the order of the NALs.                                     *)
Ordered ==
    /\ \A j, k \in 1..Len(sent) :
          j < k => \A a \in Names(j), b \in Names(k) :
                       a < b \/ (a = b /\ Fu(j) /\ ~sent[j].end)
    /\ \A j \in 1..Len(sent) : \A a \in Names(j) :
          \/ a <= Passed
          \/ pc = "fragment" /\ a = Nal /\ Fu(j) /\ ~sent[j].end

(* The fragments of the NAL that is being cut.                             *)
Begun(from) ==
    /\ sent[from].start /\ sent[from].nals = <<Nal>>
    /\ \A k \in from..Len(sent) : Fu(k) /\ ~sent[k].end /\ (sent[k].start => k = from)

(* As long as no send was refused, every NAL that was taken has arrived.   *)
Arrived ==
    whole /\ max > 3 =>
        /\ \A i \in 1..Passed : Arrives(i)
        /\ pc = "fragment" => rest = handed[Nal].len - 2 \/ \E from \in 1..Len(sent) : Begun(from)

(* What the sidecar says of the frame that was sent last.                  *)
Reported ==
    report # NoReport => /\ pc = "idle"
                         /\ report.count = Len(sent) /\ report.first = before.seq

(* The parameter sets in force went before this keyframe.                  *)
Supplied(key) ==
    /\ key.nal \in Indexes
    /\ \A p \in ParamTypes :
          key.sets[p] # NoNal /\ key.sets[p].len < SetCap =>
              \E j \in 1..key.nal : /\ handed[j] = key.sets[p]
                                    /\ \A k \in j + 1..key.nal : handed[k].type # p

(* What is remembered is in force, unless it does not fit.                 *)
Remembered ==
    /\ \A p \in ParamTypes : /\ stored[p] = NoNal \/ stored[p].type = p
                             /\ latest[p] = NoNal \/ latest[p].type = p
                             /\ latest[p] # NoNal /\ latest[p].len < SetCap => stored[p] = latest[p]
    /\ \A key \in keys : Supplied(key)

FrameInv ==
    /\ Types /\ Place /\ GatheredInv /\ Counted /\ Numbered /\ Marked /\ Linked
    /\ Ordered /\ Arrived /\ Reported /\ Remembered

--------------------------------------------------------------------------------
(* Numbers and sequences.                                                  *)

\* The bound on a NAL's fragments is one.
LEMMA Fragments ==
    /\ PerNal \in Nat \ {0} /\ 4 * MaxSlots * PerNal < Numbers
    /\ \A n \in Nals, m \in Payloads : m > 3 => n.len - 2 <= PerNal * (m - 3)
<1> DEFINE P(k) == /\ \A n \in Nals, m \in Payloads : m > 3 => n.len - 2 <= k * (m - 3)
                   /\ 4 * MaxSlots * k < Numbers
<1>1. \E k \in 1..Numbers : P(k)
  BY NumbersSuffice
<1>2. PerNal = CHOOSE k \in 1..Numbers : P(k)
  BY DEF PerNal
<1> HIDE DEF P
<1>3. PerNal \in 1..Numbers /\ P(PerNal)
  BY <1>1, <1>2
<1> QED BY <1>3, FrameAssumption DEF P

\* Remainders of numbers that are close.
LEMMA Wraps ==
    ASSUME NEW b \in 0..Numbers - 1, NEW n \in 0..Numbers - 1
    PROVE  (b + n) % Numbers = IF b + n < Numbers THEN b + n ELSE b + n - Numbers
<1> DEFINE q == (b + n) \div Numbers
           r == (b + n) % Numbers
<1>1. Numbers \in Nat \ {0}
  BY FrameAssumption
<1>2. b + n = Numbers * q + r /\ r \in 0..Numbers - 1 /\ q \in Int
  BY <1>1
<1> HIDE DEF q, r
<1>3. CASE q <= -1
  <2>1. Numbers * q <= -Numbers BY <1>1, <1>2, <1>3
  <2> QED BY <2>1, <1>1, <1>2
<1>4. CASE q = 0
  BY <1>1, <1>2, <1>4 DEF r
<1>5. CASE q = 1
  BY <1>1, <1>2, <1>5 DEF r
<1>6. CASE q >= 2
  <2>1. Numbers * q >= 2 * Numbers BY <1>1, <1>2, <1>6
  <2> QED BY <2>1, <1>1, <1>2
<1> QED BY <1>2, <1>3, <1>4, <1>5, <1>6

\* The number after one that many packets later.
LEMMA NextNumber ==
    ASSUME NEW b \in 0..Numbers - 1, NEW n \in Nat
    PROVE  (((b + n) % Numbers) + 1) % Numbers = (b + (n + 1)) % Numbers
<1> DEFINE x == b + n
           q == x \div Numbers
           r == x % Numbers
           y == x + 1
           p == y \div Numbers
           s == y % Numbers
           u == (r + 1) % Numbers
           v == (r + 1) \div Numbers
<1>1. Numbers \in Nat \ {0} /\ x \in Nat /\ y \in Nat
  BY FrameAssumption
<1>2. x = Numbers * q + r /\ r \in 0..Numbers - 1 /\ q \in Int
  BY <1>1
<1>3. y = Numbers * p + s /\ s \in 0..Numbers - 1 /\ p \in Int
  BY <1>1
<1>4. r + 1 = Numbers * v + u /\ u \in 0..Numbers - 1 /\ v \in Int
  BY <1>1, <1>2
<1>5. y = x + 1
  OBVIOUS
<1> HIDE DEF q, r, p, s, u, v, y, x
<1> DEFINE d == p - q - v
<1>6. d \in Int /\ Numbers * d = u - s
  <2>1. Numbers * (p - q - v) = Numbers * p - Numbers * q - Numbers * v
    BY <1>1, <1>2, <1>3, <1>4
  <2> QED BY <2>1, <1>1, <1>2, <1>3, <1>4, <1>5
<1> HIDE DEF d
<1>7. d = 0
  <2>1. CASE d >= 1
    <3>1. Numbers * d >= Numbers BY <2>1, <1>1, <1>6
    <3> QED BY <3>1, <1>1, <1>3, <1>4, <1>6
  <2>2. CASE d <= -1
    <3>1. Numbers * d <= -Numbers BY <2>2, <1>1, <1>6
    <3> QED BY <3>1, <1>1, <1>3, <1>4, <1>6
  <2> QED BY <2>1, <2>2, <1>6
<1>8. u = s
  BY <1>1, <1>3, <1>4, <1>6, <1>7
<1> QED BY <1>8 DEF u, s, r, y, x

\* A sequence and one more element.
LEMMA OneMore ==
    ASSUME NEW S, NEW s \in Seq(S), NEW x
    PROVE  /\ Len(Append(s, x)) = Len(s) + 1 /\ Len(s) \in Nat
           /\ \A k \in 1..Len(s) : Append(s, x)[k] = s[k] /\ s[k] \in S
           /\ Append(s, x)[Len(s) + 1] = x
           /\ x \in S => Append(s, x) \in Seq(S)
           /\ Append(s, x) # s
<1>1. Len(Append(s, x)) = Len(s) + 1 /\ Len(s) \in Nat
  OBVIOUS
<1> QED BY <1>1

\* Two sequences, one behind the other.
LEMMA Concatenated ==
    ASSUME NEW S, NEW s \in Seq(S), NEW t \in Seq(S)
    PROVE  /\ Len(s) \in Nat /\ Len(t) \in Nat
           /\ s \o t \in Seq(S) /\ Len(s \o t) = Len(s) + Len(t)
           /\ \A k \in 1..Len(s) : (s \o t)[k] = s[k]
           /\ \A k \in 1..Len(t) : (s \o t)[Len(s) + k] = t[k]
<1>1. Len(s) \in Nat /\ Len(t) \in Nat /\ s \o t \in Seq(S) /\ Len(s \o t) = Len(s) + Len(t)
  OBVIOUS
<1>2. \A k \in 1..Len(s) : (s \o t)[k] = s[k]
  OBVIOUS
<1>3. ASSUME NEW k \in 1..Len(t) PROVE (s \o t)[Len(s) + k] = t[k]
  <2>1. Len(s) + k \in 1..Len(s) + Len(t) /\ ~(Len(s) + k <= Len(s)) /\ Len(s) + k - Len(s) = k
    BY <1>1
  <2> QED BY <2>1, <1>1
<1> QED BY <1>1, <1>2, <1>3

\* The payload size.
LEMMA Payload == Types => max \in Nat
  BY FrameAssumption DEF Types

\* What a NAL is.
LEMMA NalType ==
    ASSUME Types, NEW i \in Indexes
    PROVE  handed[i] \in Nals /\ handed[i].len \in Nat \ {0}
  BY FrameAssumption DEF Types, Indexes

--------------------------------------------------------------------------------
(* What was sent, and what a step makes of it.                             *)

\* What was sent stays as it is and arrives where it did.
LEMMA StaysArrived ==
    ASSUME NEW i, Arrives(i), Types, Len(sent') >= Len(sent), sent' \in Seq(PacketType),
           \A k \in 1..Len(sent) : sent'[k] = sent[k]
    PROVE  Arrives(i)'
<1>1. DOMAIN sent = 1..Len(sent) /\ DOMAIN sent' = 1..Len(sent') /\ Len(sent) \in Nat
      /\ Len(sent') \in Nat
  BY DEF Types
<1>2. CASE \E p \in Range(sent) : p.kind # "fu" /\ i \in Range(p.nals)
  <2>1. PICK k \in 1..Len(sent) : sent[k].kind # "fu" /\ i \in Range(sent[k].nals)
    BY <1>1, <1>2 DEF Range
  <2>2. sent'[k] \in Range(sent')
    BY <1>1 DEF Range
  <2> QED BY <2>1, <2>2 DEF Arrives
<1>3. CASE \E from, to \in 1..Len(sent) :
              Joins(from, to) /\ sent[from].nals = <<i>> /\ sent[to].nals = <<i>>
  <2>1. PICK from \in 1..Len(sent), to \in 1..Len(sent) :
            Joins(from, to) /\ sent[from].nals = <<i>> /\ sent[to].nals = <<i>>
    BY <1>3
  <2>2. from..to \subseteq 1..Len(sent)
    BY <1>1
  <2>3. Joins(from, to)'
    BY <2>1, <2>2 DEF Joins
  <2> QED BY <2>1, <2>3, <1>1 DEF Arrives
<1> QED BY <1>2, <1>3 DEF Arrives

\* What was sent is named by indexes.
LEMMA NamesType ==
    ASSUME Types
    PROVE  Len(sent) \in Nat /\ \A k \in 1..Len(sent) : Names(k) \subseteq Nat
<1>1. Len(sent) \in Nat
  BY DEF Types
<1>2. ASSUME NEW k \in 1..Len(sent) PROVE Names(k) \subseteq Nat
  <2>1. sent[k] \in PacketType
    BY DEF Types
  <2>2. sent[k].nals \in Seq(Nat)
    BY <2>1 DEF PacketType
  <2> QED BY <2>2 DEF Names, Range
<1> QED BY <1>1, <1>2

\* Nothing is sent while NALs are taken, gathered or dropped.
LEMMA SameSent ==
    ASSUME FrameInv, UNCHANGED <<sent, seq, before, max, whole>>,
           handed' \in Seq(Nals), Len(handed') >= Len(handed),
           \A i \in Indexes : handed'[i] = handed[i],
           Passed' \in Int, Passed' >= Passed, max > 3 => Passed' = Passed,
           pc # "fragment", pc' = "fragment" => (rest = handed[Nal].len - 2)'
    PROVE  Numbered' /\ Linked' /\ Ordered' /\ Arrived'
<1>1. Types
  BY DEF FrameInv
<1>2. Numbered'
  BY DEF FrameInv, Numbered
<1>3. Linked'
  <2>1. Indexes \subseteq Indexes'
    BY <1>1 DEF Types, Indexes
  <2>2. ASSUME NEW k \in 1..Len(sent), Piece(k) PROVE Piece(k)'
    BY <2>1, <2>2 DEF Piece, Behind
  <2>3. \A k : (Fu(k)' <=> Fu(k)) /\ (Follows(k) => Follows(k)')
    BY DEF Fu, Follows, Behind
  <2>4. \A j, k : Run(j, k)' => Run(j, k)
    BY DEF Run, Fu
  <2> QED BY <2>2, <2>3, <2>4 DEF FrameInv, Linked
<1>4. Ordered'
  <2>1. \A j \in 1..Len(sent) : \A a \in Names(j) : a <= Passed /\ a \in Int
    BY <1>1, NamesType DEF FrameInv, Ordered
  <2>2. Passed \in Int /\ Len(sent) \in Nat
    BY <1>1 DEF Types, Passed, Taken
  <2>3. \A j \in 1..Len(sent) : \A a \in Names(j) : a <= Passed'
    BY <2>1, <2>2
  <2>4. \A k : Names(k)' = Names(k) /\ (Fu(k)' <=> Fu(k))
    BY DEF Names, Fu
  <2> QED BY <2>3, <2>4 DEF FrameInv, Ordered
<1>5. Arrived'
  <2>1. \A i : Arrives(i) => Arrives(i)'
    BY DEF Arrives, Joins
  <2> QED BY <2>1 DEF FrameInv, Arrived
<1> QED BY <1>2, <1>3, <1>4, <1>5

\* A packet that is sent takes the next number, or is refused and takes none.
LEMMA TakesNumber ==
    ASSUME FrameInv, NEW p \in PacketType, Send(p), p.seq = seq, p.ts = before.ts,
           p.size <= max, UNCHANGED <<before, max>>
    PROVE  /\ Numbered' /\ sent' \in Seq(PacketType) /\ seq' \in 0..Numbers - 1
           /\ whole' \in BOOLEAN
<1>1. CASE Refuse
  BY <1>1 DEF Refuse, FrameInv, Types, Numbered
<1>2. CASE Accept(p)
  <2>1. /\ sent \in Seq(PacketType) /\ Len(sent) \in Nat /\ before.seq \in 0..Numbers - 1
        /\ sent' = Append(sent, p) /\ whole' = whole /\ seq' = (seq + 1) % Numbers
        /\ Numbers \in Nat \ {0} /\ seq \in 0..Numbers - 1 /\ whole \in BOOLEAN
    BY <1>2, FrameAssumption DEF Accept, FrameInv, Types
  <2>2. sent' \in Seq(PacketType) /\ Len(sent') = Len(sent) + 1
    BY <2>1, OneMore
  <2>3. seq' = (before.seq + Len(sent')) % Numbers
    BY <2>1, <2>2, NextNumber DEF FrameInv, Numbered
  <2>4. ASSUME NEW k \in 1..Len(sent')
        PROVE  /\ sent'[k].seq = (before.seq + k - 1) % Numbers
               /\ sent'[k].ts = before.ts /\ sent'[k].size <= max
    <3>1. CASE k \in 1..Len(sent)
      <4>1. sent'[k] = sent[k]
        BY <3>1, <2>1, OneMore
      <4> QED BY <3>1, <4>1 DEF FrameInv, Numbered
    <3>2. CASE k = Len(sent) + 1
      <4>1. sent'[k] = p /\ before.seq + k - 1 = before.seq + Len(sent)
        BY <3>2, <2>1, OneMore
      <4> QED BY <4>1 DEF FrameInv, Numbered
    <3> QED BY <3>1, <3>2, <2>1, <2>2
  <2>5. seq' \in 0..Numbers - 1
    BY <2>1
  <2> QED BY <2>1, <2>2, <2>3, <2>4, <2>5 DEF Numbered
<1> QED BY <1>1, <1>2 DEF Send

\* What holds of the packets sent before holds of them after one more.
LEMMA EarlierStay ==
    ASSUME Types, NEW p, Accept(p), UNCHANGED handed
    PROVE  \E n \in Nat \ {0} :
              /\ Len(sent) = n - 1 /\ Len(sent') = n /\ sent'[n] = p
              /\ 1..Len(sent') = 1..Len(sent) \cup {n}
              /\ \A k \in 1..Len(sent) :
                    /\ sent'[k] = sent[k] /\ Names(k)' = Names(k) /\ Behind(k)' = Behind(k)
                    /\ (Fu(k)' <=> Fu(k)) /\ (Piece(k)' <=> Piece(k))
                    /\ Follows(k) => Follows(k)'
              /\ \A j, k \in 1..Len(sent) : Run(j, k)' <=> Run(j, k)
<1> DEFINE l == Len(sent)
<1>1. l \in Nat /\ Len(sent') = l + 1 /\ sent'[l + 1] = p
      /\ \A k \in 1..l : sent'[k] = sent[k]
  BY OneMore DEF Types, Accept
<1>2. 1..l + 1 = 1..l \cup {l + 1}
  BY <1>1
<1> HIDE DEF l
<1>3. \A k \in 1..l : /\ Names(k)' = Names(k) /\ Behind(k)' = Behind(k)
                       /\ (Fu(k)' <=> Fu(k))
  BY <1>1 DEF Names, Behind, Fu
<1>4. \A k \in 1..l : Piece(k)' <=> Piece(k)
  BY <1>1, <1>3 DEF Piece, Indexes
<1>5. ASSUME NEW k \in 1..l, Follows(k) PROVE Follows(k)'
  <2>1. k - 1 \in 1..l
    BY <1>1, <1>5 DEF Follows
  <2> QED BY <1>1, <1>3, <1>5, <2>1 DEF Follows
<1>6. ASSUME NEW j \in 1..l, NEW k \in 1..l PROVE Run(j, k)' <=> Run(j, k)
  <2>1. j + 1..k \subseteq 1..l
    BY <1>1
  <2> QED BY <1>1, <1>3, <2>1 DEF Run
<1> QED BY <1>1, <1>2, <1>3, <1>4, <1>5, <1>6 DEF l

\* NALs that are sent whole are passed, and arrive if their packet is accepted.
LEMMA WholePacket ==
    ASSUME FrameInv, NEW p \in PacketType, Send(p), p.kind # "fu", p.seq = seq,
           p.ts = before.ts, p.size <= max, UNCHANGED <<before, max, handed>>,
           Passed' \in Nat, Passed' >= Passed, Range(p.nals) = Passed + 1..Passed',
           pc # "fragment", pc' # "fragment"
    PROVE  /\ Numbered' /\ Linked' /\ Ordered' /\ Arrived'
           /\ sent' \in Seq(PacketType) /\ seq' \in 0..Numbers - 1 /\ whole' \in BOOLEAN
<1>1. /\ Numbered' /\ sent' \in Seq(PacketType) /\ seq' \in 0..Numbers - 1
      /\ whole' \in BOOLEAN
  BY TakesNumber
<1>2. Types /\ Passed \in Int /\ Len(sent) \in Nat
  BY DEF FrameInv, Types, Passed, Taken
<1>3. \A j \in 1..Len(sent) : \A a \in Names(j) : a <= Passed /\ a \in Int
  BY <1>2, NamesType DEF FrameInv, Ordered
<1>4. CASE Refuse
  <2>1. \A k : Names(k)' = Names(k) /\ (Fu(k)' <=> Fu(k)) /\ (Piece(k)' <=> Piece(k))
               /\ (Follows(k)' <=> Follows(k))
    BY <1>4 DEF Refuse, Names, Fu, Piece, Follows, Behind, Indexes
  <2>2. \A j, k : Run(j, k)' <=> Run(j, k)
    BY <1>4 DEF Refuse, Run, Fu
  <2>3. Linked'
    BY <1>4, <2>1, <2>2 DEF Refuse, FrameInv, Linked
  <2>4. Ordered'
    <3>1. \A j \in 1..Len(sent) : \A a \in Names(j) : a <= Passed'
      BY <1>2, <1>3
    <3> QED BY <2>1, <3>1, <1>4 DEF Refuse, FrameInv, Ordered
  <2>5. Arrived'
    BY <1>4 DEF Refuse, Arrived
  <2> QED BY <1>1, <2>3, <2>4, <2>5
<1>5. CASE Accept(p)
  <2>1. PICK n \in Nat \ {0} :
              /\ Len(sent) = n - 1 /\ Len(sent') = n /\ sent'[n] = p
              /\ 1..Len(sent') = 1..Len(sent) \cup {n}
              /\ \A k \in 1..Len(sent) :
                    /\ sent'[k] = sent[k] /\ Names(k)' = Names(k) /\ Behind(k)' = Behind(k)
                    /\ (Fu(k)' <=> Fu(k)) /\ (Piece(k)' <=> Piece(k))
                    /\ Follows(k) => Follows(k)'
              /\ \A j, k \in 1..Len(sent) : Run(j, k)' <=> Run(j, k)
    BY <1>2, <1>5, EarlierStay
  <2>2. ~Fu(n)'
    BY <2>1 DEF Fu
  <2>3. Linked'
    <3>1. \A k \in 1..Len(sent') : Fu(k)' => Piece(k)' /\ (sent'[k].start \/ Follows(k)')
      BY <2>1, <2>2 DEF FrameInv, Linked
    <3>2. \A j \in 1..Len(sent') : Run(j, n)' => FALSE
      BY <2>1, <2>2 DEF Run
    <3>3. \A k \in 1..Len(sent') : Run(n, k)' => FALSE
      BY <2>2 DEF Run
    <3>4. \A j, k \in 1..Len(sent') : Run(j, k)' => sent'[j].nals = sent'[k].nals
      BY <2>1, <3>2, <3>3 DEF FrameInv, Linked
    <3> QED BY <3>1, <3>4 DEF Linked
  <2>4. Names(n)' = Passed + 1..Passed'
    BY <2>1 DEF Names
  <2>5. Ordered'
    <3>1. \A j \in 1..Len(sent') : \A a \in Names(j)' : a <= Passed'
      BY <1>2, <1>3, <2>1, <2>4
    <3>2. ASSUME NEW j \in 1..Len(sent'), NEW k \in 1..Len(sent'), j < k,
                 NEW a \in Names(j)', NEW b \in Names(k)'
          PROVE  a < b \/ (a = b /\ Fu(j)' /\ ~sent'[j].end)
      <4>1. j \in 1..Len(sent)
        BY <3>2, <2>1
      <4>2. CASE k = n
        BY <4>1, <4>2, <3>2, <1>2, <1>3, <2>1, <2>4
      <4>3. CASE k \in 1..Len(sent)
        BY <3>2, <4>1, <4>3, <2>1 DEF FrameInv, Ordered
      <4> QED BY <4>2, <4>3, <2>1
    <3> QED BY <3>1, <3>2 DEF Ordered
  <2>6. Arrived'
    <3> SUFFICES ASSUME whole', max' > 3, NEW i \in 1..Passed' PROVE Arrives(i)'
      BY DEF Arrived
    <3>1. CASE i <= Passed
      <4>1. Arrives(i)
        BY <3>1, <1>5, <1>2 DEF FrameInv, Arrived, Accept
      <4> QED BY <4>1, <1>1, <1>2, <2>1, StaysArrived
    <3>2. CASE i > Passed
      <4>1. i \in Range(p.nals)
        BY <3>2, <1>2
      <4>2. p \in Range(sent')
        BY <1>1, <2>1 DEF Range
      <4> QED BY <4>1, <4>2 DEF Arrives
    <3> QED BY <3>1, <3>2, <1>2
  <2> QED BY <1>1, <2>3, <2>5, <2>6
<1> QED BY <1>4, <1>5 DEF Send

\* A packet that is sent is one packet more at most, and none if it is refused.
LEMMA OneAtMost ==
    ASSUME Types, NEW p, Send(p)
    PROVE  /\ Len(sent) \in Nat /\ Len(sent') \in Nat
           /\ Len(sent') = Len(sent) + 1 \/ Len(sent') = Len(sent)
  BY OneMore DEF Types, Send, Accept, Refuse

\* The marker is sent last, and only while nothing but the end of the frame is
\* to come.
LEMMA MarkedSends ==
    ASSUME FrameInv, NEW p \in PacketType, Send(p),
           pc \in {"nal", "last", "fragment"} \/ ap # <<>>, UNCHANGED max,
           p.marker => pc' \in {"entry", "report", "idle"} /\ left' = 0 /\ ap' = <<>>,
           pc' \in {"entry", "report", "idle"} /\ last' /\ Accept(p) /\ max > 3 => p.marker
    PROVE  Marked'
<1>1. \A k \in 1..Len(sent) : ~sent[k].marker
  BY DEF FrameInv, Marked
<1>2. Types /\ Len(sent) \in Nat
  BY DEF FrameInv, Types
<1>3. CASE Refuse
  BY <1>1, <1>3 DEF Refuse, Marked
<1>4. CASE Accept(p)
  <2>1. PICK n \in Nat \ {0} : /\ Len(sent') = n /\ sent'[n] = p
                               /\ \A k \in 1..n : k \in 1..Len(sent) \/ k = n
                               /\ \A k \in 1..Len(sent) : sent'[k] = sent[k]
    BY <1>2, <1>4, OneMore DEF Accept, Types
  <2>2. sent' # <<>>
    BY <2>1
  <2> QED BY <1>1, <1>4, <2>1, <2>2 DEF Marked
<1> QED BY <1>3, <1>4 DEF Send

\* While a frame is being sent there is no report yet.
LEMMA Unreported ==
    ASSUME FrameInv, pc # "idle", UNCHANGED report
    PROVE  Reported'
  BY DEF FrameInv, Reported

\* What is remembered concerns the entries only.
LEMMA StillRemembered ==
    ASSUME FrameInv, UNCHANGED <<stored, latest, keys, handed>>
    PROVE  Remembered'
<1>1. \A key \in keys' : Supplied(key)'
  BY DEF FrameInv, Remembered, Supplied, Indexes
<1> QED BY <1>1 DEF FrameInv, Remembered

\* The NAL that is to be sent next.
LEMMA NalInHand ==
    ASSUME FrameInv, pc \in {"nal", "last", "fragment"}
    PROVE  /\ Nal \in Indexes /\ Nal = Len(handed) - todo + 1 /\ todo \in Nat \ {0}
           /\ handed[Nal] \in Nals /\ handed[Nal].len \in Nat \ {0}
           /\ Len(handed) \in Nat /\ todo <= Len(handed) /\ Nal \in Nat
           /\ handed \in Seq(Nals)
<1>1. /\ Len(handed) \in Nat /\ todo \in 0..Len(handed) /\ todo > 0
  BY DEF FrameInv, Types, Place
<1>2. Nal \in Indexes /\ Nal \in Nat
  BY <1>1 DEF Nal, Indexes
<1>3. handed \in Seq(Nals)
  BY DEF FrameInv, Types
<1> QED BY <1>1, <1>2, <1>3, NalType DEF FrameInv, Nal

\* What was gathered goes out as one packet that fits, under its NALs' names.
LEMMA GatheredPacket ==
    ASSUME FrameInv, ap # <<>>, NEW marker \in BOOLEAN
    PROVE  /\ Gathered(marker) \in PacketType /\ Gathered(marker).kind # "fu"
           /\ Gathered(marker).seq = seq /\ Gathered(marker).ts = before.ts
           /\ Gathered(marker).size <= max /\ Gathered(marker).marker = marker
           /\ Range(Gathered(marker).nals) = Passed + 1..Taken
           /\ Passed \in Nat /\ Taken \in Nat /\ Passed < Taken /\ Len(ap) >= 1
<1>1. /\ ap \in Seq(Nat) /\ ap \in Seq(Indexes) /\ Len(ap) \in Nat /\ Len(ap) >= 1
      /\ Indexes \subseteq Nat /\ Len(handed) \in Nat /\ todo \in 0..Len(handed)
  <2>1. ap \in Seq(Indexes) /\ Len(handed) \in Nat /\ todo \in 0..Len(handed)
    BY DEF FrameInv, Types
  <2>2. Indexes \subseteq Nat
    BY <2>1 DEF Indexes
  <2>3. Len(ap) \in Nat /\ Len(ap) >= 1 /\ ap \in [1..Len(ap) -> Indexes]
    BY <2>1
  <2>4. ap \in [1..Len(ap) -> Nat]
    BY <2>2, <2>3
  <2>5. ap \in Seq(Nat)
    BY <2>3, <2>4
  <2> QED BY <2>1, <2>2, <2>3, <2>5
<1>2. /\ Taken \in Int /\ Passed = Taken - Len(ap) /\ Len(ap) <= Taken
      /\ \A k \in 1..Len(ap) : ap[k] = Passed + k
  BY <1>1 DEF Taken, Passed, FrameInv, GatheredInv
<1>3. Taken \in Nat /\ Passed \in Nat /\ Passed < Taken
  BY <1>1, <1>2
<1>4. Range(ap) = Passed + 1..Taken
  <2>1. DOMAIN ap = 1..Len(ap)
    BY <1>1
  <2>2. ASSUME NEW i \in Passed + 1..Taken PROVE i \in Range(ap)
    <3>1. i - Passed \in 1..Len(ap) /\ ap[i - Passed] = i
      BY <1>2, <1>3, <1>1
    <3> QED BY <2>1, <3>1 DEF Range
  <2>3. ASSUME NEW k \in 1..Len(ap) PROVE ap[k] \in Passed + 1..Taken
    BY <1>1, <1>2, <1>3
  <2> QED BY <2>1, <2>2, <2>3 DEF Range
<1>5. /\ seq \in 0..Numbers - 1 /\ timestamp \in Nat /\ timestamp = before.ts
  BY DEF FrameInv, Types, Place
<1>6. ap[1] \in Indexes /\ handed[ap[1]].len \in Nat /\ handed[ap[1]].len <= max
      /\ payload_len \in Nat /\ payload_len <= max
  <2>1. ap[1] \in Indexes
    BY <1>1
  <2> QED BY <2>1, NalType DEF FrameInv, GatheredInv, Types
<1>7. CASE Len(ap) = 1
  <2>1. Gathered(marker) = Packet("single", <<ap[1]>>, 0, handed[ap[1]].len, TRUE, TRUE, marker)
    BY <1>7 DEF Gathered, Single
  <2>2. <<ap[1]>> = ap
    BY <1>1, <1>7
  <2> QED BY <2>1, <2>2, <1>1, <1>3, <1>4, <1>5, <1>6 DEF Packet, PacketType
<1>8. CASE Len(ap) # 1
  <2>1. Gathered(marker) = Packet("ap", ap, 0, payload_len, TRUE, TRUE, marker)
    BY <1>8 DEF Gathered, Aggregate
  <2> QED BY <2>1, <1>1, <1>3, <1>4, <1>5, <1>6 DEF Packet, PacketType
<1> QED BY <1>7, <1>8

--------------------------------------------------------------------------------
(* Steps.                                                                  *)

\* A NAL that does not fit with those gathered makes them go out.
LEMMA FlushStep ==
    ASSUME FrameInv, Flush
    PROVE  FrameInv'
<1> DEFINE p == Gathered(FALSE)
<1>1. /\ pc = "nal" /\ ap # <<>> /\ Send(p) /\ ap' = <<>> /\ payload_len' = 0
      /\ UNCHANGED <<max, timestamp, stored, pc, left, todo, rest, last, before, sub,
                     report, handed, latest, keys, frames>>
  BY DEF Flush, MustFlush, ResetAp, sidecar
<1>2. /\ p \in PacketType /\ p.kind # "fu" /\ p.seq = seq /\ p.ts = before.ts
      /\ p.size <= max /\ p.marker = FALSE /\ Range(p.nals) = Passed + 1..Taken
      /\ Passed \in Nat /\ Taken \in Nat /\ Passed < Taken /\ Len(ap) >= 1
  BY <1>1, GatheredPacket
<1> HIDE DEF p
<1>3. Taken' = Taken /\ Passed' = Taken
  BY <1>1, <1>2 DEF Taken, Passed
<1>4. /\ Numbered' /\ Linked' /\ Ordered' /\ Arrived'
      /\ sent' \in Seq(PacketType) /\ seq' \in 0..Numbers - 1 /\ whole' \in BOOLEAN
  BY <1>1, <1>2, <1>3, WholePacket
<1>5. Types'
  BY <1>1, <1>4 DEF FrameInv, Types, Indexes
<1>6. Place'
  BY <1>1 DEF FrameInv, Place, Large, Nal
<1>7. GatheredInv'
  BY <1>1, <1>2, <1>3 DEF GatheredInv
<1>8. Counted'
  BY <1>1, <1>2, <1>3, OneAtMost, Fragments DEF FrameInv, Counted
<1>9. Marked'
  BY <1>1, <1>2, MarkedSends
<1>10. Reported' /\ Remembered'
  BY <1>1, Unreported, StillRemembered
<1> QED BY <1>4, <1>5, <1>6, <1>7, <1>8, <1>9, <1>10 DEF FrameInv

\* The frame's last NAL makes those gathered go out, with the marker.
LEMMA FlushLastStep ==
    ASSUME FrameInv, FlushLast
    PROVE  FrameInv'
<1> DEFINE p == Gathered(TRUE)
<1>0. /\ pc = "last" /\ ap # <<>> /\ last /\ todo = 1 /\ left = 0 /\ frames > 0
      /\ timestamp = frames - 1
  BY DEF FlushLast, FrameInv, Place
<1>1. /\ Send(p) /\ ap' = <<>> /\ payload_len' = 0 /\ todo' = 0 /\ pc' = "entry"
      /\ UNCHANGED <<max, timestamp, stored, left, rest, last, before, sub,
                     report, handed, latest, keys, frames>>
  <2>1. Send(p) /\ ap' = <<>> /\ payload_len' = 0 /\ Done
        /\ UNCHANGED <<max, timestamp, stored, left, rest, last, before, sub,
                       report, handed, latest, keys, frames>>
    BY DEF FlushLast, ResetAp, sidecar
  <2> HIDE DEF p
  <2> QED BY <1>0, <2>1 DEF Done
<1>2. /\ p \in PacketType /\ p.kind # "fu" /\ p.seq = seq /\ p.ts = before.ts
      /\ p.size <= max /\ p.marker = TRUE /\ Range(p.nals) = Passed + 1..Taken
      /\ Passed \in Nat /\ Taken \in Nat /\ Passed < Taken /\ Len(ap) >= 1
  BY <1>0, <1>1, GatheredPacket
<1> HIDE DEF p
<1>3. Taken' = Taken /\ Passed' = Taken
  BY <1>0, <1>1, <1>2 DEF Taken, Passed, FrameInv, Types
<1>4. /\ Numbered' /\ Linked' /\ Ordered' /\ Arrived'
      /\ sent' \in Seq(PacketType) /\ seq' \in 0..Numbers - 1 /\ whole' \in BOOLEAN
  BY <1>0, <1>1, <1>2, <1>3, WholePacket
<1>5. Types'
  BY <1>0, <1>1, <1>4 DEF FrameInv, Types, Indexes
<1>6. Place'
  BY <1>0, <1>1 DEF FrameInv, Place
<1>7. GatheredInv'
  BY <1>0, <1>1, <1>2, <1>3 DEF GatheredInv
<1>8. Counted'
  BY <1>0, <1>1, <1>2, <1>3, OneAtMost, Fragments DEF FrameInv, Counted
<1>9. Marked'
  BY <1>0, <1>1, <1>2, MarkedSends
<1>10. Reported' /\ Remembered'
  BY <1>0, <1>1, Unreported, StillRemembered
<1> QED BY <1>4, <1>5, <1>6, <1>7, <1>8, <1>9, <1>10 DEF FrameInv

\* A NAL too large to gather, but not too large for a packet, goes by itself.
LEMMA SendSingleStep ==
    ASSUME FrameInv, SendSingle
    PROVE  FrameInv'
<1> DEFINE p == Single(Nal, Marker)
<1>1. /\ pc = "nal" /\ ap = <<>> /\ handed[Nal].len <= max
      /\ Send(p) /\ Done
      /\ UNCHANGED <<max, timestamp, stored, left, ap, payload_len, rest, last, before,
                     sub, report, handed, latest, keys, frames>>
  <2>1. Nal \in Indexes /\ handed[Nal].len \in Nat /\ max \in Nat
    BY NalInHand, Payload DEF SendSingle, FrameInv
  <2> QED BY <2>1 DEF SendSingle, MustFlush, Large, sidecar
<1>2. /\ Nal \in Indexes /\ Nal = Len(handed) - todo + 1 /\ todo \in Nat \ {0}
      /\ handed[Nal].len \in Nat /\ Len(handed) \in Nat /\ todo <= Len(handed) /\ Nal \in Nat
  BY <1>1, NalInHand
<1>3. Marker \in BOOLEAN /\ (Marker <=> last /\ todo = 1)
  BY DEF Marker, FrameInv, Types
<1>4. /\ p \in PacketType /\ p.kind # "fu" /\ p.seq = seq /\ p.ts = before.ts
      /\ p.size <= max /\ p.marker = Marker /\ Range(p.nals) = {Nal}
  <2>1. seq \in 0..Numbers - 1 /\ timestamp \in Nat /\ timestamp = before.ts
    BY <1>1 DEF FrameInv, Types, Place
  <2>2. <<Nal>> \in Seq(Nat) /\ Range(<<Nal>>) = {Nal}
    BY <1>2 DEF Range
  <2>3. p = Packet("single", <<Nal>>, 0, handed[Nal].len, TRUE, TRUE, Marker)
    BY DEF Single
  <2> HIDE DEF p
  <2> QED BY <2>1, <2>2, <2>3, <1>1, <1>2, <1>3 DEF Packet, PacketType
<1> HIDE DEF p
<1>5. todo' = todo - 1 /\ pc' = (IF todo = 1 THEN "entry" ELSE "nal")
  BY <1>1 DEF Done
<1>6. Passed = Nal - 1 /\ Taken = Nal - 1 /\ Taken' = Nal /\ Passed' = Nal
  BY <1>1, <1>2, <1>5 DEF Passed, Taken
<1>7. /\ Numbered' /\ Linked' /\ Ordered' /\ Arrived'
      /\ sent' \in Seq(PacketType) /\ seq' \in 0..Numbers - 1 /\ whole' \in BOOLEAN
  <2>1. Range(p.nals) = Passed + 1..Passed'
    BY <1>2, <1>4, <1>6
  <2> QED BY <2>1, <1>1, <1>2, <1>4, <1>5, <1>6, WholePacket
<1>8. Types'
  BY <1>1, <1>2, <1>5, <1>7 DEF FrameInv, Types, Indexes
<1>9. Place'
  BY <1>1, <1>2, <1>5 DEF FrameInv, Place
<1>10. GatheredInv'
  BY <1>1, <1>2, <1>6 DEF FrameInv, GatheredInv
<1>11. Counted'
  <2>1. Len(ap) = 0
    BY <1>1
  <2>2. PerNal * Nal = PerNal * (Nal - 1) + PerNal /\ PerNal >= 1
    BY <1>2, Fragments
  <2> QED BY <2>1, <2>2, <1>1, <1>2, <1>4, <1>5, <1>6, OneAtMost, Fragments
          DEF FrameInv, Counted
<1>12. Marked'
  <2>1. last => left = 0
    BY DEF FrameInv, Place
  <2>2. pc' = "entry" <=> todo = 1
    BY <1>5
  <2>3. p.marker <=> last /\ todo = 1
    BY <1>3, <1>4
  <2>4. pc' \in {"entry", "nal"}
    BY <1>5
  <2> QED BY <2>1, <2>2, <2>3, <2>4, <1>1, <1>4, MarkedSends
<1>13. Reported' /\ Remembered'
  BY <1>1, Unreported, StillRemembered
<1> QED BY <1>7, <1>8, <1>9, <1>10, <1>11, <1>12, <1>13 DEF FrameInv

\* What is still gathered goes out at the end of the frame, with the marker.
LEMMA EndFrameStep ==
    ASSUME FrameInv, EndFrame
    PROVE  FrameInv'
<1> DEFINE p == Gathered(TRUE)
<1>0. /\ pc = "entry" /\ left = 0 /\ todo = 0 /\ timestamp = frames - 1 /\ frames > 0
      /\ frames \in Nat
  BY DEF EndFrame, FrameInv, Place, Types
<1>1. /\ timestamp' = timestamp + 1 /\ ap' = <<>> /\ payload_len' = 0 /\ pc' = "report"
      /\ UNCHANGED <<max, stored, left, todo, rest, last, before, sub, report, handed,
                     latest, keys, frames>>
  BY DEF EndFrame, ResetAp, sidecar
<1>2. Taken \in Nat /\ Taken' = Taken /\ Passed' = Taken
  BY <1>0, <1>1 DEF Taken, Passed, FrameInv, Types
<1>3. Place'
  BY <1>0, <1>1 DEF FrameInv, Place
<1>4. GatheredInv'
  BY <1>1, <1>2 DEF GatheredInv
<1>5. Reported' /\ Remembered'
  BY <1>0, <1>1, Unreported, StillRemembered
<1>6. CASE ap = <<>>
  <2>1. UNCHANGED <<sent, seq, whole, ap>>
    BY <1>1, <1>6 DEF EndFrame
  <2>2. Passed = Taken
    BY <1>2, <1>6 DEF Passed
  <2>3. handed \in Seq(Nals) /\ Len(handed) \in Nat
    BY DEF FrameInv, Types
  <2>4. Numbered' /\ Linked' /\ Ordered' /\ Arrived'
    BY <2>1, <2>2, <2>3, <1>0, <1>1, <1>2, SameSent
  <2>5. Types'
    BY <1>1, <2>1 DEF FrameInv, Types, Indexes
  <2>6. Counted'
    BY <1>0, <1>1, <1>2, <2>1 DEF FrameInv, Counted
  <2>7. Marked'
    BY <1>0, <1>1, <2>1 DEF FrameInv, Marked
  <2> QED BY <1>3, <1>4, <1>5, <2>4, <2>5, <2>6, <2>7 DEF FrameInv
<1>7. CASE ap # <<>>
  <2>1. Send(p)
    BY <1>7 DEF EndFrame
  <2>2. /\ p \in PacketType /\ p.kind # "fu" /\ p.seq = seq /\ p.ts = before.ts
        /\ p.size <= max /\ p.marker = TRUE /\ Range(p.nals) = Passed + 1..Taken
        /\ Passed \in Nat /\ Taken \in Nat /\ Passed < Taken /\ Len(ap) >= 1
    BY <1>7, GatheredPacket
  <2> HIDE DEF p
  <2>3. /\ Numbered' /\ Linked' /\ Ordered' /\ Arrived'
        /\ sent' \in Seq(PacketType) /\ seq' \in 0..Numbers - 1 /\ whole' \in BOOLEAN
    BY <1>0, <1>1, <1>2, <2>1, <2>2, WholePacket
  <2>4. Types'
    BY <1>0, <1>1, <2>3 DEF FrameInv, Types, Indexes
  <2>5. Counted'
    BY <1>0, <1>1, <1>2, <2>1, <2>2, OneAtMost, Fragments DEF FrameInv, Counted
  <2>6. Marked'
    BY <1>0, <1>1, <1>7, <2>1, <2>2, MarkedSends
  <2> QED BY <1>3, <1>4, <1>5, <2>3, <2>4, <2>5, <2>6 DEF FrameInv
<1> QED BY <1>6, <1>7

\* An entry without data is passed over.
LEMMA SkipEntryStep ==
    ASSUME FrameInv, SkipEntry
    PROVE  FrameInv'
<1>1. /\ pc = "entry" /\ left > 0 /\ left' = left - 1
      /\ UNCHANGED <<max, seq, timestamp, stored, pc, todo, ap, payload_len, rest, last, handed,
                     before, sub, report, latest, keys, sent, whole, frames>>
  BY DEF SkipEntry, rtp, work, sidecar
<1>2. /\ left \in 1..MaxSlots /\ left' \in 0..MaxSlots /\ MaxSlots \in Nat
      /\ handed \in Seq(Nals) /\ Len(handed) \in Nat /\ todo = 0
  BY <1>1, FrameAssumption DEF FrameInv, Types, Place
<1>3. Taken' = Taken /\ Passed' = Passed /\ Passed \in Int
  BY <1>1, <1>2 DEF Taken, Passed, FrameInv, Types
<1>4. Numbered' /\ Linked' /\ Ordered' /\ Arrived'
  BY <1>1, <1>2, <1>3, SameSent
<1>5. Types'
  BY <1>1, <1>2 DEF FrameInv, Types, Indexes
<1>6. Place'
  BY <1>1, <1>2 DEF FrameInv, Place
<1>7. GatheredInv'
  BY <1>1, <1>3 DEF FrameInv, GatheredInv
<1>8. Counted'
  BY <1>1, <1>2, <1>3 DEF FrameInv, Counted
<1>9. Marked'
  BY <1>1, <1>2 DEF FrameInv, Marked, Place
<1>10. Reported' /\ Remembered'
  BY <1>1, Unreported, StillRemembered
<1> QED BY <1>4, <1>5, <1>6, <1>7, <1>8, <1>9, <1>10 DEF FrameInv

\* The parameter sets that are put before a NAL: each that is remembered is
\* there, and nothing of its type comes after it.
LEMMA Prepended ==
    ASSUME FrameInv, NEW n \in Nals
    PROVE  /\ Prepend(n) \in Seq(Nals) /\ Len(Prepend(n)) \in 0..3
           /\ n.type = "idr" =>
                 \A p \in ParamTypes :
                    stored[p] # NoNal =>
                       \E j \in 1..Len(Prepend(n)) :
                          /\ Prepend(n)[j] = stored[p]
                          /\ \A k \in j + 1..Len(Prepend(n)) : Prepend(n)[k].type # p
<1>1. \A p \in ParamTypes : stored[p] # NoNal => stored[p] \in Nals /\ stored[p].type = p
  BY DEF FrameInv, Types, Remembered
<1>2. CASE n.type # "idr"
  BY <1>2 DEF Prepend
<1>3. CASE n.type = "idr"
  <2> DEFINE a == Known("vps")
             b == Known("sps")
             c == Known("pps")
             s == a \o b
             t == s \o c
  <2>1. Prepend(n) = t
    BY <1>3 DEF Prepend
  <2>2. \A p \in ParamTypes :
           /\ Known(p) \in Seq(Nals) /\ Len(Known(p)) \in {0, 1}
           /\ \A k \in 1..Len(Known(p)) : Known(p)[k].type = p
           /\ stored[p] # NoNal => Len(Known(p)) = 1 /\ Known(p)[1] = stored[p]
    BY <1>1 DEF Known
  <2>3. /\ a \in Seq(Nals) /\ b \in Seq(Nals) /\ c \in Seq(Nals)
        /\ Len(a) \in {0, 1} /\ Len(b) \in {0, 1} /\ Len(c) \in {0, 1}
        /\ \A k \in 1..Len(a) : a[k].type = "vps"
        /\ \A k \in 1..Len(b) : b[k].type = "sps"
        /\ \A k \in 1..Len(c) : c[k].type = "pps"
        /\ stored["vps"] # NoNal => Len(a) = 1 /\ a[1] = stored["vps"]
        /\ stored["sps"] # NoNal => Len(b) = 1 /\ b[1] = stored["sps"]
        /\ stored["pps"] # NoNal => Len(c) = 1 /\ c[1] = stored["pps"]
    BY <2>2 DEF ParamTypes
  <2> HIDE DEF a, b, c
  <2>4. PICK la \in Nat, lb \in Nat :
           /\ la = Len(a) /\ lb = Len(b) /\ s \in Seq(Nals) /\ Len(s) = la + lb
           /\ \A k \in 1..la : s[k] = a[k]
           /\ \A k \in 1..lb : s[la + k] = b[k]
    <3>1. a \in Seq(Nals) /\ b \in Seq(Nals)
      BY <2>3
    <3>2. /\ Len(a) \in Nat /\ Len(b) \in Nat /\ s \in Seq(Nals) /\ Len(s) = Len(a) + Len(b)
          /\ \A k \in 1..Len(a) : s[k] = a[k]
          /\ \A k \in 1..Len(b) : s[Len(a) + k] = b[k]
      BY <3>1, Concatenated
    <3> HIDE DEF s
    <3> QED BY <3>2
  <2> HIDE DEF s
  <2>5. PICK ls \in Nat, lc \in Nat :
           /\ ls = Len(s) /\ lc = Len(c) /\ t \in Seq(Nals) /\ Len(t) = ls + lc
           /\ \A k \in 1..ls : t[k] = s[k]
           /\ \A k \in 1..lc : t[ls + k] = c[k]
    <3>1. s \in Seq(Nals) /\ c \in Seq(Nals)
      BY <2>3, <2>4
    <3>2. /\ Len(s) \in Nat /\ Len(c) \in Nat /\ t \in Seq(Nals) /\ Len(t) = Len(s) + Len(c)
          /\ \A k \in 1..Len(s) : t[k] = s[k]
          /\ \A k \in 1..Len(c) : t[Len(s) + k] = c[k]
      BY <3>1, Concatenated
    <3> HIDE DEF t
    <3> QED BY <3>2
  <2> HIDE DEF t
  <2>6. /\ la \in {0, 1} /\ lb \in {0, 1} /\ lc \in {0, 1} /\ ls = la + lb
    BY <2>3, <2>4, <2>5
  <2>7. /\ la = 1 => t[1] = a[1] /\ t[1].type = "vps"
        /\ lb = 1 => t[la + 1] = b[1] /\ t[la + 1].type = "sps"
        /\ lc = 1 => t[la + lb + 1] = c[1] /\ t[la + lb + 1].type = "pps"
    <3>1. ASSUME la = 1 PROVE t[1] = a[1] /\ t[1].type = "vps"
      <4>1. 1 \in 1..la /\ 1 \in 1..ls
        BY <3>1, <2>6
      <4> QED BY <4>1, <2>3, <2>4, <2>5
    <3>2. ASSUME lb = 1 PROVE t[la + 1] = b[1] /\ t[la + 1].type = "sps"
      <4>1. 1 \in 1..lb /\ la + 1 \in 1..ls /\ Len(b) = lb
        <5>1. Len(b) = lb
          BY <2>4
        <5> QED BY <5>1, <3>2, <2>6
      <4>2. t[la + 1] = s[la + 1] /\ s[la + 1] = b[1]
        BY <4>1, <2>4, <2>5
      <4> QED BY <4>1, <4>2, <2>3
    <3>3. ASSUME lc = 1 PROVE t[la + lb + 1] = c[1] /\ t[la + lb + 1].type = "pps"
      <4>1. 1 \in 1..lc /\ la + lb + 1 = ls + 1 /\ Len(c) = lc
        <5>1. Len(c) = lc
          BY <2>5
        <5> QED BY <5>1, <3>3, <2>6
      <4>2. t[ls + 1] = c[1]
        BY <4>1, <2>5
      <4> QED BY <4>1, <4>2, <2>3
    <3> QED BY <3>1, <3>2, <3>3
  <2>8. /\ stored["vps"] # NoNal => la = 1 /\ t[1] = stored["vps"]
        /\ stored["sps"] # NoNal => lb = 1 /\ t[la + 1] = stored["sps"]
        /\ stored["pps"] # NoNal => lc = 1 /\ t[la + lb + 1] = stored["pps"]
    <3>1. /\ stored["vps"] # NoNal => la = 1 /\ a[1] = stored["vps"]
          /\ stored["sps"] # NoNal => lb = 1 /\ b[1] = stored["sps"]
          /\ stored["pps"] # NoNal => lc = 1 /\ c[1] = stored["pps"]
      BY <2>3, <2>4, <2>5
    <3> QED BY <3>1, <2>7
  <2> DEFINE l == la + lb + lc
  <2>9. ASSUME NEW p \in ParamTypes, stored[p] # NoNal
        PROVE  \E j \in 1..l : t[j] = stored[p] /\ \A k \in j + 1..l : t[k].type # p
    <3>1. CASE p = "vps"
      <4>1. la = 1 /\ t[1] = stored[p] /\ l = 1 + lb + lc
        BY <2>8, <2>9, <3>1
      <4>2. ASSUME NEW k \in 2..l
            PROVE  (lb = 1 /\ k = la + 1) \/ (lc = 1 /\ k = la + lb + 1)
        <5>1. k \in Int /\ 2 <= k /\ k <= 1 + lb + lc
          BY <4>1, <2>6
        <5>2. CASE lb = 1
          BY <5>1, <5>2, <4>1, <2>6
        <5>3. CASE lb = 0
          BY <5>1, <5>3, <4>1, <2>6
        <5> QED BY <5>2, <5>3, <2>6
      <4>3. ASSUME NEW k \in 1 + 1..l PROVE t[k].type # p
        <5>1. k \in 2..l
          OBVIOUS
        <5> HIDE DEF l
        <5>2. (lb = 1 /\ k = la + 1) \/ (lc = 1 /\ k = la + lb + 1)
          BY <5>1, <4>2
        <5> QED BY <5>2, <2>7, <3>1
      <4>4. 1 \in 1..l
        BY <4>1, <2>6
      <4> QED BY <4>1, <4>3, <4>4
    <3>2. CASE p = "sps"
      <4>1. lb = 1 /\ t[la + 1] = stored[p]
        BY <2>8, <2>9, <3>2
      <4>2. \A k \in (la + 1) + 1..l : lc = 1 /\ k = la + lb + 1
        BY <4>1, <2>6
      <4>3. \A k \in (la + 1) + 1..l : t[k].type # p
        BY <4>2, <2>7, <3>2
      <4>4. la + 1 \in 1..l
        BY <4>1, <2>6
      <4> QED BY <4>1, <4>3, <4>4
    <3>3. CASE p = "pps"
      <4>1. lc = 1 /\ t[la + lb + 1] = stored[p]
        BY <2>8, <2>9, <3>3
      <4>2. (la + lb + 1) + 1..l = {} /\ la + lb + 1 \in 1..l
        BY <4>1, <2>6
      <4> QED BY <4>1, <4>2
    <3> QED BY <3>1, <3>2, <3>3, <2>9 DEF ParamTypes
  <2>10. Len(t) = l /\ l \in 0..3
    <3>1. Len(t) = ls + lc
      BY <2>5
    <3> QED BY <3>1, <2>6
  <2> HIDE DEF l
  <2> QED BY <2>1, <2>5, <2>9, <2>10
<1> QED BY <1>2, <1>3

\* An entry is taken behind the parameter sets it needs.
LEMMA TakeEntryStep ==
    ASSUME FrameInv, NEW n \in Nals, TakeEntry(n)
    PROVE  FrameInv'
<1> DEFINE t == Prepend(n)
           s == Append(t, n)
<1>0. handed' = handed \o s /\ todo' = Len(s)
  BY DEF TakeEntry
<1>1. /\ pc = "entry" /\ left > 0 /\ left' = left - 1 /\ pc' = "nal"
      /\ UNCHANGED <<max, seq, timestamp, ap, payload_len, rest, before, sub, report,
                     sent, whole, frames>>
  BY DEF TakeEntry, rtp, sidecar
<1>17. last' \in BOOLEAN /\ (last' <=> left = 1)
  BY DEF TakeEntry
<1>2. /\ stored' = Store(n)
      /\ latest' = IF n.type \in ParamTypes THEN [latest EXCEPT ![n.type] = n] ELSE latest
      /\ keys' = IF n.type = "idr" THEN keys \cup {[nal |-> Len(handed'), sets |-> latest]}
                 ELSE keys
  BY DEF TakeEntry
<1>3. /\ t \in Seq(Nals) /\ Len(t) \in 0..3
  BY Prepended
<1>4. n.type = "idr" =>
         \A p \in ParamTypes :
            stored[p] # NoNal => \E j \in 1..Len(t) : /\ t[j] = stored[p]
                                                      /\ \A k \in j + 1..Len(t) : t[k].type # p
  BY Prepended
<1> HIDE DEF t
<1>5. /\ s \in Seq(Nals) /\ Len(s) = Len(t) + 1 /\ s[Len(s)] = n
      /\ \A k \in 1..Len(t) : s[k] = t[k]
  BY <1>3, OneMore
<1> HIDE DEF s
<1>6. /\ left \in 1..MaxSlots /\ left' \in 0..MaxSlots /\ MaxSlots \in Nat
      /\ handed \in Seq(Nals) /\ Len(handed) \in Nat /\ todo = 0
  BY <1>1, FrameAssumption DEF FrameInv, Types, Place
<1>7. PICK h \in Nat, l \in 1..4 :
         /\ h = Len(handed) /\ l = Len(s) /\ handed' \in Seq(Nals) /\ Len(handed') = h + l
         /\ \A i \in 1..h : handed'[i] = handed[i]
         /\ \A k \in 1..l : handed'[h + k] = s[k]
  <2>1. Len(s) \in 1..4
    BY <1>3, <1>5
  <2>2. s \in Seq(Nals) /\ handed \in Seq(Nals)
    BY <1>5, <1>6
  <2>3. /\ Len(handed) \in Nat /\ handed' \in Seq(Nals) /\ Len(handed') = Len(handed) + Len(s)
        /\ \A k \in 1..Len(handed) : handed'[k] = handed[k]
        /\ \A k \in 1..Len(s) : handed'[Len(handed) + k] = s[k]
    BY <2>2, <1>0, Concatenated
  <2> QED BY <2>1, <2>3
<1>8. Taken = h /\ Taken' = h /\ Passed' = Passed /\ Passed \in Int /\ todo' = l
  <2>1. todo' = l
    BY <1>0, <1>7
  <2>2. Taken = h - 0 + 0 /\ Taken' = (h + l) - l + 0
    BY <2>1, <1>1, <1>6, <1>7 DEF Taken
  <2>3. Taken = h /\ Taken' = h
    BY <2>2, <1>7
  <2>4. Len(ap) \in Nat /\ ap' = ap
    BY <1>1 DEF FrameInv, Types
  <2> QED BY <2>1, <2>3, <2>4, <1>7 DEF Passed
<1>9. Numbered' /\ Linked' /\ Ordered' /\ Arrived'
  <2>1. \A i \in Indexes : handed'[i] = handed[i]
    BY <1>7 DEF Indexes
  <2>2. Len(handed') >= Len(handed)
    BY <1>7
  <2>3. Passed' \in Int /\ Passed' >= Passed
    BY <1>8
  <2> QED BY <2>1, <2>2, <2>3, <1>1, <1>7, <1>8, SameSent
<1>10. Types'
  <2>1. /\ stored' \in [ParamTypes -> Nals \cup {NoNal}]
        /\ latest' \in [ParamTypes -> Nals \cup {NoNal}]
    BY <1>2 DEF FrameInv, Types, Store
  <2>2. ap' \in Seq(Indexes')
    <3>1. Indexes \subseteq Indexes'
      BY <1>7 DEF Indexes
    <3>2. ap \in [1..Len(ap) -> Indexes] /\ Len(ap) \in Nat
      BY DEF FrameInv, Types
    <3>3. ap \in [1..Len(ap) -> Indexes']
      BY <3>1, <3>2
    <3> QED BY <1>1, <3>2, <3>3
  <2>3. todo' \in 0..Len(handed')
    BY <1>7, <1>8
  <2>4. last' \in BOOLEAN
    BY <1>17
  <2> QED BY <2>1, <2>2, <2>3, <2>4, <1>1, <1>6, <1>7 DEF FrameInv, Types
<1>11. Place'
  <2>1. last' => left' = 0
    BY <1>1, <1>6, <1>17
  <2> QED BY <2>1, <1>1, <1>7, <1>8 DEF FrameInv, Place
<1>12. GatheredInv'
  <2>1. ap # <<>> => ap[1] \in Indexes
    BY DEF FrameInv, Types
  <2>2. ap # <<>> => handed'[ap[1]] = handed[ap[1]]
    BY <2>1, <1>7 DEF Indexes
  <2> QED BY <2>2, <1>1, <1>8 DEF FrameInv, GatheredInv
<1>13. Counted'
  <2>1. h <= 4 * (MaxSlots - left)
    BY <1>7 DEF FrameInv, Counted
  <2>2. h + l <= 4 * (MaxSlots - left')
    <3>1. left' = left - 1 /\ left \in Int /\ MaxSlots \in Nat
      BY <1>1, <1>6
    <3>2. l \in 1..4
      BY <1>7, Zenon
    <3> QED BY <2>1, <3>1, <3>2
  <2>3. Len(sent) + Len(ap) <= PerNal * h
    BY <1>1, <1>8 DEF FrameInv, Counted
  <2> QED BY <2>2, <2>3, <1>1, <1>7, <1>8 DEF Counted
<1>14. Marked'
  BY <1>1, <1>6, <1>17 DEF FrameInv, Marked
<1>15. Reported'
  BY <1>1, Unreported
<1>16. Remembered'
  <2>1. n \notin {NoNal} /\ ("idr" \notin ParamTypes)
    BY FrameAssumption DEF NoNal, ParamTypes
  <2>2. ASSUME NEW p \in ParamTypes
        PROVE  /\ stored'[p] = NoNal \/ stored'[p].type = p
               /\ latest'[p] = NoNal \/ latest'[p].type = p
               /\ latest'[p] # NoNal /\ latest'[p].len < SetCap => stored'[p] = latest'[p]
    BY <1>2 DEF FrameInv, Remembered, Types, Store
  <2>4. ASSUME NEW key \in keys PROVE Supplied(key)'
    <3>1. key.nal \in Indexes /\ Supplied(key) /\ h \in Nat
      BY <1>7 DEF FrameInv, Remembered, Supplied
    <3>2. key.nal \in 1..h /\ \A k \in 1..key.nal : handed'[k] = handed[k]
      BY <3>1, <1>7 DEF Indexes
    <3>3. key.nal \in Indexes'
      BY <3>2, <1>7 DEF Indexes
    <3>4. ASSUME NEW p \in ParamTypes, key.sets[p] # NoNal, key.sets[p].len < SetCap
          PROVE  \E j \in 1..key.nal : /\ handed'[j] = key.sets[p]
                                       /\ \A k \in j + 1..key.nal : handed'[k].type # p
      <4>1. PICK j \in 1..key.nal : /\ handed[j] = key.sets[p]
                                    /\ \A k \in j + 1..key.nal : handed[k].type # p
        BY <3>1, <3>4 DEF Supplied
      <4>2. \A k \in j + 1..key.nal : k \in 1..key.nal
        BY <3>2
      <4> QED BY <3>2, <4>1, <4>2
    <3> QED BY <3>3, <3>4 DEF Supplied
  <2>3. ASSUME n.type = "idr", NEW i, i = Len(handed'),
               NEW key, key.nal = i, key.sets = latest
        PROVE  Supplied(key)'
    <3> SUFFICES ASSUME NEW p \in ParamTypes, latest[p] # NoNal, latest[p].len < SetCap
                 PROVE  \E j \in 1..i : /\ handed'[j] = latest[p]
                                        /\ \A k \in j + 1..i : handed'[k].type # p
      <4>1. i \in Indexes'
        BY <1>7, <2>3 DEF Indexes
      <4> QED BY <4>1, <2>3 DEF Supplied
    <3>1. i = h + l /\ l = Len(t) + 1 /\ Len(t) \in 0..3 /\ s[l] = n
          /\ \A k \in 1..Len(t) : s[k] = t[k]
      BY <1>3, <1>5, <1>7, <2>3
    <3>2. handed'[i] = n /\ n.type = "idr"
      BY <3>1, <1>7, <2>3
    <3>3. stored[p] = latest[p]
      BY DEF FrameInv, Remembered
    <3>4. PICK j \in 1..Len(t) : t[j] = stored[p] /\ \A k \in j + 1..Len(t) : t[k].type # p
      BY <3>2, <3>3, <1>4
    <3>5. h + j \in 1..i /\ handed'[h + j] = latest[p]
      BY <3>1, <3>3, <3>4, <1>7
    <3>6. ASSUME NEW k \in (h + j) + 1..i PROVE handed'[k].type # p
      <4>1. CASE k = i
        BY <4>1, <3>2, <2>1
      <4>2. CASE k < i
        <5>1. PICK m \in j + 1..Len(t) : k = h + m /\ m \in 1..l /\ m \in 1..Len(t)
          <6>1. /\ k - h \in j + 1..Len(t) /\ k = h + (k - h)
                /\ k - h \in 1..l /\ k - h \in 1..Len(t)
            BY <4>2, <3>1, <1>7
          <6> QED BY <6>1
        <5>2. handed'[k] = s[m] /\ s[m] = t[m]
          BY <5>1, <3>1, <1>7
        <5> QED BY <5>1, <5>2, <3>4
      <4> QED BY <4>1, <4>2, <3>1, <1>7
    <3> QED BY <3>5, <3>6
  <2>5. ASSUME NEW key \in keys' PROVE Supplied(key)'
    <3>1. CASE key \in keys
      BY <3>1, <2>4
    <3>2. CASE n.type = "idr" /\ key = [nal |-> Len(handed'), sets |-> latest]
      BY <3>2, <2>3
    <3> QED BY <3>1, <3>2, <1>2
  <2> QED BY <2>2, <2>5 DEF Remembered
<1> QED BY <1>9, <1>10, <1>11, <1>12, <1>13, <1>14, <1>15, <1>16 DEF FrameInv

\* A NAL that fits is gathered.
LEMMA GatherStep ==
    ASSUME FrameInv, Gather
    PROVE  FrameInv'
<1>0. ap' = Append(ap, Nal)
  BY DEF Gather
<1>1. /\ pc = "nal" /\ handed[Nal].len <= max /\ Gathering + 2 + handed[Nal].len <= max
      /\ payload_len' = Gathering + 2 + handed[Nal].len
      /\ UNCHANGED <<max, seq, timestamp, stored, left, rest, last, before, sub, report,
                     handed, latest, keys, sent, whole, frames>>
  <2>1. handed[Nal].len \in Nat /\ max \in Nat
    BY NalInHand, Payload DEF Gather, FrameInv
  <2> QED BY <2>1 DEF Gather, Large, CanAdd, rtp, sidecar
<1>2. \/ last /\ todo = 1 /\ pc' = "last" /\ todo' = todo
      \/ /\ ~(last /\ todo = 1) /\ todo' = todo - 1
         /\ pc' = IF todo = 1 THEN "entry" ELSE "nal"
  BY DEF Gather, Marker, Done
<1>3. /\ Nal \in Indexes /\ Nal = Len(handed) - todo + 1 /\ todo \in Nat \ {0}
      /\ handed[Nal].len \in Nat /\ Len(handed) \in Nat /\ todo <= Len(handed) /\ Nal \in Nat
      /\ handed \in Seq(Nals)
  BY <1>1, NalInHand
<1>4. /\ Len(ap) \in Nat /\ Len(ap') = Len(ap) + 1 /\ ap' \in Seq(Indexes)
      /\ \A k \in 1..Len(ap) : ap'[k] = ap[k]
      /\ ap'[Len(ap) + 1] = Nal /\ ap' # <<>>
  <2>1. ap \in Seq(Indexes)
    BY DEF FrameInv, Types
  <2>2. /\ Len(ap) \in Nat /\ Len(ap') = Len(ap) + 1 /\ ap' \in Seq(Indexes)
        /\ \A k \in 1..Len(ap) : ap'[k] = ap[k] /\ ap'[Len(ap) + 1] = Nal
    BY <1>0, <1>3, <2>1, OneMore
  <2>3. ap'[Len(ap) + 1] = Nal
    BY <1>0, <2>1, OneMore
  <2>4. ap' # <<>>
    BY <2>2
  <2> QED BY <2>2, <2>3, <2>4
<1>5. /\ Taken = Nal - 1 /\ Taken' = Nal /\ Passed = Nal - 1 - Len(ap)
      /\ Passed' = Passed /\ Passed \in Int
  <2>1. Taken = Nal - 1 /\ Taken' = Nal
    BY <1>1, <1>2, <1>3 DEF Taken
  <2> QED BY <2>1, <1>3, <1>4 DEF Passed
<1>6. Numbered' /\ Linked' /\ Ordered' /\ Arrived'
  <2>1. pc' # "fragment"
    BY <1>2
  <2> QED BY <2>1, <1>1, <1>3, <1>5, SameSent
<1>7. Gathering \in Nat /\ Gathering >= 2 /\ max \in Nat
  BY Payload DEF Gathering, FrameInv, GatheredInv, Types
<1>8. Types'
  <2>1. payload_len' \in Nat
    BY <1>1, <1>3, <1>7
  <2>2. todo' \in 0..Len(handed) /\ pc' \in {"last", "entry", "nal"}
    BY <1>2, <1>3
  <2> QED BY <2>1, <2>2, <1>1, <1>4 DEF FrameInv, Types, Indexes
<1>9. Place'
  BY <1>1, <1>2, <1>3, <1>4 DEF FrameInv, Place
<1>10. GatheredInv'
  <2>1. Len(ap) <= Nal - 1 /\ \A k \in 1..Len(ap) : ap[k] = Passed + k
    BY <1>3, <1>4, <1>5 DEF FrameInv, GatheredInv
  <2>2. \A k \in 1..Len(ap') : ap'[k] = Taken' - Len(ap') + k
    <3> TAKE k \in 1..Len(ap')
    <3>1. CASE k \in 1..Len(ap)
      BY <3>1, <2>1, <1>3, <1>4, <1>5
    <3>2. CASE k = Len(ap) + 1
      BY <3>2, <1>3, <1>4, <1>5
    <3> QED BY <3>1, <3>2, <1>4
  <2>3. payload_len' \in 2..max
    BY <1>1, <1>3, <1>7
  <2>4. handed[ap'[1]].len <= max
    <3>1. CASE Len(ap) = 0
      BY <3>1, <1>1, <1>4
    <3>2. CASE Len(ap) # 0
      <4>1. ap'[1] = ap[1] /\ ap # <<>>
        BY <3>2, <1>4
      <4> QED BY <4>1 DEF FrameInv, GatheredInv
    <3> QED BY <3>1, <3>2
  <2>5. Len(ap') <= Taken'
    <3>1. Len(ap) <= Nal - 1
      BY <2>1
    <3> QED BY <3>1, <1>3, <1>4, <1>5
  <2> QED BY <2>2, <2>3, <2>4, <2>5, <1>1, <1>4 DEF GatheredInv
<1>11. Counted'
  <2>1. PerNal * Nal = PerNal * (Nal - 1) + PerNal /\ PerNal >= 1 /\ PerNal * (Nal - 1) \in Int
    BY <1>3, Fragments
  <2>2. pc' # "fragment"
    BY <1>2
  <2>3. Len(handed) <= 4 * (MaxSlots - left) /\ Len(sent) + Len(ap) <= PerNal * (Nal - 1)
    BY <1>1, <1>5 DEF FrameInv, Counted
  <2>4. Len(sent) \in Nat
    BY DEF FrameInv, Types
  <2>5. Len(sent) + Len(ap') <= PerNal * Nal
    BY <2>1, <2>3, <2>4, <1>4, Fragments
  <2> QED BY <2>2, <2>3, <2>5, <1>1, <1>5 DEF Counted
<1>12. Marked'
  <2>1. \A k \in 1..Len(sent) : ~sent[k].marker
    BY <1>1 DEF FrameInv, Marked
  <2>2. ~(pc' \in {"entry", "report", "idle"} /\ last)
    BY <1>2
  <2> QED BY <2>1, <2>2, <1>1 DEF Marked
<1>13. Reported' /\ Remembered'
  BY <1>1, Unreported, StillRemembered
<1> QED BY <1>6, <1>8, <1>9, <1>10, <1>11, <1>12, <1>13 DEF FrameInv

\* A NAL too large for a packet is cut, or dropped if the payload size is too small
\* for a fragment.
LEMMA BeginFragmentsStep ==
    ASSUME FrameInv, BeginFragments
    PROVE  FrameInv'
<1>1. /\ pc = "nal"
      /\ UNCHANGED <<max, seq, timestamp, stored, left, ap, payload_len, last, before, sub,
                     report, handed, latest, keys, sent, whole, frames>>
  BY DEF BeginFragments, rtp, sidecar
<1>2. /\ Nal \in Indexes /\ Nal = Len(handed) - todo + 1 /\ todo \in Nat \ {0}
      /\ handed[Nal].len \in Nat /\ Len(handed) \in Nat /\ todo <= Len(handed) /\ Nal \in Nat
      /\ handed \in Seq(Nals) /\ max \in Nat
  BY <1>1, NalInHand, Payload DEF FrameInv
<1>3. handed[Nal].len > max /\ ap = <<>>
  <2>1. handed[Nal].len > max /\ ~MustFlush
    BY DEF BeginFragments, Large
  <2>2. Gathering \in Nat
    BY DEF Gathering, FrameInv, Types
  <2> QED BY <2>1, <2>2, <1>2 DEF MustFlush, CanAdd
<1>4. Taken = Nal - 1 /\ Passed = Nal - 1
  BY <1>1, <1>2, <1>3 DEF Taken, Passed
<1>5. Len(sent) \in Nat /\ Len(sent) <= PerNal * (Nal - 1) /\ Len(handed) <= 4 * (MaxSlots - left)
  BY <1>1, <1>2, <1>3, <1>4, Fragments DEF FrameInv, Counted, Types
<1>6. \A k \in 1..Len(sent) : ~sent[k].marker
  BY <1>1 DEF FrameInv, Marked
<1>7. Reported' /\ Remembered'
  BY <1>1, Unreported, StillRemembered
<1>8. CASE max <= 3
  <2>1. todo' = todo - 1 /\ rest' = rest /\ pc' = IF todo = 1 THEN "entry" ELSE "nal"
    BY <1>8 DEF BeginFragments, Done
  <2>2. Taken' = Nal /\ Passed' = Nal
    BY <2>1, <1>1, <1>2, <1>3 DEF Taken, Passed
  <2>3. pc' # "fragment" /\ ~(max > 3)
    BY <2>1, <1>2, <1>8
  <2>4. Numbered' /\ Linked' /\ Ordered' /\ Arrived'
    BY <2>2, <2>3, <1>1, <1>2, <1>4, SameSent
  <2>5. Types'
    BY <2>1, <1>1, <1>2 DEF FrameInv, Types, Indexes
  <2>6. Place'
    BY <2>1, <1>1, <1>2, <1>3 DEF FrameInv, Place
  <2>7. GatheredInv'
    BY <2>2, <1>1, <1>2, <1>3 DEF FrameInv, GatheredInv
  <2>8. Counted'
    <3>1. PerNal * Nal = PerNal * (Nal - 1) + PerNal /\ PerNal >= 1 /\ PerNal * (Nal - 1) \in Int
      BY <1>2, Fragments
    <3>2. Len(sent) + Len(ap) <= PerNal * Nal
      BY <3>1, <1>3, <1>5, Fragments
    <3> QED BY <3>2, <2>2, <2>3, <1>1, <1>5 DEF Counted
  <2>9. Marked'
    BY <2>3, <1>1, <1>6 DEF Marked
  <2> QED BY <2>4, <2>5, <2>6, <2>7, <2>8, <2>9, <1>7 DEF FrameInv
<1>9. CASE max > 3
  <2>1. rest' = handed[Nal].len - 2 /\ pc' = "fragment" /\ todo' = todo /\ handed[Nal].len > 3
    BY <1>2, <1>3, <1>9 DEF BeginFragments
  <2>2. Taken' = Nal - 1 /\ Passed' = Nal - 1 /\ Nal' = Nal
    BY <2>1, <1>1, <1>2, <1>3 DEF Taken, Passed, Nal
  <2>3. Numbered' /\ Linked' /\ Ordered' /\ Arrived'
    <3>1. (rest = handed[Nal].len - 2)'
      BY <2>1, <2>2, <1>1
    <3> QED BY <3>1, <2>2, <1>1, <1>2, <1>4, SameSent
  <2>4. Types'
    <3>1. rest' \in Nat /\ todo' \in 0..Len(handed)
      BY <2>1, <1>2
    <3> QED BY <3>1, <2>1, <1>1 DEF FrameInv, Types, Indexes
  <2>5. Place'
    <3>1. rest' \in 1..handed[Nal].len - 2
      BY <2>1, <1>2
    <3>2. max' > 3 /\ Large(Nal)'
      BY <2>2, <1>1, <1>3, <1>9 DEF Large
    <3> QED BY <3>1, <3>2, <2>1, <2>2, <1>1, <1>3 DEF FrameInv, Place
  <2>6. GatheredInv'
    BY <2>2, <1>1, <1>2, <1>3 DEF FrameInv, GatheredInv
  <2>7. Counted'
    <3>1. 0 * (max - 3) + rest' = handed[Nal].len - 2 /\ PerNal * (Nal - 1) + 0 = PerNal * (Nal - 1)
      BY <2>1, <1>2, Fragments
    <3>2. /\ 0 \in 0..Len(sent') /\ Len(sent') <= PerNal * Taken' + 0
          /\ 0 * (max' - 3) + rest' = handed'[Nal'].len - 2
      BY <3>1, <2>2, <1>1, <1>5
    <3> QED BY <3>2, <2>1, <1>1, <1>5 DEF Counted
  <2>8. Marked'
    BY <2>1, <1>1, <1>6 DEF Marked
  <2> QED BY <2>3, <2>4, <2>5, <2>6, <2>7, <2>8, <1>7 DEF FrameInv
<1> QED BY <1>2, <1>8, <1>9

\* A frame begins with nothing taken and nothing sent.
LEMMA BeginFrameStep ==
    ASSUME FrameInv, NEW n \in 0..MaxSlots, NEW r \in BOOLEAN, BeginFrame(n, r)
    PROVE  FrameInv'
<1>1. /\ pc = "idle" /\ frames < MaxFrames /\ sub' = (sub \/ r)
      /\ before' = [seq |-> seq, ts |-> timestamp]
      /\ left' = n /\ pc' = "entry" /\ frames' = frames + 1
      /\ sent' = <<>> /\ handed' = <<>> /\ keys' = {} /\ whole' = TRUE /\ last' = FALSE
      /\ report' = NoReport
      /\ UNCHANGED <<max, seq, timestamp, stored, todo, ap, payload_len, rest, latest>>
  BY DEF BeginFrame, rtp
<1>2. /\ todo = 0 /\ ap = <<>> /\ timestamp = frames /\ frames \in 0..MaxFrames
      /\ MaxFrames \in Nat /\ MaxSlots \in Nat /\ seq \in 0..Numbers - 1
      /\ Numbers \in Nat \ {0}
  BY <1>1, FrameAssumption DEF FrameInv, Types, Place
<1>3. Taken' = 0 /\ Passed' = 0 /\ Indexes' = {}
  BY <1>1, <1>2 DEF Taken, Passed, Indexes
<1>4. Types'
  <2>1. /\ handed' \in Seq(Nals) /\ sent' \in Seq(PacketType) /\ ap' \in Seq(Indexes')
        /\ Len(handed') = 0
    BY <1>1, <1>2
  <2>2. before' \in [seq : 0..Numbers - 1, ts : Nat]
    BY <1>1, <1>2
  <2>3. todo' \in 0..Len(handed') /\ frames' \in 0..MaxFrames /\ left' \in 0..MaxSlots
    BY <2>1, <1>1, <1>2
  <2> QED BY <2>1, <2>2, <2>3, <1>1 DEF FrameInv, Types
<1>5. Place'
  BY <1>1, <1>2 DEF Place
<1>6. GatheredInv'
  BY <1>1, <1>2, <1>3 DEF FrameInv, GatheredInv
<1>7. Counted'
  BY <1>1, <1>2, <1>3, Fragments DEF Counted
<1>8. Numbered'
  <2>1. seq = (seq + 0) % Numbers
    BY <1>2
  <2> QED BY <2>1, <1>1 DEF Numbered
<1>9. Marked' /\ Linked' /\ Ordered' /\ Arrived'
  BY <1>1, <1>3 DEF Marked, Linked, Ordered, Arrived
<1>10. Reported'
  BY <1>1 DEF Reported
<1>11. Remembered'
  BY <1>1 DEF FrameInv, Remembered
<1> QED BY <1>4, <1>5, <1>6, <1>7, <1>8, <1>9, <1>10, <1>11 DEF FrameInv

\* The count of the packets is found again from the numbers.
LEMMA CountedBack ==
    ASSUME NEW b \in 0..Numbers - 1, NEW n \in 0..Numbers - 1
    PROVE  (((b + n) % Numbers) - b) % Numbers = n
<1>1. Numbers \in Nat \ {0}
  BY FrameAssumption
<1>2. CASE b + n < Numbers
  <2>1. ((b + n) % Numbers) - b = n
    BY <1>2, Wraps
  <2> QED BY <2>1, <1>1
<1>3. CASE ~(b + n < Numbers)
  <2> DEFINE x == n - Numbers
             q == x \div Numbers
             r == x % Numbers
  <2>1. ((b + n) % Numbers) - b = x
    <3>1. (b + n) % Numbers = b + n - Numbers
      BY <1>3, Wraps
    <3> QED BY <3>1, <1>1
  <2>2. x = Numbers * q + r /\ r \in 0..Numbers - 1 /\ q \in Int
    BY <1>1
  <2>3. r = n
    <3> HIDE DEF q, r
    <3>1. CASE q >= 0
      <4>1. Numbers * q >= 0 BY <3>1, <2>2, <1>1
      <4> QED BY <4>1, <2>2, <1>1
    <3>2. CASE q = -1
      BY <3>2, <2>2, <1>1
    <3>3. CASE q <= -2
      <4>1. Numbers * q <= -2 * Numbers BY <3>3, <2>2, <1>1
      <4> QED BY <4>1, <2>2, <1>1
    <3> QED BY <3>1, <3>2, <3>3, <2>2
  <2> QED BY <2>1, <2>3
<1> QED BY <1>2, <1>3

\* The subscriber is told of the frame that was sent.
LEMMA ReportStep ==
    ASSUME FrameInv, Report
    PROVE  FrameInv'
<1>1. /\ pc = "report" /\ pc' = "idle"
      /\ \/ report' = report
         \/ report' = [ts |-> before.ts, first |-> before.seq, id |-> frame_id,
                       count |-> (seq - before.seq) % Numbers]
      /\ UNCHANGED <<max, seq, timestamp, stored, left, todo, ap, payload_len, rest, last,
                     handed, before, latest, keys, sent, whole, frames>>
  BY DEF Report, rtp, work
<1>2. sub' \in BOOLEAN
  BY DEF Report, FrameInv, Types
<1>3. /\ todo = 0 /\ ap = <<>> /\ left = 0 /\ handed \in Seq(Nals) /\ Len(handed) \in Nat
      /\ MaxSlots \in Nat /\ Len(sent) \in Nat
  BY <1>1, FrameAssumption DEF FrameInv, Types, Place
<1>4. Taken = Len(handed) /\ Taken' = Taken /\ Passed' = Passed /\ Passed \in Int
  BY <1>1, <1>3 DEF Taken, Passed
<1>5. Numbered' /\ Linked' /\ Ordered' /\ Arrived'
  BY <1>1, <1>3, <1>4, SameSent
<1>6. Types'
  BY <1>1, <1>2 DEF FrameInv, Types, Indexes
<1>7. Place'
  BY <1>1, <1>3 DEF FrameInv, Place
<1>8. GatheredInv'
  BY <1>1, <1>4 DEF FrameInv, GatheredInv
<1>9. Counted'
  BY <1>1, <1>4 DEF FrameInv, Counted
<1>10. Marked'
  BY <1>1 DEF FrameInv, Marked
<1>11. Reported'
  <2>1. Len(handed) <= 4 * MaxSlots /\ Len(sent) <= PerNal * Len(handed)
    BY <1>1, <1>3, <1>4, Fragments DEF FrameInv, Counted
  <2>2. PerNal * Len(handed) <= PerNal * (4 * MaxSlots) /\ PerNal * (4 * MaxSlots) < Numbers
    <3>1. PerNal \in Nat /\ 4 * MaxSlots - Len(handed) \in Nat
      BY <2>1, <1>3, Fragments
    <3>2. PerNal * (4 * MaxSlots - Len(handed)) >= 0
      BY <3>1
    <3>3. PerNal * (4 * MaxSlots - Len(handed)) = PerNal * (4 * MaxSlots) - PerNal * Len(handed)
      BY <3>1, <1>3
    <3>4. PerNal * (4 * MaxSlots) = 4 * MaxSlots * PerNal
      BY <3>1, <1>3
    <3>5. PerNal * (4 * MaxSlots) \in Int /\ PerNal * Len(handed) \in Int
      BY <3>1, <1>3
    <3> QED BY <3>2, <3>3, <3>4, <3>5, Fragments
  <2>3. Len(sent) \in 0..Numbers - 1 /\ before.seq \in 0..Numbers - 1
    <3>1. PerNal * Len(handed) \in Int /\ PerNal * (4 * MaxSlots) \in Int /\ Numbers \in Nat
      BY <1>3, Fragments, FrameAssumption
    <3>2. before.seq \in 0..Numbers - 1
      BY DEF FrameInv, Types
    <3> QED BY <3>1, <3>2, <2>1, <2>2, <1>3
  <2>4. (seq - before.seq) % Numbers = Len(sent)
    BY <2>3, CountedBack DEF FrameInv, Numbered
  <2>5. report = NoReport
    BY <1>1 DEF FrameInv, Reported
  <2> QED BY <2>4, <2>5, <1>1 DEF Reported
<1>12. Remembered'
  BY <1>1, StillRemembered
<1> QED BY <1>5, <1>6, <1>7, <1>8, <1>9, <1>10, <1>11, <1>12 DEF FrameInv

\* A product with a larger factor.
LEMMA FewerPieces ==
    ASSUME NEW j \in Nat, NEW k \in Nat, NEW d \in Nat, j * d < k * d
    PROVE  j < k
<1>1. CASE j >= k
  <2>1. j - k \in Nat /\ (j - k) * d >= 0 /\ (j - k) * d = j * d - k * d
    BY <1>1
  <2>2. j * d \in Int /\ k * d \in Int
    OBVIOUS
  <2> QED BY <2>1, <2>2
<1> QED BY <1>1

\* A fragment that is accepted is right behind the one before.
LEMMA AcceptedFragment ==
    ASSUME FrameInv, pc = "fragment", max > 3, NEW chunk \in 1..rest,
           Accept(Fragment(Nal, chunk)), UNCHANGED <<max, handed>>,
           chunk < rest => /\ pc' = "fragment" /\ Nal' = Nal /\ Passed' = Passed
                           /\ rest' = rest - chunk,
           chunk = rest => pc' # "fragment" /\ Passed' = Nal,
           Passed = Nal - 1, sent' \in Seq(PacketType)
    PROVE  Linked' /\ Ordered' /\ Arrived'
<1>0. PICK i \in Indexes : i = Nal
  BY NalInHand
<1> DEFINE p == Fragment(i, chunk)
           len == handed[i].len
<1>1. /\ i \in Indexes /\ i \in Nat /\ len \in Nat /\ rest \in 1..len - 2 /\ chunk \in Nat
      /\ chunk >= 1 /\ chunk <= rest
  BY <1>0, NalInHand DEF FrameInv, Place
<1>11. len \in Int /\ rest \in Int /\ chunk \in Int
  BY <1>1
<1>2. /\ p.kind = "fu" /\ p.nals = <<i>> /\ p.at = len - rest /\ p.size = chunk + 3
      /\ (p.start <=> p.at = 2) /\ (p.end <=> chunk = rest)
  BY DEF Fragment, Packet
<1>3. Types /\ Accept(p) /\ Passed = i - 1
  BY <1>0 DEF FrameInv
<1> HIDE DEF p
<1>4. PICK n \in Nat \ {0} :
            /\ Len(sent) = n - 1 /\ Len(sent') = n /\ sent'[n] = p
            /\ 1..Len(sent') = 1..Len(sent) \cup {n}
            /\ \A k \in 1..Len(sent) :
                  /\ sent'[k] = sent[k] /\ Names(k)' = Names(k) /\ Behind(k)' = Behind(k)
                  /\ (Fu(k)' <=> Fu(k)) /\ (Piece(k)' <=> Piece(k))
                  /\ Follows(k) => Follows(k)'
            /\ \A j, k \in 1..Len(sent) : Run(j, k)' <=> Run(j, k)
  BY <1>3, EarlierStay
<1>5. /\ Fu(n)' /\ sent'[n].nals = <<i>> /\ Names(n)' = {i} /\ sent'[n].at = len - rest
      /\ Behind(n)' = len - rest + chunk /\ (sent'[n].start <=> rest = len - 2)
      /\ (sent'[n].end <=> chunk = rest)
  <2>1. Behind(n)' = len - rest + (chunk + 3) - 3
    BY <1>2, <1>4 DEF Behind
  <2>2. Range(<<i>>) = {i}
    BY DEF Range
  <2>3. len - rest = 2 <=> rest = len - 2
    BY <1>11
  <2>4. Behind(n)' = len - rest + chunk
    BY <2>1, <1>11
  <2> QED BY <2>2, <2>3, <2>4, <1>2, <1>4 DEF Fu, Names
<1>6. Piece(n)'
  <2>1. Len(<<i>>) = 1 /\ <<i>>[1] = i
    OBVIOUS
  <2>2. len - rest + chunk = len <=> chunk = rest
    BY <1>11
  <2>3. len - rest = 2 <=> rest = len - 2
    BY <1>11
  <2> QED BY <2>1, <2>2, <2>3, <1>1, <1>5 DEF Piece, Indexes
<1>7. rest # len - 2 => Follows(n)' /\ n - 1 \in 1..Len(sent)
  <2> SUFFICES ASSUME rest # len - 2 PROVE Follows(n)' /\ n - 1 \in 1..Len(sent)
    OBVIOUS
  <2>1. /\ sent # <<>> /\ Fu(Len(sent)) /\ sent[Len(sent)].nals = <<i>>
        /\ Behind(Len(sent)) = len - rest
    BY <1>0 DEF FrameInv, Linked
  <2>2. n - 1 \in 1..Len(sent) /\ n > 1
    <3>1. Len(sent) \in Nat /\ Len(sent) # 0
      BY <2>1, <1>3 DEF Types
    <3> QED BY <3>1, <1>4
  <2>3. Fu(n - 1)' /\ sent'[n - 1].nals = <<i>> /\ Behind(n - 1)' = len - rest
    BY <2>1, <2>2, <1>4
  <2> QED BY <2>2, <2>3, <1>5 DEF Follows
<1>8. Linked'
  <2>1. \A k \in 1..Len(sent') : Fu(k)' => Piece(k)' /\ (sent'[k].start \/ Follows(k)')
    BY <1>4, <1>5, <1>6, <1>7 DEF FrameInv, Linked
  <2>2. ASSUME NEW j \in 1..Len(sent'), NEW k \in 1..Len(sent'), Run(j, k)'
        PROVE  sent'[j].nals = sent'[k].nals
    <3>1. CASE k \in 1..Len(sent)
      <4>1. j \in 1..Len(sent)
        BY <2>2, <3>1, <1>4 DEF Run
      <4> QED BY <4>1, <3>1, <2>2, <1>4 DEF FrameInv, Linked
    <3>2. CASE k = n /\ j = n
      BY <3>2
    <3>3. CASE k = n /\ j # n
      <4>1. j \in 1..Len(sent) /\ j < n /\ n \in j + 1..n
        BY <3>3, <1>4
      <4>2. ~sent'[n].start
        BY <4>1, <3>3, <2>2 DEF Run
      <4>3. Follows(n)' /\ n - 1 \in 1..Len(sent)
        BY <4>2, <1>5, <1>7
      <4>4. Run(j, n - 1)'
        <5>1. j <= n - 1 /\ \A m \in j + 1..n - 1 : m \in j + 1..n
          BY <4>1
        <5> QED BY <5>1, <3>3, <2>2 DEF Run
      <4>5. sent[j].nals = sent[n - 1].nals
        BY <4>1, <4>3, <4>4, <1>4 DEF FrameInv, Linked
      <4> QED BY <4>1, <4>3, <4>5, <3>3, <1>4 DEF Follows
    <3> QED BY <3>1, <3>2, <3>3, <1>4
  <2>3. pc' = "fragment" => /\ sent' # <<>> /\ Fu(n)' /\ sent'[n].nals = <<Nal'>>
                            /\ Behind(n)' = handed'[Nal'].len - rest'
    <3> SUFFICES ASSUME pc' = "fragment"
                 PROVE  /\ sent' # <<>> /\ Fu(n)' /\ sent'[n].nals = <<Nal'>>
                        /\ Behind(n)' = handed'[Nal'].len - rest'
      OBVIOUS
    <3>1. chunk < rest
      BY <1>1
    <3>2. Nal' = i /\ rest' = rest - chunk /\ handed' = handed
      BY <3>1, <1>0
    <3>3. sent' # <<>>
      BY <1>4
    <3>4. handed'[Nal'].len - rest' = len - (rest - chunk)
      BY <3>2
    <3>5. len - (rest - chunk) = len - rest + chunk
      BY <1>11
    <3> QED BY <3>2, <3>3, <3>4, <3>5, <1>5
  <2> QED BY <2>1, <2>2, <2>3, <1>4 DEF Linked
<1>9. Ordered'
  <2>1. \A j \in 1..Len(sent) : \A a \in Names(j) :
            (a <= Passed \/ (a = i /\ Fu(j) /\ ~sent[j].end)) /\ a \in Int
    BY <1>0, <1>3, NamesType DEF FrameInv, Ordered
  <2>2. ASSUME NEW j \in 1..Len(sent'), NEW k \in 1..Len(sent'), j < k,
               NEW a \in Names(j)', NEW b \in Names(k)'
        PROVE  a < b \/ (a = b /\ Fu(j)' /\ ~sent'[j].end)
    <3>1. j \in 1..Len(sent)
      BY <2>2, <1>4
    <3>2. CASE k = n
      <4>1. b = i
        BY <3>2, <2>2, <1>5
      <4>2. a \in Names(j) /\ (Fu(j)' <=> Fu(j)) /\ sent'[j] = sent[j]
        BY <3>1, <2>2, <1>4
      <4>3. (a <= Passed \/ (a = i /\ Fu(j) /\ ~sent[j].end)) /\ a \in Int
        BY <4>2, <3>1, <2>1
      <4>4. a <= Passed => a < i
        BY <4>3, <1>1, <1>3
      <4> QED BY <4>1, <4>2, <4>3, <4>4
    <3>3. CASE k \in 1..Len(sent)
      BY <3>1, <3>3, <2>2, <1>4 DEF FrameInv, Ordered
    <3> QED BY <3>2, <3>3, <1>4
  <2>3. ASSUME NEW j \in 1..Len(sent'), NEW a \in Names(j)'
        PROVE  a <= Passed' \/ (pc' = "fragment" /\ a = Nal' /\ Fu(j)' /\ ~sent'[j].end)
    <3>1. \/ a = i /\ Fu(j)' /\ (sent'[j].end => chunk = rest)
          \/ a <= Passed /\ a \in Int
      <4>1. CASE j = n
        BY <4>1, <2>3, <1>5
      <4>2. CASE j \in 1..Len(sent)
        <5>1. a \in Names(j) /\ (Fu(j)' <=> Fu(j)) /\ sent'[j] = sent[j]
          BY <4>2, <2>3, <1>4
        <5> QED BY <5>1, <4>2, <2>1
      <4> QED BY <4>1, <4>2, <1>4
    <3>2. CASE chunk < rest
      BY <3>1, <3>2, <1>0, <1>1
    <3>3. CASE chunk = rest
      BY <3>1, <3>3, <1>0, <1>1, <1>3
    <3> QED BY <3>2, <3>3, <1>1
  <2> QED BY <2>2, <2>3 DEF Ordered
<1>10. Arrived'
  <2> SUFFICES ASSUME whole'
               PROVE  /\ \A a \in 1..Passed' : Arrives(a)'
                      /\ pc' = "fragment" => \E from \in 1..Len(sent') : Begun(from)'
    BY DEF Arrived
  <2>1. whole
    BY <1>3 DEF Accept
  <2>2. /\ \A a \in 1..Passed : Arrives(a)
        /\ rest = len - 2 \/ \E from \in 1..Len(sent) : Begun(from)
    BY <2>1, <1>0 DEF FrameInv, Arrived
  <2>4. \A a \in 1..Passed : Arrives(a)'
    BY <2>2, <1>3, <1>4, StaysArrived
  <2>5. \E from \in 1..n : /\ sent'[from].start /\ sent'[from].nals = <<i>>
                           /\ \A k \in from..n : /\ Fu(k)' /\ (sent'[k].start => k = from)
                                                 /\ sent'[k].end => k = n /\ chunk = rest
    <3>1. CASE rest = len - 2
      <4>1. n..n = {n} /\ n \in 1..n
        OBVIOUS
      <4> QED BY <4>1, <3>1, <1>5
    <3>2. CASE rest # len - 2
      <4>1. PICK from \in 1..Len(sent) : Begun(from)
        BY <3>2, <2>2
      <4>2. from \in 1..n /\ \A k \in from..n : k \in from..Len(sent) \/ k = n
        BY <1>4
      <4>3. \A k \in from..Len(sent) : k \in 1..Len(sent)
        BY <1>4
      <4>4. \A k \in from..Len(sent) : Fu(k)' /\ ~sent'[k].end /\ (sent'[k].start => k = from)
        BY <4>1, <4>3, <1>0, <1>4 DEF Begun
      <4>5. sent'[from].start /\ sent'[from].nals = <<i>>
        BY <4>1, <1>0, <1>4 DEF Begun
      <4> QED BY <4>2, <4>4, <4>5, <3>2, <1>5
    <3> QED BY <3>1, <3>2
  <2>6. CASE chunk < rest
    <3>1. pc' = "fragment" /\ Nal' = i /\ Passed' = Passed
      BY <2>6, <1>0
    <3> QED BY <3>1, <2>4, <2>5, <2>6, <1>1, <1>4 DEF Begun
  <2>7. CASE chunk = rest
    <3>1. pc' # "fragment" /\ Passed' = i
      BY <2>7, <1>0
    <3>2. PICK from \in 1..n : /\ sent'[from].start /\ sent'[from].nals = <<i>>
                               /\ \A k \in from..n : /\ Fu(k)' /\ (sent'[k].start => k = from)
                                                     /\ sent'[k].end => k = n
      BY <2>5
    <3>3. Joins(from, n)'
      <4>1. from \in from..n /\ from <= n
        BY <3>2
      <4> QED BY <4>1, <3>2, <2>7, <1>5 DEF Joins, Fu
    <3>4. Arrives(i)'
      <4>1. from \in 1..Len(sent') /\ n \in 1..Len(sent')
        BY <1>4
      <4> QED BY <4>1, <3>2, <3>3, <1>5 DEF Arrives
    <3>5. \A a \in 1..i : a \in 1..Passed \/ a = i
      BY <1>1, <1>3
    <3>6. \A a \in 1..i : Arrives(a)'
      BY <3>4, <3>5, <2>4
    <3> QED BY <3>1, <3>6
  <2> QED BY <2>6, <2>7, <1>1
<1> QED BY <1>8, <1>9, <1>10

\* A fragment goes on with its NAL, ends it, or is refused and ends it there.
LEMMA SendFragmentStep ==
    ASSUME FrameInv, SendFragment
    PROVE  FrameInv'
<1>1. /\ pc = "fragment"
      /\ UNCHANGED <<max, timestamp, stored, left, ap, payload_len, last, before, sub,
                     report, handed, latest, keys, frames>>
  BY DEF SendFragment, sidecar
<1>2. /\ Nal \in Indexes /\ Nal = Len(handed) - todo + 1 /\ todo \in Nat \ {0}
      /\ handed[Nal].len \in Nat /\ Len(handed) \in Nat /\ todo <= Len(handed) /\ Nal \in Nat
      /\ handed \in Seq(Nals) /\ max \in Nat /\ handed[Nal] \in Nals
  BY <1>1, NalInHand, Payload DEF FrameInv
<1>3. /\ max > 3 /\ Large(Nal) /\ rest \in 1..handed[Nal].len - 2 /\ ap = <<>>
      /\ (last => left = 0) /\ timestamp = before.ts /\ timestamp \in Nat /\ last \in BOOLEAN
  BY <1>1 DEF FrameInv, Place, Types
<1>4. PICK chunk \in 1..rest :
         /\ chunk = (IF rest > max - 3 THEN max - 3 ELSE rest)
         /\ chunk <= max - 3 /\ chunk \in Nat /\ (chunk < rest => chunk = max - 3)
  <2> DEFINE c == IF rest > max - 3 THEN max - 3 ELSE rest
  <2>1. /\ c \in 1..rest /\ c <= max - 3 /\ c \in Nat /\ (c < rest => c = max - 3)
    BY <1>2, <1>3
  <2> QED BY <2>1
<1> DEFINE p == Fragment(Nal, chunk)
<1>5. /\ Send(p) /\ rest' = (IF sent' # sent THEN rest - chunk ELSE 0)
      /\ IF rest' = 0 THEN Done ELSE UNCHANGED <<todo, pc>>
  BY <1>4 DEF SendFragment, Remaining
<1>6. /\ p \in PacketType /\ p.seq = seq /\ p.ts = before.ts /\ p.size <= max
      /\ (p.marker <=> last /\ todo = 1 /\ chunk = rest)
  <2>1. seq \in 0..Numbers - 1 /\ <<Nal>> \in Seq(Nat)
    BY <1>2 DEF FrameInv, Types
  <2>2. /\ handed[Nal].len - rest \in Nat /\ chunk + 3 \in Nat /\ chunk + 3 <= max
    BY <1>2, <1>3, <1>4
  <2> QED BY <2>1, <2>2, <1>3 DEF Fragment, Packet, PacketType
<1>7. /\ Numbered' /\ sent' \in Seq(PacketType) /\ seq' \in 0..Numbers - 1
      /\ whole' \in BOOLEAN
  <2> HIDE DEF p
  <2> QED BY <1>1, <1>5, <1>6, TakesNumber
<1>8. Taken = Nal - 1 /\ Passed = Nal - 1
  BY <1>1, <1>2, <1>3 DEF Taken, Passed
<1>9. PICK j \in 0..Len(sent) : /\ j * (max - 3) + rest = handed[Nal].len - 2
                                /\ Len(sent) <= PerNal * (Nal - 1) + j
  BY <1>1, <1>8 DEF FrameInv, Counted
<1>10. j \in Nat /\ j < PerNal /\ Len(sent) \in Nat
  <2>1. Len(sent) \in Nat /\ max \in Payloads
    BY DEF FrameInv, Types
  <2>2. PerNal \in Nat /\ handed[Nal].len - 2 <= PerNal * (max - 3) /\ max - 3 \in Nat /\ j \in Nat
    BY <2>1, <1>2, <1>3, <1>9, Fragments
  <2>3. j * (max - 3) \in Int /\ PerNal * (max - 3) \in Int
    BY <2>2
  <2>4. j * (max - 3) < PerNal * (max - 3)
    BY <2>2, <2>3, <1>3, <1>9
  <2> QED BY <2>1, <2>2, <2>4, FewerPieces
<1>11. PerNal * Nal = PerNal * (Nal - 1) + PerNal /\ PerNal * (Nal - 1) \in Int /\ PerNal \in Nat
  BY <1>2, Fragments
<1>12. \/ Refuse /\ sent' = sent
       \/ Accept(p) /\ sent' # sent /\ Len(sent') = Len(sent) + 1
  <2> HIDE DEF p
  <2> QED BY <1>5, OneMore DEF Send, Accept, Refuse, FrameInv, Types
<1>13. Len(handed) <= 4 * (MaxSlots - left)
  BY DEF FrameInv, Counted
<1>14. Reported' /\ Remembered'
  BY <1>1, Unreported, StillRemembered
<1>15. CASE rest' = 0
  <2>1. todo' = todo - 1 /\ pc' = IF todo = 1 THEN "entry" ELSE "nal"
    BY <1>5, <1>15 DEF Done
  <2>2. Taken' = Nal /\ Passed' = Nal /\ pc' \in {"entry", "nal"}
    BY <2>1, <1>1, <1>2, <1>3 DEF Taken, Passed
  <2>3. Types'
    <3>1. todo' \in 0..Len(handed) /\ rest' \in Nat
      BY <2>1, <1>2, <1>15
    <3> QED BY <3>1, <2>2, <1>1, <1>7 DEF FrameInv, Types, Indexes
  <2>4. Place'
    BY <2>1, <1>1, <1>2, <1>3 DEF FrameInv, Place
  <2>5. GatheredInv'
    BY <2>2, <1>1, <1>2, <1>3 DEF FrameInv, GatheredInv
  <2>6. Counted'
    <3>1. Len(sent') <= Len(sent) + 1
      BY <1>10, <1>12
    <3>2. Len(sent') <= PerNal * Nal
      BY <3>1, <1>7, <1>9, <1>10, <1>11, <1>12
    <3>3. Len(sent') + Len(ap') <= PerNal * Taken'
      BY <3>2, <2>2, <1>1, <1>3, <1>10, <1>12
    <3> QED BY <3>3, <2>2, <1>1, <1>13 DEF Counted
  <2>7. Accept(p) => chunk = rest
    <3> SUFFICES ASSUME Accept(p) PROVE chunk = rest
      OBVIOUS
    <3>1. sent' # sent
      <4>1. sent \in Seq(PacketType) /\ sent' = Append(sent, p)
        BY DEF Accept, FrameInv, Types
      <4> HIDE DEF p
      <4> QED BY <4>1, OneMore
    <3>2. rest - chunk = 0 /\ rest \in Int /\ chunk \in Int
      BY <3>1, <1>2, <1>3, <1>4, <1>5, <1>15
    <3> QED BY <3>2
  <2>8. Marked'
    <3>1. p.marker => pc' \in {"entry", "report", "idle"} /\ left' = 0 /\ ap' = <<>>
      BY <2>1, <1>1, <1>3, <1>6
    <3>2. pc' \in {"entry", "report", "idle"} /\ last' /\ Accept(p) /\ max > 3 => p.marker
      BY <2>1, <2>7, <1>1, <1>6
    <3> HIDE DEF p
    <3> QED BY <3>1, <3>2, <1>1, <1>5, <1>6, MarkedSends
  <2>9. Linked' /\ Ordered' /\ Arrived'
    <3>1. CASE Refuse
      <4>1. \A k : Names(k)' = Names(k) /\ (Fu(k)' <=> Fu(k)) /\ (Piece(k)' <=> Piece(k))
                   /\ (Follows(k)' <=> Follows(k))
        BY <3>1, <1>1 DEF Refuse, Names, Fu, Piece, Follows, Behind, Indexes
      <4>2. \A a, b : Run(a, b)' <=> Run(a, b)
        BY <3>1 DEF Refuse, Run, Fu
      <4>3. Linked'
        BY <3>1, <4>1, <4>2, <2>2 DEF Refuse, FrameInv, Linked
      <4>4. \A k \in 1..Len(sent) : \A a \in Names(k) : a \in Int /\ (a <= Nal - 1 \/ a = Nal)
        BY <1>8, NamesType DEF FrameInv, Ordered
      <4>5. \A k \in 1..Len(sent) : \A a \in Names(k) : a <= Passed'
        BY <4>4, <2>2, <1>2
      <4>6. Ordered'
        BY <3>1, <4>1, <4>5 DEF Refuse, FrameInv, Ordered
      <4>7. Arrived'
        BY <3>1 DEF Refuse, Arrived
      <4> QED BY <4>3, <4>6, <4>7
    <3>2. CASE Accept(p)
      <4>1. chunk = rest
        BY <3>2, <2>7
      <4> QED BY <3>2, <4>1, <2>2, <1>1, <1>3, <1>4, <1>7, <1>8, AcceptedFragment
    <3> QED BY <3>1, <3>2, <1>12
  <2> QED BY <2>3, <2>4, <2>5, <2>6, <2>8, <2>9, <1>7, <1>14 DEF FrameInv
<1>16. CASE rest' # 0
  <2>1. todo' = todo /\ pc' = "fragment"
    BY <1>1, <1>5, <1>16
  <2>2. Accept(p) /\ rest' = rest - chunk /\ Len(sent') = Len(sent) + 1
    BY <1>5, <1>12, <1>16
  <2>3. chunk < rest /\ chunk = max - 3 /\ rest' \in 1..handed[Nal].len - 2
    <3>1. /\ rest \in Nat /\ chunk \in 1..rest /\ rest - chunk # 0
          /\ rest <= handed[Nal].len - 2 /\ handed[Nal].len \in Nat
      BY <2>2, <1>2, <1>3, <1>4, <1>16
    <3>2. chunk < rest /\ rest - chunk \in 1..handed[Nal].len - 2
      BY <3>1
    <3> QED BY <3>2, <2>2, <1>4
  <2>4. Taken' = Nal - 1 /\ Passed' = Nal - 1 /\ Nal' = Nal
    BY <2>1, <1>1, <1>2, <1>3 DEF Taken, Passed, Nal
  <2>5. Linked' /\ Ordered' /\ Arrived'
    BY <2>1, <2>2, <2>3, <2>4, <1>1, <1>3, <1>4, <1>7, <1>8, AcceptedFragment
  <2>6. Types'
    <3>1. rest' \in Nat
      BY <2>3, <1>2
    <3> QED BY <3>1, <2>1, <1>1, <1>7 DEF FrameInv, Types, Indexes
  <2>7. Place'
    BY <2>1, <2>3, <2>4, <1>1 DEF FrameInv, Place, Large
  <2>8. GatheredInv'
    BY <2>4, <1>1, <1>2, <1>3 DEF FrameInv, GatheredInv
  <2>9. Counted'
    <3>1. (j + 1) * (max - 3) = j * (max - 3) + (max - 3) /\ j * (max - 3) \in Int
      BY <1>2, <1>10
    <3>2. (j + 1) * (max - 3) + rest' = handed[Nal].len - 2
      BY <3>1, <2>2, <2>3, <1>2, <1>3, <1>9
    <3>3. j + 1 \in 0..Len(sent') /\ Len(sent') <= PerNal * (Nal - 1) + (j + 1)
      BY <2>2, <1>9, <1>10, <1>11
    <3>4. /\ j + 1 \in 0..Len(sent') /\ Len(sent') <= PerNal * Taken' + (j + 1)
          /\ (j + 1) * (max' - 3) + rest' = handed'[Nal'].len - 2
      BY <3>2, <3>3, <2>4, <1>1
    <3> QED BY <3>4, <2>1, <1>1, <1>13 DEF Counted
  <2>10. Marked'
    <3>1. ~p.marker /\ pc' = "fragment"
      BY <2>1, <2>3, <1>3, <1>6
    <3> HIDE DEF p
    <3> QED BY <3>1, <1>1, <1>5, <1>6, MarkedSends
  <2> QED BY <2>5, <2>6, <2>7, <2>8, <2>9, <2>10, <1>7, <1>14 DEF FrameInv
<1> QED BY <1>15, <1>16

--------------------------------------------------------------------------------
(* The invariant, and what it says.                                        *)

LEMMA FrameInit == Init => FrameInv
<1> SUFFICES ASSUME Init PROVE FrameInv
  OBVIOUS
<1>1. /\ seq = FirstSeq /\ timestamp = 0 /\ pc = "idle" /\ left = 0 /\ todo = 0 /\ ap = <<>>
      /\ payload_len = 0 /\ rest = 0 /\ last = FALSE /\ before = [seq |-> seq, ts |-> 0]
      /\ sub = FALSE /\ handed = <<>> /\ keys = {} /\ sent = <<>> /\ whole = TRUE /\ frames = 0
      /\ max \in Payloads /\ report = NoReport /\ latest = stored
      /\ stored = [p \in ParamTypes |-> NoNal]
  BY DEF Init
<1>2. /\ Numbers \in Nat \ {0} /\ FirstSeq \in 0..Numbers - 1 /\ MaxFrames \in Nat
      /\ MaxSlots \in Nat
  BY FrameAssumption
<1>3. Taken = 0 /\ Passed = 0 /\ Indexes = {}
  BY <1>1 DEF Taken, Passed, Indexes
<1>4. Types
  <2>1. /\ handed \in Seq(Nals) /\ sent \in Seq(PacketType) /\ ap \in Seq(Indexes)
        /\ Len(handed) = 0
    BY <1>1
  <2>2. before \in [seq : 0..Numbers - 1, ts : Nat]
    BY <1>1, <1>2
  <2>3. todo \in 0..Len(handed) /\ frames \in 0..MaxFrames /\ left \in 0..MaxSlots
    BY <2>1, <1>1, <1>2
  <2>4. /\ stored \in [ParamTypes -> Nals \cup {NoNal}]
        /\ latest \in [ParamTypes -> Nals \cup {NoNal}]
    BY <1>1
  <2> QED BY <2>1, <2>2, <2>3, <2>4, <1>1, <1>2 DEF Types
<1>5. Place
  BY <1>1 DEF Place
<1>6. GatheredInv
  BY <1>1, <1>3 DEF GatheredInv
<1>7. Counted
  BY <1>1, <1>2, <1>3, Fragments DEF Counted
<1>8. Numbered
  <2>1. seq = (seq + 0) % Numbers
    BY <1>1, <1>2
  <2> QED BY <2>1, <1>1 DEF Numbered
<1>9. Marked /\ Linked /\ Ordered /\ Arrived
  BY <1>1, <1>3 DEF Marked, Linked, Ordered, Arrived
<1>10. Reported /\ Remembered
  BY <1>1, <1>3 DEF Reported, Remembered
<1> QED BY <1>4, <1>5, <1>6, <1>7, <1>8, <1>9, <1>10 DEF FrameInv

LEMMA FrameStutter ==
    ASSUME FrameInv, UNCHANGED vars
    PROVE  FrameInv'
<1>1. UNCHANGED <<max, seq, timestamp, stored, pc, left, todo, ap, payload_len, rest, last,
                  before, sub, report, handed, latest, keys, sent, whole, frames>>
  BY DEF vars, rtp, work, sidecar
<1>2. Taken' = Taken /\ Passed' = Passed /\ Nal' = Nal /\ Indexes' = Indexes
  BY <1>1 DEF Taken, Passed, Nal, Indexes
<1>3. Types' /\ Place' /\ GatheredInv'
  BY <1>1, <1>2 DEF FrameInv, Types, Place, Large, GatheredInv
<1>10. Counted' /\ Numbered' /\ Marked'
  BY <1>1, <1>2 DEF FrameInv, Counted, Numbered, Marked
<1>4. \A k : /\ Names(k)' = Names(k) /\ (Fu(k)' <=> Fu(k)) /\ (Piece(k)' <=> Piece(k))
             /\ (Follows(k)' <=> Follows(k)) /\ Behind(k)' = Behind(k)
  BY <1>1, <1>2 DEF Names, Fu, Piece, Follows, Behind
<1>5. \A j, k : Run(j, k)' <=> Run(j, k)
  BY <1>1 DEF Run, Fu
<1>6. Linked'
  BY <1>1, <1>2, <1>4, <1>5 DEF FrameInv, Linked
<1>7. Ordered'
  BY <1>1, <1>2, <1>4 DEF FrameInv, Ordered
<1>8. Arrived'
  <2>1. \A i : Arrives(i)' <=> Arrives(i)
    BY <1>1 DEF Arrives, Joins
  <2>2. \A from : Begun(from)' <=> Begun(from)
    BY <1>1, <1>2 DEF Begun, Fu
  <2> QED BY <1>1, <1>2, <2>1, <2>2 DEF FrameInv, Arrived
<1>9. Reported' /\ Remembered'
  BY <1>1, StillRemembered DEF FrameInv, Reported
<1> QED BY <1>3, <1>6, <1>7, <1>8, <1>9, <1>10 DEF FrameInv

LEMMA FrameNext == FrameInv /\ [Next]_vars => FrameInv'
<1> SUFFICES ASSUME FrameInv, [Next]_vars PROVE FrameInv'
  OBVIOUS
<1>1. ASSUME NEW n \in 0..MaxSlots, NEW r \in BOOLEAN, BeginFrame(n, r) PROVE FrameInv'
  BY <1>1, BeginFrameStep
<1>2. CASE SkipEntry
  BY <1>2, SkipEntryStep
<1>3. ASSUME NEW n \in Nals, TakeEntry(n) PROVE FrameInv'
  BY <1>3, TakeEntryStep
<1>4. CASE Flush
  BY <1>4, FlushStep
<1>5. CASE Gather
  BY <1>5, GatherStep
<1>6. CASE FlushLast
  BY <1>6, FlushLastStep
<1>7. CASE SendSingle
  BY <1>7, SendSingleStep
<1>8. CASE BeginFragments
  BY <1>8, BeginFragmentsStep
<1>9. CASE SendFragment
  BY <1>9, SendFragmentStep
<1>10. CASE EndFrame
  BY <1>10, EndFrameStep
<1>11. CASE Report
  BY <1>11, ReportStep
<1>12. CASE UNCHANGED vars
  BY <1>12, FrameStutter
<1> QED BY <1>1, <1>2, <1>3, <1>4, <1>5, <1>6, <1>7, <1>8, <1>9, <1>10, <1>11, <1>12 DEF Next

LEMMA FrameHolds == Spec => []FrameInv
<1> QED BY FrameInit, FrameNext, PTL DEF Spec

\* Every variable of the sender keeps its type, and no packet exceeds the payload
\* size: a slot of the ring or a datagram takes whatever rtp_packetizer builds.
THEOREM FrameTypes == Spec => []TypeOK
<1>1. FrameInv => TypeOK
  <2> SUFFICES ASSUME FrameInv PROVE TypeOK
    OBVIOUS
  <2>1. Types
    BY DEF FrameInv
  <2>2. timestamp \in 0..MaxFrames
    <3>1. frames \in 0..MaxFrames /\ MaxFrames \in Nat
      BY <2>1, FrameAssumption DEF Types
    <3> QED BY <3>1 DEF FrameInv, Place
  <2>3. Range(stored) \cup Range(latest) \cup Range(handed) \subseteq Nals \cup {NoNal}
    <3>1. Range(stored) \subseteq Nals \cup {NoNal}
      BY <2>1 DEF Types, Range
    <3>2. Range(latest) \subseteq Nals \cup {NoNal}
      BY <2>1 DEF Types, Range
    <3>3. Range(handed) \subseteq Nals
      BY <2>1 DEF Types, Range
    <3> QED BY <3>1, <3>2, <3>3
  <2>4. Range(ap) \subseteq Indexes
    BY <2>1 DEF Types, Range
  <2>5. payload_len \in 0..max
    <3>1. max \in Nat /\ payload_len \in Nat
      BY <2>1, Payload DEF Types
    <3> QED BY <3>1 DEF FrameInv, GatheredInv
  <2>6. \A p \in Range(sent) : p.size <= max /\ p.seq \in 0..Numbers - 1
    <3>1. ASSUME NEW k \in 1..Len(sent) PROVE sent[k].size <= max /\ sent[k].seq \in 0..Numbers - 1
      <4>1. sent[k] \in PacketType
        BY <2>1 DEF Types
      <4> QED BY <4>1 DEF FrameInv, Numbered, PacketType
    <3>2. DOMAIN sent = 1..Len(sent)
      BY <2>1 DEF Types
    <3> QED BY <3>1, <3>2 DEF Range
  <2>7. {last, sub, whole} \subseteq BOOLEAN
    BY <2>1 DEF Types
  <2> QED BY <2>1, <2>2, <2>3, <2>4, <2>5, <2>6, <2>7 DEF TypeOK, Types
<1> QED BY <1>1, FrameHolds, PTL

\* What a receiver joins is one NAL from its first byte to its last.
LEMMA JoinedWhole ==
    ASSUME FrameInv, NEW from \in 1..Len(sent), NEW to \in 1..Len(sent), Joins(from, to)
    PROVE  /\ \A k \in from..to : sent[k].nals = sent[from].nals
           /\ sent[from].at = 2 /\ Behind(to) = handed[sent[from].nals[1]].len
           /\ \A k \in from..to - 1 : Behind(k) = sent[k + 1].at
<1>1. /\ from <= to /\ sent[from].start /\ sent[to].end /\ Len(sent) \in Nat
      /\ \A k \in from..to : k \in 1..Len(sent) /\ Fu(k) /\ (sent[k].start => k = from)
  BY DEF Joins, Fu, FrameInv, Types
<1>2. \A k \in from..to : Run(from, k)
  <2> TAKE k \in from..to
  <2>1. from <= k /\ from \in from..to /\ \A m \in from + 1..k : m \in from..to /\ m # from
    BY <1>1
  <2> QED BY <2>1, <1>1 DEF Run
<1>3. \A k \in from..to : sent[k].nals = sent[from].nals
  BY <1>1, <1>2 DEF FrameInv, Linked
<1>4. \A k \in from..to : Piece(k) /\ (sent[k].start \/ Follows(k))
  BY <1>1 DEF FrameInv, Linked
<1>5. from \in from..to /\ to \in from..to
  BY <1>1
<1>6. sent[from].at = 2 /\ Behind(to) = handed[sent[from].nals[1]].len
  BY <1>1, <1>3, <1>4, <1>5 DEF Piece
<1>7. ASSUME NEW k \in from..to - 1 PROVE Behind(k) = sent[k + 1].at
  <2>1. k + 1 \in from..to /\ k + 1 # from /\ (k + 1) - 1 = k
    BY <1>1
  <2> QED BY <2>1, <1>1, <1>4 DEF Follows
<1> QED BY <1>3, <1>6, <1>7

\* Whatever sends are refused, a receiver rebuilds whole NALs in order, gets every one
\* of a frame none of whose sends was refused, each keyframe with the parameter sets
\* in force: hevc_rtp and h26x_param_sets together.  The sets go before the keyframe
\* in any frame; after a refused send it may arrive without them.
THEOREM FrameDecodable == Spec => []Decodable
<1>1. FrameInv => Decodable
  <2> SUFFICES ASSUME FrameInv PROVE Decodable
    OBVIOUS
  <2>1. \A j, k \in 1..Len(sent) :
           j < k => \A a \in Range(sent[j].nals), b \in Range(sent[k].nals) :
                        a < b \/ (a = b /\ sent[j].kind = "fu" /\ ~sent[j].end)
    BY DEF FrameInv, Ordered, Names, Fu
  <2>2. pc = "report" /\ whole /\ max > 3 => \A i \in Indexes : Arrives(i)
    <3>1. pc = "report" => Passed = Len(handed)
      BY DEF FrameInv, Place, Types, Passed, Taken
    <3> QED BY <3>1 DEF FrameInv, Arrived, Indexes
  <2>3. NalsWhole
    BY <2>1, <2>2, JoinedWhole DEF NalsWhole
  <2>4. ASSUME NEW i, Arrives(i) PROVE i <= Passed
    <3>1. CASE \E p \in Range(sent) : p.kind # "fu" /\ i \in Range(p.nals)
      <4>1. PICK m \in 1..Len(sent) : ~Fu(m) /\ i \in Names(m)
        <5>1. DOMAIN sent = 1..Len(sent)
          BY DEF FrameInv, Types
        <5> QED BY <3>1, <5>1 DEF Fu, Names, Range
      <4> QED BY <4>1 DEF FrameInv, Ordered
    <3>2. CASE \E from, to \in 1..Len(sent) :
                   Joins(from, to) /\ sent[from].nals = <<i>> /\ sent[to].nals = <<i>>
      <4>1. PICK m \in 1..Len(sent) : sent[m].end /\ sent[m].nals = <<i>>
        BY <3>2 DEF Joins
      <4>2. i \in Names(m)
        BY <4>1 DEF Names, Range
      <4> QED BY <4>1, <4>2 DEF FrameInv, Ordered
    <3> QED BY <2>4, <3>1, <3>2 DEF Arrives
  <2>5. ASSUME NEW key \in keys, NEW p \in ParamTypes,
               key.sets[p] # NoNal, key.sets[p].len < SetCap
        PROVE  \E j \in 1..key.nal :
                  /\ handed[j] = key.sets[p]
                  /\ \A k \in j + 1..key.nal : handed[k].type # p
                  /\ whole /\ max > 3 /\ Arrives(key.nal) => Arrives(j)
    <3>1. Supplied(key)
      BY DEF FrameInv, Remembered
    <3>2. PICK j \in 1..key.nal : /\ handed[j] = key.sets[p]
                                  /\ \A k \in j + 1..key.nal : handed[k].type # p
      BY <2>5, <3>1 DEF Supplied
    <3>3. ASSUME whole, max > 3, Arrives(key.nal) PROVE Arrives(j)
      <4>1. key.nal <= Passed
        BY <2>4, <3>3
      <4>2. key.nal \in Nat /\ Passed \in Int
        BY <3>1 DEF Supplied, Indexes, FrameInv, Types, Passed, Taken
      <4>3. j \in 1..Passed
        BY <4>1, <4>2
      <4> QED BY <3>3, <4>3 DEF FrameInv, Arrived
    <3> QED BY <3>2, <3>3
  <2> QED BY <2>3, <2>5 DEF Decodable, KeyframesDecodable
<1> QED BY <1>1, FrameHolds, PTL

\* The marker ends a frame and is not forgotten, its packets carry one timestamp, and
\* rtp_sidecar_send_frame tells their numbers exactly, across the wrap.
THEOREM FrameAccountedFor == Spec => []FrameAccounted
<1>1. FrameInv => FrameAccounted
  <2> SUFFICES ASSUME FrameInv PROVE FrameAccounted
    OBVIOUS
  <2>1. \A k \in 1..Len(sent) : sent[k].marker => k = Len(sent)
    BY DEF FrameInv, Marked
  <2>2. pc \in {"report", "idle"} /\ whole /\ max > 3 /\ last => Last(sent).marker
    BY DEF FrameInv, Marked, Last
  <2>3. \A p \in Range(sent) : p.ts = before.ts
    <3>1. DOMAIN sent = 1..Len(sent)
      BY DEF FrameInv, Types
    <3> QED BY <3>1 DEF FrameInv, Numbered, Range
  <2>4. pc = "idle" /\ report.ts = before.ts /\ report # NoReport =>
            /\ report.count = Len(sent)
            /\ \A k \in 1..Len(sent) : sent[k].seq = (report.first + k - 1) % Numbers
    BY DEF FrameInv, Reported, Numbered
  <2> QED BY <2>1, <2>2, <2>3, <2>4 DEF FrameAccounted
<1> QED BY <1>1, FrameHolds, PTL

================================================================================
