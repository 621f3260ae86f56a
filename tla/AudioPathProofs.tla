---------------------------- MODULE AudioPathProofs ---------------------------
(***************************************************************************)
(* Proofs about AudioPath for every ring capacity and number of frames and *)
(* starts.  The rings are proved about first, apart from the threads: what *)
(* a push and a pop do to the frames a ring holds, counted from the        *)
(* oldest.  The inductive invariant then bounds the frames of each ring by *)
(* the last one taken out and the last one put in.                         *)
(***************************************************************************)
EXTENDS AudioPath, TLAPS

(* head is where the next frame goes: count places after tail.             *)
WellFormed(r) == r \in Ring /\ r.head = (r.tail + r.count) % Capacity

(* The ring holds frames after lo and up to hi, in order, and has held no  *)
(* more frames than there are up to hi.                                    *)
Sound(r, lo, hi) ==
    /\ WellFormed(r) /\ Ordered(r)
    /\ \A i \in 0 .. r.count - 1 : lo < Holds(r, i) /\ Holds(r, i) <= hi
    /\ r.dropped + r.count <= hi

(* The last frame in cap_ring's history, and in the recording ring's.      *)
Pushed    == IF cpc = "push" THEN frames - 1 ELSE frames
Forwarded == IF epc \in {"forward", "record"} THEN entry - 1 ELSE entry

CapSound ==
    /\ Sound(cap, entry, Pushed)
    /\ cap.count > 0 => Holds(cap, cap.count - 1) = Pushed
RecSound == Sound(rec, stored, Forwarded)

Progress ==
    /\ 0 <= Pushed /\ entry <= Pushed /\ stored <= Forwarded /\ sent <= entry
    /\ epc \in {"forward", "record", "send"} => sent < entry

(* cap_ring is live from before its threads start until both are joined.   *)
Threads ==
    /\ cap_live = 0 => mpc = "loop" /\ started = 0
    /\ mpc = "loop" /\ started = 0 => cpc = "off" /\ epc = "off"
    /\ mpc = "start_encode" => epc = "off"
    /\ mpc = "join_encode" => cpc = "off"

AudioInv == ControlType /\ Threads /\ CapSound /\ RecSound /\ Progress

-------------------------------------------------------------------------------
(* audio_ring.h: pushing and popping.                                      *)

\* A place less than two rounds away is found by going round at most once.
LEMMA Wrapped ==
    ASSUME NEW a \in Nat, a < 2 * Capacity
    PROVE  a % Capacity = IF a < Capacity THEN a ELSE a - Capacity
<1> DEFINE n == Capacity
           q == a \div n
           m == a % n
<1>1. n \in Nat \ {0}
  BY AudioAssumption
<1>2. a = n * q + m /\ m \in 0 .. n - 1 /\ q \in Int
  BY <1>1
<1>3. a < 2 * n
  OBVIOUS
<1> HIDE DEF n, q, m
<1>4. q \in {0, 1}
  <2>1. CASE q <= -1
    <3>1. n * q <= -n
      BY <1>1, <1>2, <2>1
    <3> QED BY <3>1, <1>1, <1>2
  <2>2. CASE q >= 2
    <3>1. n * q >= 2 * n
      BY <1>1, <1>2, <2>2
    <3> QED BY <3>1, <1>1, <1>2, <1>3
  <2> QED BY <1>2, <2>1, <2>2
<1>5. m = IF a < n THEN a ELSE a - n
  <2>1. n * q = IF q = 0 THEN 0 ELSE n
    BY <1>1, <1>4
  <2> QED BY <1>1, <1>2, <1>4, <2>1
<1> QED BY <1>5 DEF m, n

\* Indexes stay inside the ring and wrap to 0.
LEMMA NextWraps ==
    ASSUME NEW i \in 0 .. Capacity - 1
    PROVE  NextIndex(i) = IF i = Capacity - 1 THEN 0 ELSE i + 1
  BY Wrapped, AudioAssumption DEF NextIndex

\* Where a frame is, and where the next one goes.
LEMMA Places ==
    ASSUME NEW r \in Ring
    PROVE  \A i \in 0 .. Capacity :
               /\ (r.tail + i) % Capacity
                      = IF r.tail + i < Capacity THEN r.tail + i ELSE r.tail + i - Capacity
               /\ (r.tail + i) % Capacity \in 0 .. Capacity - 1
<1> TAKE i \in 0 .. Capacity
<1>1. r.tail \in 0 .. Capacity - 1 /\ Capacity \in Nat \ {0}
  BY AudioAssumption DEF Ring
<1>2. r.tail + i \in Nat /\ r.tail + i < 2 * Capacity
  BY <1>1
<1> DEFINE a == r.tail + i
<1> HIDE DEF a
<1>3. a % Capacity = IF a < Capacity THEN a ELSE a - Capacity
  BY <1>2, Wrapped DEF a
<1>4. a = r.tail + i
  BY DEF a
<1> QED BY <1>1, <1>3, <1>4

\* A push puts the frame last; on overflow all others move up by one.
LEMMA PushEffect ==
    ASSUME NEW r, WellFormed(r), NEW e \in 0 .. MaxFrames,
           r.count = Capacity => r.dropped < MaxFrames
    PROVE  LET s    == RingPush(r, e)
               full == r.count = Capacity
           IN  /\ WellFormed(s)
               /\ s.count = IF full THEN r.count ELSE r.count + 1
               /\ s.dropped = IF full THEN r.dropped + 1 ELSE r.dropped
               /\ Holds(s, s.count - 1) = e
               /\ \A i \in 0 .. s.count - 2 :
                      Holds(s, i) = Holds(r, IF full THEN i + 1 ELSE i)
<1> DEFINE s == RingPush(r, e)
           full == r.count = Capacity
<1>1. /\ r.head \in 0 .. Capacity - 1 /\ r.tail \in 0 .. Capacity - 1
      /\ r.count \in 0 .. Capacity /\ r.dropped \in 0 .. MaxFrames
      /\ Capacity \in Nat \ {0} /\ MaxFrames \in Nat
  BY AudioAssumption DEF WellFormed, Ring
<1>10. r.head = IF r.tail + r.count < Capacity THEN r.tail + r.count
                ELSE r.tail + r.count - Capacity
  BY <1>1, Places DEF WellFormed
<1>11. r \in Ring /\ r.buf \in [0 .. Capacity - 1 -> 0 .. MaxFrames]
  BY DEF WellFormed, Ring
<1>2. /\ s.head = IF r.head = Capacity - 1 THEN 0 ELSE r.head + 1
      /\ s.tail = IF ~full THEN r.tail ELSE IF r.tail = Capacity - 1 THEN 0 ELSE r.tail + 1
      /\ s.count = IF full THEN r.count ELSE r.count + 1
      /\ s.dropped = IF full THEN r.dropped + 1 ELSE r.dropped
  BY <1>1, NextWraps DEF RingPush
<1>12. s.buf = [r.buf EXCEPT ![r.head] = e]
  BY DEF RingPush
<1>3. s \in Ring
  <2>1. /\ s.buf \in [0 .. Capacity - 1 -> 0 .. MaxFrames]
        /\ s.head \in 0 .. Capacity - 1 /\ s.tail \in 0 .. Capacity - 1
        /\ s.count \in 0 .. Capacity /\ s.dropped \in 0 .. MaxFrames
    <3>1. s.buf \in [0 .. Capacity - 1 -> 0 .. MaxFrames]
      BY <1>1, <1>11, <1>12
    <3>2. s.count \in 0 .. Capacity
      BY <1>1, <1>2
    <3>3. s.head \in 0 .. Capacity - 1 /\ s.tail \in 0 .. Capacity - 1
      BY <1>1, <1>2
    <3>4. s.dropped \in 0 .. MaxFrames
      BY <1>1, <1>2
    <3> QED BY <3>1, <3>2, <3>3, <3>4
  <2>2. s = [buf |-> s.buf, head |-> s.head, tail |-> s.tail, count |-> s.count,
             dropped |-> s.dropped]
    BY DEF RingPush
  <2> HIDE DEF s
  <2> QED BY <2>1, <2>2 DEF Ring
<1> HIDE DEF s
<1>4. /\ \A i \in 0 .. Capacity : (r.tail + i) % Capacity
             = IF r.tail + i < Capacity THEN r.tail + i ELSE r.tail + i - Capacity
      /\ \A i \in 0 .. Capacity : (s.tail + i) % Capacity
             = IF s.tail + i < Capacity THEN s.tail + i ELSE s.tail + i - Capacity
  BY <1>11, <1>3, Places
<1>5. s.head = (s.tail + s.count) % Capacity
  <2>1. s.count \in 0 .. Capacity
    BY <1>1, <1>2
  <2>2. (s.tail + s.count) % Capacity = IF s.tail + s.count < Capacity THEN s.tail + s.count
                                        ELSE s.tail + s.count - Capacity
    BY <2>1, <1>4
  <2> QED BY <1>1, <1>10, <1>2, <2>2
<1>6. Holds(s, s.count - 1) = e
  <2>1. s.count - 1 \in 0 .. Capacity
    BY <1>1, <1>2
  <2>2. (s.tail + (s.count - 1)) % Capacity
            = IF s.tail + (s.count - 1) < Capacity THEN s.tail + (s.count - 1)
              ELSE s.tail + (s.count - 1) - Capacity
    BY <2>1, <1>4
  <2>3. (s.tail + (s.count - 1)) % Capacity = r.head
    BY <1>1, <1>10, <1>2, <2>1, <2>2
  <2> QED BY <1>1, <1>11, <1>12, <2>3 DEF Holds
<1>7. ASSUME NEW i \in 0 .. s.count - 2
      PROVE  Holds(s, i) = Holds(r, IF full THEN i + 1 ELSE i)
  <2> DEFINE k == IF full THEN i + 1 ELSE i
  <2>1. i \in 0 .. Capacity /\ k \in 0 .. Capacity /\ i \in Nat /\ i <= s.count - 2
    BY <1>1, <1>2
  <2>2. /\ (s.tail + i) % Capacity
            = IF s.tail + i < Capacity THEN s.tail + i ELSE s.tail + i - Capacity
        /\ (r.tail + k) % Capacity
            = IF r.tail + k < Capacity THEN r.tail + k ELSE r.tail + k - Capacity
    BY <2>1, <1>4
  <2>3. (s.tail + i) % Capacity = (r.tail + k) % Capacity /\ (r.tail + k) % Capacity # r.head
    <3>1. CASE full
      BY <1>1, <1>10, <1>2, <2>1, <2>2, <3>1
    <3>2. CASE ~full
      <4>1. k = i /\ s.tail = r.tail /\ i < r.count /\ r.count < Capacity
        BY <1>1, <1>2, <2>1, <3>2
      <4> HIDE DEF k, full
      <4>2. (s.tail + i) % Capacity = (r.tail + k) % Capacity
        BY <4>1
      <4>3. (r.tail + k) % Capacity # r.head
        BY <1>1, <1>10, <2>1, <2>2, <4>1
      <4> QED BY <4>2, <4>3
    <3> QED BY <3>1, <3>2
  <2>4. (r.tail + k) % Capacity \in 0 .. Capacity - 1
    BY <1>11, <2>1, Places
  <2> QED BY <1>1, <1>11, <1>12, <2>3, <2>4 DEF Holds
<1> QED BY <1>2, <1>3, <1>5, <1>6, <1>7 DEF s, WellFormed

\* A pop takes the oldest frame and all others move up by one.
LEMMA PopEffect ==
    ASSUME NEW r, WellFormed(r), r.count > 0
    PROVE  LET s == RingPop(r)
           IN  /\ WellFormed(s) /\ s.count = r.count - 1 /\ s.dropped = r.dropped
               /\ Oldest(r) = Holds(r, 0)
               /\ \A i \in 0 .. s.count - 1 : Holds(s, i) = Holds(r, i + 1)
<1> DEFINE s == RingPop(r)
<1>1. /\ r.head \in 0 .. Capacity - 1 /\ r.tail \in 0 .. Capacity - 1
      /\ r.count \in 1 .. Capacity /\ Capacity \in Nat \ {0}
  BY AudioAssumption DEF WellFormed, Ring
<1>10. r.head = IF r.tail + r.count < Capacity THEN r.tail + r.count
                ELSE r.tail + r.count - Capacity
  <2>1. r.count \in 0 .. Capacity
    BY <1>1
  <2> QED BY <2>1, Places DEF WellFormed
<1>2. /\ s.tail = IF r.tail = Capacity - 1 THEN 0 ELSE r.tail + 1
      /\ s.count = r.count - 1 /\ s.head = r.head
  BY <1>1, NextWraps DEF RingPop, WellFormed, Ring
<1>12. s.buf = r.buf /\ s.dropped = r.dropped /\ s \in Ring /\ r \in Ring
  <2>1. NextIndex(r.tail) \in 0 .. Capacity - 1 /\ r.count - 1 \in 0 .. Capacity
    BY <1>1, NextWraps
  <2> QED BY <2>1 DEF RingPop, WellFormed, Ring
<1> HIDE DEF s
<1>4. /\ \A i \in 0 .. Capacity : (r.tail + i) % Capacity
             = IF r.tail + i < Capacity THEN r.tail + i ELSE r.tail + i - Capacity
      /\ \A i \in 0 .. Capacity : (s.tail + i) % Capacity
             = IF s.tail + i < Capacity THEN s.tail + i ELSE s.tail + i - Capacity
  BY <1>12, Places
<1>5. s.head = (s.tail + s.count) % Capacity
  <2>1. s.count \in 0 .. Capacity
    BY <1>1, <1>2
  <2>2. (s.tail + s.count) % Capacity = IF s.tail + s.count < Capacity THEN s.tail + s.count
                                        ELSE s.tail + s.count - Capacity
    BY <2>1, <1>4
  <2> QED BY <1>1, <1>10, <1>2, <2>2
<1>6. Oldest(r) = Holds(r, 0)
  <2>1. (r.tail + 0) % Capacity = r.tail
    BY <1>1, <1>4
  <2> QED BY <2>1 DEF Oldest, Holds
<1>7. ASSUME NEW i \in 0 .. s.count - 1 PROVE Holds(s, i) = Holds(r, i + 1)
  <2>1. i \in 0 .. Capacity /\ i + 1 \in 0 .. Capacity
    BY <1>1, <1>2
  <2>2. /\ (s.tail + i) % Capacity
            = IF s.tail + i < Capacity THEN s.tail + i ELSE s.tail + i - Capacity
        /\ (r.tail + (i + 1)) % Capacity
            = IF r.tail + (i + 1) < Capacity THEN r.tail + (i + 1)
              ELSE r.tail + (i + 1) - Capacity
    BY <2>1, <1>4
  <2>3. (s.tail + i) % Capacity = (r.tail + (i + 1)) % Capacity
    BY <1>1, <1>2, <2>1, <2>2
  <2> QED BY <1>12, <2>3 DEF Holds
<1> QED BY <1>2, <1>12, <1>5, <1>6, <1>7 DEF s, WellFormed

-------------------------------------------------------------------------------
(* Pushing and popping keep a ring sound.                                  *)

\* A newer frame extends the frames of a ring up to itself.
LEMMA PushSound ==
    ASSUME NEW r, NEW lo \in Nat, NEW hi \in Nat, NEW e \in 0 .. MaxFrames,
           Sound(r, lo, hi), lo <= hi, hi < e
    PROVE  LET s == RingPush(r, e)
           IN  Sound(s, lo, e) /\ s.count > 0 /\ Holds(s, s.count - 1) = e
<1> DEFINE s == RingPush(r, e)
           full == r.count = Capacity
<1>1. /\ WellFormed(r) /\ r.count \in 0 .. Capacity /\ r.dropped \in 0 .. MaxFrames
      /\ Capacity \in Nat \ {0} /\ MaxFrames \in Nat /\ r.dropped + r.count <= hi
      /\ r.buf \in [0 .. Capacity - 1 -> 0 .. MaxFrames]
  BY AudioAssumption DEF Sound, WellFormed, Ring
<1>2. full => r.dropped < MaxFrames
  BY <1>1
<1>3. /\ WellFormed(s) /\ s.count = IF full THEN r.count ELSE r.count + 1
      /\ s.dropped = IF full THEN r.dropped + 1 ELSE r.dropped
      /\ Holds(s, s.count - 1) = e
      /\ \A i \in 0 .. s.count - 2 : Holds(s, i) = Holds(r, IF full THEN i + 1 ELSE i)
  BY <1>1, <1>2, PushEffect
<1> HIDE DEF s
<1>4. s.count \in 1 .. Capacity /\ s.dropped + s.count <= e
  <2>1. s.count = (IF full THEN r.count ELSE r.count + 1)
        /\ s.dropped = (IF full THEN r.dropped + 1 ELSE r.dropped)
    BY <1>3
  <2>2. /\ r.count \in 0 .. Capacity /\ r.dropped \in 0 .. MaxFrames /\ Capacity \in Nat \ {0}
        /\ MaxFrames \in Nat /\ r.dropped + r.count <= hi
    BY <1>1
  <2> QED BY <2>1, <2>2
<1>5. \A i \in 0 .. r.count - 1 : Holds(r, i) \in Nat
  <2>1. \A i \in 0 .. r.count - 1 : i \in 0 .. Capacity
    BY <1>1
  <2>2. \A i \in 0 .. r.count - 1 : (r.tail + i) % Capacity \in 0 .. Capacity - 1
    BY <1>1, <2>1, Places DEF WellFormed
  <2> QED BY <1>1, <2>2 DEF Holds
<1>6. \A i \in 0 .. s.count - 2 : \E k \in 0 .. r.count - 1 :
          k = (IF full THEN i + 1 ELSE i) /\ Holds(s, i) = Holds(r, k)
  <2> TAKE i \in 0 .. s.count - 2
  <2>1. s.count = (IF full THEN r.count ELSE r.count + 1) /\ r.count \in 0 .. Capacity
    BY <1>1, <1>3
  <2>2. (IF full THEN i + 1 ELSE i) \in 0 .. r.count - 1
    BY <1>1, <2>1
  <2> QED BY <1>3, <2>2
<1>7. \A i \in 0 .. s.count - 2 :
          Holds(s, i) \in Nat /\ lo < Holds(s, i) /\ Holds(s, i) <= hi
  BY <1>5, <1>6 DEF Sound
<1>8. \A i, j \in 0 .. s.count - 2 : i < j => Holds(s, i) < Holds(s, j)
  <2> SUFFICES ASSUME NEW i \in 0 .. s.count - 2, NEW j \in 0 .. s.count - 2, i < j
               PROVE  Holds(s, i) < Holds(s, j)
    OBVIOUS
  <2>1. PICK k \in 0 .. r.count - 1 :
            k = (IF full THEN i + 1 ELSE i) /\ Holds(s, i) = Holds(r, k)
    BY <1>6
  <2>2. PICK l \in 0 .. r.count - 1 :
            l = (IF full THEN j + 1 ELSE j) /\ Holds(s, j) = Holds(r, l)
    BY <1>6
  <2>3. k < l
    BY <1>4, <2>1, <2>2
  <2> QED BY <2>1, <2>2, <2>3 DEF Sound, Ordered
<1>9. \A i \in 0 .. s.count - 1 : i \in 0 .. s.count - 2 \/ i = s.count - 1
  BY <1>4
<1>10. Ordered(s)
  <2> SUFFICES ASSUME NEW i \in 0 .. s.count - 1, NEW j \in 0 .. s.count - 1, i < j
               PROVE  Holds(s, i) < Holds(s, j)
    BY DEF Ordered
  <2>1. i \in 0 .. s.count - 2
    BY <1>4
  <2>2. CASE j \in 0 .. s.count - 2
    BY <2>1, <2>2, <1>8
  <2>3. CASE j = s.count - 1
    BY <2>1, <2>3, <1>3, <1>7
  <2> QED BY <2>2, <2>3, <1>9
<1>11. \A i \in 0 .. s.count - 1 : lo < Holds(s, i) /\ Holds(s, i) <= e
  BY <1>3, <1>7, <1>9
<1> QED BY <1>3, <1>4, <1>10, <1>11 DEF Sound, s

\* The oldest frame is within the bounds; the rest is newer.
LEMMA PopSound ==
    ASSUME NEW r, NEW lo \in Nat, NEW hi \in Nat, Sound(r, lo, hi), r.count > 0
    PROVE  LET s == RingPop(r)
           IN  /\ Oldest(r) \in 0 .. MaxFrames /\ lo < Oldest(r) /\ Oldest(r) <= hi
               /\ Sound(s, Oldest(r), hi)
               /\ s.count > 0 => Holds(s, s.count - 1) = Holds(r, r.count - 1)
<1> DEFINE s == RingPop(r)
<1>1. /\ WellFormed(r) /\ r.count \in 1 .. Capacity /\ r.dropped \in Nat
      /\ Capacity \in Nat \ {0} /\ r.dropped + r.count <= hi
      /\ r.buf \in [0 .. Capacity - 1 -> 0 .. MaxFrames]
  BY AudioAssumption DEF Sound, WellFormed, Ring
<1>2. /\ WellFormed(s) /\ s.count = r.count - 1 /\ s.dropped = r.dropped
      /\ Oldest(r) = Holds(r, 0)
      /\ \A i \in 0 .. s.count - 1 : Holds(s, i) = Holds(r, i + 1)
  BY <1>1, PopEffect
<1> HIDE DEF s
<1>3. 0 \in 0 .. r.count - 1
  BY <1>1
<1>4. Oldest(r) \in 0 .. MaxFrames
  <2>1. 0 \in 0 .. Capacity /\ r \in Ring
    BY <1>1 DEF WellFormed
  <2>2. (r.tail + 0) % Capacity \in 0 .. Capacity - 1
    BY <2>1, Places
  <2> QED BY <1>1, <1>2, <2>2 DEF Holds
<1>5. lo < Oldest(r) /\ Oldest(r) <= hi
  BY <1>2, <1>3 DEF Sound
<1>6. \A i \in 0 .. s.count - 1 : i + 1 \in 0 .. r.count - 1
  BY <1>1, <1>2
<1>7. \A i \in 0 .. s.count - 1 : Oldest(r) < Holds(s, i) /\ Holds(s, i) <= hi
  BY <1>2, <1>3, <1>6 DEF Sound, Ordered
<1>8. Ordered(s)
  BY <1>2, <1>6 DEF Sound, Ordered
<1>9. s.count > 0 => Holds(s, s.count - 1) = Holds(r, r.count - 1)
  BY <1>1, <1>2
<1>10. s.dropped + s.count <= hi
  BY <1>1, <1>2
<1> QED BY <1>2, <1>4, <1>5, <1>7, <1>8, <1>9, <1>10 DEF Sound, s

\* The upper bound may be raised; an empty ring is sound whatever the bounds.
LEMMA RaiseSound ==
    ASSUME NEW r, NEW lo \in Nat, NEW hi \in Nat, NEW top \in Nat,
           hi <= top, Sound(r, lo, hi)
    PROVE  Sound(r, lo, top)
<1>1. \A i \in 0 .. r.count - 1 : Holds(r, i) \in Nat
  <2>1. /\ r.count \in 0 .. Capacity /\ r \in Ring /\ Capacity \in Nat \ {0}
        /\ r.buf \in [0 .. Capacity - 1 -> 0 .. MaxFrames]
    BY AudioAssumption DEF Sound, WellFormed, Ring
  <2>2. \A i \in 0 .. r.count - 1 : i \in 0 .. Capacity
    BY <2>1
  <2>3. \A i \in 0 .. r.count - 1 : (r.tail + i) % Capacity \in 0 .. Capacity - 1
    BY <2>1, <2>2, Places
  <2> QED BY <2>1, <2>3 DEF Holds
<1>2. r.dropped + r.count \in Int
  BY AudioAssumption DEF Sound, WellFormed, Ring
<1> QED BY <1>1, <1>2 DEF Sound

LEMMA EmptySound ==
    ASSUME NEW lo \in Nat, NEW hi \in Nat
    PROVE  Sound(RingInit, lo, hi) /\ RingInit.count = 0
<1>1. RingInit \in Ring /\ RingInit.count = 0 /\ RingInit.dropped = 0
      /\ RingInit.head = 0 /\ RingInit.tail = 0
  BY AudioAssumption DEF RingInit, Ring
<1>2. 0 % Capacity = 0
  BY AudioAssumption, Wrapped
<1> HIDE DEF RingInit
<1>3. RingInit.tail + RingInit.count = 0 /\ RingInit.dropped + RingInit.count <= hi
  BY <1>1
<1>4. WellFormed(RingInit)
  BY <1>1, <1>2, <1>3 DEF WellFormed
<1>5. \A i \in 0 .. RingInit.count - 1 : FALSE
  BY <1>1
<1> QED BY <1>1, <1>3, <1>4, <1>5 DEF Sound, Ordered

-------------------------------------------------------------------------------
(* The invariant is inductive.                                             *)

\* What is below a number is not above the one before it.
LEMMA OneLess ==
    ASSUME NEW a \in Nat, NEW b \in Nat, a < b
    PROVE  b - 1 \in Nat /\ a <= b - 1
  OBVIOUS

\* The bounds of the two rings are numbers.
LEMMA Bounds ==
    ASSUME AudioInv
    PROVE  /\ entry \in Nat /\ stored \in Nat /\ sent \in Nat /\ frames \in Nat
           /\ MaxFrames \in Nat /\ Pushed \in Nat /\ Forwarded \in Nat /\ entry <= Pushed /\ stored <= Forwarded
  BY AudioAssumption DEF AudioInv, ControlType, Progress, Pushed, Forwarded

\* Starting and tearing down the threads, and the recording, preserve the
\* invariant.
LEMMA LoopStepInv ==
    ASSUME AudioInv,
           MainStep \/ StartCapture \/ Stop \/ AttachRecording \/ StoreAudio
    PROVE  AudioInv'
<1> USE DEF threads, capture, encode
<1>1. CASE WakeEncode
  <2>1. ControlType'
    BY <1>1 DEF AudioInv, ControlType, WakeEncode
  <2>2. Threads'
    BY <1>1 DEF AudioInv, ControlType, Threads, WakeEncode
  <2>3. CapSound'
    BY <1>1 DEF AudioInv, CapSound, Pushed, WakeEncode
  <2>4. RecSound'
    BY <1>1 DEF AudioInv, Threads, RecSound, Forwarded, WakeEncode
  <2>5. Progress'
    BY <1>1, Bounds DEF AudioInv, Threads, Progress, Pushed, Forwarded, WakeEncode
  <2> QED BY <2>1, <2>2, <2>3, <2>4, <2>5 DEF AudioInv
<1>2. CASE JoinCapture
  <2>1. ControlType'
    BY <1>2 DEF AudioInv, ControlType, JoinCapture
  <2>2. Threads'
    BY <1>2 DEF AudioInv, ControlType, Threads, JoinCapture
  <2>3. CapSound'
    BY <1>2 DEF AudioInv, CapSound, Pushed, JoinCapture
  <2>4. RecSound'
    BY <1>2 DEF AudioInv, Threads, RecSound, Forwarded, JoinCapture
  <2>5. Progress'
    BY <1>2, Bounds DEF AudioInv, Threads, Progress, Pushed, Forwarded, JoinCapture
  <2> QED BY <2>1, <2>2, <2>3, <2>4, <2>5 DEF AudioInv
<1>3. CASE JoinEncode
  <2>1. ControlType'
    BY <1>3 DEF AudioInv, ControlType, JoinEncode
  <2>2. Threads'
    BY <1>3 DEF AudioInv, ControlType, Threads, JoinEncode
  <2>3. CapSound'
    BY <1>3 DEF AudioInv, CapSound, Pushed, JoinEncode
  <2>4. RecSound'
    BY <1>3 DEF AudioInv, Threads, RecSound, Forwarded, JoinEncode
  <2>5. Progress'
    BY <1>3, Bounds DEF AudioInv, Threads, Progress, Pushed, Forwarded, JoinEncode
  <2> QED BY <2>1, <2>2, <2>3, <2>4, <2>5 DEF AudioInv
<1>4. CASE StartEncode
  <2>1. ControlType'
    BY <1>4 DEF AudioInv, ControlType, StartEncode
  <2>2. Threads'
    BY <1>4 DEF AudioInv, ControlType, Threads, StartEncode
  <2>3. CapSound'
    BY <1>4 DEF AudioInv, CapSound, Pushed, StartEncode
  <2>4. RecSound'
    BY <1>4 DEF AudioInv, Threads, RecSound, Forwarded, StartEncode
  <2>5. Progress'
    BY <1>4, Bounds DEF AudioInv, Threads, Progress, Pushed, Forwarded, StartEncode
  <2> QED BY <2>1, <2>2, <2>3, <2>4, <2>5 DEF AudioInv
<1>5. CASE StartCapture
  <2>1. ControlType'
    BY <1>5 DEF AudioInv, ControlType, StartCapture
  <2>2. Threads'
    BY <1>5 DEF AudioInv, ControlType, Threads, StartCapture
  <2>3. CapSound'
    <3>1. cap' = RingInit /\ UNCHANGED <<entry, frames>> /\ Pushed' = Pushed
      BY <1>5 DEF StartCapture, AudioInv, Threads, Pushed
    <3>2. Sound(RingInit, entry, Pushed) /\ RingInit.count = 0
      BY Bounds, EmptySound
    <3> QED BY <3>1, <3>2 DEF CapSound
  <2>4. RecSound'
    BY <1>5 DEF AudioInv, Threads, RecSound, Forwarded, StartCapture
  <2>5. Progress'
    BY <1>5, Bounds DEF AudioInv, Threads, Progress, Pushed, Forwarded, StartCapture
  <2> QED BY <2>1, <2>2, <2>3, <2>4, <2>5 DEF AudioInv
<1>6. CASE Stop
  <2>1. ControlType'
    BY <1>6 DEF AudioInv, ControlType, Stop
  <2>2. Threads'
    BY <1>6 DEF AudioInv, ControlType, Threads, Stop
  <2>3. CapSound'
    BY <1>6 DEF AudioInv, CapSound, Pushed, Stop
  <2>4. RecSound'
    BY <1>6 DEF AudioInv, Threads, RecSound, Forwarded, Stop
  <2>5. Progress'
    BY <1>6, Bounds DEF AudioInv, Threads, Progress, Pushed, Forwarded, Stop
  <2> QED BY <2>1, <2>2, <2>3, <2>4, <2>5 DEF AudioInv
<1>7. CASE AttachRecording
  <2>1. ControlType'
    BY <1>7 DEF AudioInv, ControlType, AttachRecording
  <2>2. Threads'
    BY <1>7 DEF AudioInv, ControlType, Threads, AttachRecording
  <2>3. CapSound'
    BY <1>7 DEF AudioInv, CapSound, Pushed, AttachRecording
  <2>4. RecSound'
    BY <1>7 DEF AudioInv, Threads, RecSound, Forwarded, AttachRecording
  <2>5. Progress'
    BY <1>7, Bounds DEF AudioInv, Threads, Progress, Pushed, Forwarded, AttachRecording
  <2> QED BY <2>1, <2>2, <2>3, <2>4, <2>5 DEF AudioInv
<1>8. CASE StoreAudio
  <2>0. stored' \in 0 .. MaxFrames /\ stored < stored' /\ stored' <= Forwarded
    BY <1>8, Bounds, PopSound DEF StoreAudio, AudioInv, RecSound
  <2>1. ControlType'
    BY <1>8, <2>0 DEF AudioInv, ControlType, StoreAudio
  <2>2. Threads'
    BY <1>8 DEF AudioInv, ControlType, Threads, StoreAudio
  <2>3. CapSound'
    BY <1>8 DEF AudioInv, CapSound, Pushed, StoreAudio
  <2>4. RecSound'
    <3>1. rec' = RingPop(rec) /\ stored' = Oldest(rec) /\ Forwarded' = Forwarded /\ rec.count > 0
      BY <1>8 DEF StoreAudio, Forwarded
    <3>2. Sound(rec, stored, Forwarded)
      BY DEF AudioInv, RecSound
    <3>3. Sound(RingPop(rec), Oldest(rec), Forwarded)
      BY <3>1, <3>2, Bounds, PopSound
    <3> QED BY <3>1, <3>3 DEF RecSound
  <2>5. Progress'
    BY <1>8, <2>0, Bounds DEF AudioInv, Threads, Progress, Pushed, Forwarded, StoreAudio
  <2> QED BY <2>1, <2>2, <2>3, <2>4, <2>5 DEF AudioInv
<1> QED BY <1>1, <1>2, <1>3, <1>4, <1>5, <1>6, <1>7, <1>8 DEF MainStep

\* The capture thread and the encode thread preserve the invariant.
LEMMA ThreadStepInv ==
    ASSUME AudioInv,
           CaptureStep \/ GetFrame \/ EncodeStep
    PROVE  AudioInv'
<1> USE DEF threads, capture, encode
<1>1. CASE PushFrame
  <2>1. ControlType'
    BY <1>1 DEF AudioInv, ControlType, PushFrame
  <2>2. Threads'
    BY <1>1 DEF AudioInv, ControlType, Threads, PushFrame
  <2>3. CapSound'
    <3>1. /\ cap' = RingPush(cap, frames) /\ entry' = entry /\ Pushed' = frames
          /\ Pushed < frames /\ frames \in 0 .. MaxFrames
      BY <1>1 DEF PushFrame, AudioInv, ControlType, Pushed
    <3>2. Sound(cap, entry, Pushed)
      BY DEF AudioInv, CapSound
    <3>3. LET s == RingPush(cap, frames)
          IN  Sound(s, entry, frames) /\ s.count > 0 /\ Holds(s, s.count - 1) = frames
      BY <3>1, <3>2, Bounds, PushSound
    <3> QED BY <3>1, <3>3 DEF CapSound
  <2>4. RecSound'
    BY <1>1 DEF AudioInv, Threads, RecSound, Forwarded, PushFrame
  <2>5. Progress'
    BY <1>1, Bounds DEF AudioInv, Threads, Progress, Pushed, Forwarded, PushFrame
  <2> QED BY <2>1, <2>2, <2>3, <2>4, <2>5 DEF AudioInv
<1>2. CASE CaptureEnds
  <2>1. ControlType'
    BY <1>2 DEF AudioInv, ControlType, CaptureEnds
  <2>2. Threads'
    BY <1>2 DEF AudioInv, ControlType, Threads, CaptureEnds
  <2>3. CapSound'
    BY <1>2 DEF AudioInv, CapSound, Pushed, CaptureEnds
  <2>4. RecSound'
    BY <1>2 DEF AudioInv, Threads, RecSound, Forwarded, CaptureEnds
  <2>5. Progress'
    BY <1>2, Bounds DEF AudioInv, Threads, Progress, Pushed, Forwarded, CaptureEnds
  <2> QED BY <2>1, <2>2, <2>3, <2>4, <2>5 DEF AudioInv
<1>3. CASE GetFrame
  <2>1. ControlType'
    BY <1>3, AudioAssumption DEF AudioInv, ControlType, GetFrame
  <2>2. Threads'
    BY <1>3 DEF AudioInv, ControlType, Threads, GetFrame
  <2>3. CapSound'
    <3>1. Pushed' = Pushed /\ UNCHANGED <<cap, entry>>
      BY <1>3, Bounds DEF GetFrame, Pushed
    <3> QED BY <3>1 DEF AudioInv, CapSound
  <2>4. RecSound'
    BY <1>3 DEF AudioInv, Threads, RecSound, Forwarded, GetFrame
  <2>5. Progress'
    BY <1>3, Bounds DEF AudioInv, Threads, Progress, Pushed, Forwarded, GetFrame
  <2> QED BY <2>1, <2>2, <2>3, <2>4, <2>5 DEF AudioInv
<1>4. CASE EncodeCheck
  <2>1. ControlType'
    BY <1>4 DEF AudioInv, ControlType, EncodeCheck
  <2>2. Threads'
    BY <1>4 DEF AudioInv, ControlType, Threads, EncodeCheck
  <2>3. CapSound'
    BY <1>4 DEF AudioInv, CapSound, Pushed, EncodeCheck
  <2>4. RecSound'
    BY <1>4 DEF AudioInv, Threads, RecSound, Forwarded, EncodeCheck
  <2>5. Progress'
    BY <1>4, Bounds DEF AudioInv, Threads, Progress, Pushed, Forwarded, EncodeCheck
  <2> QED BY <2>1, <2>2, <2>3, <2>4, <2>5 DEF AudioInv
<1>5. CASE PopFrame
  <2>0. entry' \in 0 .. MaxFrames /\ entry < entry' /\ entry' <= Pushed
    BY <1>5, Bounds, PopSound DEF PopFrame, AudioInv, CapSound
  <2>1. ControlType'
    BY <1>5, <2>0 DEF AudioInv, ControlType, PopFrame
  <2>2. Threads'
    BY <1>5 DEF AudioInv, ControlType, Threads, PopFrame
  <2>3. CapSound'
    <3>1. cap' = RingPop(cap) /\ entry' = Oldest(cap) /\ Pushed' = Pushed /\ cap.count > 0
      BY <1>5 DEF PopFrame, Pushed
    <3>2. Sound(cap, entry, Pushed) /\ Holds(cap, cap.count - 1) = Pushed
      BY <3>1 DEF AudioInv, CapSound
    <3>3. LET s == RingPop(cap)
          IN  /\ Sound(s, Oldest(cap), Pushed)
              /\ s.count > 0 => Holds(s, s.count - 1) = Holds(cap, cap.count - 1)
      BY <3>1, <3>2, Bounds, PopSound
    <3> QED BY <3>1, <3>2, <3>3 DEF CapSound
  <2>4. RecSound'
    <3>1. /\ UNCHANGED <<rec, stored>> /\ Forwarded = entry /\ Forwarded' = entry' - 1
          /\ entry' = Oldest(cap) /\ cap.count > 0
      BY <1>5 DEF PopFrame, Forwarded
    <3>2. PICK e \in 0 .. MaxFrames : e = entry' /\ entry < e
      BY <3>1, Bounds, PopSound DEF AudioInv, CapSound
    <3>3. entry <= e - 1 /\ e - 1 \in Nat
      <4>1. entry \in Nat /\ e \in Nat
        BY Bounds
      <4> QED BY <3>2, <4>1, OneLess
    <3>4. Sound(rec, stored, entry)
      BY <3>1 DEF AudioInv, RecSound
    <3>5. Sound(rec, stored, e - 1)
      BY <3>3, <3>4, Bounds, RaiseSound
    <3> QED BY <3>1, <3>2, <3>5 DEF RecSound
  <2>5. Progress'
    BY <1>5, <2>0, Bounds DEF AudioInv, Threads, Progress, Pushed, Forwarded, PopFrame
  <2> QED BY <2>1, <2>2, <2>3, <2>4, <2>5 DEF AudioInv
<1>6. CASE PopWait
  <2>1. ControlType'
    BY <1>6 DEF AudioInv, ControlType, PopWait
  <2>2. Threads'
    BY <1>6 DEF AudioInv, ControlType, Threads, PopWait
  <2>3. CapSound'
    BY <1>6 DEF AudioInv, CapSound, Pushed, PopWait
  <2>4. RecSound'
    BY <1>6 DEF AudioInv, Threads, RecSound, Forwarded, PopWait
  <2>5. Progress'
    BY <1>6, Bounds DEF AudioInv, Threads, Progress, Pushed, Forwarded, PopWait
  <2> QED BY <2>1, <2>2, <2>3, <2>4, <2>5 DEF AudioInv
<1>7. CASE PopWoken
  <2>1. ControlType'
    BY <1>7 DEF AudioInv, ControlType, PopWoken
  <2>2. Threads'
    BY <1>7 DEF AudioInv, ControlType, Threads, PopWoken
  <2>3. CapSound'
    BY <1>7 DEF AudioInv, CapSound, Pushed, PopWoken
  <2>4. RecSound'
    BY <1>7 DEF AudioInv, Threads, RecSound, Forwarded, PopWoken
  <2>5. Progress'
    BY <1>7, Bounds DEF AudioInv, Threads, Progress, Pushed, Forwarded, PopWoken
  <2> QED BY <2>1, <2>2, <2>3, <2>4, <2>5 DEF AudioInv
<1>8. CASE PopTimeout
  <2>1. ControlType'
    BY <1>8 DEF AudioInv, ControlType, PopTimeout
  <2>2. Threads'
    BY <1>8 DEF AudioInv, ControlType, Threads, PopTimeout
  <2>3. CapSound'
    BY <1>8 DEF AudioInv, CapSound, Pushed, PopTimeout
  <2>4. RecSound'
    BY <1>8 DEF AudioInv, Threads, RecSound, Forwarded, PopTimeout
  <2>5. Progress'
    BY <1>8, Bounds DEF AudioInv, Threads, Progress, Pushed, Forwarded, PopTimeout
  <2> QED BY <2>1, <2>2, <2>3, <2>4, <2>5 DEF AudioInv
<1>9. CASE Forward
  <2>1. ControlType'
    BY <1>9 DEF AudioInv, ControlType, Forward
  <2>2. Threads'
    BY <1>9 DEF AudioInv, ControlType, Threads, Forward
  <2>3. CapSound'
    BY <1>9 DEF AudioInv, CapSound, Pushed, Forward
  <2>4. RecSound'
    <3>1. /\ UNCHANGED <<rec, stored, entry>> /\ Forwarded = entry - 1
          /\ Forwarded' \in {entry - 1, entry}
      BY <1>9 DEF Forward, Forwarded
    <3>2. /\ entry \in 0 .. MaxFrames /\ entry - 1 \in Nat /\ stored <= entry - 1
          /\ Sound(rec, stored, entry - 1)
      BY <3>1, Bounds DEF AudioInv, ControlType, RecSound
    <3>3. entry - 1 < entry /\ entry - 1 <= entry
      BY Bounds
    <3>5. Sound(rec, stored, entry)
      BY <3>2, <3>3, Bounds, RaiseSound
    <3> QED BY <3>1, <3>2, <3>5 DEF RecSound
  <2>5. Progress'
    BY <1>9, Bounds DEF AudioInv, Threads, Progress, Pushed, Forwarded, Forward
  <2> QED BY <2>1, <2>2, <2>3, <2>4, <2>5 DEF AudioInv
<1>11. CASE PushRecord
  <2>1. ControlType'
    BY <1>11 DEF AudioInv, ControlType, PushRecord
  <2>2. Threads'
    BY <1>11 DEF AudioInv, ControlType, Threads, PushRecord
  <2>3. CapSound'
    BY <1>11 DEF AudioInv, CapSound, Pushed, PushRecord
  <2>4. RecSound'
    <3>1. /\ UNCHANGED <<stored, entry>> /\ Forwarded = entry - 1 /\ Forwarded' = entry
          /\ rec' = RingPush(rec, entry)
      BY <1>11 DEF PushRecord, Forwarded
    <3>2. /\ entry \in 0 .. MaxFrames /\ entry - 1 \in Nat /\ stored <= entry - 1
          /\ Sound(rec, stored, entry - 1)
      BY <3>1, Bounds DEF AudioInv, ControlType, RecSound
    <3>3. entry - 1 < entry /\ entry - 1 <= entry
      BY Bounds
    <3>4. Sound(RingPush(rec, entry), stored, entry)
      BY <3>2, <3>3, Bounds, PushSound
    <3> QED BY <3>1, <3>4 DEF RecSound
  <2>5. Progress'
    BY <1>11, Bounds DEF AudioInv, Threads, Progress, Pushed, Forwarded, PushRecord
  <2> QED BY <2>1, <2>2, <2>3, <2>4, <2>5 DEF AudioInv
<1>10. CASE EncodeSend
  <2>1. ControlType'
    BY <1>10 DEF AudioInv, ControlType, EncodeSend
  <2>2. Threads'
    BY <1>10 DEF AudioInv, ControlType, Threads, EncodeSend
  <2>3. CapSound'
    BY <1>10 DEF AudioInv, CapSound, Pushed, EncodeSend
  <2>4. RecSound'
    BY <1>10 DEF AudioInv, Threads, RecSound, Forwarded, EncodeSend
  <2>5. Progress'
    BY <1>10, Bounds DEF AudioInv, Threads, Progress, Pushed, Forwarded, EncodeSend
  <2> QED BY <2>1, <2>2, <2>3, <2>4, <2>5 DEF AudioInv
<1> QED BY <1>1, <1>2, <1>3, <1>4, <1>5, <1>6, <1>7, <1>8, <1>9, <1>10, <1>11 DEF CaptureStep,
   EncodeStep

\* The invariant holds of every behaviour of the audio path.
LEMMA InvHolds == Spec => []AudioInv
<1>1. Init => AudioInv
  <2> SUFFICES ASSUME Init PROVE AudioInv
    OBVIOUS
  <2>1. 0 \in 0 .. MaxFrames
    BY AudioAssumption
  <2>2. ControlType
    BY <2>1 DEF Init, ControlType
  <2>3. Pushed = 0 /\ Forwarded = 0
    BY DEF Init, Pushed, Forwarded
  <2>4. Threads /\ Progress
    BY <2>3 DEF Init, Threads, Progress
  <2>5. CapSound /\ RecSound
    BY <2>3, EmptySound DEF Init, CapSound, RecSound
  <2> QED BY <2>2, <2>4, <2>5 DEF AudioInv
<1>2. AudioInv /\ UNCHANGED vars => AudioInv'
  BY DEF vars, threads, capture, encode, AudioInv, ControlType, Threads, CapSound,
     RecSound, Progress, Pushed, Forwarded
<1>3. AudioInv /\ [Next]_vars => AudioInv'
  BY <1>2, LoopStepInv, ThreadStepInv DEF Next
<1> QED BY <1>1, <1>3, PTL DEF Spec

-------------------------------------------------------------------------------
(* What the runs check.                                                    *)

\* Every variable has its type: no index leaves its ring, and no counter its
\* bound, however often a ring overflows.
THEOREM TypeCorrect == Spec => []TypeOK
<1>1. AudioInv => TypeOK
  BY DEF AudioInv, CapSound, RecSound, Sound, WellFormed, TypeOK
<1> QED BY <1>1, InvHolds, PTL

\* Both rings hold their frames oldest first after any number of overflows, the
\* capture ring up to the newest, and cap_ring outlives its threads.
THEOREM RingsKeepOrder == Spec => []RingsSound
<1>1. AudioInv => RingsOrdered
  BY DEF AudioInv, CapSound, RecSound, Sound, RingsOrdered, Pushed
<1>2. AudioInv => RingOutlivesThreads
  BY DEF AudioInv, Threads, RingOutlivesThreads
<1>3. AudioInv => RingsSound
  BY <1>1, <1>2 DEF RingsSound
<1> QED BY <1>3, InvHolds, PTL

\* Frames are sent in the order of their capture, each at most once, and stored
\* in that order.
THEOREM AudioInOrder == Spec => InOrder
<1> DEFINE Ordering == (epc = "send" /\ epc' = "check" => sent' > sent) /\ stored' >= stored
<1>1. AudioInv /\ [Next]_vars => Ordering
  <2> SUFFICES ASSUME AudioInv, [Next]_vars PROVE Ordering
    OBVIOUS
  <2>1. stored' >= stored
    <3>1. CASE StoreAudio
      BY <3>1, Bounds, PopSound DEF StoreAudio, AudioInv, RecSound
    <3>2. CASE ~StoreAudio
      <4>1. stored' = stored
        BY <3>2 DEF Next, MainStep, WakeEncode, JoinCapture, JoinEncode, StartEncode,
           CaptureStep, PushFrame, CaptureEnds, EncodeStep, EncodeCheck, PopFrame,
           PopWait, PopWoken, PopTimeout, Forward, PushRecord, EncodeSend, StartCapture,
           Stop, AttachRecording, GetFrame, vars
      <4> QED BY <4>1, Bounds
    <3> QED BY <3>1, <3>2
  <2>2. ASSUME epc = "send", epc' = "check" PROVE sent' > sent
    <3>1. EncodeSend
      BY <2>2 DEF Next, MainStep, WakeEncode, JoinCapture, JoinEncode, StartEncode,
         CaptureStep, PushFrame, CaptureEnds, EncodeStep, EncodeCheck, PopFrame,
         PopWait, PopWoken, PopTimeout, Forward, PushRecord, StartCapture, Stop,
         AttachRecording, StoreAudio, GetFrame, vars, threads, capture, encode, AudioInv, Threads
    <3> QED BY <2>2, <3>1, Bounds DEF EncodeSend, AudioInv, Progress
  <2> QED BY <2>1, <2>2
<1>2. AudioInv /\ [Next]_vars => [Ordering]_vars
  BY <1>1
<1> QED BY <1>2, InvHolds, PTL DEF Spec, InOrder
===============================================================================
