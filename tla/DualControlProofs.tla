---------------------------- MODULE DualControlProofs ---------------------------
(***************************************************************************)
(* Proofs about DualControl for every configured bitrate, frame rate, set  *)
(* of requests and number of requests.  The inductive invariant says when  *)
(* the channel, its registration and its recording thread exist, and what  *)
(* the driver's attributes and g_dual have in common while a request is    *)
(* under way.                                                              *)
(***************************************************************************)
EXTENDS DualControl, TLAPS

(* Who may call the driver, and when: the channel outlives its             *)
(* registration and its thread, and a handler past the check of g_dual     *)
(* keeps it registered by holding the mutex.                               *)
Lifetimes ==
    /\ chan.exists <=> mpc \in {"thread", "register", "run", "join", "unregister", "destroy"}
    /\ dual.active <=> mpc \in {"run", "join", "unregister"}
    /\ hpc \in {"set", "threshold"} => dual.active
    /\ recpc \notin {"off", "exited"} => started
    /\ started => mpc \in {"register", "run", "join"}
    /\ recpc # "off" => mpc \notin {"create", "thread"}

(* What the driver runs with against what is reported, or will be reported *)
(* by the registration or by the answer to the request under way.          *)
Promised ==
    /\ tuned => mpc \notin {"create", "thread", "register"}
    /\ "bitrate" \in parted => "threshold" \in parted
    /\ chan.exists =>
          /\ mpc \in {"thread", "register"} =>
                /\ "gop" \notin parted => chan.gop = Fps
                /\ "bitrate" \notin parted => chan.bitrate = Configured
          /\ dual.active =>
                /\ "gop" \notin parted => chan.gop = dual.gop
                /\ "bitrate" \notin parted =>
                      chan.bitrate = IF hpc = "threshold" THEN req.value ELSE dual.bitrate
          /\ hpc # "threshold" /\ dual.frame_lost /\ "threshold" \notin parted =>
                chan.threshold = Threshold(chan.bitrate)
          /\ "kbps" \notin parted /\ recpc # "off" => chan.bitrate = kbps

(* The recording thread's own bitrate against the driver's, and against    *)
(* the record a handler has read and will write back: until a request sets *)
(* the bitrate it is the lowest of them.                                   *)
BackoffBelow ==
    ~tuned =>
        /\ mpc = "thread" => chan.bitrate = Configured
        /\ recpc \notin {"off", "exited"} /\ Configured >= Floor =>
              /\ Floor <= kbps /\ kbps <= chan.bitrate
              /\ hpc = "set" => kbps <= hattr.bitrate

DualInv == TypeOK /\ Lifetimes /\ CallsHaveChannel /\ Promised /\ BackoffBelow
-------------------------------------------------------------------------------
(* Numbers and records.                                                    *)

\* The larger of two numbers is one of them and no smaller than either.
LEMMA MaxOfTwo ==
    ASSUME NEW a \in Int, NEW b \in Int
    PROVE  Max({a, b}) \in {a, b} /\ Max({a, b}) >= a /\ Max({a, b}) >= b
<1>1. \E x \in {a, b} : \A y \in {a, b} : x >= y
  <2>1. CASE a >= b BY <2>1
  <2>2. CASE b >= a BY <2>2
  <2> QED BY <2>1, <2>2
<1> QED BY <1>1 DEF Max

\* Thresholds, GOP lengths and the back-off's floor are natural numbers.
LEMMA NumberTypes ==
    /\ \A b \in Nat : Threshold(b) \in Nat
    /\ \A s \in Nat : Frames(s) \in Nat
    /\ Floor \in Nat
<1>1. ASSUME NEW b \in Nat PROVE Threshold(b) \in Nat
  <2> DEFINE fifth == b \div 5
  <2>1. fifth \in Nat OBVIOUS
  <2> HIDE DEF fifth
  <2>2. Max({fifth, 512}) \in Nat BY <2>1, MaxOfTwo
  <2> QED BY <2>2 DEF Threshold, fifth
<1>2. ASSUME NEW s \in Nat PROVE Frames(s) \in Nat
  <2> DEFINE frames == s * Fps
  <2>1. frames \in Nat BY DualAssumption
  <2> HIDE DEF frames
  <2>2. (frames * 2 + 10) \div 20 \in Nat BY <2>1
  <2>3. Max({1, (frames * 2 + 10) \div 20}) \in Nat BY <2>2, MaxOfTwo
  <2> QED BY <2>3 DEF Frames, frames
<1>3. Floor \in Nat
  <2>1. Configured \div 4 \in Nat BY DualAssumption
  <2> QED BY <2>1, MaxOfTwo DEF Floor
<1> QED BY <1>1, <1>2, <1>3

\* A reduction stays above the floor, and lowers a bitrate that is above it.
LEMMA ReducedBounds ==
    ASSUME kbps \in Nat
    PROVE  /\ Reduced \in Nat /\ Reduced >= Floor
           /\ kbps >= Floor => Reduced <= kbps
<1>0. Floor \in Int
  BY NumberTypes
<1> DEFINE less == (kbps * 9) \div 10
<1>1. less \in Nat /\ less <= kbps
  OBVIOUS
<1> HIDE DEF less
<1>2. Max({less, Floor}) \in {less, Floor} /\ Max({less, Floor}) >= Floor
  BY <1>1, <1>0, MaxOfTwo
<1> QED BY <1>1, <1>2, NumberTypes DEF Reduced, less

\* A record written back keeps what the driver has in existence and threshold.
LEMMA PutFields ==
    ASSUME chan \in Records, NEW a \in Records
    PROVE  /\ Put(a) \in Records
           /\ Put(a).exists = chan.exists /\ Put(a).threshold = chan.threshold
           /\ Put(a).bitrate = a.bitrate /\ Put(a).gop = a.gop
  BY DEF Put, Attributes, Records

\* The value of a request is a number.
LEMMA RequestType == \A r \in Requests : r.value \in Nat
<1>1. \A n \in Rates \cup Seconds : n \in Nat
  BY DualAssumption
<1>2. \A r \in Requests : r.value \in {0} \cup Rates \cup Seconds
  BY DEF Requests
<1> QED BY <1>1, <1>2

-------------------------------------------------------------------------------
(* The invariant is inductive.                                             *)

\* Creation, registration and teardown preserve the invariant.
LEMMA MainStepInv == DualInv /\ (MainStep \/ Teardown) => DualInv'
<1> SUFFICES ASSUME DualInv, (MainStep \/ Teardown) PROVE DualInv'
  OBVIOUS
<1> USE DEF main, http, rec, hist
<1>1. CASE Create
  <2>1. RecordType'
    BY <1>1, DualAssumption, NumberTypes DEF DualInv, TypeOK, RecordType, Records, Create
  <2>2. ControlType'
    BY <1>1, DualAssumption DEF DualInv, TypeOK, ControlType, Create
  <2>3. Lifetimes' /\ CallsHaveChannel'
    BY <1>1 DEF DualInv, TypeOK, ControlType, Lifetimes, CallsHaveChannel, Create
  <2>4. Promised'
    BY <1>1 DEF DualInv, TypeOK, ControlType, Lifetimes, Promised, Create
  <2>5. BackoffBelow'
    BY <1>1, DualAssumption DEF DualInv, TypeOK, ControlType, Lifetimes, BackoffBelow, Create
  <2> QED BY <2>1, <2>2, <2>3, <2>4, <2>5 DEF DualInv, TypeOK
<1>2. CASE CreateFails
  <2>1. RecordType'
    BY <1>2 DEF DualInv, TypeOK, RecordType, Records, CreateFails
  <2>2. ControlType'
    BY <1>2 DEF DualInv, TypeOK, ControlType, CreateFails
  <2>3. Lifetimes' /\ CallsHaveChannel'
    BY <1>2 DEF DualInv, TypeOK, ControlType, Lifetimes, CallsHaveChannel, CreateFails
  <2>4. Promised'
    BY <1>2 DEF DualInv, TypeOK, ControlType, Lifetimes, Promised, CreateFails
  <2>5. BackoffBelow'
    BY <1>2 DEF DualInv, TypeOK, ControlType, Lifetimes, BackoffBelow, CreateFails
  <2> QED BY <2>1, <2>2, <2>3, <2>4, <2>5 DEF DualInv, TypeOK
<1>3. CASE StartThread
  <2>1. RecordType'
    BY <1>3, DualAssumption DEF DualInv, TypeOK, RecordType, Records, StartThread
  <2>2. ControlType'
    <3>1. kbps' \in Nat
      BY <1>3, DualAssumption DEF DualInv, TypeOK, ControlType, StartThread
    <3> QED BY <1>3, <3>1 DEF DualInv, TypeOK, ControlType, StartThread
  <2>3. Lifetimes' /\ CallsHaveChannel'
    BY <1>3 DEF DualInv, TypeOK, ControlType, Lifetimes, CallsHaveChannel, StartThread
  <2>4. Promised'
    BY <1>3 DEF DualInv, TypeOK, ControlType, Lifetimes, Promised, BackoffBelow,
       StartThread
  <2>5. BackoffBelow'
    BY <1>3, DualAssumption DEF DualInv, TypeOK, ControlType, Lifetimes, BackoffBelow, StartThread
  <2> QED BY <2>1, <2>2, <2>3, <2>4, <2>5 DEF DualInv, TypeOK
<1>4. CASE Register
  <2>1. RecordType'
    BY <1>4, DualAssumption DEF DualInv, TypeOK, RecordType, Records, Register
  <2>2. ControlType'
    BY <1>4, DualAssumption DEF DualInv, TypeOK, ControlType, Register
  <2>3. Lifetimes' /\ CallsHaveChannel'
    BY <1>4 DEF DualInv, TypeOK, ControlType, Lifetimes, CallsHaveChannel, Register
  <2>4. Promised'
    BY <1>4 DEF DualInv, TypeOK, ControlType, Lifetimes, Promised, Register
  <2>5. BackoffBelow'
    BY <1>4, DualAssumption DEF DualInv, TypeOK, ControlType, Lifetimes, BackoffBelow, Register
  <2> QED BY <2>1, <2>2, <2>3, <2>4, <2>5 DEF DualInv, TypeOK
<1>5. CASE Teardown
  <2>1. RecordType'
    BY <1>5 DEF DualInv, TypeOK, RecordType, Records, Teardown
  <2>2. ControlType'
    BY <1>5 DEF DualInv, TypeOK, ControlType, Teardown
  <2>3. Lifetimes' /\ CallsHaveChannel'
    BY <1>5 DEF DualInv, TypeOK, ControlType, Lifetimes, CallsHaveChannel, Teardown
  <2>4. Promised'
    BY <1>5 DEF DualInv, TypeOK, ControlType, Lifetimes, Promised, Teardown
  <2>5. BackoffBelow'
    BY <1>5 DEF DualInv, TypeOK, ControlType, Lifetimes, BackoffBelow, Teardown
  <2> QED BY <2>1, <2>2, <2>3, <2>4, <2>5 DEF DualInv, TypeOK
<1>6. CASE StopRecv
  <2>1. RecordType'
    BY <1>6 DEF DualInv, TypeOK, RecordType, Records, StopRecv, Joined, Calls
  <2>2. ControlType'
    BY <1>6 DEF DualInv, TypeOK, ControlType, StopRecv, Joined, Calls
  <2>3. Lifetimes' /\ CallsHaveChannel'
    BY <1>6 DEF DualInv, TypeOK, ControlType, Lifetimes, CallsHaveChannel, StopRecv, Joined, Calls
  <2>4. Promised'
    BY <1>6 DEF DualInv, TypeOK, ControlType, Lifetimes, Promised, StopRecv, Joined, Calls
  <2>5. BackoffBelow'
    BY <1>6 DEF DualInv, TypeOK, ControlType, Lifetimes, BackoffBelow, StopRecv, Joined, Calls
  <2> QED BY <2>1, <2>2, <2>3, <2>4, <2>5 DEF DualInv, TypeOK
<1>7. CASE Unregister
  <2>1. RecordType'
    BY <1>7 DEF DualInv, TypeOK, RecordType, Records, Unregister
  <2>2. ControlType'
    BY <1>7 DEF DualInv, TypeOK, ControlType, Unregister
  <2>3. Lifetimes' /\ CallsHaveChannel'
    BY <1>7 DEF DualInv, TypeOK, ControlType, Lifetimes, CallsHaveChannel, Unregister
  <2>4. Promised'
    BY <1>7 DEF DualInv, TypeOK, ControlType, Lifetimes, Promised, Unregister
  <2>5. BackoffBelow'
    BY <1>7 DEF DualInv, TypeOK, ControlType, Lifetimes, BackoffBelow, Unregister
  <2> QED BY <2>1, <2>2, <2>3, <2>4, <2>5 DEF DualInv, TypeOK
<1>8. CASE Destroy
  <2>1. RecordType'
    BY <1>8 DEF DualInv, TypeOK, RecordType, Records, Destroy, Calls, Gone
  <2>2. ControlType'
    BY <1>8 DEF DualInv, TypeOK, ControlType, Destroy, Calls, Gone
  <2>3. Lifetimes' /\ CallsHaveChannel'
    BY <1>8 DEF DualInv, TypeOK, ControlType, Lifetimes, CallsHaveChannel, Destroy, Calls, Gone
  <2>4. Promised'
    BY <1>8 DEF DualInv, TypeOK, ControlType, Lifetimes, Promised, Destroy, Calls, Gone
  <2>5. BackoffBelow'
    BY <1>8 DEF DualInv, TypeOK, ControlType, Lifetimes, BackoffBelow, Destroy, Calls, Gone
  <2> QED BY <2>1, <2>2, <2>3, <2>4, <2>5 DEF DualInv, TypeOK
<1> QED
  BY <1>1, <1>2, <1>3, <1>4, <1>5, <1>6, <1>7, <1>8 DEF MainStep

\* Every step of a handler preserves it.
LEMMA HttpStepInv == DualInv /\ HttpStep => DualInv'
<1> SUFFICES ASSUME DualInv, HttpStep PROVE DualInv'
  OBVIOUS
<1> USE DEF other, main, rec, hist
<1>1. CASE Lock
  <2>1. RecordType'
    BY <1>1 DEF DualInv, TypeOK, RecordType, Records, Lock, Gone
  <2>2. ControlType'
    BY <1>1 DEF DualInv, TypeOK, ControlType, Lock, Gone
  <2>3. Lifetimes' /\ CallsHaveChannel'
    BY <1>1 DEF DualInv, TypeOK, ControlType, Lifetimes, CallsHaveChannel, Lock, Gone
  <2>4. Promised'
    BY <1>1 DEF DualInv, TypeOK, ControlType, Lifetimes, Promised, Lock, Gone
  <2>5. BackoffBelow'
    BY <1>1 DEF DualInv, TypeOK, ControlType, Lifetimes, BackoffBelow, Lock, Gone
  <2> QED BY <2>1, <2>2, <2>3, <2>4, <2>5 DEF DualInv, TypeOK
<1>2. CASE HttpAnswer
  <2>1. RecordType'
    BY <1>2 DEF DualInv, TypeOK, RecordType, Records, HttpAnswer, Answer
  <2>2. ControlType'
    BY <1>2 DEF DualInv, TypeOK, ControlType, HttpAnswer, Answer
  <2>3. Lifetimes' /\ CallsHaveChannel'
    BY <1>2 DEF DualInv, TypeOK, ControlType, Lifetimes, CallsHaveChannel, HttpAnswer, Answer
  <2>4. Promised'
    BY <1>2 DEF DualInv, TypeOK, ControlType, Lifetimes, Promised, HttpAnswer, Answer
  <2>5. BackoffBelow'
    BY <1>2 DEF DualInv, TypeOK, ControlType, Lifetimes, BackoffBelow, HttpAnswer, Answer
  <2> QED BY <2>1, <2>2, <2>3, <2>4, <2>5 DEF DualInv, TypeOK
<1>3. CASE IdrUnlock
  <2>1. RecordType'
    BY <1>3 DEF DualInv, TypeOK, RecordType, Records, IdrUnlock
  <2>2. ControlType'
    BY <1>3 DEF DualInv, TypeOK, ControlType, IdrUnlock
  <2>3. Lifetimes' /\ CallsHaveChannel'
    BY <1>3 DEF DualInv, TypeOK, ControlType, Lifetimes, CallsHaveChannel, IdrUnlock
  <2>4. Promised'
    BY <1>3 DEF DualInv, TypeOK, ControlType, Lifetimes, Promised, IdrUnlock
  <2>5. BackoffBelow'
    BY <1>3 DEF DualInv, TypeOK, ControlType, Lifetimes, BackoffBelow, IdrUnlock
  <2> QED BY <2>1, <2>2, <2>3, <2>4, <2>5 DEF DualInv, TypeOK
<1>4. CASE RequestIdr
  <2>1. RecordType'
    BY <1>4 DEF DualInv, TypeOK, RecordType, Records, RequestIdr, Calls
  <2>2. ControlType'
    BY <1>4 DEF DualInv, TypeOK, ControlType, RequestIdr, Calls
  <2>3. Lifetimes' /\ CallsHaveChannel'
    BY <1>4 DEF DualInv, TypeOK, ControlType, Lifetimes, CallsHaveChannel, RequestIdr, Calls
  <2>4. Promised'
    BY <1>4 DEF DualInv, TypeOK, ControlType, Lifetimes, Promised, RequestIdr, Calls
  <2>5. BackoffBelow'
    BY <1>4 DEF DualInv, TypeOK, ControlType, Lifetimes, BackoffBelow, RequestIdr, Calls
  <2> QED BY <2>1, <2>2, <2>3, <2>4, <2>5 DEF DualInv, TypeOK
<1>5. CASE HttpGet
  <2>1. RecordType'
    BY <1>5 DEF DualInv, TypeOK, RecordType, Records, HttpGet, Calls, Answer
  <2>2. ControlType'
    BY <1>5 DEF DualInv, TypeOK, ControlType, HttpGet, Calls, Answer
  <2>3. Lifetimes' /\ CallsHaveChannel'
    BY <1>5 DEF DualInv, TypeOK, ControlType, Lifetimes, CallsHaveChannel, HttpGet, Calls, Answer
  <2>4. Promised'
    BY <1>5 DEF DualInv, TypeOK, ControlType, Lifetimes, Promised, HttpGet, Calls, Answer
  <2>5. BackoffBelow'
    BY <1>5 DEF DualInv, TypeOK, ControlType, Lifetimes, BackoffBelow, HttpGet, Calls, Answer
  <2> QED BY <2>1, <2>2, <2>3, <2>4, <2>5 DEF DualInv, TypeOK
<1>6. CASE SetFails
  <2>1. RecordType'
    BY <1>6 DEF DualInv, TypeOK, RecordType, Records, SetFails, Calls, Answer
  <2>2. ControlType'
    BY <1>6 DEF DualInv, TypeOK, ControlType, SetFails, Calls, Answer
  <2>3. Lifetimes' /\ CallsHaveChannel'
    BY <1>6 DEF DualInv, TypeOK, ControlType, Lifetimes, CallsHaveChannel, SetFails, Calls, Answer
  <2>4. Promised'
    BY <1>6 DEF DualInv, TypeOK, ControlType, Lifetimes, Promised, SetFails, Calls, Answer
  <2>5. BackoffBelow'
    BY <1>6 DEF DualInv, TypeOK, ControlType, Lifetimes, BackoffBelow, SetFails, Calls, Answer
  <2> QED BY <2>1, <2>2, <2>3, <2>4, <2>5 DEF DualInv, TypeOK
<1>7. CASE SetGop
  <2>1. Frames(req.value) \in Nat
    BY NumberTypes, RequestType DEF DualInv, TypeOK, ControlType
  <2>2. /\ chan' \in Records
        /\ chan'.exists = chan.exists /\ chan'.threshold = chan.threshold
        /\ chan'.gop = Frames(req.value) /\ chan'.bitrate = hattr.bitrate
    <3> DEFINE a == [hattr EXCEPT !.gop = Frames(req.value)]
    <3>1. a \in Records /\ a.gop = Frames(req.value) /\ a.bitrate = hattr.bitrate
      BY <2>1 DEF DualInv, TypeOK, RecordType, Records
    <3>2. chan' = Put(a) /\ chan \in Records
      BY <1>7 DEF SetGop, DualInv, TypeOK, RecordType
    <3> HIDE DEF a
    <3> QED BY <3>1, <3>2, PutFields
  <2>3. RecordType'
    BY <1>7, <2>1, <2>2 DEF DualInv, TypeOK, RecordType, SetGop
  <2>4. ControlType'
    BY <1>7, <2>1 DEF DualInv, TypeOK, ControlType, SetGop, Calls, Answer, Undone
  <2>5. Lifetimes' /\ CallsHaveChannel'
    BY <1>7, <2>2 DEF DualInv, TypeOK, ControlType, Lifetimes, CallsHaveChannel, SetGop, Calls, Answer, Undone
  <2>6. Promised'
    BY <1>7, <2>2 DEF DualInv, TypeOK, RecordType, ControlType, Lifetimes, Promised, SetGop, Calls, Answer, Undone
  <2>7. BackoffBelow'
    BY <1>7, <2>1, <2>2 DEF DualInv, TypeOK, RecordType, ControlType, Lifetimes,
       BackoffBelow, SetGop, Calls, Answer, Undone
  <2> QED BY <2>3, <2>4, <2>5, <2>6, <2>7 DEF DualInv, TypeOK
<1>8. CASE SetBitrate
  <2>1. req.value \in Nat
    BY RequestType DEF DualInv, TypeOK, ControlType
  <2>2. /\ chan' \in Records
        /\ chan'.exists = chan.exists /\ chan'.threshold = chan.threshold
        /\ chan'.bitrate = req.value /\ chan'.gop = hattr.gop
    <3> DEFINE a == [hattr EXCEPT !.bitrate = req.value]
    <3>1. a \in Records /\ a.bitrate = req.value /\ a.gop = hattr.gop
      BY <2>1 DEF DualInv, TypeOK, RecordType, Records
    <3>2. chan' = Put(a) /\ chan \in Records
      BY <1>8 DEF SetBitrate, DualInv, TypeOK, RecordType
    <3> HIDE DEF a
    <3> QED BY <3>1, <3>2, PutFields
  <2>3. RecordType'
    BY <1>8, <2>1, <2>2 DEF DualInv, TypeOK, RecordType, SetBitrate
  <2>4. ControlType'
    BY <1>8, <2>1 DEF DualInv, TypeOK, ControlType, SetBitrate, Calls, Undone
  <2>5. Lifetimes' /\ CallsHaveChannel'
    BY <1>8, <2>2 DEF DualInv, TypeOK, ControlType, Lifetimes, CallsHaveChannel, SetBitrate, Calls, Undone
  <2>6. Promised'
    BY <1>8, <2>2 DEF DualInv, TypeOK, ControlType, Lifetimes, Promised, SetBitrate, Calls, Undone
  <2>7. BackoffBelow'
    BY <1>8, <2>1, <2>2 DEF DualInv, TypeOK, RecordType, ControlType, Lifetimes,
       BackoffBelow, SetBitrate, Calls, Undone
  <2> QED BY <2>3, <2>4, <2>5, <2>6, <2>7 DEF DualInv, TypeOK
<1>9. CASE SetThreshold
  <2>1. RecordType'
    <3>1. req.value \in Nat /\ Threshold(req.value) \in Nat
      BY NumberTypes, RequestType DEF DualInv, TypeOK, ControlType
    <3> QED
      BY <1>9, <3>1 DEF DualInv, TypeOK, RecordType, Records, SetThreshold
  <2>2. ControlType'
    BY <1>9 DEF DualInv, TypeOK, ControlType, SetThreshold, Calls, Answer
  <2>3. Lifetimes' /\ CallsHaveChannel'
    BY <1>9 DEF DualInv, TypeOK, RecordType, ControlType, Lifetimes, CallsHaveChannel,
       Records, SetThreshold, Calls, Answer
  <2>4. Promised'
    BY <1>9 DEF DualInv, TypeOK, RecordType, Records, ControlType, Lifetimes, Promised, SetThreshold, Calls, Answer
  <2>5. BackoffBelow'
    BY <1>9 DEF DualInv, TypeOK, RecordType, Records, ControlType, Lifetimes, BackoffBelow, SetThreshold, Calls, Answer
  <2> QED BY <2>1, <2>2, <2>3, <2>4, <2>5 DEF DualInv, TypeOK
<1>10. CASE ThresholdFails
  <2>1. RecordType'
    BY <1>10 DEF DualInv, TypeOK, RecordType, Records, ThresholdFails, Calls, Answer
  <2>2. ControlType'
    BY <1>10 DEF DualInv, TypeOK, ControlType, ThresholdFails, Calls, Answer
  <2>3. Lifetimes' /\ CallsHaveChannel'
    BY <1>10 DEF DualInv, TypeOK, ControlType, Lifetimes, CallsHaveChannel, ThresholdFails, Calls, Answer
  <2>4. Promised'
    BY <1>10 DEF DualInv, TypeOK, ControlType, Lifetimes, Promised, ThresholdFails, Calls, Answer
  <2>5. BackoffBelow'
    BY <1>10 DEF DualInv, TypeOK, ControlType, Lifetimes, BackoffBelow, ThresholdFails, Calls, Answer
  <2> QED BY <2>1, <2>2, <2>3, <2>4, <2>5 DEF DualInv, TypeOK
<1> QED
  BY <1>1, <1>2, <1>3, <1>4, <1>5, <1>6, <1>7, <1>8, <1>9, <1>10 DEF HttpStep

\* Every step of the recording thread preserves it.
LEMMA RecStepInv == DualInv /\ RecStep => DualInv'
<1> SUFFICES ASSUME DualInv, RecStep PROVE DualInv'
  OBVIOUS
<1> USE DEF notRec, main, http, hist
<1>1. CASE Top
  <2>1. RecordType'
    BY <1>1 DEF DualInv, TypeOK, RecordType, Records, Top, Gone
  <2>2. ControlType'
    BY <1>1 DEF DualInv, TypeOK, ControlType, Top, Gone
  <2>3. Lifetimes' /\ CallsHaveChannel'
    BY <1>1 DEF DualInv, TypeOK, ControlType, Lifetimes, CallsHaveChannel, Top, Gone
  <2>4. Promised'
    BY <1>1 DEF DualInv, TypeOK, ControlType, Lifetimes, Promised, Top, Gone
  <2>5. BackoffBelow'
    BY <1>1 DEF DualInv, TypeOK, ControlType, Lifetimes, BackoffBelow, Top, Gone
  <2> QED BY <2>1, <2>2, <2>3, <2>4, <2>5 DEF DualInv, TypeOK
<1>2. CASE Frame
  <2>1. RecordType'
    BY <1>2 DEF DualInv, TypeOK, RecordType, Records, Frame, Calls
  <2>2. ControlType'
    BY <1>2 DEF DualInv, TypeOK, ControlType, Frame, Calls
  <2>3. Lifetimes' /\ CallsHaveChannel'
    BY <1>2 DEF DualInv, TypeOK, ControlType, Lifetimes, CallsHaveChannel, Frame, Calls
  <2>4. Promised'
    BY <1>2 DEF DualInv, TypeOK, ControlType, Lifetimes, Promised, Frame, Calls
  <2>5. BackoffBelow'
    BY <1>2 DEF DualInv, TypeOK, ControlType, Lifetimes, BackoffBelow, Frame, Calls
  <2> QED BY <2>1, <2>2, <2>3, <2>4, <2>5 DEF DualInv, TypeOK
<1>3. CASE GetAttr
  <2>1. RecordType'
    BY <1>3 DEF DualInv, TypeOK, RecordType, Records, GetAttr, Calls
  <2>2. ControlType'
    BY <1>3 DEF DualInv, TypeOK, ControlType, GetAttr, Calls
  <2>3. Lifetimes' /\ CallsHaveChannel'
    BY <1>3 DEF DualInv, TypeOK, ControlType, Lifetimes, CallsHaveChannel, GetAttr, Calls
  <2>4. Promised'
    BY <1>3 DEF DualInv, TypeOK, ControlType, Lifetimes, Promised, GetAttr, Calls
  <2>5. BackoffBelow'
    BY <1>3 DEF DualInv, TypeOK, ControlType, Lifetimes, BackoffBelow, GetAttr, Calls
  <2> QED BY <2>1, <2>2, <2>3, <2>4, <2>5 DEF DualInv, TypeOK
<1>4. CASE ReduceFails
  <2>1. RecordType'
    BY <1>4 DEF DualInv, TypeOK, RecordType, Records, ReduceFails, Calls
  <2>2. ControlType'
    BY <1>4 DEF DualInv, TypeOK, ControlType, ReduceFails, Calls
  <2>3. Lifetimes' /\ CallsHaveChannel'
    BY <1>4 DEF DualInv, TypeOK, ControlType, Lifetimes, CallsHaveChannel, ReduceFails, Calls
  <2>4. Promised'
    BY <1>4 DEF DualInv, TypeOK, ControlType, Lifetimes, Promised, ReduceFails, Calls
  <2>5. BackoffBelow'
    BY <1>4 DEF DualInv, TypeOK, ControlType, Lifetimes, BackoffBelow, ReduceFails, Calls
  <2> QED BY <2>1, <2>2, <2>3, <2>4, <2>5 DEF DualInv, TypeOK
<1>5. CASE Reduce
  <2>1. Reduced \in Nat /\ Reduced >= Floor /\ (kbps >= Floor => Reduced <= kbps)
    BY ReducedBounds DEF DualInv, TypeOK, ControlType
  <2>2. /\ chan' \in Records
        /\ chan'.exists = chan.exists /\ chan'.threshold = chan.threshold
        /\ chan'.bitrate = Reduced /\ chan'.gop = attr.gop
    <3> DEFINE a == [attr EXCEPT !.bitrate = Reduced]
    <3>1. a \in Records /\ a.bitrate = Reduced /\ a.gop = attr.gop
      BY <2>1 DEF DualInv, TypeOK, RecordType, Records
    <3>2. chan' = Put(a) /\ chan \in Records
      BY <1>5 DEF Reduce, DualInv, TypeOK, RecordType
    <3> HIDE DEF a
    <3> QED BY <3>1, <3>2, PutFields
  <2>3. RecordType'
    BY <1>5, <2>1, <2>2 DEF DualInv, TypeOK, RecordType, Reduce
  <2>4. ControlType'
    BY <1>5, <2>1 DEF DualInv, TypeOK, ControlType, Reduce, Calls, Undone
  <2>5. Lifetimes' /\ CallsHaveChannel'
    BY <1>5, <2>2 DEF DualInv, TypeOK, ControlType, Lifetimes, CallsHaveChannel, Reduce, Calls, Undone
  <2>6. Promised'
    BY <1>5, <2>2 DEF DualInv, TypeOK, ControlType, Lifetimes, Promised, Reduce, Calls, Undone
  <2>7. BackoffBelow'
    <3>1. kbps \in Nat /\ hattr.bitrate \in Nat /\ Floor \in Nat
      BY NumberTypes DEF DualInv, TypeOK, RecordType, ControlType, Records
    <3> QED
      BY <1>5, <2>1, <2>2, <3>1 DEF DualInv, Lifetimes, BackoffBelow, Reduce
  <2> QED BY <2>3, <2>4, <2>5, <2>6, <2>7 DEF DualInv, TypeOK
<1>6. ASSUME NEW total \in 1..Fps, NEW waiting \in 0..total, SecondOver(total, waiting)
      PROVE  DualInv'
  <2>1. RecordType'
    BY <1>6 DEF SecondOver, DualInv, TypeOK, RecordType
  <2>2. ControlType'
    BY <1>6 DEF SecondOver, DualInv, TypeOK, ControlType
  <2>3. Lifetimes' /\ CallsHaveChannel'
    BY <1>6 DEF SecondOver, Calls, DualInv, Lifetimes, CallsHaveChannel
  <2>4. Promised'
    BY <1>6 DEF SecondOver, DualInv, Promised
  <2>5. BackoffBelow'
    BY <1>6 DEF SecondOver, DualInv, BackoffBelow
  <2> QED BY <2>1, <2>2, <2>3, <2>4, <2>5 DEF DualInv, TypeOK
<1> QED
  BY <1>1, <1>2, <1>3, <1>4, <1>5, <1>6 DEF RecStep

\* A request that arrives changes nothing but the handler's own state.
LEMMA RequestInv == ASSUME DualInv, NEW r \in Requests, Request(r) PROVE DualInv'
<1> USE DEF Request, other, main, rec, hist
<1>1. RecordType' /\ ControlType'
  BY DualAssumption DEF DualInv, TypeOK, RecordType, ControlType
<1>2. Lifetimes' /\ CallsHaveChannel'
  BY DEF DualInv, TypeOK, ControlType, Lifetimes, CallsHaveChannel
<1>3. Promised' /\ BackoffBelow'
  BY DEF DualInv, TypeOK, ControlType, Promised, BackoffBelow
<1> QED BY <1>1, <1>2, <1>3 DEF DualInv, TypeOK

\* Before the channel is created nobody calls the driver and nothing is promised.
LEMMA InitInv == Init => DualInv
<1> SUFFICES ASSUME Init PROVE DualInv
  OBVIOUS
<1>1. RecordType
  BY DEF Init, RecordType, Records, Gone
<1>2. ControlType
  <2>1. req \in Requests
    BY DEF Init, Requests
  <2>2. requests \in 0..MaxRequests /\ kbps \in Nat /\ pressure \in 0..2
    BY DualAssumption DEF Init
  <2>3. /\ started \in BOOLEAN /\ running \in BOOLEAN
        /\ tuned \in BOOLEAN
    BY DEF Init
  <2> QED BY <2>1, <2>2, <2>3 DEF Init, ControlType
<1>3. Lifetimes /\ CallsHaveChannel /\ Promised /\ BackoffBelow
  BY DEF Init, Gone, Lifetimes, CallsHaveChannel, Promised, BackoffBelow
<1> QED BY <1>1, <1>2, <1>3 DEF DualInv, TypeOK

\* The invariant holds in every reachable state.
LEMMA InvHolds == Spec => []DualInv
<1>1. DualInv /\ [Next]_vars => DualInv'
  <2> SUFFICES ASSUME DualInv, [Next]_vars PROVE DualInv'
    OBVIOUS
  <2>1. CASE Next
    BY <2>1, MainStepInv, HttpStepInv, RecStepInv, RequestInv DEF Next
  <2>2. CASE UNCHANGED vars
    BY <2>2 DEF vars, main, http, rec, hist, DualInv, TypeOK, RecordType, ControlType,
       Lifetimes, CallsHaveChannel, Promised, BackoffBelow
  <2> QED BY <2>1, <2>2
<1> QED BY InitInv, <1>1, PTL DEF Spec

-------------------------------------------------------------------------------
(* The properties.                                                         *)

\* The state of the channel and its three threads is always well formed, and
\* the mutex is held exactly while a handler is between its lock and its answer.
THEOREM TypeCorrect == Spec => []TypeOK
<1>1. DualInv => TypeOK
  BY DEF DualInv
<1> QED BY <1>1, InvHolds, PTL

\* Main, HTTP and recording thread call the driver only while the channel
\* exists, but for an IDR request that comes after a teardown.
THEOREM ChannelOutlivesCalls == Spec => []CallsHaveChannel
<1>1. DualInv => CallsHaveChannel
  BY DEF DualInv
<1> QED BY <1>1, InvHolds, PTL

\* What /dual/status reports between requests is what the driver runs with,
\* as far as the back-off has not set the bitrate and no update was lost.
THEOREM StatusIsTrue == Spec => []ChannelAsReported
<1>1. DualInv => ChannelAsReported
  BY DEF DualInv, TypeOK, ControlType, Lifetimes, Promised, ChannelAsReported
<1> QED BY <1>1, InvHolds, PTL

\* The recording thread's back-off only ever lowers the bitrate, down to its
\* floor, as long as no request has set it.
THEOREM BackoffOnlyLowers == Spec => BackoffLowers
<1> DEFINE Lowers ==
      recpc = "set" /\ chan' # chan /\ hpc' = hpc =>
          \/ tuned \/ Configured < Floor
          \/ chan'.bitrate \in Floor..chan.bitrate
<1>1. DualInv /\ [Next]_vars => Lowers
  <2> SUFFICES ASSUME DualInv, [Next]_vars, recpc = "set", chan' # chan, hpc' = hpc,
                      ~tuned, Configured >= Floor
               PROVE  chan'.bitrate \in Floor..chan.bitrate
    BY NumberTypes, DualAssumption
  <2>1. CASE Reduce
    <3>1. chan'.bitrate = Reduced
      <4>1. Reduced \in Nat
        BY ReducedBounds DEF DualInv, TypeOK, ControlType
      <4> DEFINE a == [attr EXCEPT !.bitrate = Reduced]
      <4>2. a \in Records /\ a.bitrate = Reduced
        BY <4>1 DEF DualInv, TypeOK, RecordType, Records
      <4>3. chan' = Put(a) /\ chan \in Records
        BY <2>1 DEF Reduce, DualInv, TypeOK, RecordType
      <4> HIDE DEF a
      <4> QED BY <4>2, <4>3, PutFields
    <3>2. /\ kbps \in Nat /\ kbps >= Floor /\ kbps <= chan.bitrate
          /\ chan.bitrate \in Nat
      BY DEF DualInv, TypeOK, RecordType, ControlType, Records, BackoffBelow
    <3> QED BY <3>1, <3>2, ReducedBounds, NumberTypes
  <2>2. CASE Next /\ ~Reduce
    <3>1. mpc \notin {"create", "destroy"}
      BY DEF DualInv, Lifetimes
    <3> QED
      BY <2>2, <3>1 DEF Next, MainStep, CreateFails, StartThread, Register, Teardown,
         StopRecv, Unregister, HttpStep, Lock, HttpAnswer, IdrUnlock, RequestIdr,
         HttpGet, SetFails, SetGop, SetBitrate, SetThreshold, ThresholdFails, Answer,
         RecStep, Top, Frame, GetAttr, ReduceFails, SecondOver, Request, Create, Destroy
  <2>3. CASE UNCHANGED vars
    BY <2>3 DEF vars
  <2> QED BY <2>1, <2>2, <2>3
<1>2. DualInv /\ [Next]_vars => [Lowers]_vars
  BY <1>1
<1> QED BY <1>2, InvHolds, PTL DEF Spec, BackoffLowers
===============================================================================
