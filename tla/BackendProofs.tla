------------------------------ MODULE BackendProofs -----------------------------
(***************************************************************************)
(* Proofs about the two backends and the settings they apply.              *)
(*                                                                         *)
(* About Pipeline: at every step of start, reinit and stop, whatever fails *)
(* and whatever is asked of it, no unit runs without the units below it.   *)
(* Each phase walks a course, its steps in a fixed order; the inductive    *)
(* invariant gives, for each unit, the steps of the course behind which it *)
(* is there, and says what a failure has left of it.                       *)
(*                                                                         *)
(* About LiveSet, for every set of values a field may have and any number  *)
(* of requests: the hardware runs what the configuration says and the      *)
(* response tells the truth about it.  Its inductive invariant says which  *)
(* fields have their new value, which callbacks are still to be made, and  *)
(* that the hardware agrees but for what those are to set.                 *)
(*                                                                         *)
(* About Maruko: the graph is configured, rebuilt and taken down by lists  *)
(* of steps that follow two courses; what a step finds made is what stands *)
(* behind it, and what a failure leaves is covered by the flags that the   *)
(* teardown goes by.                                                       *)
(***************************************************************************)
EXTENDS Pipeline, LiveSet, Maruko, FiniteSetTheorems, TLAPS

(* The steps still to be taken.                                            *)
Left == Range(todo)

(* Sequence t takes steps of a course, each at most once and in its order. *)
Along(c, t) ==
    /\ t \in Seq(DOMAIN c)
    /\ \A i, j \in DOMAIN t : i < j => c[t[i]] < c[t[j]]

(* The place of each step in the course of each phase.                     *)
StartCourse ==
    [prepare |-> 1, sensor |-> 2, vif |-> 3, vpe |-> 4, ch0 |-> 5, bind_vif |-> 6,
     bind_ch0 |-> 7, output |-> 8, peripherals |-> 9]
ControlsCourse ==
    [ae |-> 1, dual |-> 2, dual_output |-> 3, rec_thread |-> 4]
ReinitCourse ==
    [ae_stop |-> 1, ae_join |-> 2, load |-> 3, free_peripherals |-> 4,
     free_output |-> 5, free_dual_output |-> 6, rec_stop |-> 7, rec_join |-> 8,
     unbind_ch1 |-> 9, unbind_ch0 |-> 10, drain_ch0 |-> 11, drain_ch1 |-> 12,
     stop_ch1 |-> 13, stop_ch0 |-> 14, destroy_ch1 |-> 15, destroy_ch0 |-> 16,
     prepare |-> 17, resize |-> 18, unbind_vif |-> 19, stop_vpe |-> 20,
     vif_port |-> 21, vpe |-> 22, ch0 |-> 23, bind_vif |-> 24, bind_ch0 |-> 25,
     output |-> 26, peripherals |-> 27, ae |-> 28]
FailingCourse ==
    [free_output |-> 1, unbind_ch0 |-> 2, unbind_vif |-> 3, stop_ch0 |-> 4,
     destroy_ch0 |-> 5, stop_vpe |-> 6, stop_vif |-> 7, stop_sensor |-> 8]
TeardownCourse ==
    [ae_stop |-> 1, free_peripherals |-> 2, free_output |-> 3,
     free_dual_output |-> 4, rec_stop |-> 5, rec_join |-> 6, unbind_ch1 |-> 7,
     unbind_ch0 |-> 8, drain_ch0 |-> 9, drain_ch1 |-> 10, stop_ch1 |-> 11,
     stop_ch0 |-> 12, unbind_vif |-> 13, destroy_ch1 |-> 14, destroy_ch0 |-> 15,
     stop_vpe |-> 16, stop_vif |-> 17, stop_sensor |-> 18, ae_join |-> 19]

Course(p) == CASE p = "start" -> StartCourse
               [] p = "controls" -> ControlsCourse
               [] p = "reinit" -> ReinitCourse
               [] p = "failing" -> FailingCourse
               [] p = "teardown" -> TeardownCourse
               [] OTHER -> <<>>

Aspect == {"unbind_vif", "stop_vpe", "vif_port", "vpe"}

(* The steps that a phase never leaves out.                                *)
Required ==
    CASE phase = "reinit" -> DOMAIN Course("reinit") \ Aspect
      [] phase = "failing" -> {}
      [] phase = "teardown" /\ pipeline_started = 0 -> {"ae_stop", "ae_join"}
      [] OTHER -> DOMAIN Course(phase)

(* todo follows the course of the phase.                                   *)
InOrder == Along(Course(phase), todo)

(* Nothing required is missing from it.                                    *)
Complete ==
    /\ \A a \in Left, b \in DOMAIN Course(phase) :
          /\ Course(phase)[a] < Course(phase)[b]
          /\ b \in Required \/ (phase = "reinit" /\ {a, b} \subseteq Aspect)
          => b \in Left
    /\ phase = "reinit" /\ "resize" \in Left => Left \cap Aspect = {}
    /\ phase = "teardown" /\ pipeline_started = 0 => Left \subseteq {"ae_stop", "ae_join"}

(* While it is built, rebuilt or run, what is not still to be made stands. *)
Built ==
    phase \in {"start", "controls", "loop", "reinit"} =>
        /\ "sensor" \in Left \/ "sensor" \in hw
        /\ "vif" \in Left \/ {"vif", "vif_port"} \subseteq hw
        /\ "vpe" \in Left \/ {"vpe", "vpe_port"} \subseteq hw
        /\ "ch0" \in Left \/ ("ch0" \in hw /\ "ch0" \in recv)
        /\ "bind_vif" \in Left \/ "vif_vpe" \in links
        /\ "bind_ch0" \in Left \/ "vpe_ch0" \in links
        /\ "output" \in Left \/ "output" \in objs

(* A start makes nothing before its step.                                  *)
Made ==
    phase = "start" =>
        /\ "sensor" \in Left => "sensor" \notin hw
        /\ "vif" \in Left => hw \cap {"vif", "vif_port"} = {}
        /\ "vpe" \in Left => hw \cap {"vpe", "vpe_port"} = {}
        /\ "ch0" \in Left => "ch0" \notin hw
        /\ "bind_vif" \in Left => "vif_vpe" \notin links
        /\ "bind_ch0" \in Left => "vpe_ch0" \notin links
        /\ "output" \in Left => "output" \notin objs
        /\ "peripherals" \in Left => objs \cap {"audio", "imu", "eis", "osd"} = {}
        /\ "ch1" \notin hw /\ "vpe_ch1" \notin links
        /\ objs \cap {"dual", "dual_output"} = {}

Empty == hw \subseteq {remains} \cap {"sensor"} /\ links = {} /\ objs = {}

(* Whatever stands is still to be taken down.                              *)
TakenDown ==
    /\ \/ phase = "teardown" /\ pipeline_started = 1
       \/ phase = "failing" /\ remains # "reinit"
       => /\ "sensor" \in hw => "stop_sensor" \in Left \/ remains = "sensor"
          /\ hw \cap {"vif", "vif_port"} # {} => "stop_vif" \in Left
          /\ hw \cap {"vpe", "vpe_port"} # {} => "stop_vpe" \in Left
          /\ "ch0" \in hw => "destroy_ch0" \in Left
          /\ "ch1" \in hw => "destroy_ch1" \in Left
          /\ "vif_vpe" \in links => "unbind_vif" \in Left
          /\ "vpe_ch0" \in links => "unbind_ch0" \in Left
          /\ "vpe_ch1" \in links => "unbind_ch1" \in Left
          /\ "output" \in objs => "free_output" \in Left
          /\ "dual" \in objs => "destroy_ch1" \in Left
          /\ "dual_output" \in objs => "free_dual_output" \in Left
          /\ objs \cap {"audio", "imu", "eis", "osd"} # {} => "free_peripherals" \in Left
    /\ phase \in {"ended", "teardown"} /\ pipeline_started = 0 => remains = "reinit" \/ Empty
    /\ phase = "exited" => remains = "reinit" \/ Empty

(* What is bound is unbound before an end of it is stopped.                *)
UnboundFirst ==
    /\ phase = "reinit" =>
          /\ "vpe_ch1" \in links => "unbind_ch1" \in Left
          /\ "vpe_ch0" \in links => "unbind_ch0" \in Left \/ "bind_ch0" \notin Left
          /\ "vif_vpe" \in links /\ "vpe" \in Left => "unbind_vif" \in Left
    /\ phase = "failing" =>
          /\ "vpe_ch1" \notin links
          /\ "vpe_ch0" \in links /\ Left \cap {"stop_ch0", "destroy_ch0", "stop_vpe"} # {}
                => "unbind_ch0" \in Left
          /\ "vif_vpe" \in links /\ Left \cap {"stop_vpe", "stop_vif", "stop_sensor"} # {}
                => "unbind_vif" \in Left

(* Who runs when.                                                          *)
Threads ==
    /\ phase \in {"controls", "loop", "reinit"} => pipeline_started = 1
    /\ phase = "start" => pipeline_started = 0
    /\ rpc # "none" => \/ phase \in {"controls", "loop"}
                       \/ phase = "ended" /\ pipeline_started = 1
                       \/ phase \in {"reinit", "teardown"} /\ "rec_join" \in Left
    /\ phase \in {"start", "failing", "exited"} => apc = "none"
    /\ phase = "reinit" => apc = "none" \/ "ae_join" \in Left \/ "ae" \notin Left
    /\ phase = "teardown" => apc = "none" \/ "ae_join" \in Left

PipeInv ==
    /\ TypeOK /\ InOrder /\ Complete /\ Built /\ Made /\ TakenDown /\ UnboundFirst
    /\ Threads /\ LinkEndsExist /\ NeverStuck /\ DualOutlivesThread

(* The main thread is at a step.                                           *)
At(step) ==
    LET c == Course(phase)
    IN  /\ step \in Left /\ step \in DOMAIN c
        /\ \A s \in Left : s \in DOMAIN c /\ (s = step \/ c[step] < c[s])
        /\ \A s \in DOMAIN c :
              /\ c[step] < c[s]
              /\ s \in Required \/ (phase = "reinit" /\ {step, s} \subseteq Aspect)
              => s \in Left

--------------------------------------------------------------------------------
(* Courses.                                                                *)

\* Places are numbers.
LEMMA Places == \A p : \A s \in DOMAIN Course(p) : Course(p)[s] \in Nat
<1> TAKE p
<1>1. CASE p = "start"
  BY <1>1 DEF Course, StartCourse
<1>2. CASE p = "controls"
  BY <1>2 DEF Course, ControlsCourse
<1>3. CASE p = "reinit"
  BY <1>3 DEF Course, ReinitCourse
<1>4. CASE p = "failing"
  BY <1>4 DEF Course, FailingCourse
<1>5. CASE p = "teardown"
  BY <1>5 DEF Course, TeardownCourse
<1>6. CASE p \notin {"start", "controls", "reinit", "failing", "teardown"}
  BY <1>6 DEF Course
<1> QED BY <1>1, <1>2, <1>3, <1>4, <1>5, <1>6

\* A course that is taken up to one step and goes on with later ones.
LEMMA GoesOn ==
    ASSUME NEW c, \A s \in DOMAIN c : c[s] \in Nat,
           NEW s, Along(c, s), NEW t, Along(c, t),
           \A a \in Range(s), b \in Range(t) : c[a] < c[b]
    PROVE  Along(c, s \o t) /\ Range(s \o t) = Range(s) \cup Range(t)
<1> DEFINE D == DOMAIN c
<1>1. s \in Seq(D) /\ t \in Seq(D)
  BY DEF Along
<1>2. /\ s \o t \in Seq(D) /\ Len(s) \in Nat /\ Len(t) \in Nat
      /\ DOMAIN s = 1 .. Len(s) /\ DOMAIN t = 1 .. Len(t)
      /\ DOMAIN (s \o t) = 1 .. Len(s) + Len(t)
      /\ \A i \in 1 .. Len(s) : (s \o t)[i] = s[i]
      /\ \A i \in 1 .. Len(t) : (s \o t)[Len(s) + i] = t[i]
  BY <1>1
<1> HIDE DEF D
<1>3. \A k \in DOMAIN (s \o t) : \/ k \in DOMAIN s /\ (s \o t)[k] = s[k]
                                 \/ /\ k > Len(s) /\ k - Len(s) \in DOMAIN t
                                    /\ (s \o t)[k] = t[k - Len(s)]
  <2> SUFFICES ASSUME NEW k \in 1 .. Len(s) + Len(t), k > Len(s)
               PROVE  k - Len(s) \in 1 .. Len(t) /\ (s \o t)[k] = t[k - Len(s)]
    BY <1>2
  <2>1. k - Len(s) \in 1 .. Len(t) /\ k = Len(s) + (k - Len(s))
    BY <1>2
  <2> QED BY <2>1, <1>2
<1>4. Range(s \o t) \subseteq Range(s) \cup Range(t)
  BY <1>3 DEF Range
<1>5. \A i \in DOMAIN s : s[i] \in Range(s \o t)
  BY <1>2 DEF Range
<1>6. \A i \in DOMAIN t : t[i] \in Range(s \o t)
  <2> SUFFICES ASSUME NEW i \in DOMAIN t PROVE t[i] \in Range(s \o t)
    OBVIOUS
  <2>1. Len(s) + i \in DOMAIN (s \o t) /\ (s \o t)[Len(s) + i] = t[i]
    BY <1>2
  <2> QED BY <2>1 DEF Range
<1>7. \A i, j \in DOMAIN (s \o t) : i < j => c[(s \o t)[i]] < c[(s \o t)[j]]
  <2> SUFFICES ASSUME NEW i \in DOMAIN (s \o t), NEW j \in DOMAIN (s \o t), i < j
               PROVE  c[(s \o t)[i]] < c[(s \o t)[j]]
    OBVIOUS
  <2>1. CASE j \in DOMAIN s
    <3>1. i \in DOMAIN s
      BY <2>1, <1>2
    <3> QED BY <2>1, <3>1, <1>2 DEF Along
  <2>2. CASE i \notin DOMAIN s
    <3>1. j \notin DOMAIN s
      BY <2>2, <1>2
    <3>2. /\ i - Len(s) \in DOMAIN t /\ j - Len(s) \in DOMAIN t
          /\ i - Len(s) < j - Len(s)
          /\ (s \o t)[i] = t[i - Len(s)] /\ (s \o t)[j] = t[j - Len(s)]
      BY <2>2, <3>1, <1>2, <1>3
    <3> QED BY <3>2 DEF Along
  <2>3. CASE i \in DOMAIN s /\ j \notin DOMAIN s
    <3>1. (s \o t)[i] \in Range(s) /\ (s \o t)[j] \in Range(t)
      BY <2>3, <1>2, <1>3 DEF Range
    <3> QED BY <3>1
  <2> QED BY <2>1, <2>2, <2>3
<1>8. Range(s \o t) = Range(s) \cup Range(t)
  <2>1. \A x \in Range(s) : x \in Range(s \o t)
    BY <1>5 DEF Range
  <2>2. \A x \in Range(t) : x \in Range(s \o t)
    BY <1>6 DEF Range
  <2> QED BY <1>4, <2>1, <2>2
<1> QED BY <1>2, <1>7, <1>8 DEF Along, D

\* Without its first step, what is left comes later.
LEMMA Onward ==
    ASSUME NEW c, \A s \in DOMAIN c : c[s] \in Nat,
           NEW t, Along(c, t), t # <<>>
    PROVE  /\ Head(t) \in Range(t) /\ Along(c, Tail(t))
           /\ Range(Tail(t)) = Range(t) \ {Head(t)}
           /\ \A s \in Range(t) : s \in DOMAIN c /\ (s = Head(t) \/ c[Head(t)] < c[s])
<1> DEFINE D == DOMAIN c
           u == Tail(t)
<1>1. t \in Seq(D)
  BY DEF Along
<1>2. \A i, j \in DOMAIN t : i < j => c[t[i]] < c[t[j]]
  BY DEF Along
<1> HIDE DEF D
<1>3. /\ Len(t) \in Nat /\ Len(t) >= 1 /\ DOMAIN t = 1 .. Len(t)
      /\ Head(t) = t[1] /\ DOMAIN u = 1 .. Len(t) - 1
      /\ u \in Seq(D) /\ \A i \in 1 .. Len(t) - 1 : u[i] = t[i + 1]
  BY <1>1
<1> HIDE DEF u
<1>4. \A i \in DOMAIN t : t[i] \in D
  BY <1>1
<1>5. Head(t) \in Range(t)
  BY <1>3 DEF Range
<1>6. \A i \in DOMAIN t : i = 1 \/ c[t[1]] < c[t[i]]
  BY <1>2, <1>3
<1>7. \A i \in DOMAIN u : u[i] \in Range(t) /\ u[i] # t[1]
  <2> SUFFICES ASSUME NEW i \in DOMAIN u PROVE u[i] \in Range(t) /\ u[i] # t[1]
    OBVIOUS
  <2>1. i + 1 \in DOMAIN t /\ u[i] = t[i + 1] /\ 1 \in DOMAIN t /\ 1 # i + 1
    BY <1>3
  <2>2. c[t[1]] < c[t[i + 1]] /\ c[t[1]] \in Nat
    BY <2>1, <1>4, <1>6 DEF D
  <2> QED BY <2>1, <2>2 DEF Range
<1>8. \A i \in DOMAIN t : t[i] = t[1] \/ t[i] \in Range(u)
  <2> SUFFICES ASSUME NEW i \in DOMAIN t, i # 1 PROVE t[i] \in Range(u)
    OBVIOUS
  <2>1. i - 1 \in DOMAIN u /\ u[i - 1] = t[i]
    BY <1>3
  <2> QED BY <2>1 DEF Range
<1>9. Range(u) = Range(t) \ {Head(t)}
  <2>1. \A x \in Range(u) : x \in Range(t) /\ x # Head(t)
    BY <1>3, <1>7 DEF Range
  <2>2. \A x \in Range(t) : x = Head(t) \/ x \in Range(u)
    BY <1>3, <1>8 DEF Range
  <2> QED BY <2>1, <2>2
<1>10. Along(c, u)
  <2>1. \A i, j \in DOMAIN u : i < j => c[u[i]] < c[u[j]]
    <3> SUFFICES ASSUME NEW i \in DOMAIN u, NEW j \in DOMAIN u, i < j
                 PROVE  c[u[i]] < c[u[j]]
      OBVIOUS
    <3>1. /\ i + 1 \in DOMAIN t /\ j + 1 \in DOMAIN t /\ i + 1 < j + 1
          /\ u[i] = t[i + 1] /\ u[j] = t[j + 1]
      BY <1>3
    <3> QED BY <3>1, <1>2
  <2> QED BY <2>1, <1>3 DEF Along, D
<1>11. \A s \in Range(t) : s \in DOMAIN c /\ (s = Head(t) \/ c[Head(t)] < c[s])
  BY <1>3, <1>4, <1>6 DEF Range, D
<1> QED BY <1>5, <1>9, <1>10, <1>11 DEF u

\* At a step, nothing that comes before it is left, and all that is required
\* after it.
LEMMA AtStep ==
    ASSUME PipeInv, NEW step, Do(step)
    PROVE  At(step)
<1>1. InOrder /\ Complete /\ todo # <<>> /\ Head(todo) = step
  BY DEF PipeInv, Do
<1>2. /\ step \in Left
      /\ \A s \in Left : /\ s \in DOMAIN Course(phase)
                         /\ s = step \/ Course(phase)[step] < Course(phase)[s]
  BY <1>1, Places, Onward DEF InOrder, Left
<1> QED BY <1>1, <1>2 DEF At, Complete

\* Taking a step leaves the others, in order.
LEMMA Popping ==
    ASSUME PipeInv, NEW step, Do(step), Popped
    PROVE  Left' = Left \ {step} /\ InOrder' /\ Complete'
<1>1. InOrder /\ Complete /\ todo # <<>> /\ Head(todo) = step /\ todo' = Tail(todo)
      /\ phase' = phase /\ pipeline_started' = pipeline_started
  BY DEF PipeInv, Do, Popped, Pop
<1>2. At(step)
  BY AtStep
<1>3. Course(phase') = Course(phase)
  BY <1>1
<1>4. Left' = Left \ {step} /\ InOrder'
  <2>1. /\ Along(Course(phase), Tail(todo))
        /\ Range(Tail(todo)) = Range(todo) \ {step}
    BY <1>1, Places, Onward DEF InOrder
  <2> QED BY <2>1, <1>1, <1>3 DEF InOrder, Left
<1>5. Complete'
  <2>1. Required' = Required
    BY <1>1, <1>3 DEF Required
  <2>2. \A a \in Left', b \in DOMAIN Course(phase) :
           /\ Course(phase)[a] < Course(phase)[b]
           /\ b \in Required \/ (phase = "reinit" /\ {a, b} \subseteq Aspect)
           => b \in Left'
    <3> SUFFICES ASSUME NEW a \in Left', NEW b \in DOMAIN Course(phase),
                        Course(phase)[a] < Course(phase)[b],
                        b \in Required \/ (phase = "reinit" /\ {a, b} \subseteq Aspect)
                 PROVE  b \in Left'
      OBVIOUS
    <3>1. a \in Left /\ a # step
      BY <1>4
    <3>2. b \in Left
      BY <3>1, <1>1 DEF Complete
    <3>3. Course(phase)[step] < Course(phase)[a] /\ a \in DOMAIN Course(phase)
          /\ step \in DOMAIN Course(phase)
      BY <3>1, <1>2 DEF At
    <3>4. b # step
      BY <3>3, Places
    <3> QED BY <3>2, <3>4, <1>4
  <2> QED BY <2>1, <2>2, <1>1, <1>3, <1>4 DEF Complete
<1> QED BY <1>4, <1>5

--------------------------------------------------------------------------------
(* Steps of the main thread that are taken.                                *)

\* The sensor is enabled.
LEMMA SensorOn ==
    ASSUME PipeInv, Enable("sensor", {"sensor"}), Popped
    PROVE  PipeInv'
<1>1. /\ At("sensor") /\ "sensor" \in Left /\ Left' = Left \ {"sensor"}
      /\ InOrder' /\ Complete'
  BY AtStep, Popping DEF At, Enable
<1>2. phase = "start"
  BY <1>1 DEF At, Course, ControlsCourse, ReinitCourse, FailingCourse, TeardownCourse
<1>3. TypeOK'
  BY <1>2 DEF PipeInv, TypeOK, FrontEnd, rec, ae, Enable, Popped, Fail, FailLeaving
<1>4. Built' /\ Made'
  BY <1>1, <1>2 DEF PipeInv, Built, Made, Enable, Fail, FailLeaving
<1>5. TakenDown'
  BY <1>2 DEF TakenDown, Popped
<1>6. UnboundFirst'
  BY <1>2 DEF UnboundFirst, Popped
<1>7. Threads'
  BY <1>2 DEF PipeInv, Threads, rec, ae, Enable, Popped
<1>8. LinkEndsExist'
  BY DEF PipeInv, LinkEndsExist, Enable
<1>9. NeverStuck' /\ DualOutlivesThread'
  BY DEF PipeInv, NeverStuck, DualOutlivesThread, rec, Enable
<1> QED BY <1>1, <1>3, <1>4, <1>5, <1>6, <1>7, <1>8, <1>9 DEF PipeInv

\* The VIF and its port are enabled.
LEMMA VifOn ==
    ASSUME PipeInv, Enable("vif", {"vif", "vif_port"}), Popped
    PROVE  PipeInv'
<1>1. /\ At("vif") /\ "vif" \in Left /\ Left' = Left \ {"vif"}
      /\ InOrder' /\ Complete'
  BY AtStep, Popping DEF At, Enable
<1>2. phase = "start"
  BY <1>1 DEF At, Course, ControlsCourse, ReinitCourse, FailingCourse, TeardownCourse
<1>3. TypeOK'
  BY <1>2 DEF PipeInv, TypeOK, FrontEnd, rec, ae, Enable, Popped, Fail, FailLeaving
<1>4. Built' /\ Made'
  BY <1>1, <1>2 DEF PipeInv, Built, Made, Enable, Fail, FailLeaving
<1>5. TakenDown'
  BY <1>2 DEF TakenDown, Popped
<1>6. UnboundFirst'
  BY <1>2 DEF UnboundFirst, Popped
<1>7. Threads'
  BY <1>2 DEF PipeInv, Threads, rec, ae, Enable, Popped
<1>8. LinkEndsExist'
  BY DEF PipeInv, LinkEndsExist, Enable
<1>9. NeverStuck' /\ DualOutlivesThread'
  BY DEF PipeInv, NeverStuck, DualOutlivesThread, rec, Enable
<1> QED BY <1>1, <1>3, <1>4, <1>5, <1>6, <1>7, <1>8, <1>9 DEF PipeInv

\* The VPE and its port are enabled.
LEMMA VpeOn ==
    ASSUME PipeInv, Enable("vpe", {"vpe", "vpe_port"}), Popped
    PROVE  PipeInv'
<1>1. /\ At("vpe") /\ "vpe" \in Left /\ Left' = Left \ {"vpe"}
      /\ InOrder' /\ Complete'
  BY AtStep, Popping DEF At, Enable
<1>2. phase \in {"start", "reinit"}
  BY <1>1 DEF At, Course, ControlsCourse, FailingCourse, TeardownCourse
<1>3. TypeOK'
  BY <1>1, <1>2 DEF PipeInv, TypeOK, FrontEnd, rec, ae, Enable, Popped
<1>4. Built' /\ Made'
  BY <1>1 DEF PipeInv, Built, Made, Enable, Popped, Fail, FailLeaving
<1>5. TakenDown'
  BY <1>2 DEF TakenDown, Popped
<1>6. UnboundFirst'
  BY <1>1 DEF PipeInv, UnboundFirst, Enable, Popped
<1>7. Threads'
  BY <1>1 DEF PipeInv, Threads, rec, ae, Enable, Popped
<1>8. LinkEndsExist'
  BY DEF PipeInv, LinkEndsExist, Enable
<1>9. NeverStuck' /\ DualOutlivesThread'
  BY DEF PipeInv, NeverStuck, DualOutlivesThread, rec, Enable
<1> QED BY <1>1, <1>3, <1>4, <1>5, <1>6, <1>7, <1>8, <1>9 DEF PipeInv

\* Channel 0 is created and receives.
LEMMA VencOn ==
    ASSUME PipeInv, Enable("ch0", {"ch0"}), Popped
    PROVE  PipeInv'
<1>1. /\ At("ch0") /\ "ch0" \in Left /\ Left' = Left \ {"ch0"}
      /\ InOrder' /\ Complete'
  BY AtStep, Popping DEF At, Enable
<1>2. phase \in {"start", "reinit"}
  BY <1>1 DEF At, Course, ControlsCourse, FailingCourse, TeardownCourse
<1>3. TypeOK'
  BY <1>1, <1>2 DEF PipeInv, TypeOK, Channels, rec, ae, Enable, Popped, Fail, FailLeaving
<1>4. Built' /\ Made'
  BY <1>1 DEF PipeInv, Built, Made, Channels, Enable, Popped, Fail, FailLeaving
<1>5. TakenDown'
  BY <1>2 DEF TakenDown, Popped
<1>6. UnboundFirst'
  BY <1>1 DEF PipeInv, UnboundFirst, Enable, Popped
<1>7. Threads'
  BY <1>1 DEF PipeInv, Threads, rec, ae, Enable, Popped
<1>8. LinkEndsExist'
  BY DEF PipeInv, LinkEndsExist, Enable
<1>9. NeverStuck' /\ DualOutlivesThread'
  BY DEF PipeInv, NeverStuck, DualOutlivesThread, rec, Enable
<1> QED BY <1>1, <1>3, <1>4, <1>5, <1>6, <1>7, <1>8, <1>9 DEF PipeInv

\* The VIF is bound: both ends stand.
LEMMA VifBound ==
    ASSUME PipeInv, BindVif, Popped
    PROVE  PipeInv'
<1>1. /\ At("bind_vif") /\ "bind_vif" \in Left /\ Left' = Left \ {"bind_vif"}
      /\ InOrder' /\ Complete'
  BY AtStep, Popping DEF At, BindVif
<1>2. phase \in {"start", "reinit"}
  BY <1>1 DEF At, Course, ControlsCourse, FailingCourse, TeardownCourse
<1>3. phase = "start" => Left \cap {"vif", "vpe"} = {}
  BY <1>1 DEF At, Course, StartCourse
<1>4. phase = "reinit" => Left \cap {"vif", "vpe"} = {}
  BY <1>1 DEF At, Course, ReinitCourse
<1>5. TypeOK'
  BY <1>1, <1>2, <1>3 DEF PipeInv, TypeOK, Channels, Ends, rec, ae, kernel, BindVif,
     Popped
<1>6. Built' /\ Made'
  BY <1>1 DEF PipeInv, TypeOK, Built, Made, BindVif, Popped, Fail, FailLeaving
<1>7. TakenDown'
  BY <1>2 DEF TakenDown, Popped
<1>8. UnboundFirst'
  BY <1>1, <1>2, <1>4 DEF PipeInv, UnboundFirst, BindVif, Popped
<1>9. Threads'
  BY <1>1 DEF PipeInv, Threads, rec, ae, BindVif, Popped
<1>10. LinkEndsExist'
  BY <1>2, <1>3, <1>4 DEF PipeInv, LinkEndsExist, Ends, Built, BindVif
<1>11. NeverStuck' /\ DualOutlivesThread'
  BY DEF PipeInv, NeverStuck, DualOutlivesThread, rec, BindVif
<1> QED BY <1>1, <1>5, <1>6, <1>7, <1>8, <1>9, <1>10, <1>11 DEF PipeInv

\* Channel 0 is bound: both ends stand.
LEMMA VencBound ==
    ASSUME PipeInv, BindVenc, Popped
    PROVE  PipeInv'
<1>1. /\ At("bind_ch0") /\ "bind_ch0" \in Left /\ Left' = Left \ {"bind_ch0"}
      /\ InOrder' /\ Complete'
  BY AtStep, Popping DEF At, BindVenc
<1>2. phase \in {"start", "reinit"}
  BY <1>1 DEF At, Course, ControlsCourse, FailingCourse, TeardownCourse
<1>3. phase = "start" => Left \cap {"vpe", "ch0"} = {}
  BY <1>1 DEF At, Course, StartCourse
<1>4. phase = "reinit" => Left \cap {"vpe", "ch0"} = {}
  BY <1>1 DEF At, Course, ReinitCourse
<1>5. TypeOK'
  BY <1>2, <1>3, <1>4 DEF PipeInv, TypeOK, Ends, rec, ae, BindVenc, Popped, Fail, FailLeaving
<1>6. Built' /\ Made'
  BY <1>1 DEF PipeInv, Built, Made, BindVenc, Popped, Fail, FailLeaving
<1>7. TakenDown'
  BY <1>2 DEF TakenDown, Popped
<1>8. UnboundFirst'
  BY <1>1, <1>2 DEF PipeInv, UnboundFirst, BindVenc, Popped
<1>9. Threads'
  BY <1>1 DEF PipeInv, Threads, rec, ae, BindVenc, Popped
<1>10. LinkEndsExist'
  BY <1>2, <1>3, <1>4 DEF PipeInv, LinkEndsExist, Ends, Built, BindVenc
<1>11. NeverStuck' /\ DualOutlivesThread'
  BY DEF PipeInv, NeverStuck, DualOutlivesThread, rec, BindVenc
<1> QED BY <1>1, <1>5, <1>6, <1>7, <1>8, <1>9, <1>10, <1>11 DEF PipeInv

\* The output is made.
LEMMA OutputMade ==
    ASSUME PipeInv, InitOutput, Popped
    PROVE  PipeInv'
<1>1. /\ At("output") /\ "output" \in Left /\ Left' = Left \ {"output"}
      /\ InOrder' /\ Complete'
  BY AtStep, Popping DEF At, InitOutput
<1>2. phase \in {"start", "reinit"}
  BY <1>1 DEF At, Course, ControlsCourse, FailingCourse, TeardownCourse
<1>3. TypeOK'
  BY <1>1, <1>2 DEF PipeInv, TypeOK, FrontEnd, Channels, Ends, rec, ae, kernel, InitOutput,
     Popped, Fail, FailLeaving
<1>4. Built' /\ Made'
  BY <1>1 DEF PipeInv, Built, Made, kernel, InitOutput, Popped, Fail, FailLeaving
<1>5. TakenDown'
  BY <1>2 DEF TakenDown, Popped
<1>6. UnboundFirst'
  BY <1>1 DEF PipeInv, UnboundFirst, kernel, InitOutput, Popped
<1>7. Threads'
  BY <1>1 DEF PipeInv, Threads, rec, ae, InitOutput, Popped
<1>8. LinkEndsExist'
  BY DEF PipeInv, LinkEndsExist, kernel, InitOutput
<1>9. NeverStuck' /\ DualOutlivesThread'
  BY <1>1 DEF PipeInv, NeverStuck, DualOutlivesThread, rec, kernel, InitOutput
<1> QED BY <1>1, <1>3, <1>4, <1>5, <1>6, <1>7, <1>8, <1>9 DEF PipeInv

\* Peripherals are made.
LEMMA PeripheralsMade ==
    ASSUME PipeInv, NEW made, InitPeripherals(made)
    PROVE  PipeInv'
<1>1. /\ At("peripherals") /\ "peripherals" \in Left /\ Left' = Left \ {"peripherals"}
      /\ InOrder' /\ Complete'
  BY AtStep, Popping DEF At, InitPeripherals
<1>2. phase \in {"start", "reinit"}
  BY <1>1 DEF At, Course, ControlsCourse, FailingCourse, TeardownCourse
<1>3. TypeOK'
  BY DEF PipeInv, TypeOK, rec, ae, kernel, InitPeripherals, Popped
<1>4. Built' /\ Made'
  BY <1>1 DEF PipeInv, Built, Made, kernel, InitPeripherals, Popped
<1>5. TakenDown'
  BY <1>2 DEF TakenDown, InitPeripherals, Popped
<1>6. UnboundFirst'
  BY <1>1 DEF PipeInv, UnboundFirst, kernel, InitPeripherals, Popped
<1>7. Threads'
  BY <1>1 DEF PipeInv, Threads, rec, ae, InitPeripherals, Popped
<1>8. LinkEndsExist'
  BY DEF PipeInv, LinkEndsExist, kernel, InitPeripherals
<1>9. NeverStuck' /\ DualOutlivesThread'
  BY DEF PipeInv, NeverStuck, DualOutlivesThread, rec, kernel, InitPeripherals
<1> QED BY <1>1, <1>3, <1>4, <1>5, <1>6, <1>7, <1>8, <1>9 DEF PipeInv

\* The 3A thread may be started: the VPE is there.
LEMMA AeStarted ==
    ASSUME PipeInv, StartAe
    PROVE  PipeInv'
<1>1. /\ At("ae") /\ "ae" \in Left /\ Left' = Left \ {"ae"}
      /\ InOrder' /\ Complete'
  BY AtStep, Popping DEF At, StartAe
<1>2. phase \in {"controls", "reinit"}
  BY <1>1 DEF At, Course, StartCourse, FailingCourse, TeardownCourse
<1>3. phase = "reinit" => Left \cap {"ae_join", "rec_join"} = {}
  BY <1>1 DEF At, Course, ReinitCourse
<1>4. TypeOK'
  BY DEF PipeInv, TypeOK, rec, ae, kernel, StartAe, Popped
<1>5. Built' /\ Made'
  BY <1>1 DEF PipeInv, Built, Made, kernel, StartAe, Popped
<1>6. TakenDown'
  BY <1>2 DEF TakenDown, StartAe, Popped
<1>7. UnboundFirst'
  BY <1>1 DEF PipeInv, UnboundFirst, kernel, StartAe, Popped
<1>8. Threads'
  BY <1>1, <1>2 DEF PipeInv, Threads, rec, StartAe, Popped
<1>9. LinkEndsExist'
  BY DEF PipeInv, LinkEndsExist, kernel, StartAe
<1>10. NeverStuck' /\ DualOutlivesThread'
  BY DEF PipeInv, NeverStuck, DualOutlivesThread, rec, kernel, StartAe
<1> QED BY <1>1, <1>4, <1>5, <1>6, <1>7, <1>8, <1>9, <1>10 DEF PipeInv

\* Channel 1 may be made and bound.
LEMMA DualStarted ==
    ASSUME PipeInv, StartDual
    PROVE  PipeInv'
<1>1. /\ At("dual") /\ "dual" \in Left /\ Left' = Left \ {"dual"}
      /\ InOrder' /\ Complete'
  BY AtStep, Popping DEF At, StartDual
<1>2. phase = "controls"
  BY <1>1 DEF At, Course, StartCourse, ReinitCourse, FailingCourse, TeardownCourse
<1>3. phase = "controls" => "vpe" \notin Left
  BY <1>1 DEF At, Course, ControlsCourse
<1>4. TypeOK'
  BY <1>2 DEF PipeInv, TypeOK, FrontEnd, Channels, Ends, rec, ae, kernel, StartDual, Popped
<1>5. Built' /\ Made'
  BY <1>1, <1>2 DEF PipeInv, Built, Made, StartDual, Popped
<1>6. TakenDown'
  BY <1>2 DEF TakenDown, StartDual, Popped
<1>7. UnboundFirst'
  BY <1>2 DEF UnboundFirst, StartDual, Popped
<1>8. Threads'
  BY <1>2 DEF PipeInv, Threads, StartDual, Popped
<1>9. LinkEndsExist'
  BY <1>2, <1>3 DEF PipeInv, LinkEndsExist, Ends, Built, StartDual
<1>10. NeverStuck' /\ DualOutlivesThread'
  BY DEF PipeInv, NeverStuck, DualOutlivesThread, rec, StartDual
<1> QED BY <1>1, <1>4, <1>5, <1>6, <1>7, <1>8, <1>9, <1>10 DEF PipeInv

\* So may its output.
LEMMA DualOutputMade ==
    ASSUME PipeInv, InitDualOutput
    PROVE  PipeInv'
<1>1. /\ At("dual_output") /\ "dual_output" \in Left /\ Left' = Left \ {"dual_output"}
      /\ InOrder' /\ Complete'
  BY AtStep, Popping DEF At, InitDualOutput
<1>2. phase = "controls"
  BY <1>1 DEF At, Course, StartCourse, ReinitCourse, FailingCourse, TeardownCourse
<1>3. TypeOK'
  BY <1>2 DEF PipeInv, TypeOK, rec, ae, kernel, InitDualOutput, Popped
<1>4. Built' /\ Made'
  BY <1>1 DEF PipeInv, Built, Made, kernel, InitDualOutput, Popped
<1>5. TakenDown'
  BY <1>2 DEF TakenDown, InitDualOutput, Popped
<1>6. UnboundFirst'
  BY <1>2 DEF UnboundFirst, InitDualOutput, Popped
<1>7. Threads'
  BY <1>2 DEF PipeInv, Threads, InitDualOutput, Popped
<1>8. LinkEndsExist'
  BY DEF PipeInv, LinkEndsExist, kernel, InitDualOutput
<1>9. NeverStuck' /\ DualOutlivesThread'
  BY DEF PipeInv, NeverStuck, DualOutlivesThread, rec, kernel, InitDualOutput
<1> QED BY <1>1, <1>3, <1>4, <1>5, <1>6, <1>7, <1>8, <1>9 DEF PipeInv

\* The recording thread starts only on a channel 1 that exists.
LEMMA RecStarted ==
    ASSUME PipeInv, StartRecThread
    PROVE  PipeInv'
<1>1. /\ At("rec_thread") /\ "rec_thread" \in Left /\ Left' = Left \ {"rec_thread"}
      /\ InOrder' /\ Complete'
  BY AtStep, Popping DEF At, StartRecThread
<1>2. phase = "controls"
  BY <1>1 DEF At, Course, StartCourse, ReinitCourse, FailingCourse, TeardownCourse
<1>3. TypeOK'
  BY DEF PipeInv, TypeOK, rec, ae, kernel, StartRecThread, Popped
<1>4. Built' /\ Made'
  BY <1>1 DEF PipeInv, Built, Made, kernel, StartRecThread, Popped
<1>5. TakenDown'
  BY <1>2 DEF TakenDown, StartRecThread, Popped
<1>6. UnboundFirst'
  BY <1>2 DEF UnboundFirst, StartRecThread, Popped
<1>7. Threads'
  BY <1>2 DEF PipeInv, Threads, StartRecThread, Popped
<1>8. LinkEndsExist'
  BY DEF PipeInv, LinkEndsExist, kernel, StartRecThread
<1>9. NeverStuck' /\ DualOutlivesThread'
  BY DEF PipeInv, NeverStuck, DualOutlivesThread, rec, kernel, StartRecThread
<1> QED BY <1>1, <1>3, <1>4, <1>5, <1>6, <1>7, <1>8, <1>9 DEF PipeInv

\* The peripherals are freed.
LEMMA PeripheralsFreed ==
    ASSUME PipeInv, FreePeripherals
    PROVE  PipeInv'
<1>1. /\ At("free_peripherals")
      /\ "free_peripherals" \in Left /\ Left' = Left \ {"free_peripherals"}
      /\ InOrder' /\ Complete'
  BY AtStep, Popping DEF At, FreePeripherals
<1>2. phase \in {"reinit", "teardown"}
  BY <1>1 DEF At, Course, StartCourse, ControlsCourse, FailingCourse
<1>3. TypeOK'
  BY DEF PipeInv, TypeOK, rec, ae, kernel, FreePeripherals, Popped
<1>4. Built' /\ Made'
  BY <1>1 DEF PipeInv, Built, Made, kernel, FreePeripherals, Popped
<1>5. TakenDown'
  BY <1>1, <1>2 DEF PipeInv, TakenDown, kernel, Complete, FreePeripherals, Popped
<1>6. UnboundFirst'
  BY <1>1 DEF PipeInv, UnboundFirst, kernel, FreePeripherals, Popped
<1>7. Threads'
  BY <1>1 DEF PipeInv, Threads, rec, ae, FreePeripherals, Popped
<1>8. LinkEndsExist'
  BY DEF PipeInv, LinkEndsExist, kernel, FreePeripherals
<1>9. NeverStuck' /\ DualOutlivesThread'
  BY DEF PipeInv, NeverStuck, DualOutlivesThread, rec, kernel, FreePeripherals
<1> QED BY <1>1, <1>3, <1>4, <1>5, <1>6, <1>7, <1>8, <1>9 DEF PipeInv

\* The output is freed; a reinit makes it again.
LEMMA OutputFreed ==
    ASSUME PipeInv, FreeOutput("free_output", "output")
    PROVE  PipeInv'
<1>1. /\ At("free_output")
      /\ "free_output" \in Left /\ Left' = Left \ {"free_output"}
      /\ InOrder' /\ Complete'
  BY AtStep, Popping DEF At, FreeOutput
<1>2. phase \in {"reinit", "failing", "teardown"}
  BY <1>1 DEF At, Course, StartCourse, ControlsCourse
<1>3. phase = "reinit" => "output" \in Left
  BY <1>1 DEF At, Course, ReinitCourse, Required, Aspect
<1>4. TypeOK'
  BY DEF PipeInv, TypeOK, rec, ae, kernel, FreeOutput, Popped
<1>5. Built' /\ Made'
  BY <1>1, <1>2, <1>3 DEF PipeInv, Built, Made, kernel, FreeOutput, Popped
<1>6. TakenDown'
  BY <1>1, <1>2 DEF PipeInv, TakenDown, kernel, Complete, FreeOutput, Popped
<1>7. UnboundFirst'
  BY <1>1 DEF PipeInv, UnboundFirst, kernel, FreeOutput, Popped
<1>8. Threads'
  BY <1>1 DEF PipeInv, Threads, rec, ae, FreeOutput, Popped
<1>9. LinkEndsExist'
  BY DEF PipeInv, LinkEndsExist, kernel, FreeOutput
<1>10. NeverStuck' /\ DualOutlivesThread'
  BY DEF PipeInv, NeverStuck, DualOutlivesThread, rec, kernel, FreeOutput
<1> QED BY <1>1, <1>4, <1>5, <1>6, <1>7, <1>8, <1>9, <1>10 DEF PipeInv

\* The output of channel 1 is freed.
LEMMA DualOutputFreed ==
    ASSUME PipeInv, FreeOutput("free_dual_output", "dual_output")
    PROVE  PipeInv'
<1>1. /\ At("free_dual_output")
      /\ "free_dual_output" \in Left /\ Left' = Left \ {"free_dual_output"}
      /\ InOrder' /\ Complete'
  BY AtStep, Popping DEF At, FreeOutput
<1>2. phase \in {"reinit", "teardown"}
  BY <1>1 DEF At, Course, StartCourse, ControlsCourse, FailingCourse
<1>3. TypeOK'
  BY DEF PipeInv, TypeOK, rec, ae, kernel, FreeOutput, Popped
<1>4. Built' /\ Made'
  BY <1>1 DEF PipeInv, Built, Made, kernel, FreeOutput, Popped
<1>5. TakenDown'
  BY <1>1, <1>2 DEF PipeInv, TakenDown, kernel, Complete, FreeOutput, Popped
<1>6. UnboundFirst'
  BY <1>1 DEF PipeInv, UnboundFirst, kernel, FreeOutput, Popped
<1>7. Threads'
  BY <1>1 DEF PipeInv, Threads, rec, ae, FreeOutput, Popped
<1>8. LinkEndsExist'
  BY DEF PipeInv, LinkEndsExist, kernel, FreeOutput
<1>9. NeverStuck' /\ DualOutlivesThread'
  BY DEF PipeInv, NeverStuck, DualOutlivesThread, Threads, rec, kernel, FreeOutput
<1> QED BY <1>1, <1>3, <1>4, <1>5, <1>6, <1>7, <1>8, <1>9 DEF PipeInv

\* The recording thread is joined.
LEMMA RecJoined ==
    ASSUME PipeInv, RecJoin
    PROVE  PipeInv'
<1>1. /\ At("rec_join") /\ "rec_join" \in Left /\ Left' = Left \ {"rec_join"}
      /\ InOrder' /\ Complete'
  BY AtStep, Popping DEF At, RecJoin
<1>2. phase \in {"reinit", "teardown"}
  BY <1>1 DEF At, Course, StartCourse, ControlsCourse, FailingCourse
<1>3. TypeOK'
  BY DEF PipeInv, TypeOK, ae, kernel, RecJoin, Popped
<1>4. Built' /\ Made'
  BY <1>1 DEF PipeInv, Built, Made, kernel, RecJoin, Popped
<1>5. TakenDown'
  BY <1>1, <1>2 DEF PipeInv, TakenDown, kernel, Complete, RecJoin, Popped
<1>6. UnboundFirst'
  BY <1>1 DEF PipeInv, UnboundFirst, kernel, RecJoin, Popped
<1>7. Threads'
  BY <1>1 DEF PipeInv, Threads, ae, RecJoin, Popped
<1>8. LinkEndsExist'
  BY DEF PipeInv, LinkEndsExist, kernel, RecJoin
<1>9. NeverStuck' /\ DualOutlivesThread'
  BY DEF NeverStuck, DualOutlivesThread, Do, kernel, RecJoin
<1> QED BY <1>1, <1>3, <1>4, <1>5, <1>6, <1>7, <1>8, <1>9 DEF PipeInv

\* The 3A thread is joined.
LEMMA AeJoined ==
    ASSUME PipeInv, AeJoin
    PROVE  PipeInv'
<1>1. /\ At("ae_join") /\ "ae_join" \in Left /\ Left' = Left \ {"ae_join"}
      /\ InOrder' /\ Complete'
  BY AtStep, Popping DEF At, AeJoin
<1>2. phase \in {"reinit", "teardown"}
  BY <1>1 DEF At, Course, StartCourse, ControlsCourse, FailingCourse
<1>3. TypeOK'
  BY DEF PipeInv, TypeOK, rec, kernel, AeJoin, Popped
<1>4. Built' /\ Made'
  BY <1>1 DEF PipeInv, Built, Made, kernel, AeJoin, Popped
<1>5. TakenDown'
  BY <1>1 DEF PipeInv, TakenDown, Empty, kernel, AeJoin, Popped
<1>6. UnboundFirst'
  BY <1>1 DEF PipeInv, UnboundFirst, kernel, AeJoin, Popped
<1>7. Threads'
  BY <1>1 DEF PipeInv, Threads, rec, AeJoin, Popped
<1>8. LinkEndsExist'
  BY DEF PipeInv, LinkEndsExist, kernel, AeJoin
<1>9. NeverStuck' /\ DualOutlivesThread'
  BY DEF PipeInv, NeverStuck, DualOutlivesThread, rec, kernel, AeJoin
<1> QED BY <1>1, <1>3, <1>4, <1>5, <1>6, <1>7, <1>8, <1>9 DEF PipeInv

\* Channel 1 is unbound, with the recording thread gone.
LEMMA Ch1Unbound ==
    ASSUME PipeInv, Unbind("unbind_ch1", "vpe_ch1")
    PROVE  PipeInv'
<1>1. /\ At("unbind_ch1") /\ "unbind_ch1" \in Left /\ Left' = Left \ {"unbind_ch1"}
      /\ InOrder' /\ Complete'
  BY AtStep, Popping DEF At, Unbind
<1>2. phase \in {"reinit", "teardown"}
  BY <1>1 DEF At, Course, StartCourse, ControlsCourse, FailingCourse
<1>3. phase = "reinit" => "rec_join" \notin Left
  BY <1>1 DEF At, Course, ReinitCourse
<1>4. phase = "teardown" => "rec_join" \notin Left
  BY <1>1 DEF At, Course, TeardownCourse
<1>5. TypeOK'
  BY <1>1, <1>2, <1>4 DEF PipeInv, TypeOK, FrontEnd, Channels, Ends, rec, ae, kernel,
     Unbind, Popped
<1>6. Built' /\ Made'
  BY <1>1 DEF PipeInv, Built, Made, kernel, Channels, Unbind, Popped
<1>7. TakenDown'
  BY <1>1, <1>2, <1>4 DEF PipeInv, TakenDown, TypeOK, Complete, Unbind, Popped
<1>8. UnboundFirst'
  BY <1>1 DEF PipeInv, TypeOK, UnboundFirst, kernel, Unbind, Popped
<1>9. Threads'
  BY <1>1 DEF PipeInv, Threads, rec, ae, Unbind, Popped
<1>10. LinkEndsExist'
  BY DEF PipeInv, LinkEndsExist, Unbind
<1>11. NeverStuck' /\ DualOutlivesThread'
  BY <1>2, <1>3, <1>4 DEF PipeInv, NeverStuck, DualOutlivesThread, Threads, rec, Unbind
<1> QED BY <1>1, <1>5, <1>6, <1>7, <1>8, <1>9, <1>10, <1>11 DEF PipeInv

\* Channel 0 is unbound, with the recording thread gone.
LEMMA Ch0Unbound ==
    ASSUME PipeInv, Unbind("unbind_ch0", "vpe_ch0")
    PROVE  PipeInv'
<1>1. /\ At("unbind_ch0") /\ "unbind_ch0" \in Left /\ Left' = Left \ {"unbind_ch0"}
      /\ InOrder' /\ Complete'
  BY AtStep, Popping DEF At, Unbind
<1>2. phase \in {"reinit", "failing", "teardown"}
  BY <1>1 DEF At, Course, StartCourse, ControlsCourse
<1>3. phase = "reinit" => "rec_join" \notin Left /\ "bind_ch0" \in Left
  BY <1>1 DEF At, Course, ReinitCourse, Required, Aspect
<1>4. phase = "teardown" => "rec_join" \notin Left
  BY <1>1 DEF At, Course, TeardownCourse
<1>5. TypeOK'
  BY <1>2 DEF PipeInv, TypeOK, FrontEnd, Channels, Ends, rec, ae, kernel, Unbind, Popped
<1>6. Built' /\ Made'
  BY <1>1, <1>2, <1>3 DEF PipeInv, Built, Made, Unbind, Popped
<1>7. TakenDown'
  BY <1>1, <1>2 DEF PipeInv, TakenDown, TypeOK, kernel, Complete, Unbind, Popped
<1>8. UnboundFirst'
  BY <1>1 DEF PipeInv, TypeOK, UnboundFirst, Unbind, Popped
<1>9. Threads'
  BY <1>1 DEF PipeInv, Threads, rec, ae, Unbind, Popped
<1>10. LinkEndsExist'
  BY DEF PipeInv, LinkEndsExist, Unbind
<1>11. NeverStuck' /\ DualOutlivesThread'
  BY <1>1, <1>2, <1>3, <1>4 DEF PipeInv, NeverStuck, DualOutlivesThread, Threads, rec,
     Unbind
<1> QED BY <1>1, <1>5, <1>6, <1>7, <1>8, <1>9, <1>10, <1>11 DEF PipeInv

\* The VIF is unbound; a reinit binds it again.
LEMMA VifUnbound ==
    ASSUME PipeInv, Unbind("unbind_vif", "vif_vpe")
    PROVE  PipeInv'
<1>1. /\ At("unbind_vif") /\ "unbind_vif" \in Left /\ Left' = Left \ {"unbind_vif"}
      /\ InOrder' /\ Complete'
  BY AtStep, Popping DEF At, Unbind
<1>2. phase \in {"reinit", "failing", "teardown"}
  BY <1>1 DEF At, Course, StartCourse, ControlsCourse
<1>3. phase = "reinit" => "bind_vif" \in Left
  BY <1>1 DEF At, Course, ReinitCourse, Required, Aspect
<1>4. TypeOK'
  BY <1>2 DEF PipeInv, TypeOK, rec, ae, Unbind, Popped
<1>5. Built' /\ Made'
  BY <1>1, <1>2, <1>3 DEF PipeInv, Built, Made, Unbind, Popped
<1>6. TakenDown'
  BY <1>1, <1>2 DEF PipeInv, TakenDown, TypeOK, Complete, Unbind, Popped
<1>7. UnboundFirst'
  BY <1>1 DEF PipeInv, TypeOK, UnboundFirst, Unbind, Popped
<1>8. Threads'
  BY <1>1 DEF PipeInv, Threads, rec, ae, Unbind, Popped
<1>9. LinkEndsExist'
  BY DEF PipeInv, LinkEndsExist, Unbind
<1>10. NeverStuck' /\ DualOutlivesThread'
  BY DEF PipeInv, NeverStuck, DualOutlivesThread, rec, Unbind
<1> QED BY <1>1, <1>4, <1>5, <1>6, <1>7, <1>8, <1>9, <1>10 DEF PipeInv

\* Channel 1 is stopped after it was unbound.
LEMMA Ch1Stopped ==
    ASSUME PipeInv, StopRecv("stop_ch1", "ch1")
    PROVE  PipeInv'
<1>1. /\ At("stop_ch1") /\ "stop_ch1" \in Left /\ Left' = Left \ {"stop_ch1"}
      /\ InOrder' /\ Complete'
  BY AtStep, Popping DEF At, StopRecv
<1>2. phase \in {"reinit", "teardown"}
  BY <1>1 DEF At, Course, StartCourse, ControlsCourse, FailingCourse
<1>3. phase = "reinit" => "unbind_ch1" \notin Left
  BY <1>1 DEF At, Course, ReinitCourse
<1>4. phase = "teardown" => "unbind_ch1" \notin Left
  BY <1>1 DEF At, Course, TeardownCourse
<1>5. "vpe_ch1" \notin links
  <2>1. CASE phase = "reinit"
    BY <1>3, <2>1 DEF PipeInv, UnboundFirst
  <2>2. CASE phase = "teardown"
    BY <1>1, <1>4, <2>2 DEF PipeInv, TakenDown, Complete, TypeOK
  <2> QED BY <1>2, <2>1, <2>2
<1>6. TypeOK'
  BY DEF PipeInv, TypeOK, rec, ae, StopRecv, Popped
<1>7. Built' /\ Made'
  BY <1>1 DEF PipeInv, Built, Made, StopRecv, Popped
<1>8. TakenDown'
  BY <1>1, <1>2 DEF PipeInv, TakenDown, Complete, StopRecv, Popped
<1>9. UnboundFirst'
  BY <1>1 DEF PipeInv, UnboundFirst, StopRecv, Popped
<1>10. Threads'
  BY <1>1 DEF PipeInv, Threads, rec, ae, StopRecv, Popped
<1>11. LinkEndsExist'
  BY DEF PipeInv, LinkEndsExist, StopRecv
<1>12. NeverStuck' /\ DualOutlivesThread'
  BY <1>5 DEF PipeInv, NeverStuck, DualOutlivesThread, rec, StopRecv, Link
<1> QED BY <1>1, <1>6, <1>7, <1>8, <1>9, <1>10, <1>11, <1>12 DEF PipeInv

\* Channel 0 is stopped after it was unbound.
LEMMA Ch0Stopped ==
    ASSUME PipeInv, StopRecv("stop_ch0", "ch0")
    PROVE  PipeInv'
<1>1. /\ At("stop_ch0") /\ "stop_ch0" \in Left /\ Left' = Left \ {"stop_ch0"}
      /\ InOrder' /\ Complete'
  BY AtStep, Popping DEF At, StopRecv
<1>2. phase \in {"reinit", "failing", "teardown"}
  BY <1>1 DEF At, Course, StartCourse, ControlsCourse
<1>3. phase = "reinit" => "unbind_ch0" \notin Left /\ {"ch0", "bind_ch0"} \subseteq Left
  BY <1>1 DEF At, Course, ReinitCourse, Required, Aspect
<1>4. phase = "failing" => "unbind_ch0" \notin Left
  BY <1>1 DEF At, Course, FailingCourse
<1>5. phase = "teardown" => "unbind_ch0" \notin Left
  BY <1>1 DEF At, Course, TeardownCourse
<1>6. "vpe_ch0" \notin links
  <2>1. CASE phase = "reinit"
    BY <1>3, <2>1 DEF PipeInv, UnboundFirst
  <2>2. CASE phase = "failing"
    BY <1>1, <1>4, <2>2 DEF PipeInv, UnboundFirst
  <2>3. CASE phase = "teardown"
    BY <1>1, <1>5, <2>3 DEF PipeInv, TakenDown, Complete, TypeOK
  <2> QED BY <1>2, <2>1, <2>2, <2>3
<1>7. TypeOK'
  BY DEF PipeInv, TypeOK, rec, ae, StopRecv, Popped
<1>8. Built' /\ Made'
  BY <1>1, <1>2, <1>3 DEF PipeInv, Built, Made, StopRecv, Popped
<1>9. TakenDown'
  BY <1>1, <1>2 DEF PipeInv, TakenDown, Complete, StopRecv, Popped
<1>10. UnboundFirst'
  BY <1>1 DEF PipeInv, UnboundFirst, StopRecv, Popped
<1>11. Threads'
  BY <1>1 DEF PipeInv, Threads, rec, ae, StopRecv, Popped
<1>12. LinkEndsExist'
  BY DEF PipeInv, LinkEndsExist, StopRecv
<1>13. NeverStuck' /\ DualOutlivesThread'
  BY <1>6 DEF PipeInv, NeverStuck, DualOutlivesThread, rec, StopRecv, Link
<1> QED BY <1>1, <1>7, <1>8, <1>9, <1>10, <1>11, <1>12, <1>13 DEF PipeInv

\* Channel 1 goes, unbound and with no thread on it.
LEMMA Ch1Destroyed ==
    ASSUME PipeInv, Destroy("destroy_ch1", "ch1")
    PROVE  PipeInv'
<1>1. /\ At("destroy_ch1") /\ "destroy_ch1" \in Left /\ Left' = Left \ {"destroy_ch1"}
      /\ InOrder' /\ Complete'
  BY AtStep, Popping DEF At, Destroy
<1>2. phase \in {"reinit", "teardown"}
  BY <1>1 DEF At, Course, StartCourse, ControlsCourse, FailingCourse
<1>3. phase = "reinit" => Left \cap {"unbind_ch1", "rec_join"} = {}
  BY <1>1 DEF At, Course, ReinitCourse
<1>4. phase = "teardown" => Left \cap {"unbind_ch1", "rec_join"} = {}
  BY <1>1 DEF At, Course, TeardownCourse
<1>5. "vpe_ch1" \notin links
  <2>1. CASE phase = "reinit"
    BY <1>3, <2>1 DEF PipeInv, UnboundFirst
  <2>2. CASE phase = "teardown"
    BY <1>1, <1>4, <2>2 DEF PipeInv, TakenDown, Complete, TypeOK
  <2> QED BY <1>2, <2>1, <2>2
<1>6. TypeOK'
  BY PipelineAssumption DEF PipeInv, TypeOK, Channels, rec, ae, Destroy, Popped
<1>7. Built' /\ Made'
  BY <1>1 DEF PipeInv, Built, Made, Destroy, Popped
<1>8. TakenDown'
  BY <1>1, <1>2 DEF PipeInv, TakenDown, Complete, Destroy, Popped
<1>9. UnboundFirst'
  BY <1>1 DEF PipeInv, UnboundFirst, Destroy, Popped
<1>10. Threads'
  BY <1>1 DEF PipeInv, Threads, rec, ae, Destroy, Popped
<1>11. LinkEndsExist'
  BY <1>5 DEF PipeInv, LinkEndsExist, Ends, TypeOK, Destroy
<1>12. NeverStuck' /\ DualOutlivesThread'
  BY <1>2, <1>3, <1>4 DEF PipeInv, NeverStuck, DualOutlivesThread, Threads, rec, Destroy
<1> QED BY <1>1, <1>6, <1>7, <1>8, <1>9, <1>10, <1>11, <1>12 DEF PipeInv

\* Channel 0 goes after it was unbound.
LEMMA Ch0Destroyed ==
    ASSUME PipeInv, Destroy("destroy_ch0", "ch0")
    PROVE  PipeInv'
<1>1. /\ At("destroy_ch0") /\ "destroy_ch0" \in Left /\ Left' = Left \ {"destroy_ch0"}
      /\ InOrder' /\ Complete'
  BY AtStep, Popping DEF At, Destroy
<1>2. phase \in {"reinit", "failing", "teardown"}
  BY <1>1 DEF At, Course, StartCourse, ControlsCourse
<1>3. phase = "reinit" => "unbind_ch0" \notin Left /\ {"ch0", "bind_ch0"} \subseteq Left
  BY <1>1 DEF At, Course, ReinitCourse, Required, Aspect
<1>4. phase = "failing" => "unbind_ch0" \notin Left
  BY <1>1 DEF At, Course, FailingCourse
<1>5. phase = "teardown" => "unbind_ch0" \notin Left
  BY <1>1 DEF At, Course, TeardownCourse
<1>6. "vpe_ch0" \notin links
  <2>1. CASE phase = "reinit"
    BY <1>3, <2>1 DEF PipeInv, UnboundFirst
  <2>2. CASE phase = "failing"
    BY <1>1, <1>4, <2>2 DEF PipeInv, UnboundFirst
  <2>3. CASE phase = "teardown"
    BY <1>1, <1>5, <2>3 DEF PipeInv, TakenDown, Complete, TypeOK
  <2> QED BY <1>2, <2>1, <2>2, <2>3
<1>7. TypeOK'
  BY PipelineAssumption DEF PipeInv, TypeOK, Channels, rec, ae, Destroy, Popped
<1>8. Built' /\ Made'
  BY <1>1, <1>2, <1>3 DEF PipeInv, Built, Made, Destroy, Popped
<1>9. TakenDown'
  BY <1>1, <1>2 DEF PipeInv, TakenDown, Complete, Destroy, Popped
<1>10. UnboundFirst'
  BY <1>1 DEF PipeInv, UnboundFirst, Destroy, Popped
<1>11. Threads'
  BY <1>1 DEF PipeInv, Threads, rec, ae, Destroy, Popped
<1>12. LinkEndsExist'
  BY <1>6 DEF PipeInv, LinkEndsExist, Ends, TypeOK, Destroy
<1>13. NeverStuck' /\ DualOutlivesThread'
  BY DEF PipeInv, NeverStuck, DualOutlivesThread, rec, Destroy
<1> QED BY <1>1, <1>7, <1>8, <1>9, <1>10, <1>11, <1>12, <1>13 DEF PipeInv

\* The VPE is disabled with nothing bound to it.
LEMMA VpeStopped ==
    ASSUME PipeInv, Disable("stop_vpe", {"vpe", "vpe_port"})
    PROVE  PipeInv'
<1>1. /\ At("stop_vpe") /\ "stop_vpe" \in Left /\ Left' = Left \ {"stop_vpe"}
      /\ InOrder' /\ Complete'
  BY AtStep, Popping DEF At, Disable
<1>2. phase \in {"reinit", "failing", "teardown"}
  BY <1>1 DEF At, Course, StartCourse, ControlsCourse
<1>3. phase = "reinit" => /\ Left \cap {"unbind_ch1", "unbind_ch0", "unbind_vif"} = {}
                          /\ {"vpe", "bind_ch0"} \subseteq Left
  BY <1>1 DEF At, Course, ReinitCourse, Required, Aspect
<1>4. phase = "failing" => Left \cap {"unbind_ch0", "unbind_vif"} = {}
  BY <1>1 DEF At, Course, FailingCourse
<1>5. phase = "teardown" => Left \cap {"unbind_ch1", "unbind_ch0", "unbind_vif"} = {}
  BY <1>1 DEF At, Course, TeardownCourse
<1>6. "vif_vpe" \notin links /\ "vpe_ch0" \notin links /\ "vpe_ch1" \notin links
  <2>1. CASE phase = "reinit"
    BY <1>3, <2>1 DEF PipeInv, UnboundFirst
  <2>2. CASE phase = "failing"
    BY <1>1, <1>4, <2>2 DEF PipeInv, UnboundFirst
  <2>3. CASE phase = "teardown"
    BY <1>1, <1>5, <2>3 DEF PipeInv, TakenDown, Complete, TypeOK
  <2> QED BY <1>2, <2>1, <2>2, <2>3
<1>7. TypeOK'
  BY DEF PipeInv, TypeOK, rec, ae, Disable, Popped
<1>8. Built' /\ Made'
  BY <1>1, <1>2, <1>3 DEF PipeInv, Built, Made, Disable, Popped
<1>9. TakenDown'
  BY <1>1, <1>2 DEF PipeInv, TakenDown, Complete, Disable, Popped
<1>10. UnboundFirst'
  BY <1>6 DEF UnboundFirst, Disable
<1>11. Threads'
  BY <1>1 DEF PipeInv, Threads, rec, ae, Disable, Popped
<1>12. LinkEndsExist'
  BY <1>6 DEF PipeInv, LinkEndsExist, Ends, TypeOK, Disable
<1>13. NeverStuck' /\ DualOutlivesThread'
  BY DEF PipeInv, NeverStuck, DualOutlivesThread, rec, Disable
<1> QED BY <1>1, <1>7, <1>8, <1>9, <1>10, <1>11, <1>12, <1>13 DEF PipeInv

\* The VIF is disabled after it was unbound.
LEMMA VifStopped ==
    ASSUME PipeInv, Disable("stop_vif", {"vif", "vif_port"})
    PROVE  PipeInv'
<1>1. /\ At("stop_vif") /\ "stop_vif" \in Left /\ Left' = Left \ {"stop_vif"}
      /\ InOrder' /\ Complete'
  BY AtStep, Popping DEF At, Disable
<1>2. phase \in {"failing", "teardown"}
  BY <1>1 DEF At, Course, StartCourse, ControlsCourse, ReinitCourse
<1>3. phase = "failing" => "unbind_vif" \notin Left
  BY <1>1 DEF At, Course, FailingCourse
<1>4. phase = "teardown" => "unbind_vif" \notin Left
  BY <1>1 DEF At, Course, TeardownCourse
<1>5. "vif_vpe" \notin links
  <2>1. CASE phase = "failing"
    BY <1>1, <1>3, <2>1 DEF PipeInv, UnboundFirst
  <2>2. CASE phase = "teardown"
    BY <1>1, <1>4, <2>2 DEF PipeInv, TakenDown, Complete, TypeOK
  <2> QED BY <1>2, <2>1, <2>2
<1>6. TypeOK'
  BY DEF PipeInv, TypeOK, rec, ae, Disable, Popped
<1>7. Built' /\ Made'
  BY <1>2 DEF Built, Made, Disable, Popped
<1>8. TakenDown'
  BY <1>1, <1>2 DEF PipeInv, TakenDown, Complete, Disable, Popped
<1>9. UnboundFirst'
  BY <1>1 DEF PipeInv, UnboundFirst, Disable, Popped
<1>10. Threads'
  BY <1>1 DEF PipeInv, Threads, rec, ae, Disable, Popped
<1>11. LinkEndsExist'
  BY <1>5 DEF PipeInv, LinkEndsExist, Ends, TypeOK, Disable
<1>12. NeverStuck' /\ DualOutlivesThread'
  BY DEF PipeInv, NeverStuck, DualOutlivesThread, rec, Disable
<1> QED BY <1>1, <1>6, <1>7, <1>8, <1>9, <1>10, <1>11, <1>12 DEF PipeInv

\* The sensor is disabled with the VIF unbound.
LEMMA SensorStopped ==
    ASSUME PipeInv, Disable("stop_sensor", {"sensor"})
    PROVE  PipeInv'
<1>1. /\ At("stop_sensor") /\ "stop_sensor" \in Left /\ Left' = Left \ {"stop_sensor"}
      /\ InOrder' /\ Complete'
  BY AtStep, Popping DEF At, Disable
<1>2. phase \in {"failing", "teardown"}
  BY <1>1 DEF At, Course, StartCourse, ControlsCourse, ReinitCourse
<1>3. phase = "failing" => "unbind_vif" \notin Left
  BY <1>1 DEF At, Course, FailingCourse
<1>4. phase = "teardown" => "unbind_vif" \notin Left
  BY <1>1 DEF At, Course, TeardownCourse
<1>5. "vif_vpe" \notin links
  <2>1. CASE phase = "failing"
    BY <1>1, <1>2, <1>3, <2>1 DEF PipeInv, UnboundFirst
  <2>2. CASE phase = "teardown"
    BY <1>1, <1>4, <2>2 DEF PipeInv, TakenDown, Complete, TypeOK
  <2> QED BY <1>2, <2>1, <2>2
<1>6. TypeOK'
  BY DEF PipeInv, TypeOK, rec, ae, Disable, Popped
<1>7. Built' /\ Made'
  BY <1>2 DEF Built, Made, Disable, Popped
<1>8. TakenDown'
  BY <1>1, <1>2 DEF PipeInv, TakenDown, Complete, Disable, Popped
<1>9. UnboundFirst'
  BY <1>1 DEF PipeInv, UnboundFirst, Disable, Popped
<1>10. Threads'
  BY <1>1 DEF PipeInv, Threads, rec, ae, Disable, Popped
<1>11. LinkEndsExist'
  BY DEF PipeInv, LinkEndsExist, Ends, TypeOK, Disable
<1>12. NeverStuck' /\ DualOutlivesThread'
  BY <1>5 DEF PipeInv, NeverStuck, DualOutlivesThread, rec, Disable
<1> QED BY <1>1, <1>6, <1>7, <1>8, <1>9, <1>10, <1>11, <1>12 DEF PipeInv

\* Any other step that is taken: nothing is made or taken down, no thread starts.
LEMMA Harmless ==
    ASSUME PipeInv, TypeOK', Popped,
           NEW step \in {"prepare", "rec_stop", "ae_stop", "drain_ch0", "drain_ch1", "resize",
                         "vif_port", "load"}, Do(step),
           UNCHANGED <<hw, links, recv, dstate, objs, rpc, apc>>
    PROVE  PipeInv'
<1>1. Left' = Left \ {step} /\ InOrder' /\ Complete'
  BY Popping
<1>2. phase' = phase /\ pipeline_started' = pipeline_started /\ remains' = remains
  BY DEF Popped
<1>3. Built' /\ Made'
  BY <1>1, <1>2 DEF PipeInv, Built, Made
<1>4. TakenDown' /\ UnboundFirst'
  BY <1>1, <1>2 DEF PipeInv, TakenDown, UnboundFirst, Empty
<1>5. Threads'
  BY <1>1, <1>2 DEF PipeInv, Threads
<1>6. LinkEndsExist' /\ NeverStuck' /\ DualOutlivesThread'
  BY DEF PipeInv, LinkEndsExist, NeverStuck, DualOutlivesThread
<1> QED BY <1>1, <1>3, <1>4, <1>5, <1>6 DEF PipeInv

--------------------------------------------------------------------------------
(* Steps of the other threads and of the hardware.                         *)

\* They make nothing and take nothing down, and no thread comes or goes.
LEMMA Elsewhere ==
    ASSUME PipeInv, TypeOK', UNCHANGED <<hw, links, recv, dstate, objs, main>>,
           rpc' = "none" <=> rpc = "none", apc' = "none" <=> apc = "none",
           rpc' \in {"check", "get", "write"} => rpc \in {"check", "get", "write"}
    PROVE  PipeInv'
<1>1. todo' = todo /\ phase' = phase /\ pipeline_started' = pipeline_started
      /\ remains' = remains
  BY DEF main
<1>2. Left' = Left
  BY <1>1 DEF Left
<1>3. InOrder' /\ Complete'
  <2>1. Course(phase') = Course(phase) /\ Required' = Required
    BY <1>1 DEF Required
  <2> QED BY <2>1, <1>1, <1>2 DEF PipeInv, InOrder, Complete
<1>4. Built' /\ Made'
  BY <1>1, <1>2 DEF PipeInv, Built, Made
<1>5. TakenDown' /\ UnboundFirst'
  BY <1>1, <1>2 DEF PipeInv, TakenDown, UnboundFirst, Empty
<1>6. Threads'
  BY <1>1, <1>2 DEF PipeInv, Threads
<1>7. LinkEndsExist' /\ NeverStuck' /\ DualOutlivesThread'
  BY DEF PipeInv, LinkEndsExist, NeverStuck, DualOutlivesThread
<1> QED BY <1>3, <1>4, <1>5, <1>6, <1>7 DEF PipeInv

\* The recording thread.
LEMMA RecSteps == PipeInv /\ RecStep => PipeInv'
<1> SUFFICES ASSUME PipeInv, RecStep PROVE PipeInv'
  OBVIOUS
<1>1. CASE RecCheck
  <2>1. TypeOK'
    BY <1>1 DEF PipeInv, TypeOK, RecCheck, kernel, main, ae
  <2> QED BY <1>1, <2>1, Elsewhere DEF RecCheck, kernel, ae
<1>2. CASE RecGet
  <2>1. TypeOK'
    <3>1. queue' \in [Channels -> 0 .. Depth]
      BY <1>2, PipelineAssumption DEF PipeInv, TypeOK, RecGet
    <3> QED BY <1>2, <3>1 DEF PipeInv, TypeOK, RecGet, main, ae
  <2> QED BY <1>2, <2>1, Elsewhere DEF RecGet, ae
<1>3. CASE RecWritten
  <2>1. TypeOK'
    BY <1>3 DEF PipeInv, TypeOK, RecWritten, kernel, main, ae
  <2> QED BY <1>3, <2>1, Elsewhere DEF RecWritten, kernel, ae
<1> QED BY <1>1, <1>2, <1>3 DEF RecStep

\* The 3A thread.
LEMMA AeSteps == PipeInv /\ AeStep => PipeInv'
<1> SUFFICES ASSUME PipeInv, AeStep PROVE PipeInv'
  OBVIOUS
<1>1. TypeOK'
  BY DEF PipeInv, TypeOK, AeStep, AeCheck, AeTick, kernel, main, rec
<1> QED BY <1>1, Elsewhere DEF AeStep, AeCheck, AeTick, kernel, rec

\* Frames, and SIGTERM.
LEMMA FramesAndSignals ==
    PipeInv /\ (StreamFrame \/ Terminate \/ \E ch \in Channels : Deliver(ch)) => PipeInv'
<1> SUFFICES ASSUME PipeInv, StreamFrame \/ Terminate \/ \E ch \in Channels : Deliver(ch)
             PROVE  PipeInv'
  OBVIOUS
<1>1. CASE StreamFrame
  <2>1. queue' \in [Channels -> 0 .. Depth]
    BY <1>1, PipelineAssumption DEF PipeInv, TypeOK, StreamFrame, Channels
  <2>2. TypeOK'
    BY <1>1, <2>1 DEF PipeInv, TypeOK, StreamFrame, main, rec, ae
  <2> QED BY <1>1, <2>2, Elsewhere DEF StreamFrame, rec, ae
<1>2. CASE Terminate
  <2>1. TypeOK'
    BY <1>2 DEF PipeInv, TypeOK, Terminate, kernel, main, rec, ae
  <2> QED BY <1>2, <2>1, Elsewhere DEF Terminate, kernel, rec, ae
<1>3. CASE \E ch \in Channels : Deliver(ch)
  <2>1. PICK ch \in Channels : Deliver(ch)
    BY <1>3
  <2>2. queue' \in [Channels -> 0 .. Depth]
    BY <2>1, PipelineAssumption DEF PipeInv, TypeOK, Deliver
  <2>3. TypeOK'
    BY <2>1, <2>2 DEF PipeInv, TypeOK, Deliver, main, rec, ae
  <2> QED BY <2>1, <2>3, Elsewhere DEF Deliver, rec, ae
<1> QED BY <1>1, <1>2, <1>3

--------------------------------------------------------------------------------
(* Lists of steps.                                                         *)

\* The empty list, and the ones of the phases without a course.
LEMMA NoSteps ==
    /\ Range(<<>>) = {} /\ \A c : Along(c, <<>>)
    /\ \A p : p \notin {"start", "controls", "reinit", "failing", "teardown"} =>
                 \A t : Along(Course(p), t) => t = <<>>
<1>1. Range(<<>>) = {} /\ \A c : Along(c, <<>>)
  BY DEF Range, Along
<1>2. ASSUME NEW p, p \notin {"start", "controls", "reinit", "failing", "teardown"},
             NEW t, Along(Course(p), t)
      PROVE  t = <<>>
  <2>1. Course(p) = <<>>
    BY <1>2 DEF Course
  <2>2. t \in Seq({})
    BY <1>2, <2>1 DEF Along
  <2> QED BY <2>2
<1> QED BY <1>1, <1>2

\* A start, and the start-up controls, take all the steps of their courses.
LEMMA StartLists ==
    /\ Along(StartCourse, StartSteps) /\ Range(StartSteps) = DOMAIN StartCourse
    /\ Along(ControlsCourse, ControlSteps) /\ Range(ControlSteps) = DOMAIN ControlsCourse
<1> DEFINE s == <<"prepare", "sensor", "vif", "vpe", "ch0">>
<1>1. Along(StartCourse, s) /\ Range(s) = {"prepare", "sensor", "vif", "vpe", "ch0"}
  BY DEF Along, Range, StartCourse
<1>2. /\ Along(StartCourse, Finalize)
      /\ Range(Finalize) = {"bind_vif", "bind_ch0", "output", "peripherals"}
  BY DEF Along, Range, StartCourse, Finalize
<1>3. Along(ControlsCourse, ControlSteps) /\ Range(ControlSteps) = DOMAIN ControlsCourse
  BY DEF Along, Range, ControlsCourse, ControlSteps
<1>4. StartSteps = s \o Finalize
  BY DEF StartSteps
<1> HIDE DEF s
<1>5. \A a \in Range(s), b \in Range(Finalize) : StartCourse[a] < StartCourse[b]
  BY <1>1, <1>2 DEF StartCourse
<1>6. \A a \in DOMAIN StartCourse : StartCourse[a] \in Nat
  BY DEF StartCourse
<1>7. /\ Along(StartCourse, s \o Finalize)
      /\ Range(s \o Finalize) = Range(s) \cup Range(Finalize)
  BY <1>1, <1>2, <1>5, <1>6, GoesOn
<1>8. DOMAIN StartCourse = {"prepare", "sensor", "vif", "vpe", "ch0"}
                             \cup {"bind_vif", "bind_ch0", "output", "peripherals"}
  BY DEF StartCourse
<1> QED BY <1>1, <1>2, <1>3, <1>4, <1>7, <1>8

\* What stop_venc_level takes.
LEMMA StopVencList ==
    Along(ReinitCourse, StopVencSteps) /\ Range(StopVencSteps) = 
      {"free_peripherals", "free_output", "free_dual_output", "rec_stop", "rec_join",
       "unbind_ch1", "unbind_ch0", "drain_ch0", "drain_ch1", "stop_ch1", "stop_ch0",
       "destroy_ch1", "destroy_ch0"}
<1> DEFINE p3 == <<"destroy_ch1", "destroy_ch0">>
<1>1. /\ Along(ReinitCourse, Halt)
      /\ Range(Halt) = {"free_peripherals", "free_output", "free_dual_output"}
  BY DEF Along, Range, ReinitCourse, Halt
<1>2. /\ Along(ReinitCourse, QuietChannels)
      /\ Range(QuietChannels) = {"rec_stop", "rec_join", "unbind_ch1", "unbind_ch0",
                          "drain_ch0", "drain_ch1", "stop_ch1", "stop_ch0"}
  BY DEF Along, Range, ReinitCourse, QuietChannels
<1>3. /\ Along(ReinitCourse, p3)
      /\ Range(p3) = {"destroy_ch1", "destroy_ch0"}
  BY DEF Along, Range, ReinitCourse
<1> DEFINE q2 == Halt \o QuietChannels
<1> DEFINE q3 == q2 \o p3
<1>4. StopVencSteps = q3
  BY DEF StopVencSteps
<1>5. \A a \in DOMAIN ReinitCourse : ReinitCourse[a] \in Nat
  BY DEF ReinitCourse
<1> HIDE DEF p3
<1> HIDE DEF q2, q3
<1>6. /\ Along(ReinitCourse, q2)
      /\ Range(q2) = Range(Halt) \cup Range(QuietChannels)
  <2>1. \A a \in Range(Halt), b \in Range(QuietChannels) : ReinitCourse[a] < ReinitCourse[b]
    BY <1>1, <1>2 DEF ReinitCourse
  <2> QED BY <2>1, <1>1, <1>2, <1>5, GoesOn DEF q2
<1>7. /\ Along(ReinitCourse, q3)
      /\ Range(q3) = Range(q2) \cup Range(p3)
  <2>1. \A a \in Range(q2), b \in Range(p3) : ReinitCourse[a] < ReinitCourse[b]
    BY <1>1, <1>2, <1>3, <1>6 DEF ReinitCourse
  <2> QED BY <2>1, <1>6, <1>3, <1>5, GoesOn DEF q3
<1>8. Range(q3) = {"free_peripherals", "free_output", "free_dual_output", "rec_stop",
                  "rec_join", "unbind_ch1", "unbind_ch0", "drain_ch0", "drain_ch1",
                  "stop_ch1", "stop_ch0", "destroy_ch1", "destroy_ch0"}
  BY <1>1, <1>2, <1>3, <1>6, <1>7 DEF ReinitCourse
<1> QED BY <1>4, <1>7, <1>8

\* A reinit takes all the steps of its course but those of a new aspect ratio.
LEMMA RestartList ==
    Along(ReinitCourse, RestartSteps) /\ Range(RestartSteps) = DOMAIN ReinitCourse \ Aspect
<1> DEFINE p1 == <<"ae_stop", "ae_join", "load">>
           p3 == <<"prepare", "resize", "ch0">>
           p5 == <<"ae">>
<1>1. /\ Along(ReinitCourse, p1)
      /\ Range(p1) = {"ae_stop", "ae_join", "load"}
  BY DEF Along, Range, ReinitCourse
<1>2. /\ Along(ReinitCourse, StopVencSteps)
      /\ Range(StopVencSteps) = {"free_peripherals", "free_output", "free_dual_output",
                          "rec_stop", "rec_join", "unbind_ch1", "unbind_ch0",
                          "drain_ch0", "drain_ch1", "stop_ch1", "stop_ch0",
                          "destroy_ch1", "destroy_ch0"}
  BY StopVencList
<1>3. /\ Along(ReinitCourse, p3)
      /\ Range(p3) = {"prepare", "resize", "ch0"}
  BY DEF Along, Range, ReinitCourse
<1>4. /\ Along(ReinitCourse, Finalize)
      /\ Range(Finalize) = {"bind_vif", "bind_ch0", "output", "peripherals"}
  BY DEF Along, Range, ReinitCourse, Finalize
<1>5. /\ Along(ReinitCourse, p5)
      /\ Range(p5) = {"ae"}
  BY DEF Along, Range, ReinitCourse
<1> DEFINE q2 == p1 \o StopVencSteps
<1> DEFINE q3 == q2 \o p3
<1> DEFINE q4 == q3 \o Finalize
<1> DEFINE q5 == q4 \o p5
<1>6. RestartSteps = q5
  BY DEF RestartSteps
<1>7. \A a \in DOMAIN ReinitCourse : ReinitCourse[a] \in Nat
  BY DEF ReinitCourse
<1> HIDE DEF p1, p3, p5
<1> HIDE DEF q2, q3, q4, q5
<1>8. /\ Along(ReinitCourse, q2)
      /\ Range(q2) = Range(p1) \cup Range(StopVencSteps)
  <2>1. \A a \in Range(p1), b \in Range(StopVencSteps) : ReinitCourse[a] < ReinitCourse[b]
    BY <1>1, <1>2 DEF ReinitCourse
  <2> QED BY <2>1, <1>1, <1>2, <1>7, GoesOn DEF q2
<1>9. /\ Along(ReinitCourse, q3)
      /\ Range(q3) = Range(q2) \cup Range(p3)
  <2>1. \A a \in Range(q2), b \in Range(p3) : ReinitCourse[a] < ReinitCourse[b]
    BY <1>1, <1>2, <1>3, <1>8 DEF ReinitCourse
  <2> QED BY <2>1, <1>8, <1>3, <1>7, GoesOn DEF q3
<1>10. /\ Along(ReinitCourse, q4)
      /\ Range(q4) = Range(q3) \cup Range(Finalize)
  <2>1. \A a \in Range(q3), b \in Range(Finalize) : ReinitCourse[a] < ReinitCourse[b]
    BY <1>1, <1>2, <1>3, <1>4, <1>8, <1>9 DEF ReinitCourse
  <2> QED BY <2>1, <1>9, <1>4, <1>7, GoesOn DEF q4
<1>11. /\ Along(ReinitCourse, q5)
      /\ Range(q5) = Range(q4) \cup Range(p5)
  <2>1. \A a \in Range(q4), b \in Range(p5) : ReinitCourse[a] < ReinitCourse[b]
    BY <1>1, <1>2, <1>3, <1>4, <1>5, <1>8, <1>9, <1>10 DEF ReinitCourse
  <2> QED BY <2>1, <1>10, <1>5, <1>7, GoesOn DEF q5
<1>12. Range(q5) = DOMAIN ReinitCourse \ Aspect
  BY <1>1, <1>2, <1>3, <1>4, <1>5, <1>8, <1>9, <1>10, <1>11 DEF ReinitCourse, Aspect
<1> QED BY <1>6, <1>11, <1>12

\* What pipeline_stop takes.
LEMMA StopList ==
    Along(TeardownCourse, StopSteps) /\ Range(StopSteps) = 
      {"free_peripherals", "free_output", "free_dual_output", "rec_stop", "rec_join",
       "unbind_ch1", "unbind_ch0", "drain_ch0", "drain_ch1", "stop_ch1", "stop_ch0",
       "unbind_vif", "destroy_ch1", "destroy_ch0", "stop_vpe", "stop_vif",
       "stop_sensor"}
<1> DEFINE p3 == <<"unbind_vif", "destroy_ch1", "destroy_ch0", "stop_vpe",
                     "stop_vif", "stop_sensor">>
<1>1. /\ Along(TeardownCourse, Halt)
      /\ Range(Halt) = {"free_peripherals", "free_output", "free_dual_output"}
  BY DEF Along, Range, TeardownCourse, Halt
<1>2. /\ Along(TeardownCourse, QuietChannels)
      /\ Range(QuietChannels) = {"rec_stop", "rec_join", "unbind_ch1", "unbind_ch0",
                          "drain_ch0", "drain_ch1", "stop_ch1", "stop_ch0"}
  BY DEF Along, Range, TeardownCourse, QuietChannels
<1>3. /\ Along(TeardownCourse, p3)
      /\ Range(p3) = {"unbind_vif", "destroy_ch1", "destroy_ch0", "stop_vpe", "stop_vif",
               "stop_sensor"}
  BY DEF Along, Range, TeardownCourse
<1> DEFINE q2 == Halt \o QuietChannels
<1> DEFINE q3 == q2 \o p3
<1>4. StopSteps = q3
  BY DEF StopSteps
<1>5. \A a \in DOMAIN TeardownCourse : TeardownCourse[a] \in Nat
  BY DEF TeardownCourse
<1> HIDE DEF p3
<1> HIDE DEF q2, q3
<1>6. /\ Along(TeardownCourse, q2)
      /\ Range(q2) = Range(Halt) \cup Range(QuietChannels)
  <2>1. \A a \in Range(Halt), b \in Range(QuietChannels) : TeardownCourse[a] < TeardownCourse[b]
    BY <1>1, <1>2 DEF TeardownCourse
  <2> QED BY <2>1, <1>1, <1>2, <1>5, GoesOn DEF q2
<1>7. /\ Along(TeardownCourse, q3)
      /\ Range(q3) = Range(q2) \cup Range(p3)
  <2>1. \A a \in Range(q2), b \in Range(p3) : TeardownCourse[a] < TeardownCourse[b]
    BY <1>1, <1>2, <1>3, <1>6 DEF TeardownCourse
  <2> QED BY <2>1, <1>6, <1>3, <1>5, GoesOn DEF q3
<1>8. Range(q3) = {"free_peripherals", "free_output", "free_dual_output", "rec_stop",
                  "rec_join", "unbind_ch1", "unbind_ch0", "drain_ch0", "drain_ch1",
                  "stop_ch1", "stop_ch0", "unbind_vif", "destroy_ch1", "destroy_ch0",
                  "stop_vpe", "stop_vif", "stop_sensor"}
  BY <1>1, <1>2, <1>3, <1>6, <1>7 DEF TeardownCourse
<1> QED BY <1>4, <1>7, <1>8

\* A teardown takes all the steps of its course.
LEMMA TeardownLists ==
    LET s == <<"ae_stop">> \o StopSteps \o <<"ae_join">>
    IN  Along(TeardownCourse, s) /\ Range(s) = DOMAIN TeardownCourse
<1> DEFINE p1 == <<"ae_stop">>
           p3 == <<"ae_join">>
<1>1. /\ Along(TeardownCourse, p1)
      /\ Range(p1) = {"ae_stop"}
  BY DEF Along, Range, TeardownCourse
<1>2. /\ Along(TeardownCourse, StopSteps)
      /\ Range(StopSteps) = {"free_peripherals", "free_output", "free_dual_output",
                      "rec_stop", "rec_join", "unbind_ch1", "unbind_ch0",
                      "drain_ch0", "drain_ch1", "stop_ch1", "stop_ch0", "unbind_vif",
                      "destroy_ch1", "destroy_ch0", "stop_vpe", "stop_vif",
                      "stop_sensor"}
  BY StopList
<1>3. /\ Along(TeardownCourse, p3)
      /\ Range(p3) = {"ae_join"}
  BY DEF Along, Range, TeardownCourse
<1> DEFINE q2 == p1 \o StopSteps
<1> DEFINE q3 == q2 \o p3
<1>4. q3 = <<"ae_stop">> \o StopSteps \o <<"ae_join">>
  BY DEF q3, q2
<1>5. \A a \in DOMAIN TeardownCourse : TeardownCourse[a] \in Nat
  BY DEF TeardownCourse
<1> HIDE DEF p1, p3
<1> HIDE DEF q2, q3
<1>6. /\ Along(TeardownCourse, q2)
      /\ Range(q2) = Range(p1) \cup Range(StopSteps)
  <2>1. \A a \in Range(p1), b \in Range(StopSteps) : TeardownCourse[a] < TeardownCourse[b]
    BY <1>1, <1>2 DEF TeardownCourse
  <2> QED BY <2>1, <1>1, <1>2, <1>5, GoesOn DEF q2
<1>7. /\ Along(TeardownCourse, q3)
      /\ Range(q3) = Range(q2) \cup Range(p3)
  <2>1. \A a \in Range(q2), b \in Range(p3) : TeardownCourse[a] < TeardownCourse[b]
    BY <1>1, <1>2, <1>3, <1>6 DEF TeardownCourse
  <2> QED BY <2>1, <1>6, <1>3, <1>5, GoesOn DEF q3
<1>8. Range(q3) = DOMAIN TeardownCourse
  BY <1>1, <1>2, <1>3, <1>6, <1>7 DEF TeardownCourse
<1> QED BY <1>4, <1>7, <1>8

\* The failure labels of a start, and those of a reinit.
LEMMA UndoLists ==
    /\ phase = "start" =>
          /\ Along(FailingCourse, Undo("sensor")) /\ Range(Undo("sensor")) = {}
          /\ Along(FailingCourse, Undo("vif")) /\ Range(Undo("vif")) = {"stop_sensor"}
          /\ Along(FailingCourse, Undo("vpe"))
          /\ Range(Undo("vpe")) = {"stop_vif", "stop_sensor"}
          /\ Along(FailingCourse, Undo("ch0"))
          /\ Range(Undo("ch0")) = {"stop_vpe", "stop_vif", "stop_sensor"}
          /\ Along(FailingCourse, Undo("finalize"))
          /\ Range(Undo("finalize")) =
                {"stop_ch0", "destroy_ch0", "stop_vpe", "stop_vif", "stop_sensor"}
    /\ phase = "reinit" =>
          /\ Along(FailingCourse, Undo("vpe")) /\ Range(Undo("vpe")) = {"stop_vif"}
          /\ Along(FailingCourse, Undo("ch0")) /\ Range(Undo("ch0")) = {}
          /\ Along(FailingCourse, Undo("finalize"))
          /\ Range(Undo("finalize")) = {"stop_ch0", "destroy_ch0"}
<1>1. phase = "start" =>
         /\ Undo("sensor") = <<>> /\ Undo("vif") = <<"stop_sensor">>
         /\ Undo("vpe") = <<"stop_vif", "stop_sensor">>
         /\ Undo("ch0") = <<"stop_vpe", "stop_vif", "stop_sensor">>
         /\ Undo("finalize") =
               <<"stop_ch0", "destroy_ch0", "stop_vpe", "stop_vif", "stop_sensor">>
  BY DEF Undo
<1>2. phase = "reinit" => /\ Undo("vpe") = <<"stop_vif">> /\ Undo("ch0") = <<>>
                          /\ Undo("finalize") = <<"stop_ch0", "destroy_ch0">>
  BY DEF Undo
<1>3. /\ Along(FailingCourse, <<"stop_sensor">>) /\ Range(<<"stop_sensor">>) = {"stop_sensor"}
      /\ Along(FailingCourse, <<"stop_vif">>) /\ Range(<<"stop_vif">>) = {"stop_vif"}
  BY DEF Along, Range, FailingCourse
<1>4. LET s == <<"stop_vif", "stop_sensor">>
      IN  Along(FailingCourse, s) /\ Range(s) = {"stop_vif", "stop_sensor"}
  BY DEF Along, Range, FailingCourse
<1>5. LET s == <<"stop_vpe", "stop_vif", "stop_sensor">>
      IN  Along(FailingCourse, s) /\ Range(s) = {"stop_vpe", "stop_vif", "stop_sensor"}
  BY DEF Along, Range, FailingCourse
<1>6. LET s == <<"stop_ch0", "destroy_ch0">>
      IN  Along(FailingCourse, s) /\ Range(s) = {"stop_ch0", "destroy_ch0"}
  BY DEF Along, Range, FailingCourse
<1>7. LET s == <<"stop_ch0", "destroy_ch0", "stop_vpe", "stop_vif", "stop_sensor">>
      IN  /\ Along(FailingCourse, s)
          /\ Range(s) = {"stop_ch0", "destroy_ch0", "stop_vpe", "stop_vif", "stop_sensor"}
  BY DEF Along, Range, FailingCourse
<1>8. CASE phase = "start"
  BY <1>1, <1>3, <1>4, <1>5, <1>7, <1>8, NoSteps
<1>9. CASE phase = "reinit"
  BY <1>2, <1>3, <1>6, <1>9, NoSteps
<1> QED BY <1>8, <1>9

\* The failure labels before them.
LEMMA LongerUndoLists ==
    ASSUME phase \in {"start", "reinit"}
    PROVE  LET u == Undo("finalize")
               s == <<"unbind_vif">> \o u
               t == <<"free_output", "unbind_ch0", "unbind_vif">> \o u
           IN  /\ Along(FailingCourse, s) /\ Range(s) = {"unbind_vif"} \cup Range(u)
               /\ Along(FailingCourse, t)
               /\ Range(t) = {"free_output", "unbind_ch0", "unbind_vif"} \cup Range(u)
<1> DEFINE u == Undo("finalize")
           p == <<"unbind_vif">>
           q == <<"free_output", "unbind_ch0", "unbind_vif">>
<1>1. /\ Along(FailingCourse, p) /\ Range(p) = {"unbind_vif"}
      /\ Along(FailingCourse, q) /\ Range(q) = {"free_output", "unbind_ch0", "unbind_vif"}
  BY DEF Along, Range, FailingCourse
<1>2. /\ Along(FailingCourse, u)
      /\ Range(u) \subseteq {"stop_ch0", "destroy_ch0", "stop_vpe", "stop_vif", "stop_sensor"}
  BY UndoLists
<1>3. \A a \in DOMAIN FailingCourse : FailingCourse[a] \in Nat
  BY DEF FailingCourse
<1> HIDE DEF p, q, u
<1>4. \A a \in Range(p), b \in Range(u) : FailingCourse[a] < FailingCourse[b]
  BY <1>1, <1>2 DEF FailingCourse
<1>5. \A a \in Range(q), b \in Range(u) : FailingCourse[a] < FailingCourse[b]
  BY <1>1, <1>2 DEF FailingCourse
<1>6. Along(FailingCourse, p \o u) /\ Range(p \o u) = {"unbind_vif"} \cup Range(u)
  BY <1>1, <1>2, <1>3, <1>4, GoesOn
<1>7. /\ Along(FailingCourse, q \o u)
      /\ Range(q \o u) = {"free_output", "unbind_ch0", "unbind_vif"} \cup Range(u)
  BY <1>1, <1>2, <1>3, <1>5, GoesOn
<1> QED BY <1>6, <1>7 DEF p, q, u

--------------------------------------------------------------------------------
(* Steps that fail.                                                        *)

\* A step that fails in a reinit does so with the threads gone.
LEMMA FailingLeaving ==
    ASSUME PipeInv, NEW cleanup, NEW what, FailLeaving(cleanup, what),
           Along(FailingCourse, cleanup),
           NEW step \in {"prepare", "sensor", "vif", "vpe", "ch0", "bind_vif", "bind_ch0",
                         "output", "resize", "vif_port"}, Do(step),
           UNCHANGED <<links, bound, queue, objs, dstate, g_running, rec, ae>>,
           hw' \subseteq hw \cup {"sensor"}, recv' = recv,
           LinkEndsExist', TakenDown', UnboundFirst'
    PROVE  PipeInv'
<1>1. At(step)
  BY AtStep
<1>2. phase \in {"start", "reinit"}
  BY <1>1 DEF At, Course, ControlsCourse, FailingCourse, TeardownCourse
<1>3. phase = "reinit" =>
         "ae_join" \notin Left /\ "rec_join" \notin Left /\ "ae" \in Left
  BY <1>1 DEF At, Course, ReinitCourse, Required, Aspect
<1>4. rpc = "none" /\ apc = "none"
  BY <1>2, <1>3 DEF PipeInv, Threads
<1>5. /\ phase' = "failing" /\ todo' = cleanup /\ pipeline_started' = pipeline_started
  BY DEF FailLeaving
<1>6. TypeOK'
  BY <1>5 DEF PipeInv, TypeOK, FrontEnd, rec, ae
<1>7. InOrder'
  BY <1>5 DEF InOrder, Course
<1>8. Complete'
  BY <1>5 DEF Complete, Required
<1>9. Built' /\ Made'
  BY <1>5 DEF Built, Made
<1>10. Threads'
  BY <1>4, <1>5 DEF Threads, rec, ae
<1>11. NeverStuck' /\ DualOutlivesThread'
  BY <1>4 DEF PipeInv, NeverStuck, DualOutlivesThread, rec
<1> QED BY <1>6, <1>7, <1>8, <1>9, <1>10, <1>11 DEF PipeInv

\* The same for a step that leaves nothing.
LEMMA Failing ==
    ASSUME PipeInv, NEW cleanup, Fail(cleanup), Along(FailingCourse, cleanup),
           NEW step \in {"prepare", "sensor", "vif", "vpe", "ch0", "bind_vif", "bind_ch0",
                         "output", "resize", "vif_port"}, Do(step),
           UNCHANGED <<links, bound, queue, objs, dstate, g_running, rec, ae>>,
           hw' \subseteq hw, recv' = recv,
           LinkEndsExist', TakenDown', UnboundFirst'
    PROVE  PipeInv'
  BY FailingLeaving DEF Fail

\* A configuration that cannot be used.
LEMMA PrepareFails ==
    ASSUME PipeInv, Prepare, Fail(<<>>)
    PROVE  PipeInv'
<1>1. At("prepare") /\ Do("prepare")
  BY AtStep DEF Prepare
<1>2. phase \in {"start", "reinit"}
  BY <1>1 DEF At, Course, ControlsCourse, FailingCourse, TeardownCourse
<1>3. phase = "start" =>
         {"prepare", "sensor", "vif", "vpe", "ch0", "bind_vif", "bind_ch0", "output",
          "peripherals"} \subseteq Left
  BY <1>1 DEF At, Course, StartCourse, Required
<1>4. phase = "reinit" => "unbind_ch1" \notin Left
  BY <1>1 DEF At, Course, ReinitCourse
<1>5. /\ Along(FailingCourse, <<>>)
      /\ Left' = Range(<<>>)
      /\ phase' = "failing" /\ remains' = IF phase = "reinit" THEN "reinit" ELSE "nothing"
  BY <1>2, NoSteps DEF Fail, FailLeaving, Left
<1>6. /\ UNCHANGED <<links, bound, queue, objs, dstate, g_running, rec, ae>>
      /\ hw' = hw /\ recv' = recv
  BY <1>2, <1>5 DEF PipeInv, Prepare, Fail, FailLeaving, Popped, kernel
<1>7. UnboundFirst'
  BY <1>1, <1>2, <1>3, <1>4, <1>5, <1>6, NoSteps DEF PipeInv, UnboundFirst, Made
<1>8. TakenDown'
  BY <1>1, <1>2, <1>3, <1>4, <1>5, <1>6, NoSteps DEF PipeInv, TakenDown, Made, TypeOK,
     FrontEnd, Channels
<1>9. LinkEndsExist'
  BY <1>6 DEF PipeInv, LinkEndsExist
<1> QED BY <1>1, <1>5, <1>6, <1>7, <1>8, <1>9, Failing

\* No sensor.
LEMMA SensorFails ==
    ASSUME PipeInv, Enable("sensor", {"sensor"}), Fail(Undo("sensor"))
    PROVE  PipeInv'
<1>1. At("sensor") /\ Do("sensor")
  BY AtStep DEF Enable
<1>2. phase = "start"
  BY <1>1 DEF At, Course, ControlsCourse, ReinitCourse, FailingCourse, TeardownCourse
<1>3. phase = "start" =>
         {"sensor", "vif", "vpe", "ch0", "bind_vif", "bind_ch0", "output",
          "peripherals"} \subseteq Left
  BY <1>1 DEF At, Course, StartCourse, Required
<1>4. /\ Along(FailingCourse, Undo("sensor"))
      /\ Left' = Range(Undo("sensor"))
      /\ phase' = "failing" /\ remains' = IF phase = "reinit" THEN "reinit" ELSE "nothing"
  BY <1>2, UndoLists DEF Fail, FailLeaving, Left
<1>5. /\ UNCHANGED <<links, bound, queue, objs, dstate, g_running, rec, ae>>
      /\ hw' = hw /\ recv' = recv
  BY <1>2, <1>4 DEF PipeInv, Enable, Fail, FailLeaving, Popped, kernel
<1>6. UnboundFirst'
  BY <1>1, <1>2, <1>3, <1>4, <1>5, UndoLists DEF PipeInv, UnboundFirst, Made
<1>7. TakenDown'
  BY <1>1, <1>2, <1>3, <1>4, <1>5, UndoLists DEF PipeInv, TakenDown, Made, TypeOK,
     FrontEnd, Channels
<1>8. LinkEndsExist'
  BY <1>5 DEF PipeInv, LinkEndsExist
<1> QED BY <1>1, <1>4, <1>5, <1>6, <1>7, <1>8, Failing

\* A sensor that is enabled and cannot be read.
LEMMA SensorLeft ==
    ASSUME PipeInv, SensorUnread
    PROVE  PipeInv'
<1>1. At("sensor") /\ Do("sensor")
  BY AtStep DEF SensorUnread
<1>2. phase = "start"
  BY <1>1 DEF At, Course, ControlsCourse, ReinitCourse, FailingCourse, TeardownCourse
<1>3. {"sensor", "vif", "vpe", "ch0", "bind_vif", "bind_ch0", "output",
       "peripherals"} \subseteq Left
  BY <1>1, <1>2 DEF At, Course, StartCourse, Required
<1>4. /\ FailLeaving(Undo("sensor"), "sensor")
      /\ Along(FailingCourse, Undo("sensor"))
      /\ Left' = Range(Undo("sensor"))
      /\ phase' = "failing" /\ remains' = "sensor"
  BY <1>2, UndoLists DEF SensorUnread, FailLeaving, Left
<1>5. /\ UNCHANGED <<links, bound, queue, objs, dstate, g_running, rec, ae>>
      /\ hw' = hw \cup {"sensor"} /\ recv' = recv
  BY DEF SensorUnread
<1>6. UnboundFirst'
  BY <1>2, <1>3, <1>4, <1>5, UndoLists DEF PipeInv, UnboundFirst, Made
<1>7. TakenDown'
  BY <1>2, <1>3, <1>4, <1>5, UndoLists DEF PipeInv, TakenDown, Made, TypeOK,
     FrontEnd, Channels
<1>8. LinkEndsExist'
  BY <1>5 DEF PipeInv, LinkEndsExist
<1> QED BY <1>1, <1>4, <1>5, <1>6, <1>7, <1>8, FailingLeaving

\* No VIF.
LEMMA VifFails ==
    ASSUME PipeInv, Enable("vif", {"vif", "vif_port"}), Fail(Undo("vif"))
    PROVE  PipeInv'
<1>1. At("vif") /\ Do("vif")
  BY AtStep DEF Enable
<1>2. phase = "start"
  BY <1>1 DEF At, Course, ControlsCourse, ReinitCourse, FailingCourse, TeardownCourse
<1>3. phase = "start" =>
         {"vif", "vpe", "ch0", "bind_vif", "bind_ch0", "output", "peripherals"} \subseteq Left
  BY <1>1 DEF At, Course, StartCourse, Required
<1>4. /\ Along(FailingCourse, Undo("vif"))
      /\ Left' = Range(Undo("vif"))
      /\ phase' = "failing" /\ remains' = IF phase = "reinit" THEN "reinit" ELSE "nothing"
  BY <1>2, UndoLists DEF Fail, FailLeaving, Left
<1>5. /\ UNCHANGED <<links, bound, queue, objs, dstate, g_running, rec, ae>>
      /\ hw' = hw /\ recv' = recv
  BY <1>2, <1>4 DEF PipeInv, Enable, Fail, FailLeaving, Popped, kernel
<1>6. UnboundFirst'
  BY <1>1, <1>2, <1>3, <1>4, <1>5, UndoLists DEF PipeInv, UnboundFirst, Made
<1>7. TakenDown'
  BY <1>1, <1>2, <1>3, <1>4, <1>5, UndoLists DEF PipeInv, TakenDown, Made, TypeOK,
     FrontEnd, Channels
<1>8. LinkEndsExist'
  BY <1>5 DEF PipeInv, LinkEndsExist
<1> QED BY <1>1, <1>4, <1>5, <1>6, <1>7, <1>8, Failing

\* No VPE; a reinit has unbound the VIF.
LEMMA VpeFails ==
    ASSUME PipeInv, Enable("vpe", {"vpe", "vpe_port"}), Fail(Undo("vpe"))
    PROVE  PipeInv'
<1>1. At("vpe") /\ Do("vpe")
  BY AtStep DEF Enable
<1>2. phase \in {"start", "reinit"}
  BY <1>1 DEF At, Course, ControlsCourse, FailingCourse, TeardownCourse
<1>3. phase = "start" =>
         {"vpe", "ch0", "bind_vif", "bind_ch0", "output", "peripherals"} \subseteq Left
  BY <1>1 DEF At, Course, StartCourse, Required
<1>4. phase = "reinit" => Left \cap {"unbind_ch1", "unbind_vif"} = {} /\ "vpe" \in Left
  BY <1>1 DEF At, Course, ReinitCourse, Required, Aspect
<1>5. /\ Along(FailingCourse, Undo("vpe"))
      /\ Left' = Range(Undo("vpe"))
      /\ phase' = "failing" /\ remains' = IF phase = "reinit" THEN "reinit" ELSE "nothing"
  BY <1>2, UndoLists DEF Fail, FailLeaving, Left
<1>6. /\ UNCHANGED <<links, bound, queue, objs, dstate, g_running, rec, ae>>
      /\ hw' = hw /\ recv' = recv
  BY <1>2, <1>5 DEF PipeInv, Enable, Fail, FailLeaving, Popped, kernel
<1>7. UnboundFirst'
  BY <1>1, <1>2, <1>3, <1>4, <1>5, <1>6, UndoLists DEF PipeInv, UnboundFirst, Made
<1>8. TakenDown'
  BY <1>1, <1>2, <1>3, <1>4, <1>5, <1>6, UndoLists DEF PipeInv, TakenDown, Made, TypeOK,
     FrontEnd, Channels
<1>9. LinkEndsExist'
  BY <1>6 DEF PipeInv, LinkEndsExist
<1> QED BY <1>1, <1>5, <1>6, <1>7, <1>8, <1>9, Failing

\* No channel 0.
LEMMA VencFails ==
    ASSUME PipeInv, Enable("ch0", {"ch0"}), Fail(Undo("ch0"))
    PROVE  PipeInv'
<1>1. At("ch0") /\ Do("ch0")
  BY AtStep DEF Enable
<1>2. phase \in {"start", "reinit"}
  BY <1>1 DEF At, Course, ControlsCourse, FailingCourse, TeardownCourse
<1>3. phase = "start" =>
         {"ch0", "bind_vif", "bind_ch0", "output", "peripherals"} \subseteq Left
  BY <1>1 DEF At, Course, StartCourse, Required
<1>4. phase = "reinit" => "unbind_ch1" \notin Left
  BY <1>1 DEF At, Course, ReinitCourse
<1>5. /\ Along(FailingCourse, Undo("ch0"))
      /\ Left' = Range(Undo("ch0"))
      /\ phase' = "failing" /\ remains' = IF phase = "reinit" THEN "reinit" ELSE "nothing"
  BY <1>2, UndoLists DEF Fail, FailLeaving, Left
<1>6. /\ UNCHANGED <<links, bound, queue, objs, dstate, g_running, rec, ae>>
      /\ hw' = hw /\ recv' = recv
  BY <1>2, <1>5 DEF PipeInv, Enable, Fail, FailLeaving, Popped, kernel
<1>7. UnboundFirst'
  BY <1>1, <1>2, <1>3, <1>4, <1>5, <1>6, UndoLists DEF PipeInv, UnboundFirst, Made
<1>8. TakenDown'
  BY <1>1, <1>2, <1>3, <1>4, <1>5, <1>6, UndoLists DEF PipeInv, TakenDown, Made, TypeOK,
     FrontEnd, Channels
<1>9. LinkEndsExist'
  BY <1>6 DEF PipeInv, LinkEndsExist
<1> QED BY <1>1, <1>5, <1>6, <1>7, <1>8, <1>9, Failing

\* The VIF cannot be bound.
LEMMA VifBindFails ==
    ASSUME PipeInv, BindVif, Fail(Undo("finalize"))
    PROVE  PipeInv'
<1>1. At("bind_vif") /\ Do("bind_vif")
  BY AtStep DEF BindVif
<1>2. phase \in {"start", "reinit"}
  BY <1>1 DEF At, Course, ControlsCourse, FailingCourse, TeardownCourse
<1>3. phase = "start" =>
         {"bind_vif", "bind_ch0", "output", "peripherals"} \subseteq Left
  BY <1>1 DEF At, Course, StartCourse, Required
<1>4. phase = "reinit" => Left \cap {"unbind_ch1", "unbind_ch0"} = {} /\ "bind_ch0" \in Left
  BY <1>1 DEF At, Course, ReinitCourse, Required, Aspect
<1>5. /\ Along(FailingCourse, Undo("finalize"))
      /\ Left' = Range(Undo("finalize"))
      /\ phase' = "failing" /\ remains' = IF phase = "reinit" THEN "reinit" ELSE "nothing"
  BY <1>2, UndoLists DEF Fail, FailLeaving, Left
<1>6. /\ UNCHANGED <<links, bound, queue, objs, dstate, g_running, rec, ae>>
      /\ hw' = hw /\ recv' = recv
  BY <1>2, <1>5 DEF PipeInv, BindVif, Fail, FailLeaving, Popped, kernel
<1>7. UnboundFirst'
  BY <1>1, <1>2, <1>3, <1>4, <1>5, <1>6, UndoLists DEF PipeInv, UnboundFirst, Made
<1>8. TakenDown'
  BY <1>1, <1>2, <1>3, <1>4, <1>5, <1>6, UndoLists DEF PipeInv, TakenDown, Made, TypeOK,
     FrontEnd, Channels
<1>9. LinkEndsExist'
  BY <1>6 DEF PipeInv, LinkEndsExist
<1> QED BY <1>1, <1>5, <1>6, <1>7, <1>8, <1>9, Failing

\* Channel 0 cannot be bound; the VIF is.
LEMMA VencBindFails ==
    ASSUME PipeInv, BindVenc, Fail(<<"unbind_vif">> \o Undo("finalize"))
    PROVE  PipeInv'
<1>1. At("bind_ch0") /\ Do("bind_ch0")
  BY AtStep DEF BindVenc
<1>2. phase \in {"start", "reinit"}
  BY <1>1 DEF At, Course, ControlsCourse, FailingCourse, TeardownCourse
<1>3. phase = "start" =>
         {"bind_ch0", "output", "peripherals"} \subseteq Left
  BY <1>1 DEF At, Course, StartCourse, Required
<1>4. phase = "reinit" => Left \cap {"unbind_ch1", "unbind_ch0"} = {} /\ "bind_ch0" \in Left
  BY <1>1 DEF At, Course, ReinitCourse, Required, Aspect
<1>5. /\ Along(FailingCourse, <<"unbind_vif">> \o Undo("finalize"))
      /\ Left' = Range(<<"unbind_vif">> \o Undo("finalize"))
      /\ phase' = "failing" /\ remains' = IF phase = "reinit" THEN "reinit" ELSE "nothing"
  BY <1>2, UndoLists, LongerUndoLists DEF Fail, FailLeaving, Left
<1>6. /\ UNCHANGED <<links, bound, queue, objs, dstate, g_running, rec, ae>>
      /\ hw' = hw /\ recv' = recv
  BY <1>2, <1>5 DEF PipeInv, BindVenc, Fail, FailLeaving, Popped, kernel
<1>7. UnboundFirst'
  BY <1>1, <1>2, <1>3, <1>4, <1>5, <1>6, UndoLists, LongerUndoLists DEF PipeInv,
     UnboundFirst, Made
<1>8. TakenDown'
  BY <1>1, <1>2, <1>3, <1>4, <1>5, <1>6, UndoLists, LongerUndoLists DEF PipeInv,
     TakenDown, Made, TypeOK, FrontEnd, Channels
<1>9. LinkEndsExist'
  BY <1>6 DEF PipeInv, LinkEndsExist
<1> QED BY <1>1, <1>5, <1>6, <1>7, <1>8, <1>9, Failing

\* No output; the VIF and channel 0 are bound.
LEMMA OutputFails ==
    ASSUME PipeInv, InitOutput, Fail(<<"free_output", "unbind_ch0", "unbind_vif">> \o Undo("finalize"))
    PROVE  PipeInv'
<1>1. At("output") /\ Do("output")
  BY AtStep DEF InitOutput
<1>2. phase \in {"start", "reinit"}
  BY <1>1 DEF At, Course, ControlsCourse, FailingCourse, TeardownCourse
<1>3. phase = "start" =>
         {"output", "peripherals"} \subseteq Left
  BY <1>1 DEF At, Course, StartCourse, Required
<1>4. phase = "reinit" => "unbind_ch1" \notin Left
  BY <1>1 DEF At, Course, ReinitCourse
<1>5. /\ Along(FailingCourse, <<"free_output", "unbind_ch0", "unbind_vif">> \o Undo("finalize"))
      /\ Left' = Range(<<"free_output", "unbind_ch0", "unbind_vif">> \o Undo("finalize"))
      /\ phase' = "failing" /\ remains' = IF phase = "reinit" THEN "reinit" ELSE "nothing"
  BY <1>2, UndoLists, LongerUndoLists DEF Fail, FailLeaving, Left
<1>6. /\ UNCHANGED <<links, bound, queue, objs, dstate, g_running, rec, ae>>
      /\ hw' = hw /\ recv' = recv
  BY <1>2, <1>5 DEF PipeInv, InitOutput, Fail, FailLeaving, Popped, kernel
<1>7. UnboundFirst'
  BY <1>1, <1>2, <1>3, <1>4, <1>5, <1>6, UndoLists, LongerUndoLists DEF PipeInv,
     UnboundFirst, Made
<1>8. TakenDown'
  BY <1>1, <1>2, <1>3, <1>4, <1>5, <1>6, UndoLists, LongerUndoLists DEF PipeInv,
     TakenDown, Made, TypeOK, FrontEnd, Channels
<1>9. LinkEndsExist'
  BY <1>6 DEF PipeInv, LinkEndsExist
<1> QED BY <1>1, <1>5, <1>6, <1>7, <1>8, <1>9, Failing

\* The VPE port stays disabled.
LEMMA ResizeFails ==
    ASSUME PipeInv, ResizePort, Fail(<<>>)
    PROVE  PipeInv'
<1>1. At("resize") /\ Do("resize")
  BY AtStep DEF ResizePort
<1>2. phase = "reinit"
  BY <1>1 DEF At, Course, StartCourse, ControlsCourse, FailingCourse, TeardownCourse
<1>3. phase = "reinit" => "unbind_ch1" \notin Left
  BY <1>1 DEF At, Course, ReinitCourse
<1>4. /\ Along(FailingCourse, <<>>)
      /\ Left' = Range(<<>>)
      /\ phase' = "failing" /\ remains' = IF phase = "reinit" THEN "reinit" ELSE "nothing"
  BY <1>2, NoSteps DEF Fail, FailLeaving, Left
<1>5. /\ UNCHANGED <<links, bound, queue, objs, dstate, g_running, rec, ae>>
      /\ hw' \subseteq hw /\ recv' = recv
  BY <1>2, <1>4 DEF PipeInv, ResizePort, Fail, FailLeaving, Popped, kernel
<1>6. UnboundFirst'
  BY <1>1, <1>2, <1>3, <1>4, <1>5, NoSteps DEF PipeInv, UnboundFirst, Made
<1>7. TakenDown'
  BY <1>1, <1>2, <1>3, <1>4, <1>5, NoSteps DEF PipeInv, TakenDown, Made, TypeOK, FrontEnd,
     Channels
<1>8. LinkEndsExist'
  BY <1>1, <1>2, <1>3, <1>5 DEF PipeInv, LinkEndsExist, Ends, TypeOK, UnboundFirst,
     ResizePort
<1> QED BY <1>1, <1>4, <1>5, <1>6, <1>7, <1>8, Failing

\* The VIF stays disabled, unbound.
LEMMA VifPortFails ==
    ASSUME PipeInv, SetVifPort, Fail(<<>>)
    PROVE  PipeInv'
<1>1. At("vif_port") /\ Do("vif_port")
  BY AtStep DEF SetVifPort
<1>2. phase = "reinit"
  BY <1>1 DEF At, Course, StartCourse, ControlsCourse, FailingCourse, TeardownCourse
<1>3. Left \cap {"unbind_ch1", "unbind_vif"} = {} /\ "vpe" \in Left
  <2>1. Course(phase) = ReinitCourse
    BY <1>2 DEF Course
  <2>2. "vpe" \in Left
    BY <1>1, <1>2, <2>1 DEF At, ReinitCourse, Aspect
  <2> QED BY <1>1, <2>1, <2>2 DEF At, ReinitCourse
<1>4. /\ Along(FailingCourse, <<>>)
      /\ Left' = Range(<<>>)
      /\ phase' = "failing" /\ remains' = IF phase = "reinit" THEN "reinit" ELSE "nothing"
  BY <1>2, NoSteps DEF Fail, FailLeaving, Left
<1>5. /\ UNCHANGED <<links, bound, queue, objs, dstate, g_running, rec, ae>>
      /\ hw' \subseteq hw /\ recv' = recv
  BY <1>2, <1>4 DEF PipeInv, SetVifPort, Fail, FailLeaving, Popped, kernel
<1>6. UnboundFirst'
  BY <1>1, <1>2, <1>3, <1>4, <1>5, NoSteps DEF PipeInv, UnboundFirst, Made
<1>7. TakenDown'
  BY <1>1, <1>2, <1>3, <1>4, <1>5, NoSteps DEF PipeInv, TakenDown, Made, TypeOK, FrontEnd,
     Channels
<1>8. LinkEndsExist'
  BY <1>1, <1>2, <1>3, <1>5 DEF PipeInv, LinkEndsExist, Ends, TypeOK, UnboundFirst,
     SetVifPort
<1> QED BY <1>1, <1>4, <1>5, <1>6, <1>7, <1>8, Failing

--------------------------------------------------------------------------------
(* From one list to another.                                               *)

\* A list that is done leaves nothing.
LEMMA Done == ASSUME todo = <<>> PROVE Left = {}
  BY NoSteps DEF Left

\* A new aspect ratio is put before what is left; none of it was in the list.
LEMMA AspectChanges == PipeInv /\ ChangeAspect => PipeInv'
<1> SUFFICES ASSUME PipeInv, ChangeAspect PROVE PipeInv'
  OBVIOUS
<1> DEFINE c == ReinitCourse
           t == Tail(todo)
<1>1. At("resize") /\ todo # <<>> /\ Head(todo) = "resize"
  BY AtStep DEF ChangeAspect, Do
<1>2. phase = "reinit" /\ Course(phase) = c
  BY <1>1 DEF At, Course, StartCourse, ControlsCourse, FailingCourse, TeardownCourse
<1>3. \A a \in DOMAIN c : c[a] \in Nat
  BY DEF ReinitCourse
<1>4. Along(c, t) /\ Range(t) = Left \ {"resize"} /\ "resize" \in Left
  <2>1. Along(c, todo)
    BY <1>2 DEF PipeInv, InOrder
  <2> QED BY <2>1, <1>1, <1>3, Onward DEF Left
<1>5. Along(c, AspectSteps) /\ Range(AspectSteps) = Aspect
  BY DEF Along, Range, AspectSteps, Aspect, ReinitCourse
<1>6. Left \cap Aspect = {} /\ Left \subseteq DOMAIN c
      /\ \A s \in Left \ {"resize"} : c["resize"] < c[s]
  BY <1>1, <1>2, <1>4 DEF PipeInv, Complete, At
<1>7. \A a \in Range(AspectSteps), b \in Range(t) : c[a] < c[b]
  BY <1>4, <1>5, <1>6 DEF Aspect, ReinitCourse
<1>8. /\ todo' = AspectSteps \o t /\ phase' = phase
      /\ pipeline_started' = pipeline_started /\ remains' = remains
  BY DEF ChangeAspect
<1> HIDE DEF c, t
<1>9. Along(c, todo') /\ Left' = Aspect \cup (Left \ {"resize"})
  <2>1. /\ Along(c, AspectSteps \o t)
        /\ Range(AspectSteps \o t) = Range(AspectSteps) \cup Range(t)
    BY <1>3, <1>4, <1>5, <1>7, GoesOn
  <2>2. Left' = Range(todo')
    BY DEF Left
  <2> QED BY <2>1, <2>2, <1>4, <1>5, <1>8
<1>10. InOrder'
  BY <1>2, <1>8, <1>9 DEF InOrder
<1>11. Complete'
  <2>1. Course(phase)' = c /\ Required' = Required /\ "resize" \notin Left'
    BY <1>2, <1>8, <1>9 DEF Required, Aspect
  <2>2. \A s \in Aspect : c["resize"] < c[s] /\ s \in DOMAIN c
    BY DEF c, ReinitCourse, Aspect
  <2>3. ASSUME NEW a \in Left', NEW b \in DOMAIN c, c[a] < c[b],
               b \in Required \/ {a, b} \subseteq Aspect
        PROVE  b \in Left'
    <3>1. CASE {a, b} \subseteq Aspect
      BY <3>1, <1>9
    <3>2. CASE b \in Required
      <4>1. a \in DOMAIN c /\ c["resize"] < c[a]
        BY <2>2, <1>6, <1>9
      <4>2. c["resize"] < c[b] /\ b # "resize"
        BY <4>1, <2>3, <1>3, <1>4, <1>6
      <4>3. b \in Left
        BY <3>2, <4>2, <1>1, <1>2 DEF At
      <4> QED BY <4>2, <4>3, <1>9
    <3> QED BY <2>3, <3>1, <3>2
  <2> QED BY <2>1, <2>3, <1>2, <1>8 DEF Complete
<1>12. /\ hw' = hw /\ links' = links /\ recv' = recv /\ objs' = objs
       /\ rpc' = rpc /\ apc' = apc /\ dstate' = dstate
  BY DEF ChangeAspect, kernel, rec, ae
<1>13. TypeOK'
  BY <1>2, <1>8 DEF PipeInv, TypeOK, ChangeAspect, kernel, rec, ae
<1>14. Built' /\ Made'
  BY <1>2, <1>8, <1>9, <1>12 DEF PipeInv, Built, Made, Aspect
<1>15. TakenDown' /\ UnboundFirst'
  BY <1>2, <1>8, <1>9, <1>12 DEF PipeInv, TakenDown, UnboundFirst, Empty, Aspect
<1>16. Threads'
  BY <1>2, <1>8, <1>9, <1>12 DEF PipeInv, Threads, Aspect
<1>17. LinkEndsExist' /\ NeverStuck' /\ DualOutlivesThread'
  BY <1>12 DEF PipeInv, LinkEndsExist, NeverStuck, DualOutlivesThread
<1> QED BY <1>10, <1>11, <1>13, <1>14, <1>15, <1>16, <1>17 DEF PipeInv

\* A phase that begins with all that it requires, or with nothing left to do.
LEMMA PhaseBegins ==
    ASSUME PipeInv, Others' = Others, InOrder', Complete', Built', Made',
           TakenDown', UnboundFirst', Threads', pipeline_started' \in {0, 1},
           phase' \in {"controls", "loop", "reinit", "ended", "teardown", "exited"}
    PROVE  PipeInv'
<1>1. TypeOK'
  BY DEF PipeInv, TypeOK, Others, kernel, rec, ae
<1>2. LinkEndsExist' /\ NeverStuck' /\ DualOutlivesThread'
  BY DEF PipeInv, LinkEndsExist, NeverStuck, DualOutlivesThread, Others, kernel, rec
<1> QED BY <1>1, <1>2 DEF PipeInv

\* What is not there any more when nothing is left to do.
LEMMA NothingToDo ==
    ASSUME todo' = <<>>
    PROVE  Left' = {} /\ InOrder' /\ Complete'
<1>1. Left' = {} /\ InOrder'
  BY NoSteps DEF Left, InOrder
<1>2. Complete'
  BY <1>1 DEF Complete
<1> QED BY <1>1, <1>2

\* The pipeline is up: the controls start.
LEMMA StartedStep == PipeInv /\ Started => PipeInv'
<1> SUFFICES ASSUME PipeInv, Started PROVE PipeInv'
  OBVIOUS
<1>1. /\ phase = "start" /\ Left = {} /\ Others' = Others /\ phase' = "controls"
      /\ pipeline_started' = 1 /\ todo' = ControlSteps /\ remains' = remains
  BY Done DEF Started, Idle, Others
<1>2. Course(phase') = ControlsCourse /\ Left' = DOMAIN ControlsCourse
  BY <1>1, StartLists DEF Course, Left
<1>3. InOrder'
  BY <1>1, <1>2, StartLists DEF InOrder
<1>4. Complete'
  BY <1>1, <1>2 DEF Complete
<1>5. Built' /\ Made'
  BY <1>1, <1>2 DEF PipeInv, Built, Made, Others, kernel, ControlsCourse
<1>6. TakenDown' /\ UnboundFirst'
  BY <1>1 DEF TakenDown, UnboundFirst
<1>7. Threads'
  BY <1>1 DEF PipeInv, Threads, Others, rec, ae
<1> QED BY <1>1, <1>3, <1>4, <1>5, <1>6, <1>7, PhaseBegins

\* The loop runs on what was built.
LEMMA LoopBeginsStep == PipeInv /\ LoopBegins => PipeInv'
<1> SUFFICES ASSUME PipeInv, LoopBegins PROVE PipeInv'
  OBVIOUS
<1>1. /\ phase \in {"controls", "reinit"} /\ Left = {} /\ Others' = Others
      /\ phase' = "loop" /\ todo' = <<>> /\ pipeline_started' = pipeline_started
  BY Done DEF LoopBegins, Idle, Others
<1>2. Left' = {} /\ InOrder' /\ Complete'
  BY <1>1, NothingToDo
<1>3. Built' /\ Made'
  BY <1>1, <1>2 DEF PipeInv, Built, Made, Others, kernel
<1>4. TakenDown' /\ UnboundFirst'
  BY <1>1 DEF TakenDown, UnboundFirst
<1>5. Threads'
  BY <1>1 DEF PipeInv, Threads, Others, rec, ae
<1> QED BY <1>1, <1>2, <1>3, <1>4, <1>5, PhaseBegins DEF PipeInv, TypeOK

\* A reinit begins with a whole pipeline.
LEMMA ReinitStep == PipeInv /\ Reinit => PipeInv'
<1> SUFFICES ASSUME PipeInv, Reinit PROVE PipeInv'
  OBVIOUS
<1>1. /\ phase = "loop" /\ Left = {} /\ Others' = Others /\ phase' = "reinit"
      /\ pipeline_started' = pipeline_started /\ todo' = RestartSteps
  BY Done DEF Reinit, Idle, Others
<1>2. Course(phase') = ReinitCourse /\ Left' = DOMAIN ReinitCourse \ Aspect
  BY <1>1, RestartList DEF Course, Left
<1>3. InOrder'
  BY <1>1, <1>2, RestartList DEF InOrder
<1>4. {"ae_join", "rec_join", "unbind_ch1", "unbind_ch0"} \subseteq Left' /\ "vpe" \notin Left'
  BY <1>2 DEF ReinitCourse, Aspect
<1>5. Complete'
  <2>1. Required' = DOMAIN ReinitCourse \ Aspect
    BY <1>1, <1>2 DEF Required
  <2> QED BY <2>1, <1>1, <1>2 DEF Complete
<1>6. Built' /\ Made'
  BY <1>1, <1>2 DEF PipeInv, Built, Made, Others, kernel
<1>7. TakenDown' /\ UnboundFirst'
  BY <1>1, <1>4 DEF TakenDown, UnboundFirst
<1>8. Threads'
  BY <1>1, <1>4 DEF PipeInv, Threads, Others, rec, ae
<1> QED BY <1>1, <1>3, <1>5, <1>6, <1>7, <1>8, PhaseBegins DEF PipeInv, TypeOK

\* The loop ends, a configuration cannot be loaded, or the clean-up is done.
LEMMA EndSteps ==
    PipeInv /\ (LoopEnds \/ Failed \/ (LoadConfig /\ phase' = "ended")) => PipeInv'
<1> SUFFICES ASSUME PipeInv, LoopEnds \/ Failed \/ (LoadConfig /\ phase' = "ended")
             PROVE  PipeInv'
  OBVIOUS
<1>1. /\ phase' = "ended" /\ todo' = <<>> /\ Others' = Others
      /\ remains' = remains
      /\ \/ phase \in {"loop", "reinit"} /\ pipeline_started' = pipeline_started
         \/ phase = "failing" /\ Left = {} /\ pipeline_started' = 0
  <2>1. CASE LoopEnds
    BY <2>1 DEF LoopEnds, Idle, Others
  <2>2. CASE Failed
    BY <2>2, Done DEF Failed, Idle, Others
  <2>3. CASE LoadConfig /\ phase' = "ended"
    <3>1. At("load")
      BY <2>3, AtStep DEF LoadConfig
    <3>2. phase = "reinit"
      BY <3>1 DEF At, Course, StartCourse, ControlsCourse, FailingCourse, TeardownCourse
    <3> QED BY <2>3, <3>2 DEF LoadConfig, Popped, Others
  <2> QED BY <2>1, <2>2, <2>3
<1>2. Left' = {} /\ InOrder' /\ Complete'
  BY <1>1, NothingToDo
<1>3. Built' /\ Made' /\ UnboundFirst'
  BY <1>1 DEF Built, Made, UnboundFirst
<1>4. TakenDown'
  <2>1. CASE phase \in {"loop", "reinit"} /\ pipeline_started' = pipeline_started
    BY <2>1, <1>1 DEF PipeInv, Threads, TakenDown
  <2>2. CASE phase = "failing" /\ Left = {} /\ pipeline_started' = 0
    <3>1. remains = "reinit" \/ Empty
      BY <2>2 DEF PipeInv, TakenDown, Empty, TypeOK, FrontEnd, Channels, Ends
    <3> QED BY <2>2, <3>1, <1>1 DEF TakenDown, Empty, Others, kernel
  <2> QED BY <1>1, <2>1, <2>2
<1>5. Threads'
  BY <1>1 DEF PipeInv, Threads, Others, rec, ae
<1> QED BY <1>1, <1>2, <1>3, <1>4, <1>5, PhaseBegins DEF PipeInv, TypeOK

\* A teardown begins with all there is still to be taken down.
LEMMA TeardownStep == PipeInv /\ Teardown => PipeInv'
<1> SUFFICES ASSUME PipeInv, Teardown PROVE PipeInv'
  OBVIOUS
<1>1. /\ phase = "ended" /\ Others' = Others /\ phase' = "teardown"
      /\ pipeline_started' = pipeline_started /\ remains' = remains
      /\ pipeline_started \in {0, 1}
  BY DEF Teardown, Idle, Others, PipeInv, TypeOK
<1>2. Course(phase') = TeardownCourse
  BY <1>1 DEF Course
<1>3. /\ Along(TeardownCourse, todo') /\ {"ae_stop", "ae_join"} \subseteq Left'
      /\ pipeline_started = 1 => Left' = DOMAIN TeardownCourse
      /\ pipeline_started = 0 => Left' = {"ae_stop", "ae_join"}
  <2>1. CASE pipeline_started = 1
    <3>1. todo' = <<"ae_stop">> \o StopSteps \o <<"ae_join">>
      BY <2>1 DEF Teardown
    <3>2. Along(TeardownCourse, todo') /\ Left' = DOMAIN TeardownCourse
      BY <3>1, TeardownLists DEF Left
    <3> QED BY <2>1, <3>2 DEF TeardownCourse
  <2>2. CASE pipeline_started = 0
    <3> DEFINE a == <<"ae_stop">>
               b == <<"ae_join">>
    <3>1. todo' = (a \o <<>>) \o b /\ a \o <<>> = a
      BY <2>2 DEF Teardown
    <3>2. /\ Along(TeardownCourse, a) /\ Range(a) = {"ae_stop"}
          /\ Along(TeardownCourse, b) /\ Range(b) = {"ae_join"}
      BY DEF Along, Range, TeardownCourse
    <3>3. \A x \in DOMAIN TeardownCourse : TeardownCourse[x] \in Nat
      BY DEF TeardownCourse
    <3>4. TeardownCourse["ae_stop"] < TeardownCourse["ae_join"]
      BY DEF TeardownCourse
    <3> HIDE DEF a, b
    <3>5. Along(TeardownCourse, a \o b) /\ Range(a \o b) = {"ae_stop", "ae_join"}
      BY <3>2, <3>3, <3>4, GoesOn
    <3> QED BY <2>2, <3>1, <3>5 DEF Left
  <2> QED BY <1>1, <2>1, <2>2
<1>4. InOrder'
  BY <1>2, <1>3 DEF InOrder
<1>5. Complete'
  <2>1. Required' = Left'
    BY <1>1, <1>2, <1>3 DEF Required
  <2> QED BY <2>1, <1>1, <1>3 DEF Complete
<1>6. Built' /\ Made' /\ UnboundFirst'
  BY <1>1 DEF Built, Made, UnboundFirst
<1>7. TakenDown'
  <2>1. CASE pipeline_started = 1
    BY <2>1, <1>1, <1>3 DEF TakenDown, TeardownCourse
  <2>2. CASE pipeline_started = 0
    BY <2>2, <1>1 DEF PipeInv, TakenDown, Empty, Others, kernel
  <2> QED BY <1>1, <2>1, <2>2
<1>8. Threads'
  <2>1. pipeline_started = 1 => "rec_join" \in Left'
    BY <1>3 DEF TeardownCourse
  <2> QED BY <2>1, <1>1, <1>3 DEF PipeInv, Threads, Others, rec, ae
<1> QED BY <1>1, <1>4, <1>5, <1>6, <1>7, <1>8, PhaseBegins

\* The process ends with nothing left.
LEMMA ExitStep == PipeInv /\ Exit => PipeInv'
<1> SUFFICES ASSUME PipeInv, Exit PROVE PipeInv'
  OBVIOUS
<1>1. /\ phase = "teardown" /\ Left = {} /\ Others' = Others /\ phase' = "exited"
      /\ todo' = <<>> /\ pipeline_started' = 0 /\ remains' = remains
  BY Done DEF Exit, Idle, Others
<1>2. Left' = {} /\ InOrder' /\ Complete'
  BY <1>1, NothingToDo
<1>3. Built' /\ Made' /\ UnboundFirst'
  BY <1>1 DEF Built, Made, UnboundFirst
<1>4. TakenDown'
  <2>1. remains = "reinit" \/ Empty
    BY <1>1 DEF PipeInv, TakenDown, Empty, TypeOK, FrontEnd, Channels, Ends
  <2> QED BY <2>1, <1>1 DEF TakenDown, Empty, Others, kernel
<1>5. Threads'
  BY <1>1 DEF PipeInv, Threads, Others, rec, ae
<1> QED BY <1>1, <1>2, <1>3, <1>4, <1>5, PhaseBegins

--------------------------------------------------------------------------------
(* Theorems.                                                               *)

\* A start begins with nothing there and all of its steps to take.
LEMMA PipeInit == Init => PipeInv
<1> SUFFICES ASSUME Init PROVE PipeInv
  OBVIOUS
<1>1. phase = "start" /\ todo = StartSteps /\ pipeline_started = 0
  BY DEF Init
<1>2. Course(phase) = StartCourse /\ Left = DOMAIN StartCourse
  BY <1>1, StartLists DEF Course, Left
<1>3. TypeOK
  <2>1. queue \in [Channels -> 0 .. Depth]
    BY PipelineAssumption DEF Init
  <2> QED BY <2>1 DEF Init, TypeOK
<1>4. InOrder
  BY <1>1, <1>2, StartLists DEF InOrder
<1>5. Complete
  BY <1>1, <1>2 DEF Complete
<1>6. Built /\ Made
  BY <1>2 DEF Init, Built, Made, StartCourse
<1>7. TakenDown /\ UnboundFirst /\ Threads
  BY DEF Init, TakenDown, UnboundFirst, Threads
<1>8. LinkEndsExist /\ NeverStuck /\ DualOutlivesThread
  BY DEF Init, LinkEndsExist, NeverStuck, DualOutlivesThread
<1> QED BY <1>3, <1>4, <1>5, <1>6, <1>7, <1>8 DEF PipeInv

\* Every step of building, whether it is taken or fails.
LEMMA BuildSteps == PipeInv /\ Build => PipeInv'
<1> SUFFICES ASSUME PipeInv, Build PROVE PipeInv'
  OBVIOUS
<1>1. CASE Prepare
  <2>1. CASE Popped
    <3>1. TypeOK'
      BY <1>1, <2>1 DEF PipeInv, TypeOK, Prepare, Popped, kernel, rec, ae
    <3> QED BY <1>1, <2>1, <3>1, Harmless DEF Prepare, kernel, rec, ae
  <2> QED BY <1>1, <2>1, PrepareFails DEF Prepare
<1>2. CASE StartSensor
  BY <1>2, SensorOn, SensorFails, SensorLeft DEF StartSensor, Enable
<1>3. CASE StartVif
  BY <1>3, VifOn, VifFails DEF StartVif, Enable
<1>4. CASE StartVpe
  BY <1>4, VpeOn, VpeFails DEF StartVpe, Enable
<1>5. CASE StartVenc
  BY <1>5, VencOn, VencFails DEF StartVenc, Enable
<1>6. CASE BindVif
  BY <1>6, VifBound, VifBindFails DEF BindVif
<1>7. CASE BindVenc
  BY <1>7, VencBound, VencBindFails DEF BindVenc
<1>8. CASE InitOutput
  BY <1>8, OutputMade, OutputFails DEF InitOutput
<1>9. CASE StartAe \/ StartDual \/ InitDualOutput \/ StartRecThread
  BY <1>9, AeStarted, DualStarted, DualOutputMade, RecStarted
<1>10. CASE \E made \in {{}, {"audio"}, {"audio", "imu", "eis", "osd"}} : InitPeripherals(made)
  BY <1>10, PeripheralsMade
<1> QED BY <1>1, <1>2, <1>3, <1>4, <1>5, <1>6, <1>7, <1>8, <1>9, <1>10 DEF Build

\* Every step of taking down.
LEMMA TakeDownSteps == PipeInv /\ TakeDown => PipeInv'
<1> SUFFICES ASSUME PipeInv, TakeDown PROVE PipeInv'
  OBVIOUS
<1>1. CASE RecStop \/ AeStop
  <2>1. CASE RecStop
    <3>1. TypeOK'
      BY <2>1 DEF PipeInv, TypeOK, RecStop, Popped, kernel, ae
    <3> QED BY <2>1, <3>1, Harmless DEF RecStop, kernel, ae
  <2>2. CASE AeStop
    <3>1. TypeOK'
      BY <2>2 DEF PipeInv, TypeOK, AeStop, Popped, kernel, rec
    <3> QED BY <2>2, <3>1, Harmless DEF AeStop, kernel, rec
  <2> QED BY <1>1, <2>1, <2>2
<1>2. CASE Drain("drain_ch0", "ch0") \/ Drain("drain_ch1", "ch1")
  <2>1. PICK step \in {"drain_ch0", "drain_ch1"}, ch \in Channels : Drain(step, ch)
    BY <1>2 DEF Channels
  <2>2. queue' \in [Channels -> 0 .. Depth]
    BY <2>1, PipelineAssumption DEF PipeInv, TypeOK, Drain
  <2>3. TypeOK'
    BY <2>1, <2>2 DEF PipeInv, TypeOK, Drain, Popped, rec, ae
  <2> QED BY <2>1, <2>3, Harmless DEF Drain, rec, ae
<1>3. CASE \/ FreePeripherals \/ FreeOutput("free_output", "output")
           \/ FreeOutput("free_dual_output", "dual_output")
  BY <1>3, PeripheralsFreed, OutputFreed, DualOutputFreed
<1>4. CASE RecJoin \/ AeJoin
  BY <1>4, RecJoined, AeJoined
<1>5. CASE \/ Unbind("unbind_ch1", "vpe_ch1") \/ Unbind("unbind_ch0", "vpe_ch0")
           \/ Unbind("unbind_vif", "vif_vpe")
  BY <1>5, Ch1Unbound, Ch0Unbound, VifUnbound
<1>6. CASE StopRecv("stop_ch0", "ch0") \/ StopRecv("stop_ch1", "ch1")
  BY <1>6, Ch0Stopped, Ch1Stopped
<1>7. CASE Destroy("destroy_ch0", "ch0") \/ Destroy("destroy_ch1", "ch1")
  BY <1>7, Ch0Destroyed, Ch1Destroyed
<1>8. CASE \/ Disable("stop_vpe", {"vpe", "vpe_port"})
           \/ Disable("stop_vif", {"vif", "vif_port"})
           \/ Disable("stop_sensor", {"sensor"})
  BY <1>8, VpeStopped, VifStopped, SensorStopped
<1> QED BY <1>1, <1>2, <1>3, <1>4, <1>5, <1>6, <1>7, <1>8 DEF TakeDown

\* Every step of the resize, and of loading the configuration.
LEMMA ResizeSteps ==
    PipeInv /\ (SameSize \/ ResizePort \/ ChangeAspect \/ SetVifPort \/ LoadConfig) => PipeInv'
<1> SUFFICES ASSUME PipeInv, SameSize \/ ResizePort \/ ChangeAspect \/ SetVifPort \/ LoadConfig
             PROVE  PipeInv'
  OBVIOUS
<1>1. CASE SameSize
  <2>1. TypeOK'
    BY <1>1 DEF PipeInv, TypeOK, SameSize, Popped, kernel, rec, ae
  <2> QED BY <1>1, <2>1, Harmless DEF SameSize, kernel, rec, ae
<1>2. CASE ResizePort
  <2>1. CASE Popped /\ UNCHANGED hw
    <3>1. TypeOK'
      BY <1>2, <2>1 DEF PipeInv, TypeOK, ResizePort, Popped, rec, ae
    <3> QED BY <1>2, <2>1, <3>1, Harmless DEF ResizePort, rec, ae
  <2> QED BY <1>2, <2>1, ResizeFails DEF ResizePort
<1>3. CASE SetVifPort
  <2>1. CASE Popped /\ UNCHANGED hw
    <3>1. TypeOK'
      BY <1>3, <2>1 DEF PipeInv, TypeOK, SetVifPort, Popped, rec, ae
    <3> QED BY <1>3, <2>1, <3>1, Harmless DEF SetVifPort, rec, ae
  <2> QED BY <1>3, <2>1, VifPortFails DEF SetVifPort
<1>4. CASE LoadConfig
  <2>1. CASE Popped
    <3>1. TypeOK'
      BY <1>4, <2>1 DEF PipeInv, TypeOK, LoadConfig, Popped, kernel, rec, ae
    <3> QED BY <1>4, <2>1, <3>1, Harmless DEF LoadConfig, kernel, rec, ae
  <2> QED BY <1>4, <2>1, EndSteps DEF LoadConfig
<1> QED BY <1>1, <1>2, <1>3, <1>4, AspectChanges

\* Every step keeps the invariant.
LEMMA PipeNext == PipeInv /\ [Next]_vars => PipeInv'
<1> SUFFICES ASSUME PipeInv, [Next]_vars PROVE PipeInv'
  OBVIOUS
<1>1. CASE MainStep
  <2>1. CASE Between
    BY <2>1, StartedStep, LoopBeginsStep, EndSteps, TeardownStep, ExitStep DEF Between
  <2> QED BY <1>1, <2>1, BuildSteps, TakeDownSteps, ResizeSteps DEF MainStep
<1>2. CASE RecStep \/ AeStep
  BY <1>2, RecSteps, AeSteps
<1>3. CASE StreamFrame \/ Terminate \/ \E ch \in Channels : Deliver(ch)
  BY <1>3, FramesAndSignals
<1>4. CASE Reinit \/ LoopEnds
  BY <1>4, ReinitStep, EndSteps
<1>5. CASE UNCHANGED vars
  <2>1. TypeOK'
    BY <1>5 DEF PipeInv, TypeOK, vars, kernel, main, rec, ae
  <2> QED BY <1>5, <2>1, Elsewhere DEF vars, kernel, main, rec, ae
<1> QED BY <1>1, <1>2, <1>3, <1>4, <1>5 DEF Next

\* The invariant holds throughout.
LEMMA PipeHolds == Spec => []PipeInv
<1> QED BY PipeInit, PipeNext, PTL DEF Spec

\* Types, and the flags that say what is bound.
THEOREM PipelineTypes == Spec => []TypeOK
<1>1. PipeInv => TypeOK
  BY DEF PipeInv
<1> QED BY <1>1, PipeHolds, PTL

\* Whatever fails, and however often the pipeline is rebuilt: the loop runs on
\* a whole pipeline, nothing is destroyed while it is bound, no thread is stuck
\* in the driver or left on what is freed, and the process leaves nothing behind
\* but what a failed reinit, or a sensor that fails once it is enabled, leaves.
THEOREM PipelineStands == Spec => []Standing
<1>1. PipeInv => Standing
  <2> SUFFICES ASSUME PipeInv PROVE Standing
    OBVIOUS
  <2>1. LinkEndsExist /\ NeverStuck /\ DualOutlivesThread
    BY DEF PipeInv
  <2>2. LoopIsWhole
    <3>1. ASSUME phase = "loop" PROVE Left = {}
      <4>1. todo = <<>>
        BY <3>1, NoSteps DEF PipeInv, InOrder
      <4> QED BY <4>1, Done
    <3> QED BY <3>1 DEF PipeInv, Built, LoopIsWhole, FrontEnd
  <2>3. ASSUME phase = "reinit"
        PROVE  /\ "sensor" \notin Left /\ "vif" \notin Left
               /\ "ae_join" \in Left \/ "ae" \notin Left => "vpe" \notin Left
    <3> DEFINE c == ReinitCourse
    <3>1. Course(phase) = c /\ \A s \in Left : s \in DOMAIN c
      <4>1. Course(phase) = c
        BY <2>3 DEF Course
      <4>2. todo \in Seq(DOMAIN c)
        BY <4>1 DEF PipeInv, InOrder, Along
      <4> QED BY <4>1, <4>2 DEF Left, Range
    <3>2. "sensor" \notin Left /\ "vif" \notin Left
      BY <3>1 DEF ReinitCourse
    <3>3. "ae_join" \in Left => "resize" \in Left
      BY <2>3, <3>1 DEF PipeInv, Complete, Required, Course, ReinitCourse, Aspect
    <3>4. "resize" \in Left => "vpe" \notin Left
      BY <2>3 DEF PipeInv, Complete, Aspect
    <3>5. "vpe" \in Left => "ae" \in Left
      BY <2>3, <3>1 DEF PipeInv, Complete, Required, Course, ReinitCourse, Aspect
    <3> QED BY <3>2, <3>3, <3>4, <3>5
  <2>4. PhyUntouched
    BY <2>3 DEF PipeInv, Built, PhyUntouched
  <2>5. AeSeesVpe
    BY <2>3 DEF PipeInv, Built, Threads, AeSeesVpe
  <2>6. NothingLeft
    BY DEF PipeInv, TakenDown, Threads, Empty, NothingLeft
  <2> QED BY <2>1, <2>2, <2>4, <2>5, <2>6 DEF Standing
<1> QED BY <1>1, PipeHolds, PTL

--------------------------------------------------------------------------------
(* Live settings.                                                          *)

(* The callbacks that a group makes for the fields the request names.      *)
Callbacks(g) ==
    CASE g = "bitrate"  -> {"bitrate"}
      [] g = "timing"   -> (touched \cap {"fps"}) \cup (IF scene = 0 THEN {"gop"} ELSE {})
      [] g = "outgoing" -> touched \cap {"server", "enabled"}

(* The rates the hardware may run at with configuration c.                 *)
RateAgrees(d, c) ==
    \/ /\ "rate" \in d.fresh
       /\ d.rate = Lesser(c.fps, BootFps) /\ d.bind = Lesser(c.fps, SensorFps)
    \/ /\ "rate" \notin d.fresh /\ d.rate = d.bind
       /\ \/ d.rate = Lesser(c.fps, SensorFps)
          \/ d.rate = Lesser(d.stored_fps, SensorFps)
          \/ d.output_enabled = 0 /\ d.rate = IdleFps

(* The GOP of configuration c, counted as device d counts it.              *)
GopAgrees(d, c) ==
    d.gop = Frames(c.gop, IF "gop" \in d.fresh THEN BootFps ELSE c.fps)

(* Whose gop and whose counting are the same.                              *)
SameGop(d, e) == d.gop = e.gop /\ ("gop" \in d.fresh <=> "gop" \in e.fresh)

(* Device d runs what c says, but for what the callbacks in X are to set.  *)
Agrees(d, c, X) ==
    /\ "bitrate" \notin X => d.bitrate = c.bitrate
    /\ "server" \notin X => d.server = c.server
    /\ "enabled" \notin X => d.output_enabled = c.enabled
    /\ "gop" \notin X /\ scene = 0 => GopAgrees(d, c)
    /\ X \cap {"fps", "enabled"} = {} => RateAgrees(d, c)

(* What the handler's locals have to do with each other.                   *)
Locals ==
    /\ scene = 1 => "gop" \notin touched
    /\ \A f \in Fields \ touched : new[f] = old[f]
    /\ incomplete => rolling
    /\ pc = "idle" => groups = <<>> /\ ~rolling
    /\ pc # "call" => cfg = actual
    /\ pc = "call" => /\ groups # <<>>
                      /\ cfg = Merge(actual, IF rolling THEN old ELSE new, Head(groups))
                      /\ Range(calls) \subseteq Callbacks(Head(groups))

(* Which fields have their new values, and which their old ones.           *)
Taken ==
    /\ ~rolling =>
          \A f \in Fields :
              /\ actual[f] = old[f] \/ (f \in touched /\ GroupOf(f) \in Range(done))
              /\ f \in touched /\ GroupOf(f) \notin Range(groups) => actual[f] = new[f]
    /\ rolling /\ ~incomplete =>
          \A f \in Fields :
              actual[f] = old[f] \/ (f \in touched /\ GroupOf(f) \in Range(groups))

(* The hardware, while a request is served: it agrees with what has been   *)
(* committed, but for the calls that are still to come and, in a           *)
(* roll-back, for the group to be rolled back next.                        *)
Hardware ==
    /\ pc = "idle" => Agrees(dev, cfg, {})
    /\ pc = "next" =>
          Agrees(dev, cfg, IF rolling /\ groups # <<>> THEN Callbacks(Head(groups)) ELSE {})
    /\ pc = "call" => Agrees(dev, cfg, Range(calls))

LiveInv == LiveTypeOK /\ Locals /\ Taken /\ (unsure \/ incomplete \/ Hardware)

--------------------------------------------------------------------------------
(* Sequences.                                                              *)

\* A sequence that is not empty consists of its head and of its tail.
LEMMA HeadAndTail ==
    ASSUME NEW S, NEW s \in Seq(S), s # <<>>
    PROVE  /\ Head(s) \in S /\ Tail(s) \in Seq(S)
           /\ Range(s) = {Head(s)} \cup Range(Tail(s))
<1>1. Len(s) >= 1 /\ Head(s) = s[1] /\ Head(s) \in S /\ Tail(s) \in Seq(S)
      /\ Len(Tail(s)) = Len(s) - 1 /\ Len(s) \in Nat
  OBVIOUS
<1>2. \A i \in 1 .. Len(s) - 1 : Tail(s)[i] = s[i + 1]
  OBVIOUS
<1>3. Range(s) \subseteq {Head(s)} \cup Range(Tail(s))
  <2> SUFFICES ASSUME NEW i \in 1 .. Len(s) PROVE s[i] \in {Head(s)} \cup Range(Tail(s))
    BY DEF Range
  <2>1. CASE i = 1
    BY <2>1, <1>1
  <2>2. CASE i > 1
    <3>1. i - 1 \in 1 .. Len(s) - 1 /\ Tail(s)[i - 1] = s[i]
      BY <2>2, <1>1, <1>2
    <3>2. DOMAIN Tail(s) = 1 .. Len(s) - 1
      BY <1>1
    <3> QED BY <3>1, <3>2 DEF Range
  <2> QED BY <2>1, <2>2
<1>4. {Head(s)} \cup Range(Tail(s)) \subseteq Range(s)
  BY <1>1, <1>2 DEF Range
<1> QED BY <1>1, <1>3, <1>4

\* What a concatenation holds.
LEMMA Joined ==
    ASSUME NEW S, NEW s \in Seq(S), NEW t \in Seq(S)
    PROVE  s \o t \in Seq(S) /\ Range(s \o t) = Range(s) \cup Range(t)
<1>1. s \o t \in Seq(S) /\ Len(s \o t) = Len(s) + Len(t) /\ Len(s) \in Nat /\ Len(t) \in Nat
  OBVIOUS
<1>2. \A i \in 1 .. Len(s) : (s \o t)[i] = s[i]
  OBVIOUS
<1>3. \A i \in 1 .. Len(t) : (s \o t)[Len(s) + i] = t[i]
  OBVIOUS
<1>4. Range(s \o t) \subseteq Range(s) \cup Range(t)
  <2> SUFFICES ASSUME NEW i \in 1 .. Len(s) + Len(t) PROVE (s \o t)[i] \in Range(s) \cup Range(t)
    BY <1>1 DEF Range
  <2>1. CASE i <= Len(s)
    BY <2>1, <1>1, <1>2 DEF Range
  <2>2. CASE i > Len(s)
    BY <2>2, <1>1, <1>3, i - Len(s) \in 1 .. Len(t), Len(s) + (i - Len(s)) = i DEF Range
  <2> QED BY <2>1, <2>2, <1>1
<1>5. Range(s) \cup Range(t) \subseteq Range(s \o t)
  <2>1. \A i \in 1 .. Len(s) : s[i] \in Range(s \o t)
    BY <1>1, <1>2 DEF Range
  <2>2. \A i \in 1 .. Len(t) : t[i] \in Range(s \o t)
    <3> SUFFICES ASSUME NEW i \in 1 .. Len(t) PROVE t[i] \in Range(s \o t)
      OBVIOUS
    <3>1. Len(s) + i \in DOMAIN (s \o t) /\ (s \o t)[Len(s) + i] = t[i]
      BY <1>1, <1>3
    <3> QED BY <3>1 DEF Range
  <2>3. DOMAIN s = 1 .. Len(s) /\ DOMAIN t = 1 .. Len(t)
    BY <1>1
  <2> HIDE DEF Range
  <2>4. \A x \in Range(s) : x \in Range(s \o t)
    BY <2>1, <2>3 DEF Range
  <2>5. \A x \in Range(t) : x \in Range(s \o t)
    BY <2>2, <2>3 DEF Range
  <2> QED BY <2>4, <2>5
<1> QED BY <1>1, <1>4, <1>5

\* What a single element and the empty sequence hold.
LEMMA Singletons ==
    /\ Range(<<>>) = {} /\ \A S : <<>> \in Seq(S)
    /\ \A S : \A x \in S : <<x>> \in Seq(S) /\ Range(<<x>>) = {x}
  BY DEF Range

\* An order of the groups names each of them.
LEMMA OrderNamesAll ==
    ASSUME NEW S, IsFiniteSet(S), NEW s \in SetToSeqs(S)
    PROVE  s \in Seq(S) /\ Range(s) = S
<1> DEFINE n == Cardinality(S)
<1>a. Cardinality(S) = Cardinality(S)
  BY DEF Cardinality, Cardinality
<1>1. n \in Nat /\ s \in [1 .. n -> S] /\ \A i, j \in 1 .. n : i # j => s[i] # s[j]
  BY <1>a, FS_CardinalityType DEF SetToSeqs
<1>2. s \in Seq(S)
  BY <1>1
<1>3. IsFiniteSet(1 .. n) /\ Cardinality(1 .. n) = n
  BY <1>1, FS_Interval
<1>4. s \in Injection(1 .. n, S)
  BY <1>1 DEF Injection, IsInjective
<1>5. s \in Surjection(1 .. n, S)
  BY <1>3, <1>4, FS_Injection
<1> QED BY <1>1, <1>2, <1>5 DEF Surjection, Range

--------------------------------------------------------------------------------
(* Callbacks.                                                              *)

\* A group makes the callbacks of the fields that the request names.
LEMMA CallsOfGroup ==
    ASSUME NEW g \in Groups, NEW c \in Config, touched \subseteq Fields
    PROVE  Calls(g, c) \in Seq(Fields) /\ Range(Calls(g, c)) = Callbacks(g)
<1> DEFINE one(f) == IF f \in touched THEN <<f>> ELSE <<>>
           gop    == IF scene = 0 THEN <<"gop">> ELSE <<>>
<1>a. /\ <<>> \in Seq(Fields) /\ Range(<<>>) = {}
      /\ \A f \in Fields : <<f>> \in Seq(Fields) /\ Range(<<f>>) = {f}
  BY Singletons
<1>b. "gop" \in Fields
  BY DEF Fields
<1>1. /\ \A f \in Fields : one(f) \in Seq(Fields) /\ Range(one(f)) = {f} \cap touched
      /\ gop \in Seq(Fields) /\ Range(gop) = IF scene = 0 THEN {"gop"} ELSE {}
  BY <1>a, <1>b
<1>2. CASE g = "bitrate"
  BY <1>2, Singletons DEF Calls, Callbacks, Fields
<1>3. CASE g = "timing"
  <2>1. Calls(g, c) = one("fps") \o gop
    BY <1>3 DEF Calls
  <2>2. "fps" \in Fields
    BY DEF Fields
  <2> HIDE DEF one, gop
  <2>3. Calls(g, c) \in Seq(Fields) /\ Range(Calls(g, c)) = Range(one("fps")) \cup Range(gop)
    BY <2>1, <2>2, <1>1, Joined
  <2> QED BY <2>2, <2>3, <1>1, <1>3 DEF Callbacks
<1>4. CASE g = "outgoing"
  <2>1. \/ Calls(g, c) = one("server") \o one("enabled")
        \/ Calls(g, c) = one("enabled") \o one("server")
    BY <1>4 DEF Calls
  <2>2. "server" \in Fields /\ "enabled" \in Fields
    BY DEF Fields
  <2> HIDE DEF one, gop
  <2>3. /\ Calls(g, c) \in Seq(Fields)
        /\ Range(Calls(g, c)) = Range(one("server")) \cup Range(one("enabled"))
    <3>1. one("server") \in Seq(Fields) /\ one("enabled") \in Seq(Fields)
      BY <2>2, <1>1
    <3>2. CASE Calls(g, c) = one("server") \o one("enabled")
      BY <3>1, <3>2, Joined
    <3>3. CASE Calls(g, c) = one("enabled") \o one("server")
      BY <3>1, <3>3, Joined
    <3> QED BY <2>1, <3>2, <3>3
  <2> QED BY <2>2, <2>3, <1>1, <1>4 DEF Callbacks
<1> QED BY <1>2, <1>3, <1>4 DEF Groups

\* apply_fps touches the bind and the encoder's rate only, and brings them
\* together when it succeeds.
LEMMA FpsEffect ==
    ASSUME NEW d \in Device, NEW f \in Nat,
           NEW o \in ApplyFps(d, f)
    PROVE  /\ o.dev \in Device /\ o.rc \in {0, -1}
           /\ o.dev.bitrate = d.bitrate /\ SameGop(o.dev, d) /\ o.dev.server = d.server
           /\ o.dev.output_enabled = d.output_enabled /\ o.dev.stored_fps = d.stored_fps
           /\ o.rc = 0 => /\ o.dev.bind = o.dev.rate /\ o.dev.rate = Lesser(f, SensorFps)
                          /\ "rate" \notin o.dev.fresh
<1>1. Lesser(f, SensorFps) \in 0 .. SensorFps /\ SensorFps \in 0 .. SensorFps /\ 0 \in 0 .. SensorFps
  BY LiveSetAssumption DEF LiveSetAssumption, Lesser
<1> DEFINE r == Lesser(f, SensorFps)
<1>2. r \in 0 .. SensorFps
  BY <1>1
<1>3. \/ o = Bad(d)
      \/ o = Ok([d EXCEPT !.bind = r, !.rate = r, !.fresh = @ \ {"rate"}])
      \/ o = Bad([d EXCEPT !.bind = r])
      \/ o = Bad([d EXCEPT !.bind = SensorFps]) \/ o = Bad([d EXCEPT !.bind = 0])
  BY DEF ApplyFps
<1> HIDE DEF r
<1>4. CASE o = Bad(d)
  BY <1>4 DEF Bad, SameGop
<1>5. CASE o = Ok([d EXCEPT !.bind = r, !.rate = r, !.fresh = @ \ {"rate"}])
  <2> DEFINE left == d.fresh \ {"rate"}
  <2>1. left \in SUBSET {"gop", "rate"} /\ "rate" \notin left
        /\ ("gop" \in left <=> "gop" \in d.fresh)
    BY DEF Device
  <2>2. o.rc = 0 /\ o.dev = [d EXCEPT !.bind = r, !.rate = r, !.fresh = left]
    BY <1>5 DEF Ok, Device
  <2> HIDE DEF left
  <2>3. o.dev \in Device
    BY <1>2, <2>1, <2>2 DEF Device
  <2> QED BY <2>1, <2>2, <2>3 DEF Device, SameGop, r
<1>6. ASSUME NEW b \in 0 .. SensorFps, o = Bad([d EXCEPT !.bind = b])
      PROVE  /\ o.dev \in Device /\ o.rc = -1
             /\ o.dev.bitrate = d.bitrate /\ SameGop(o.dev, d) /\ o.dev.server = d.server
             /\ o.dev.output_enabled = d.output_enabled /\ o.dev.stored_fps = d.stored_fps
  BY <1>6 DEF Bad, Device, SameGop
<1> QED BY <1>1, <1>2, <1>3, <1>4, <1>5, <1>6

\* Enabling leaves bitrate, GOP and server alone; on success the output is
\* enabled and runs at the configured rate or at the stored one.
LEMMA EnableEffect ==
    ASSUME NEW d \in Device, cfg \in Config,
           NEW o \in EnableOutput(d)
    PROVE  /\ o.dev \in Device /\ o.rc \in {0, -1}
           /\ o.dev.bitrate = d.bitrate /\ SameGop(o.dev, d) /\ o.dev.server = d.server
           /\ o.rc = 0 => o.dev.output_enabled = 1 /\ RateAgrees(o.dev, cfg)
<1> DEFINE f == IF d.stored_fps # 0 THEN d.stored_fps ELSE cfg.fps
           e == [d EXCEPT !.output_enabled = 1]
<1>1. f \in Nat /\ e \in Device /\ e.output_enabled = 1 /\ e.stored_fps = d.stored_fps
      /\ e.bitrate = d.bitrate /\ SameGop(e, d) /\ e.server = d.server
  BY LiveSetAssumption DEF LiveSetAssumption, Device, Config, SameGop
<1>2. \/ o = Bad(d)
      \/ \E q \in ApplyFps(e, f) :
            \/ o = q /\ q.rc = 0
            \/ o = Bad([q.dev EXCEPT !.output_enabled = 0])
  BY DEF EnableOutput
<1>3. CASE o = Bad(d)
  BY <1>3 DEF Bad, SameGop
<1>4. CASE \E q \in ApplyFps(e, f) : o = q /\ q.rc = 0
  <2>1. PICK q \in ApplyFps(e, f) : o = q /\ q.rc = 0
    BY <1>4
  <2>2. f = d.stored_fps \/ f = cfg.fps
    OBVIOUS
  <2> HIDE DEF e, f
  <2> QED BY <2>1, <2>2, <1>1, FpsEffect DEF RateAgrees, SameGop
<1>5. CASE \E q \in ApplyFps(e, f) : o = Bad([q.dev EXCEPT !.output_enabled = 0])
  <2>1. PICK q \in ApplyFps(e, f) : o = Bad([q.dev EXCEPT !.output_enabled = 0])
    BY <1>5
  <2> HIDE DEF e, f
  <2>2. q.dev \in Device /\ q.dev.bitrate = d.bitrate /\ SameGop(q.dev, d)
        /\ q.dev.server = d.server
    BY <2>1, <1>1, FpsEffect DEF SameGop
  <2> QED BY <2>1, <2>2 DEF Bad, Device, SameGop
<1> QED BY <1>2, <1>3, <1>4, <1>5

\* The same of disabling, which goes to the idle rate.
LEMMA DisableEffect ==
    ASSUME NEW d \in Device, cfg \in Config,
           NEW o \in DisableOutput(d)
    PROVE  /\ o.dev \in Device /\ o.rc \in {0, -1}
           /\ o.dev.bitrate = d.bitrate /\ SameGop(o.dev, d) /\ o.dev.server = d.server
           /\ o.rc = 0 => o.dev.output_enabled = 0 /\ RateAgrees(o.dev, cfg)
<1> DEFINE e == [d EXCEPT !.output_enabled = 0, !.stored_fps = cfg.fps]
<1>1. e \in Device /\ e.output_enabled = 0 /\ e.bitrate = d.bitrate /\ SameGop(e, d)
      /\ e.server = d.server
  <2>1. cfg.fps \in Rates \cup {0}
    BY DEF Config
  <2>2. e \in Device
    BY <2>1 DEF Device
  <2> QED BY <2>2 DEF Device, SameGop
<1>2. IdleFps \in Nat /\ Lesser(IdleFps, SensorFps) = IdleFps
  BY LiveSetAssumption DEF LiveSetAssumption, Lesser
<1>3. PICK q \in ApplyFps(e, IdleFps) :
          \/ o = q /\ q.rc = 0
          \/ o = Bad([q.dev EXCEPT !.output_enabled = 1])
  BY DEF DisableOutput
<1> HIDE DEF e
<1>4. /\ q.dev \in Device /\ q.dev.output_enabled = 0 /\ q.dev.bitrate = d.bitrate
      /\ SameGop(q.dev, d) /\ q.dev.server = d.server
      /\ q.rc = 0 => /\ q.dev.bind = q.dev.rate /\ q.dev.rate = IdleFps
                     /\ "rate" \notin q.dev.fresh
  BY <1>1, <1>2, FpsEffect DEF SameGop
<1>5. CASE o = q /\ q.rc = 0
  BY <1>4, <1>5 DEF RateAgrees
<1>6. CASE o = Bad([q.dev EXCEPT !.output_enabled = 1])
  BY <1>4, <1>6 DEF Bad, Device, SameGop
<1> QED BY <1>3, <1>5, <1>6

\* A callback touches nothing but its own field, the rate being shared by two,
\* and makes the device agree with the configuration if it succeeds.
LEMMA CallbackEffect ==
    ASSUME dev \in Device, cfg \in Config, NEW c \in Fields,
           NEW o \in Outcomes(c)
    PROVE  /\ o.dev \in Device /\ o.rc \in {0, -1}
           /\ c # "bitrate" => o.dev.bitrate = dev.bitrate
           /\ c # "server" => o.dev.server = dev.server
           /\ c # "gop" => SameGop(o.dev, dev)
           /\ c # "enabled" => /\ o.dev.output_enabled = dev.output_enabled
                               /\ o.dev.stored_fps = dev.stored_fps
           /\ c \notin {"fps", "enabled"} =>
                 /\ o.dev.rate = dev.rate /\ o.dev.bind = dev.bind
                 /\ "rate" \in o.dev.fresh <=> "rate" \in dev.fresh
           /\ o.rc = 0 =>
                 /\ c = "bitrate" => o.dev.bitrate = cfg.bitrate
                 /\ c = "server" => o.dev.server = cfg.server
                 /\ c = "gop" => GopAgrees(o.dev, cfg)
                 /\ c = "enabled" => o.dev.output_enabled = cfg.enabled
                 /\ c \in {"fps", "enabled"} => RateAgrees(o.dev, cfg)
<1>1. CASE c = "bitrate"
  <2>1. o \in ApplyBitrate(dev)
    BY <1>1 DEF Outcomes
  <2> QED BY <1>1, <2>1 DEF ApplyBitrate, Ok, Bad, Device, Config, SameGop
<1>2. CASE c = "gop"
  <2>1. o \in ApplyGop(dev)
    BY <1>2 DEF Outcomes
  <2>2. GopFrames(cfg) \in FrameCounts
    BY DEF FrameCounts, GopFrames, Config
  <2>3. dev.fresh \ {"gop"} \in SUBSET {"gop", "rate"}
    BY DEF Device
  <2> DEFINE n == GopFrames(cfg)
  <2>4. n = Frames(cfg.gop, cfg.fps)
    BY DEF GopFrames
  <2> HIDE DEF n
  <2>5. \/ o = Ok([dev EXCEPT !.gop = n, !.fresh = @ \ {"gop"}]) \/ o = Bad(dev)
    BY <2>1 DEF ApplyGop, n
  <2>6. CASE o = Ok([dev EXCEPT !.gop = n, !.fresh = @ \ {"gop"}])
    <3> DEFINE left == dev.fresh \ {"gop"}
    <3>1. "gop" \notin left /\ ("rate" \in left <=> "rate" \in dev.fresh)
      OBVIOUS
    <3>2. o.rc = 0 /\ o.dev = [dev EXCEPT !.gop = n, !.fresh = left]
      BY <2>6 DEF Ok, Device
    <3>3. n \in FrameCounts
      BY <2>2 DEF n
    <3>4. left \in SUBSET {"gop", "rate"}
      BY <2>3
    <3> HIDE DEF left
    <3>5. o.dev \in Device
      BY <3>2, <3>3, <3>4 DEF Device
    <3>6. /\ o.dev.gop = n /\ o.dev.fresh = left /\ o.dev.bitrate = dev.bitrate
          /\ o.dev.server = dev.server /\ o.dev.output_enabled = dev.output_enabled
          /\ o.dev.stored_fps = dev.stored_fps /\ o.dev.rate = dev.rate
          /\ o.dev.bind = dev.bind
      BY <3>2 DEF Device
    <3>7. GopAgrees(o.dev, cfg)
      BY <3>1, <3>6, <2>4 DEF GopAgrees
    <3> QED BY <1>2, <3>1, <3>2, <3>5, <3>6, <3>7
  <2>7. CASE o = Bad(dev)
    BY <1>2, <2>7 DEF Bad
  <2> QED BY <2>5, <2>6, <2>7
<1>3. CASE c = "server"
  <2>1. o \in ApplyServer(dev)
    BY <1>3 DEF Outcomes
  <2> QED BY <1>3, <2>1 DEF ApplyServer, Ok, Bad, Device, Config, SameGop
<1>4. CASE c = "fps"
  <2>1. o \in ApplyFps(dev, cfg.fps) /\ cfg.fps \in Nat
    BY <1>4, LiveSetAssumption DEF LiveSetAssumption, Outcomes, Config
  <2> QED BY <1>4, <2>1, FpsEffect DEF RateAgrees, SameGop
<1>5. CASE c = "enabled"
  <2>1. \/ cfg.enabled = 1 /\ o \in EnableOutput(dev)
        \/ cfg.enabled = 0 /\ o \in DisableOutput(dev)
    BY <1>5 DEF Outcomes, Config
  <2> QED BY <1>5, <2>1, EnableEffect, DisableEffect
<1> QED BY <1>1, <1>2, <1>3, <1>4, <1>5 DEF Fields

\* What is excused once is excused if more is.
LEMMA Excuses ==
    ASSUME NEW d, NEW c, NEW X, NEW Y, X \subseteq Y, Agrees(d, c, X)
    PROVE  Agrees(d, c, Y)
  BY DEF Agrees

\* A callback, if it succeeds, makes the device agree in its own field, and
\* leaves it agreeing in the others whether it succeeds or not.
LEMMA CallbackAgrees ==
    ASSUME dev \in Device, cfg \in Config, NEW c \in Fields,
           NEW o \in Outcomes(c),
           NEW X, c \in X, Agrees(dev, cfg, X)
    PROVE  /\ Agrees(o.dev, cfg, X)
           /\ o.rc = 0 => Agrees(o.dev, cfg, X \ {c})
<1>1. Agrees(o.dev, cfg, X)
  BY CallbackEffect DEF Agrees, RateAgrees, GopAgrees, SameGop
<1>2. ASSUME o.rc = 0 PROVE Agrees(o.dev, cfg, X \ {c})
  <2>1. CASE c \in {"fps", "enabled"}
    BY <1>1, <1>2, <2>1, CallbackEffect DEF Agrees
  <2>2. CASE c \notin {"fps", "enabled"}
    BY <1>1, <1>2, <2>2, CallbackEffect DEF Agrees
  <2> QED BY <2>1, <2>2
<1> QED BY <1>1, <1>2

\* Merging the fields of a group.
LEMMA Merged ==
    ASSUME NEW b \in Config, NEW u \in Config, NEW g
    PROVE  /\ Merge(b, u, g) \in Config
           /\ \A f \in Fields :
                 Merge(b, u, g)[f] = IF f \in touched /\ GroupOf(f) = g THEN u[f] ELSE b[f]
<1>1. \A f \in Fields :
         Merge(b, u, g)[f] = IF f \in touched /\ GroupOf(f) = g THEN u[f] ELSE b[f]
  BY DEF Merge
<1>2. DOMAIN Merge(b, u, g) = {"bitrate", "fps", "gop", "server", "enabled"}
  BY DEF Merge, Fields
<1>3. Merge(b, u, g) = [f \in Fields |-> Merge(b, u, g)[f]]
  BY DEF Merge
<1>4. Merge(b, u, g) \in Config
  BY <1>1, <1>2, <1>3 DEF Config, Fields
<1> QED BY <1>1, <1>4

\* Configurations with the same fields are the same.
LEMMA SameFields ==
    ASSUME NEW a \in Config, NEW b \in Config, \A f \in Fields : a[f] = b[f]
    PROVE  a = b
  BY DEF Config, Fields

\* Whether the device agrees outside a group does not depend on the group's
\* own fields.
LEMMA MergeInside ==
    ASSUME NEW d, NEW b \in Config, NEW u \in Config, NEW g \in Groups,
           touched \subseteq Fields, scene \in {0, 1}
    PROVE  Agrees(d, Merge(b, u, g), Callbacks(g)) <=> Agrees(d, b, Callbacks(g))
<1> DEFINE m == Merge(b, u, g)
           X == Callbacks(g)
<1>1. \A f \in Fields : m[f] = IF f \in touched /\ GroupOf(f) = g THEN u[f] ELSE b[f]
  BY Merged
<1>2. /\ "bitrate" \notin X => m.bitrate = b.bitrate
      /\ "server" \notin X => m.server = b.server
      /\ "enabled" \notin X => m.enabled = b.enabled
      /\ "gop" \notin X /\ scene = 0 => m.fps = b.fps /\ m.gop = b.gop
      /\ X \cap {"fps", "enabled"} = {} => m.fps = b.fps
  BY <1>1 DEF Callbacks, Groups, GroupOf, Fields
<1> HIDE DEF m, X
<1>3. "gop" \notin X /\ scene = 0 => (GopAgrees(d, m) <=> GopAgrees(d, b))
  BY <1>2 DEF GopAgrees
<1>4. X \cap {"fps", "enabled"} = {} => (RateAgrees(d, m) <=> RateAgrees(d, b))
  BY <1>2 DEF RateAgrees
<1>5. Agrees(d, m, X) <=> Agrees(d, b, X)
  BY <1>2, <1>3, <1>4 DEF Agrees
<1> QED BY <1>5 DEF m, X
--------------------------------------------------------------------------------
(* Steps.                                                                  *)

\* A request that is rejected, and a step that is none of the handler's, keep
\* the invariant.
LEMMA NothingHappens ==
    ASSUME LiveInv, requests' \in 0 .. MaxRequests, status' \in {status, "rejected"},
           UNCHANGED <<scene, cfg, dev, pc, request, actual, calls, incomplete, unsure>>
    PROVE  LiveInv'
<1>1. LiveTypeOK'
  BY DEF LiveInv, LiveTypeOK, request
<1>2. Merge(actual, IF rolling THEN old ELSE new, Head(groups))'
        = Merge(actual, IF rolling THEN old ELSE new, Head(groups))
  BY DEF Merge, request
<1>3. Callbacks(Head(groups))' = Callbacks(Head(groups))
  BY DEF Callbacks, request
<1>4. Locals'
  BY <1>2, <1>3 DEF LiveInv, Locals, request
<1>5. Taken'
  BY DEF LiveInv, Taken, request
<1>6. Hardware => Hardware'
  BY <1>3 DEF Hardware, Agrees, RateAgrees, GopAgrees, request
<1> QED BY <1>1, <1>4, <1>5, <1>6 DEF LiveInv

\* A request starts with every group it names still to do, and with hardware
\* that agrees with the configuration.
LEMMA RequestStep ==
    ASSUME LiveInv, pc = "idle", Explored,
           NEW fields \in SUBSET Fields,
           NEW wanted \in Config, \A f \in Fields \ fields : wanted[f] = cfg[f],
           NEW order \in SetToSeqs({GroupOf(f) : f \in fields}),
           Request(fields, wanted, order)
    PROVE  LiveInv'
<1> DEFINE G == {GroupOf(f) : f \in fields}
<1>1. G \subseteq Groups
  BY DEF GroupOf, Fields, Groups
<1>2. IsFiniteSet(Groups)
  <2>1. Groups = ({"bitrate"} \cup {"timing"}) \cup {"outgoing"}
    BY DEF Groups
  <2> QED BY <2>1, FS_Singleton, FS_Union
<1>3. order \in Seq(G) /\ Range(order) = G
  BY <1>1, <1>2, FS_Subset, OrderNamesAll
<1>4. LiveTypeOK'
  <2>1. order \in Seq(Groups)
    BY <1>1, <1>3
  <2>2. requests' \in 0 .. MaxRequests
    BY LiveSetAssumption DEF LiveSetAssumption, LiveInv, LiveTypeOK, Request, Explored
  <2>3. done' \in Seq(Groups) /\ calls' \in Seq(Fields)
    BY Singletons DEF Request
  <2> QED BY <2>1, <2>2, <2>3 DEF LiveInv, LiveTypeOK, Request
<1>5. Locals'
  BY DEF LiveInv, Locals, LiveTypeOK, Request
<1>6. Taken'
  BY <1>3 DEF LiveInv, Taken, Request
<1>7. Hardware'
  <2>1. Agrees(dev, cfg, {})
    BY DEF LiveInv, Hardware, Locals, Explored
  <2> QED BY <2>1 DEF Request, Hardware, Agrees, RateAgrees, GopAgrees
<1> QED BY <1>4, <1>5, <1>6, <1>7 DEF LiveInv

\* When a group begins, all of its callbacks are to come, and the hardware
\* agrees outside of it.
LEMMA BeginGroupStep ==
    ASSUME LiveInv, BeginGroup
    PROVE  LiveInv'
<1> DEFINE g == Head(groups)
           u == IF rolling THEN old ELSE new
<1>1. g \in Groups /\ actual \in Config /\ u \in Config /\ touched \subseteq Fields
      /\ scene \in {0, 1}
  BY HeadAndTail DEF LiveInv, LiveTypeOK, BeginGroup
<1>2. cfg' = Merge(actual, u, g) /\ cfg' \in Config
  BY <1>1, Merged DEF BeginGroup
<1>3. calls' \in Seq(Fields) /\ Range(calls') = Callbacks(g)
  BY <1>1, <1>2, CallsOfGroup DEF BeginGroup
<1>4. Callbacks(g)' = Callbacks(g)
  BY DEF BeginGroup, request, Callbacks
<1>5. LiveTypeOK'
  BY <1>2, <1>3 DEF LiveInv, LiveTypeOK, BeginGroup, request
<1>6. Locals'
  <2>1. Merge(actual, u, g)' = Merge(actual, u, g)
    BY DEF Merge, BeginGroup, request
  <2> HIDE DEF g, u
  <2>2. /\ cfg' = Merge(actual, u, g)'
        /\ Range(calls)' \subseteq Callbacks(g)'
    BY <2>1, <1>2, <1>3, <1>4
  <2> QED BY <2>2 DEF LiveInv, Locals, BeginGroup, request, g, u
<1>7. Taken'
  BY DEF LiveInv, Taken, BeginGroup, request
<1>8. ASSUME ~unsure, ~incomplete PROVE Hardware'
  <2>1. Agrees(dev, actual, Callbacks(g))
    <3>1. Agrees(dev, cfg, IF rolling THEN Callbacks(g) ELSE {}) /\ cfg = actual
      BY <1>8 DEF LiveInv, Hardware, Locals, BeginGroup
    <3> QED BY <3>1, Excuses
  <2>2. Agrees(dev, cfg', Callbacks(g))
    BY <2>1, <1>1, <1>2, MergeInside
  <2> HIDE DEF g, u
  <2>3. Agrees(dev, cfg, Range(calls))'
    BY <2>2, <1>3 DEF BeginGroup, Agrees, RateAgrees, GopAgrees
  <2> QED BY <2>3 DEF Hardware, BeginGroup
<1> QED BY <1>5, <1>6, <1>7, <1>8 DEF LiveInv, BeginGroup

\* A callback that succeeds is excused no longer.
LEMMA CallSucceedsStep ==
    ASSUME LiveInv, CallSucceeds
    PROVE  LiveInv'
<1>1. PICK o \in Outcomes(Head(calls)) : o.rc = 0 /\ dev' = o.dev
  BY DEF CallSucceeds
<1>2. /\ Head(calls) \in Fields /\ calls' \in Seq(Fields)
      /\ Range(calls) = {Head(calls)} \cup Range(calls')
  BY HeadAndTail DEF LiveInv, LiveTypeOK, CallSucceeds
<1>3. dev \in Device /\ cfg \in Config
  BY DEF LiveInv, LiveTypeOK
<1>4. LiveTypeOK'
  BY <1>1, <1>2, <1>3, CallbackEffect DEF LiveInv, LiveTypeOK, CallSucceeds, request
<1>5. Locals'
  <2>1. Merge(actual, IF rolling THEN old ELSE new, Head(groups))'
          = Merge(actual, IF rolling THEN old ELSE new, Head(groups))
    BY DEF Merge, CallSucceeds, request
  <2>2. Callbacks(Head(groups))' = Callbacks(Head(groups))
    BY DEF Callbacks, CallSucceeds, request
  <2> QED BY <2>1, <2>2, <1>2 DEF LiveInv, Locals, CallSucceeds, request
<1>6. Taken'
  BY DEF LiveInv, Taken, CallSucceeds, request
<1>7. ASSUME ~unsure, ~incomplete PROVE Hardware'
  <2>1. Agrees(dev, cfg, Range(calls))
    BY <1>7 DEF LiveInv, Hardware, CallSucceeds
  <2>2. Agrees(o.dev, cfg, Range(calls) \ {Head(calls)})
    BY <2>1, <1>1, <1>2, <1>3, CallbackAgrees
  <2>3. Agrees(o.dev, cfg, Range(calls'))
    BY <2>2, <1>2, Excuses
  <2>4. Agrees(dev, cfg, Range(calls))'
    BY <2>3, <1>1 DEF Agrees, RateAgrees, GopAgrees, CallSucceeds
  <2> QED BY <2>4 DEF Hardware, CallSucceeds
<1> QED BY <1>4, <1>5, <1>6, <1>7 DEF LiveInv, CallSucceeds

\* The first callback that fails leaves its group to be rolled back, and the
\* hardware agreeing outside of it with what was applied before; one that fails
\* in the roll-back makes it incomplete.
LEMMA CallFailsStep ==
    ASSUME LiveInv, CallFails
    PROVE  LiveInv'
<1> DEFINE g == Head(groups)
<1>1. PICK o \in Outcomes(Head(calls)) : o.rc # 0 /\ dev' = o.dev
  BY DEF CallFails
<1>2. /\ Head(calls) \in Fields /\ Head(calls) \in Range(calls)
      /\ g \in Groups /\ Tail(groups) \in Seq(Groups)
  BY HeadAndTail DEF LiveInv, LiveTypeOK, Locals, CallFails
<1>3. RollBack \in Seq(Groups) /\ Range(RollBack) = {g} \cup Range(done)
  <2> DEFINE s == <<g>>
  <2>1. done \in Seq(Groups) /\ s \in Seq(Groups) /\ Range(s) = {g}
    BY <1>2, Singletons DEF LiveInv, LiveTypeOK
  <2>2. RollBack = s \o done
    BY DEF RollBack
  <2> HIDE DEF s
  <2> QED BY <2>1, <2>2, Joined
<1>4. RollBack # <<>> /\ Head(RollBack) = g
  BY <1>2 DEF RollBack, LiveInv, LiveTypeOK
<1>5. dev \in Device /\ cfg \in Config /\ actual \in Config /\ new \in Config
      /\ touched \subseteq Fields /\ scene \in {0, 1}
  BY DEF LiveInv, LiveTypeOK
<1>6. LiveTypeOK'
  <2>1. dev' \in Device
    BY <1>1, <1>2, <1>5, CallbackEffect
  <2>2. calls' \in Seq(Fields)
    BY Singletons DEF CallFails
  <2> QED BY <2>1, <2>2, <1>2, <1>3 DEF LiveInv, LiveTypeOK, CallFails
<1>7. Locals'
  BY DEF LiveInv, Locals, CallFails
<1>8. Taken'
  <2>1. CASE rolling
    BY <2>1 DEF LiveInv, Taken, CallFails
  <2>2. CASE ~rolling
    BY <2>2, <1>3 DEF LiveInv, Taken, CallFails
  <2> QED BY <2>1, <2>2
<1>9. ASSUME ~unsure, ~rolling PROVE Hardware'
  <2>1. ~incomplete
    BY <1>9 DEF LiveInv, Locals
  <2>2. Agrees(dev, cfg, Range(calls))
    BY <1>9, <2>1 DEF LiveInv, Hardware, CallFails
  <2>3. cfg = Merge(actual, new, g) /\ Range(calls) \subseteq Callbacks(g)
    BY <1>9 DEF LiveInv, Locals, CallFails
  <2>4. Agrees(o.dev, cfg, Range(calls))
    BY <2>2, <1>1, <1>2, <1>5, CallbackAgrees
  <2>5. Agrees(o.dev, cfg, Callbacks(g))
    BY <2>3, <2>4, Excuses
  <2>6. Agrees(o.dev, actual, Callbacks(g))
    BY <2>3, <2>5, <1>2, <1>5, MergeInside
  <2>7. groups' = RollBack
    BY <1>9 DEF CallFails
  <2>8. Callbacks(Head(groups))' = Callbacks(g)
    BY <2>7, <1>4 DEF Callbacks, CallFails
  <2> HIDE DEF g
  <2>9. Agrees(dev, cfg, Callbacks(Head(groups)))'
    BY <2>6, <2>8, <1>1 DEF Agrees, RateAgrees, GopAgrees, CallFails
  <2> QED BY <2>7, <2>9, <1>4 DEF Hardware, CallFails
<1> QED BY <1>6, <1>7, <1>8, <1>9 DEF LiveInv, CallFails, LiveTypeOK

\* A group that is done has the values it was to have.
LEMMA GroupDoneStep ==
    ASSUME LiveInv, GroupDone
    PROVE  LiveInv'
<1> DEFINE g == Head(groups)
           u == IF rolling THEN old ELSE new
<1>1. g \in Groups /\ Tail(groups) \in Seq(Groups) /\ Range(groups) = {g} \cup Range(groups')
  BY HeadAndTail DEF LiveInv, LiveTypeOK, Locals, GroupDone
<1>2. done' \in Seq(Groups) /\ Range(done') = {g} \cup Range(done)
  <2> DEFINE s == <<g>>
  <2>1. done \in Seq(Groups) /\ s \in Seq(Groups) /\ Range(s) = {g}
    BY <1>1, Singletons DEF LiveInv, LiveTypeOK
  <2>2. done' = s \o done
    BY DEF GroupDone
  <2> HIDE DEF s
  <2> QED BY <2>1, <2>2, Joined
<1>3. LiveTypeOK'
  BY <1>1, <1>2 DEF LiveInv, LiveTypeOK, GroupDone
<1>4. Locals'
  BY DEF LiveInv, Locals, GroupDone
<1>5. Taken'
  <2>1. /\ actual' = Merge(actual, u, g)
        /\ actual \in Config /\ u \in Config
    BY DEF LiveInv, LiveTypeOK, Locals, GroupDone
  <2>2. \A f \in Fields :
           actual'[f] = IF f \in touched /\ GroupOf(f) = g THEN u[f] ELSE actual[f]
    BY <2>1, Merged
  <2> HIDE DEF g
  <2>3. CASE rolling
    BY <2>2, <2>3, <1>1 DEF LiveInv, Taken, GroupDone
  <2>4. CASE ~rolling
    BY <2>2, <2>4, <1>1, <1>2 DEF LiveInv, Taken, GroupDone
  <2> QED BY <2>3, <2>4
<1>6. ASSUME ~unsure, ~incomplete PROVE Hardware'
  <2>1. Agrees(dev, cfg, {})
    BY <1>6, Singletons DEF LiveInv, Hardware, GroupDone
  <2>2. Agrees(dev, cfg, IF rolling /\ groups # <<>> THEN Callbacks(Head(groups)) ELSE {})'
    BY <2>1 DEF Agrees, RateAgrees, GopAgrees, GroupDone
  <2> QED BY <2>2 DEF Hardware, GroupDone
<1> QED BY <1>3, <1>4, <1>5, <1>6 DEF LiveInv, GroupDone

\* The response ends the request, with the configuration that was applied.
LEMMA RespondStep ==
    ASSUME LiveInv, Respond
    PROVE  LiveInv'
<1>1. LiveTypeOK'
  BY Singletons DEF LiveInv, LiveTypeOK, Respond
<1>2. Locals'
  BY DEF LiveInv, Locals, Respond
<1>3. Taken'
  BY DEF LiveInv, Taken, Respond
<1>4. ASSUME ~unsure, ~incomplete PROVE Hardware'
  <2>1. Agrees(dev, cfg, {}) /\ cfg = actual
    BY <1>4 DEF LiveInv, Hardware, Locals, Respond
  <2> QED BY <2>1 DEF Hardware, Respond, Agrees, RateAgrees, GopAgrees
<1> QED BY <1>1, <1>2, <1>3, <1>4 DEF LiveInv, Respond, LiveTypeOK

\* The hardware starts with what the configuration says.
LEMMA LiveBegins == LiveInit => LiveInv
<1> SUFFICES ASSUME LiveInit PROVE LiveInv
  OBVIOUS
<1>1. cfg \in Config /\ cfg.fps # 0 /\ (cfg.server = NoServer => cfg.enabled = 0)
  BY LiveSetAssumption DEF LiveSetAssumption, LiveInit
<1>2. cfg.fps \in Nat /\ cfg.enabled \in {0, 1}
  BY <1>1, LiveSetAssumption DEF LiveSetAssumption, Config
<1>3. /\ Lesser(cfg.fps, SensorFps) \in 0 .. SensorFps /\ IdleFps \in 0 .. SensorFps
      /\ Lesser(cfg.fps, BootFps) \in 0 .. SensorFps
  BY <1>2, LiveSetAssumption DEF LiveSetAssumption, Lesser
<1>4. dev \in Device
  <2>1. /\ Frames(cfg.gop, BootFps) \in FrameCounts
        /\ cfg.fps \in Rates /\ cfg.bitrate \in Bitrates /\ cfg.server \in Servers
    BY <1>1 DEF Config, FrameCounts
  <2> QED BY <1>2, <1>3, <2>1 DEF LiveInit, Booted, Device
<1>5. LiveTypeOK
  <2>1. groups \in Seq(Groups) /\ done \in Seq(Groups) /\ calls \in Seq(Fields)
    BY Singletons DEF LiveInit
  <2>2. /\ {rolling, incomplete, unsure} \subseteq BOOLEAN
        /\ touched \subseteq Fields /\ {cfg, new, old, actual} \subseteq Config
    BY <1>1 DEF LiveInit
  <2>3. requests \in 0 .. MaxRequests
    BY LiveSetAssumption DEF LiveSetAssumption, LiveInit
  <2> QED BY <1>4, <2>1, <2>2, <2>3 DEF LiveInit, LiveTypeOK
<1>6. Locals
  BY DEF LiveInit, Locals
<1>7. Taken
  BY DEF LiveInit, Taken
<1>8. Hardware
  BY <1>2 DEF LiveInit, Hardware, Agrees, RateAgrees, GopAgrees, Booted
<1> QED BY <1>5, <1>6, <1>7, <1>8 DEF LiveInv

\* Every step keeps the invariant.
LEMMA LiveGoesOn == LiveInv /\ [LiveNext]_liveVars => LiveInv'
<1> SUFFICES ASSUME LiveInv, [LiveNext]_liveVars PROVE LiveInv'
  OBVIOUS
<1>1. CASE Reject
  BY <1>1, NothingHappens, LiveSetAssumption DEF LiveSetAssumption, Reject, Explored, LiveInv,
     LiveTypeOK
<1>2. CASE BeginGroup
  BY <1>2, BeginGroupStep
<1>3. CASE CallSucceeds
  BY <1>3, CallSucceedsStep
<1>4. CASE CallFails
  BY <1>4, CallFailsStep
<1>5. CASE GroupDone
  BY <1>5, GroupDoneStep
<1>6. CASE Respond
  BY <1>6, RespondStep
<1>7. CASE \E fields \in SUBSET Fields \ {{}} :
             \E wanted \in {c \in Config : \A f \in Fields \ fields : c[f] = cfg[f]},
                order \in SetToSeqs({GroupOf(f) : f \in fields}) :
                    pc = "idle" /\ Explored /\ Request(fields, wanted, order)
  BY <1>7, RequestStep
<1>8. CASE UNCHANGED liveVars
  BY <1>8, NothingHappens DEF liveVars, LiveInv, LiveTypeOK
<1> QED BY <1>1, <1>2, <1>3, <1>4, <1>5, <1>6, <1>7, <1>8 DEF LiveNext

\* The invariant holds throughout.
LEMMA LiveHolds == LiveSpec => []LiveInv
<1> QED BY LiveBegins, LiveGoesOn, PTL DEF LiveSpec

--------------------------------------------------------------------------------
(* Theorems.                                                               *)

\* Between requests the hardware runs what the configuration says, whichever
\* callback failed and however its group was rolled back.
THEOREM HardwareFollows == LiveSpec => []DeviceAgrees
<1>1. LiveInv => DeviceAgrees
  BY DEF LiveInv, Locals, Hardware, Agrees, RateAgrees, GopAgrees, DeviceAgrees
<1> QED BY <1>1, LiveHolds, PTL

\* The response tells the truth about the configuration that is left.
THEOREM ResponseTellsTruth == LiveSpec => AllOrNothing
<1>1. ASSUME LiveInv, Respond
      PROVE  /\ status' = "ok" => cfg' = new
             /\ status' = "failed" => cfg' = old
  <2>1. /\ cfg' = actual /\ groups = <<>> /\ Range(groups) = {}
        /\ actual \in Config /\ new \in Config /\ old \in Config
    BY <1>1, Singletons DEF LiveInv, LiveTypeOK, Respond
  <2>2. ASSUME ~rolling PROVE actual = new
    <3>1. \A f \in Fields : actual[f] = new[f]
      BY <1>1, <2>1, <2>2 DEF LiveInv, Taken, Locals
    <3> QED BY <2>1, <3>1, SameFields
  <2>3. ASSUME rolling, ~incomplete PROVE actual = old
    <3>1. \A f \in Fields : actual[f] = old[f]
      BY <1>1, <2>1, <2>3 DEF LiveInv, Taken
    <3> QED BY <2>1, <3>1, SameFields
  <2> QED BY <1>1, <2>1, <2>2, <2>3 DEF Respond
<1>2. LiveInv /\ [LiveNext]_liveVars =>
         [Respond => /\ status' = "ok" => cfg' = new
                     /\ status' = "failed" => cfg' = old]_liveVars
  BY <1>1
<1> QED BY <1>2, LiveHolds, PTL DEF LiveSpec, AllOrNothing

--------------------------------------------------------------------------------
(* Maruko.                                                                 *)

(* The place of each step in the order of configuring and of ending.       *)
ConfigureCourse ==
    [httpd |-> 1, sys |-> 2, sensor |-> 3, vif |-> 4, isp |-> 5, scl |-> 6, venc |-> 7,
     vif_isp |-> 8, isp_scl |-> 9, scl_venc |-> 10, isp_bin |-> 11, output |-> 12,
     controls |-> 13]
EndCourse ==
    [httpd_stop |-> 1, free_output |-> 2, unbind_scl_venc |-> 3, unbind_isp_scl |-> 4,
     unbind_vif_isp |-> 5, stop_venc |-> 6, stop_vpe |-> 7, stop_vif |-> 8,
     stop_sensor |-> 9, sys_exit |-> 10]

StageCourse == IF stage \in {"init", "rebuild"} THEN ConfigureCourse ELSE EndCourse

(* The steps still to be taken.                                            *)
Ahead == Range(steps)

(* They follow the course, and behind the first of them none is missing.   *)
Followed ==
    /\ Along(StageCourse, steps)
    /\ \A a \in Ahead, b \in DOMAIN StageCourse :
          StageCourse[a] < StageCourse[b] /\ (b = "sys_exit" => stage = "down")
          => b \in Ahead
    /\ stage \notin {"init", "rebuild", "teardown", "down"} => steps = <<>>

(* While it is configured or runs, what is not still to be made is there.  *)
Configured ==
    stage \in {"init", "rebuild", "top", "check", "turn"} =>
        /\ \A u \in {"sys", "sensor", "vif", "venc"} : u \in Ahead \/ u \in units
        /\ "isp" \in Ahead \/ {"isp", "isp_dev", "isp_chn"} \subseteq units
        /\ "scl" \in Ahead \/ {"scl", "scl_dev", "scl_chn"} \subseteq units
        /\ "scl" \in Ahead \/ "vpe" \in started
        /\ \A l \in DOMAIN BindEnds : l \in Ahead \/ l \in binds
        /\ "isp_bin" \in Ahead \/ g_mi_isp_initialized
        /\ "output" \in Ahead \/ output

(* Nothing is made, or was left by a teardown, before its step.            *)
NotYet ==
    stage \in {"init", "rebuild"} =>
        /\ "isp" \in Ahead => "isp" \notin units
        /\ "sensor" \in Ahead => "sensor" \notin started
        /\ "scl" \in Ahead => "vpe" \notin started
        /\ \A l \in DOMAIN BindEnds : l \in Ahead => l \notin binds
        /\ stage = "init" /\ "isp_bin" \in Ahead => ~g_mi_isp_initialized
        /\ stage = "init" /\ "controls" \in Ahead => ~controls

(* The flags of the VPE and of the encoder's device cover what they stand  *)
(* for; between its two units the ISP runs without the flag.               *)
Flagged ==
    /\ "vpe" \in started => "scl_chn" \in created
    /\ units \cap {"scl", "scl_chn"} # {} => "vpe" \in started
    /\ "isp" \in units => \/ "vpe" \in started
                          \/ /\ stage \in {"init", "rebuild"}
                             /\ "isp" \notin Ahead /\ "scl" \in Ahead
    /\ "venc_dev" \in units => "venc" \in started

(* Whatever is there is still to be undone.                                *)
ToUndo ==
    stage \in {"teardown", "down"} =>
        /\ "sensor" \in units => "stop_sensor" \in Ahead \/ sensorLeft
        /\ "vif" \in units => "stop_vif" \in Ahead
        /\ "vpe" \in started => "stop_vpe" \in Ahead
        /\ "venc" \in units => "stop_venc" \in Ahead
        /\ "vif_isp" \in binds => "unbind_vif_isp" \in Ahead
        /\ "isp_scl" \in binds => "unbind_isp_scl" \in Ahead
        /\ "scl_venc" \in binds => "unbind_scl_venc" \in Ahead
        /\ output => "free_output" \in Ahead
        /\ stage = "down" => /\ "sys" \in units => "sys_exit" \in Ahead
                             /\ httpd => "httpd_stop" \in Ahead
        /\ stage = "teardown" => "sys" \in units /\ "sys_exit" \notin Ahead

(* A rebuild is known as one until the loop runs again, and a sensor that  *)
(* is left enabled ends it.                                                *)
Rebuilt ==
    /\ stage \in {"teardown", "rebuild"} => rebuilding
    /\ sensorLeft => stage \in {"down", "exited"}

(* While the server runs the encoder is there, but in a rebuild.           *)
EncoderServed == httpd /\ controls => "venc" \in units \/ rebuilding

MarukoInv ==
    /\ MarukoTypeOK /\ Followed /\ Configured /\ NotYet /\ Flagged /\ ToUndo /\ Rebuilt
    /\ BoundUnitsExist /\ IspKept /\ EncoderServed /\ UnitsGone

--------------------------------------------------------------------------------
(* Maruko: courses.                                                        *)

\* Places are numbers.
LEMMA StagePlaces == /\ \A s \in DOMAIN ConfigureCourse : ConfigureCourse[s] \in Nat
                     /\ \A s \in DOMAIN EndCourse : EndCourse[s] \in Nat
                     /\ \A s \in DOMAIN StageCourse : StageCourse[s] \in Nat
<1>1. \A s \in DOMAIN ConfigureCourse : ConfigureCourse[s] \in Nat
  BY DEF ConfigureCourse
<1>2. \A s \in DOMAIN EndCourse : EndCourse[s] \in Nat
  BY DEF EndCourse
<1> QED BY <1>1, <1>2 DEF StageCourse

\* A rebuild takes the steps of a configuration but the first two.
LEMMA RebuildList ==
    /\ Along(ConfigureCourse, ConfigureSteps \o <<"controls">>)
    /\ Range(ConfigureSteps \o <<"controls">>) = DOMAIN ConfigureCourse \ {"httpd", "sys"}
<1>1. /\ Along(ConfigureCourse, ConfigureSteps)
      /\ Range(ConfigureSteps) = {"sensor", "vif", "isp", "scl", "venc", "vif_isp",
                                  "isp_scl", "scl_venc", "isp_bin", "output"}
  BY DEF Along, Range, ConfigureCourse, ConfigureSteps
<1>2. Along(ConfigureCourse, <<"controls">>) /\ Range(<<"controls">>) = {"controls"}
  BY DEF Along, Range, ConfigureCourse
<1>3. \A a \in Range(ConfigureSteps), b \in Range(<<"controls">>) :
         ConfigureCourse[a] < ConfigureCourse[b]
  BY <1>1, <1>2 DEF ConfigureCourse
<1>4. /\ Along(ConfigureCourse, ConfigureSteps \o <<"controls">>)
      /\ Range(ConfigureSteps \o <<"controls">>)
            = Range(ConfigureSteps) \cup Range(<<"controls">>)
  BY <1>1, <1>2, <1>3, StagePlaces, GoesOn
<1>5. DOMAIN ConfigureCourse =
         {"httpd", "sys", "sensor", "vif", "isp", "scl", "venc", "vif_isp", "isp_scl",
          "scl_venc", "isp_bin", "output", "controls"}
  BY DEF ConfigureCourse
<1> QED BY <1>1, <1>2, <1>4, <1>5

\* The first configuration takes all of them.
LEMMA InitList ==
    /\ Along(ConfigureCourse, <<"httpd", "sys">> \o ConfigureSteps \o <<"controls">>)
    /\ Range(<<"httpd", "sys">> \o ConfigureSteps \o <<"controls">>)
          = DOMAIN ConfigureCourse
<1> DEFINE s == <<"httpd", "sys">>
           t == <<"controls">>
           u == s \o ConfigureSteps
<1>1. Along(ConfigureCourse, s) /\ Range(s) = {"httpd", "sys"}
  BY DEF Along, Range, ConfigureCourse
<1>2. Along(ConfigureCourse, t) /\ Range(t) = {"controls"}
  BY DEF Along, Range, ConfigureCourse
<1>3. /\ Along(ConfigureCourse, ConfigureSteps)
      /\ Range(ConfigureSteps) = {"sensor", "vif", "isp", "scl", "venc", "vif_isp",
                                  "isp_scl", "scl_venc", "isp_bin", "output"}
  BY DEF Along, Range, ConfigureCourse, ConfigureSteps
<1>4. \A a \in Range(s), b \in Range(ConfigureSteps) :
         ConfigureCourse[a] < ConfigureCourse[b]
  BY <1>1, <1>3 DEF ConfigureCourse
<1> HIDE DEF s, t
<1>5. Along(ConfigureCourse, u) /\ Range(u) = Range(s) \cup Range(ConfigureSteps)
  BY <1>1, <1>3, <1>4, StagePlaces, GoesOn
<1>6. \A a \in Range(u), b \in Range(t) : ConfigureCourse[a] < ConfigureCourse[b]
  BY <1>1, <1>2, <1>3, <1>5 DEF ConfigureCourse
<1> HIDE DEF u
<1>7. Along(ConfigureCourse, u \o t) /\ Range(u \o t) = Range(u) \cup Range(t)
  BY <1>2, <1>5, <1>6, StagePlaces, GoesOn
<1>8. DOMAIN ConfigureCourse =
         {"httpd", "sys", "sensor", "vif", "isp", "scl", "venc", "vif_isp", "isp_scl",
          "scl_venc", "isp_bin", "output", "controls"}
  BY DEF ConfigureCourse
<1> QED BY <1>1, <1>2, <1>3, <1>5, <1>7, <1>8 DEF u, s, t

\* A teardown in a rebuild takes what is between the two last ones of an exit.
LEMMA TeardownList ==
    /\ Along(EndCourse, TeardownSteps)
    /\ Range(TeardownSteps) = DOMAIN EndCourse \ {"httpd_stop", "sys_exit"}
<1>1. Along(EndCourse, TeardownSteps)
  BY DEF Along, EndCourse, TeardownSteps
<1>2. Range(TeardownSteps) =
         {"free_output", "unbind_scl_venc", "unbind_isp_scl", "unbind_vif_isp",
          "stop_venc", "stop_vpe", "stop_vif", "stop_sensor"}
  BY DEF Range, TeardownSteps
<1>3. DOMAIN EndCourse = {"httpd_stop", "sys_exit"} \cup
         {"free_output", "unbind_scl_venc", "unbind_isp_scl", "unbind_vif_isp",
          "stop_venc", "stop_vpe", "stop_vif", "stop_sensor"}
  BY DEF EndCourse
<1> QED BY <1>1, <1>2, <1>3

\* The exit takes all steps of its course.
LEMMA DownList ==
    /\ Along(EndCourse, <<"httpd_stop">> \o TeardownSteps \o <<"sys_exit">>)
    /\ Range(<<"httpd_stop">> \o TeardownSteps \o <<"sys_exit">>) = DOMAIN EndCourse
<1> DEFINE s == <<"httpd_stop">>
           t == <<"sys_exit">>
           u == s \o TeardownSteps
<1>1. Along(EndCourse, s) /\ Range(s) = {"httpd_stop"}
  BY DEF Along, Range, EndCourse
<1>2. Along(EndCourse, t) /\ Range(t) = {"sys_exit"}
  BY DEF Along, Range, EndCourse
<1>3. \A a \in Range(s), b \in Range(TeardownSteps) : EndCourse[a] < EndCourse[b]
  BY <1>1, TeardownList DEF EndCourse
<1>4. {"httpd_stop", "sys_exit"} \subseteq DOMAIN EndCourse
  BY DEF EndCourse
<1> HIDE DEF s, t
<1>5. Along(EndCourse, u) /\ Range(u) = Range(s) \cup Range(TeardownSteps)
  BY <1>1, <1>3, TeardownList, StagePlaces, GoesOn
<1>6. \A a \in Range(u), b \in Range(t) : EndCourse[a] < EndCourse[b]
  BY <1>1, <1>2, <1>5, TeardownList DEF EndCourse
<1> HIDE DEF u
<1>7. Along(EndCourse, u \o t) /\ Range(u \o t) = Range(u) \cup Range(t)
  BY <1>2, <1>5, <1>6, StagePlaces, GoesOn
<1> QED BY <1>1, <1>2, <1>4, <1>5, <1>7, TeardownList DEF u, s, t

\* At a step, nothing that comes before it is left, and all that comes after it.
MarukoAt(step) ==
    /\ step \in Ahead /\ stage \in {"init", "rebuild", "teardown", "down"}
    /\ \A s \in Ahead : /\ s \in DOMAIN StageCourse
                        /\ s = step \/ StageCourse[step] < StageCourse[s]
    /\ \A s \in DOMAIN StageCourse :
          StageCourse[step] < StageCourse[s] /\ (s = "sys_exit" => stage = "down")
          => s \in Ahead

\* The first step of the list is such a step.
LEMMA MarukoAtStep ==
    ASSUME MarukoInv, NEW step, MarukoDo(step)
    PROVE  MarukoAt(step)
<1>1. Followed /\ steps # <<>> /\ Head(steps) = step
  BY DEF MarukoInv, MarukoDo
<1>2. /\ step \in Ahead
      /\ \A s \in Ahead : /\ s \in DOMAIN StageCourse
                          /\ s = step \/ StageCourse[step] < StageCourse[s]
  BY <1>1, StagePlaces, Onward DEF Followed, Ahead
<1> QED BY <1>1, <1>2 DEF MarukoAt, Followed

\* Taking a step leaves the others, in order.
LEMMA MarukoPopping ==
    ASSUME MarukoInv, NEW step, MarukoDo(step), MarukoPop
    PROVE  Ahead' = Ahead \ {step} /\ Followed'
<1>1. /\ Followed /\ steps # <<>> /\ Head(steps) = step
      /\ steps' = Tail(steps) /\ stage' = stage
  BY DEF MarukoInv, MarukoDo, MarukoPop
<1>2. MarukoAt(step)
  BY MarukoAtStep
<1>3. StageCourse' = StageCourse
  BY <1>1 DEF StageCourse
<1>4. Ahead' = Ahead \ {step} /\ Along(StageCourse, steps')
  BY <1>1, StagePlaces, Onward DEF Followed, Ahead
<1>5. \A a \in Ahead', b \in DOMAIN StageCourse :
         StageCourse[a] < StageCourse[b] /\ (b = "sys_exit" => stage = "down")
         => b \in Ahead'
  <2> SUFFICES ASSUME NEW a \in Ahead', NEW b \in DOMAIN StageCourse,
                      StageCourse[a] < StageCourse[b], b = "sys_exit" => stage = "down"
               PROVE  b \in Ahead'
    OBVIOUS
  <2>1. a \in Ahead /\ a # step
    BY <1>4
  <2>2. b \in Ahead
    BY <1>1, <2>1 DEF Followed
  <2>3. /\ StageCourse[step] < StageCourse[a] /\ a \in DOMAIN StageCourse
        /\ step \in DOMAIN StageCourse
    BY <1>2, <2>1 DEF MarukoAt
  <2>4. b # step
    BY <2>3, StagePlaces
  <2> QED BY <2>2, <2>4, <1>4
<1> QED BY <1>1, <1>2, <1>3, <1>4, <1>5 DEF Followed, MarukoAt

\* The stages of a step, and the steps before and after it.
LEMMA Configuring ==
    ASSUME NEW step \in DOMAIN ConfigureCourse, MarukoAt(step)
    PROVE  /\ stage \in {"init", "rebuild"} /\ step \in Ahead
           /\ \A s \in DOMAIN ConfigureCourse :
                 /\ ConfigureCourse[step] < ConfigureCourse[s] => s \in Ahead
                 /\ ConfigureCourse[s] < ConfigureCourse[step] => s \notin Ahead
<1>1. stage \in {"init", "rebuild"}
  BY DEF MarukoAt, StageCourse, ConfigureCourse, EndCourse
<1>2. StageCourse = ConfigureCourse /\ "sys_exit" \notin DOMAIN ConfigureCourse
  BY <1>1 DEF StageCourse, ConfigureCourse
<1> QED BY <1>1, <1>2, StagePlaces DEF MarukoAt

\* The same of ending.
LEMMA Ending ==
    ASSUME NEW step \in DOMAIN EndCourse, MarukoAt(step)
    PROVE  /\ stage \in {"teardown", "down"} /\ step \in Ahead
           /\ \A s \in DOMAIN EndCourse :
                 /\ EndCourse[step] < EndCourse[s] /\ s # "sys_exit" => s \in Ahead
                 /\ EndCourse[s] < EndCourse[step] => s \notin Ahead
<1>1. stage \in {"teardown", "down"}
  BY DEF MarukoAt, StageCourse, ConfigureCourse, EndCourse
<1>2. StageCourse = EndCourse
  BY <1>1 DEF StageCourse
<1> QED BY <1>1, <1>2, StagePlaces DEF MarukoAt

--------------------------------------------------------------------------------
(* Maruko: the steps.                                                      *)

\* An error ends in the whole exit's list.
LEMMA GoesDown ==
    ASSUME Down
    PROVE  /\ stage' = "down" /\ Ahead' = DOMAIN EndCourse /\ Followed'
           /\ Configured' /\ NotYet' /\ ToUndo' /\ Rebuilt' /\ UnitsGone'
<1>1. /\ stage' = "down" /\ StageCourse' = EndCourse
      /\ Along(EndCourse, steps') /\ Ahead' = DOMAIN EndCourse
  BY DownList DEF Down, Ahead, StageCourse
<1>2. Followed'
  BY <1>1 DEF Followed
<1>3. Configured' /\ NotYet' /\ Rebuilt' /\ UnitsGone'
  BY <1>1 DEF Configured, NotYet, Rebuilt, UnitsGone
<1>4. ToUndo'
  BY <1>1 DEF ToUndo, EndCourse
<1> QED BY <1>1, <1>2, <1>3, <1>4

\* What is made while the graph is configured cannot disturb what ending is about.
LEMMA StillConfiguring ==
    ASSUME MarukoInv, stage \in {"init", "rebuild"}, stage' = stage,
           lostIsp' = lostIsp, rebuilding' = rebuilding, sensorLeft' = sensorLeft
    PROVE  ToUndo' /\ Rebuilt' /\ IspKept' /\ UnitsGone'
BY DEF MarukoInv, ToUndo, Rebuilt, IspKept, UnitsGone

\* The server's start changes nothing of the graph.
LEMMA HttpdStarted ==
    ASSUME MarukoInv, StartHttpd
    PROVE  MarukoInv'
<1>1. /\ MarukoDo("httpd") /\ MarukoPop /\ stage' = stage /\ httpd' \in BOOLEAN
      /\ UNCHANGED <<graph, flags, controls, serving, hist>>
  BY DEF StartHttpd, MarukoPop
<1>2. MarukoAt("httpd") /\ Ahead' = Ahead \ {"httpd"} /\ Followed'
  BY <1>1, MarukoAtStep, MarukoPopping
<1>3. stage \in {"init", "rebuild"} /\ "controls" \in Ahead
  BY <1>2, Configuring DEF ConfigureCourse
<1>4. ToUndo' /\ Rebuilt' /\ IspKept' /\ UnitsGone'
  BY <1>1, <1>3, StillConfiguring DEF hist
<1>5. MarukoTypeOK' /\ BoundUnitsExist'
  BY <1>1 DEF MarukoInv, MarukoTypeOK, BoundUnitsExist, graph, flags, hist, BindEnds
<1>6. Configured' /\ NotYet' /\ Flagged'
  BY <1>1, <1>2, <1>3 DEF MarukoInv, Configured, NotYet, Flagged, graph, BindEnds
<1>7. EncoderServed'
  BY <1>1, <1>3 DEF MarukoInv, NotYet, Rebuilt, EncoderServed, hist
<1> QED BY <1>2, <1>4, <1>5, <1>6, <1>7 DEF MarukoInv

\* The system's start.
LEMMA SysStarted ==
    ASSUME MarukoInv, SysInit
    PROVE  MarukoInv'
<1> USE DEF graph, flags, http, hist, rest
<1>1. /\ MarukoDo("sys")
      /\ UNCHANGED <<binds, output, created, started, g_mi_isp_initialized>>
      /\ UNCHANGED <<rest, lostIsp>>
      /\ \/ units' = units \cup {"sys"} /\ MarukoPop
         \/ units' = units /\ Down
  BY DEF SysInit
<1>2. /\ MarukoAt("sys") /\ stage \in {"init", "rebuild"}
      /\ "isp" \in Ahead /\ "scl" \in Ahead
  BY <1>1, MarukoAtStep, Configuring DEF ConfigureCourse
<1>3. MarukoTypeOK' /\ BoundUnitsExist' /\ EncoderServed'
  <2>1. stage' \in {"init", "rebuild", "down"}
    BY <1>1, <1>2, GoesDown DEF MarukoPop
  <2> QED BY <1>1, <2>1 DEF MarukoInv, MarukoTypeOK, BoundUnitsExist,
                            EncoderServed, BindEnds
<1>4. CASE MarukoPop /\ units' = units \cup {"sys"}
  <2>1. stage' = stage /\ Ahead' = Ahead \ {"sys"} /\ Followed'
    BY <1>1, <1>4, MarukoPopping DEF MarukoPop
  <2>2. ToUndo' /\ Rebuilt' /\ IspKept' /\ UnitsGone'
    BY <1>1, <1>2, <2>1, StillConfiguring
  <2>3. Configured' /\ NotYet' /\ Flagged'
    BY <1>1, <1>2, <1>4, <2>1 DEF MarukoInv, Configured, NotYet, Flagged, BindEnds
  <2> QED BY <1>3, <2>1, <2>2, <2>3 DEF MarukoInv
<1>5. CASE Down /\ units' = units
  <2>1. Flagged' /\ IspKept'
    BY <1>1, <1>2, <1>5, GoesDown DEF MarukoInv, NotYet, Flagged, IspKept
  <2> QED BY <1>3, <1>5, <2>1, GoesDown DEF MarukoInv
<1> QED BY <1>1, <1>4, <1>5

\* The sensor, and the input unit.
LEMMA SensorOrVifStarted ==
    ASSUME MarukoInv, NEW part \in {"sensor", "vif"}, Start(part)
    PROVE  MarukoInv'
<1> USE DEF graph, flags, http, hist, rest
<1>1. /\ MarukoDo(part)
      /\ UNCHANGED <<binds, output, created, g_mi_isp_initialized, rest, lostIsp>>
      /\ \/ (units' = units \cup {part} /\ started' = started \cup {part}) /\ MarukoPop
         \/ UNCHANGED <<units, started>> /\ Down
  BY DEF Start
<1>2. /\ MarukoAt(part) /\ stage \in {"init", "rebuild"}
      /\ "isp" \in Ahead /\ "scl" \in Ahead
  BY <1>1, MarukoAtStep, Configuring DEF ConfigureCourse
<1>3. MarukoTypeOK' /\ BoundUnitsExist' /\ EncoderServed'
  <2>1. stage' \in {"init", "rebuild", "down"}
    BY <1>1, <1>2, GoesDown DEF MarukoPop
  <2>2. MarukoTypeOK'
    <3>1. /\ {output, g_mi_isp_initialized, httpd, controls, serving}' \subseteq BOOLEAN
          /\ {rebuilding, lostIsp, sensorLeft}' \subseteq BOOLEAN
          /\ binds' \subseteq DOMAIN BindEnds /\ created' \subseteq Vpe
          /\ g_maruko_running' \in {0, 1} /\ hup' \in {0, 1} /\ reinit' \in 0..2
      BY <1>1 DEF MarukoInv, MarukoTypeOK
    <3>2. /\ units' \subseteq Vpe \cup {"sys", "sensor", "vif", "venc", "venc_dev"}
          /\ started' \subseteq {"sensor", "vif", "venc", "venc_dev", "vpe"} \cup DOMAIN BindEnds
          /\ started' \cap DOMAIN BindEnds = binds'
          /\ "vpe" \in started' => Vpe \subseteq units'
      BY <1>1 DEF MarukoInv, MarukoTypeOK, BindEnds
    <3>3. LET flagged == {"sensor", "vif", "venc", "venc_dev"}
              unflagged == IF sensorLeft THEN {"sensor"} ELSE {}
          IN  started' \cap flagged = (units' \cap flagged) \ unflagged
      <4>1. ~sensorLeft
        BY <1>2 DEF MarukoInv, Rebuilt
      <4> QED BY <1>1, <4>1 DEF MarukoInv, MarukoTypeOK
    <3> QED BY <1>1, <2>1, <3>1, <3>2, <3>3 DEF MarukoTypeOK
  <2>3. BoundUnitsExist'
    BY <1>1 DEF MarukoInv, BoundUnitsExist
  <2>4. EncoderServed'
    BY <1>1 DEF MarukoInv, EncoderServed
  <2> QED BY <2>2, <2>3, <2>4
<1>4. CASE MarukoPop /\ (units' = units \cup {part} /\ started' = started \cup {part})
  <2>1. stage' = stage /\ Ahead' = Ahead \ {part} /\ Followed'
    BY <1>1, <1>4, MarukoPopping DEF MarukoPop
  <2>2. ToUndo' /\ Rebuilt' /\ IspKept' /\ UnitsGone'
    BY <1>1, <1>2, <2>1, StillConfiguring
  <2>3. Configured' /\ NotYet' /\ Flagged'
    BY <1>1, <1>2, <1>4, <2>1 DEF MarukoInv, Configured, NotYet, Flagged, BindEnds
  <2> QED BY <1>3, <2>1, <2>2, <2>3 DEF MarukoInv
<1>5. CASE Down /\ UNCHANGED <<units, started>>
  <2>1. Flagged' /\ IspKept'
    BY <1>1, <1>2, <1>5, GoesDown DEF MarukoInv, Configured, NotYet, Flagged, IspKept
  <2> QED BY <1>3, <1>5, <2>1, GoesDown DEF MarukoInv
<1> QED BY <1>1, <1>4, <1>5

\* A sensor that is enabled and cannot be read.
LEMMA SensorUnflagged ==
    ASSUME MarukoInv, MarukoSensorUnread
    PROVE  MarukoInv'
<1> USE DEF graph, flags, http, hist
<1>1. /\ MarukoDo("sensor") /\ Down /\ units' = units \cup {"sensor"} /\ sensorLeft' = TRUE
      /\ UNCHANGED <<binds, output, created, started, g_mi_isp_initialized>>
      /\ UNCHANGED <<flags, http, rebuilding, lostIsp>>
  BY DEF MarukoSensorUnread
<1>2. /\ MarukoAt("sensor") /\ stage \in {"init", "rebuild"}
      /\ "isp" \in Ahead /\ "scl" \in Ahead /\ stage' = "down"
  BY <1>1, MarukoAtStep, Configuring, GoesDown DEF ConfigureCourse
<1>3. MarukoTypeOK'
  <2>1. "sensor" \notin started
    BY <1>2, <1>1, Configuring DEF MarukoInv, NotYet, ConfigureCourse
  <2>2. LET flagged == {"sensor", "vif", "venc", "venc_dev"}
        IN  started \cap flagged = units \cap flagged
    BY <1>2 DEF MarukoInv, MarukoTypeOK, Rebuilt
  <2>3. LET flagged == {"sensor", "vif", "venc", "venc_dev"}
            unflagged == IF sensorLeft' THEN {"sensor"} ELSE {}
        IN  started' \cap flagged = (units' \cap flagged) \ unflagged
    BY <1>1, <2>1, <2>2
  <2> QED BY <1>1, <1>2, <2>3 DEF MarukoInv, MarukoTypeOK
<1>4. BoundUnitsExist' /\ EncoderServed'
  BY <1>1 DEF MarukoInv, BoundUnitsExist, EncoderServed
<1>5. Flagged' /\ IspKept'
  BY <1>1, <1>2 DEF MarukoInv, NotYet, Flagged, IspKept
<1> QED BY <1>1, <1>3, <1>4, <1>5, GoesDown DEF MarukoInv

\* The encoder, with or without a device of its own.
LEMMA VencStarted ==
    ASSUME MarukoInv, MarukoStartVenc
    PROVE  MarukoInv'
<1> USE DEF graph, flags, http, hist, rest
<1>1. /\ MarukoDo("venc")
      /\ UNCHANGED <<binds, output, created, g_mi_isp_initialized, rest, lostIsp>>
      /\ \/ (\E own \in {{}, {"venc_dev"}} :
              /\ units' = units \cup own \cup {"venc"}
              /\ started' = started \cup own \cup {"venc"}) /\ MarukoPop
         \/ UNCHANGED <<units, started>> /\ Down
  BY DEF MarukoStartVenc
<1>2. /\ MarukoAt("venc") /\ stage \in {"init", "rebuild"}
      /\ "isp" \notin Ahead /\ "scl" \notin Ahead
  BY <1>1, MarukoAtStep, Configuring DEF ConfigureCourse
<1>3. MarukoTypeOK' /\ BoundUnitsExist' /\ EncoderServed'
  <2>1. stage' \in {"init", "rebuild", "down"}
    BY <1>1, <1>2, GoesDown DEF MarukoPop
  <2> QED BY <1>1, <1>2, <2>1 DEF MarukoInv, MarukoTypeOK, BoundUnitsExist,
                                  EncoderServed, BindEnds, Vpe
<1>4. CASE MarukoPop /\ (\E own \in {{}, {"venc_dev"}} :
              /\ units' = units \cup own \cup {"venc"}
              /\ started' = started \cup own \cup {"venc"})
  <2>1. stage' = stage /\ Ahead' = Ahead \ {"venc"} /\ Followed'
    BY <1>1, <1>4, MarukoPopping DEF MarukoPop
  <2>2. ToUndo' /\ Rebuilt' /\ IspKept' /\ UnitsGone'
    BY <1>1, <1>2, <2>1, StillConfiguring
  <2>3. Configured' /\ NotYet' /\ Flagged'
    BY <1>1, <1>2, <1>4, <2>1 DEF MarukoInv, Configured, NotYet, Flagged, BindEnds
  <2> QED BY <1>3, <2>1, <2>2, <2>3 DEF MarukoInv
<1>5. CASE Down /\ UNCHANGED <<units, started>>
  <2>1. Flagged' /\ IspKept'
    BY <1>1, <1>2, <1>5, GoesDown DEF MarukoInv, Configured, NotYet, Flagged, IspKept
  <2> QED BY <1>3, <1>5, <2>1, GoesDown DEF MarukoInv
<1> QED BY <1>1, <1>4, <1>5

\* A link, whose ends are there by then.
LEMMA UnitsBound ==
    ASSUME MarukoInv, NEW l \in DOMAIN BindEnds, Bind(l)
    PROVE  MarukoInv'
<1> USE DEF graph, flags, http, hist, rest
<1>1. /\ MarukoDo(l)
      /\ UNCHANGED <<units, output, created, g_mi_isp_initialized, rest, lostIsp>>
      /\ \/ (binds' = binds \cup {l} /\ started' = started \cup {l}) /\ MarukoPop
         \/ UNCHANGED <<binds, started>> /\ Down
  BY DEF Bind
<1>2. /\ MarukoAt(l) /\ stage \in {"init", "rebuild"}
      /\ {"vif", "isp", "scl", "venc"} \cap Ahead = {}
  BY <1>1, MarukoAtStep, Configuring DEF ConfigureCourse, BindEnds
<1>3. MarukoTypeOK' /\ BoundUnitsExist' /\ EncoderServed'
  <2>1. stage' \in {"init", "rebuild", "down"}
    BY <1>1, <1>2, GoesDown DEF MarukoPop
  <2>2. \A k \in {l} : BindEnds[k] \subseteq units
    BY <1>2 DEF MarukoInv, Configured, BindEnds
  <2>3. BoundUnitsExist'
    BY <1>1, <2>2 DEF MarukoInv, BoundUnitsExist
  <2>4. /\ binds' \subseteq DOMAIN BindEnds
        /\ started' \cap DOMAIN BindEnds = binds'
        /\ LET flagged == {"sensor", "vif", "venc", "venc_dev"}
           IN  started' \cap flagged = started \cap flagged
        /\ "vpe" \in started' => "vpe" \in started
    BY <1>1 DEF MarukoInv, MarukoTypeOK, BindEnds
  <2>5. MarukoTypeOK'
    BY <1>1, <2>1, <2>4 DEF MarukoInv, MarukoTypeOK, Vpe
  <2>6. EncoderServed'
    BY <1>1 DEF MarukoInv, EncoderServed
  <2> QED BY <2>3, <2>5, <2>6
<1>4. CASE MarukoPop /\ (binds' = binds \cup {l} /\ started' = started \cup {l})
  <2>1. stage' = stage /\ Ahead' = Ahead \ {l} /\ Followed'
    BY <1>1, <1>4, MarukoPopping DEF MarukoPop
  <2>2. ToUndo' /\ Rebuilt' /\ IspKept' /\ UnitsGone'
    BY <1>1, <1>2, <2>1, StillConfiguring
  <2>3. Configured' /\ NotYet' /\ Flagged'
    BY <1>1, <1>2, <1>4, <2>1 DEF MarukoInv, Configured, NotYet, Flagged, BindEnds
  <2> QED BY <1>3, <2>1, <2>2, <2>3 DEF MarukoInv
<1>5. CASE Down /\ UNCHANGED <<binds, started>>
  <2>1. Flagged' /\ IspKept'
    BY <1>1, <1>2, <1>5, GoesDown DEF MarukoInv, Configured, NotYet, Flagged, IspKept
  <2> QED BY <1>3, <1>5, <2>1, GoesDown DEF MarukoInv
<1> QED BY <1>1, <1>4, <1>5

\* The binary.
LEMMA IspBinLoaded ==
    ASSUME MarukoInv, LoadIspBin
    PROVE  MarukoInv'
<1> USE DEF graph, flags, http, hist, rest
<1>1. /\ MarukoDo("isp_bin")
      /\ UNCHANGED <<units, binds, output, created, started, rest, lostIsp>>
      /\ \/ g_mi_isp_initialized' = TRUE /\ MarukoPop
         \/ UNCHANGED g_mi_isp_initialized /\ Down
  BY DEF LoadIspBin
<1>2. /\ MarukoAt("isp_bin") /\ stage \in {"init", "rebuild"}
      /\ "isp" \notin Ahead /\ "scl" \notin Ahead
  BY <1>1, MarukoAtStep, Configuring DEF ConfigureCourse
<1>3. MarukoTypeOK' /\ BoundUnitsExist' /\ EncoderServed'
  <2>1. stage' \in {"init", "rebuild", "down"}
    BY <1>1, <1>2, GoesDown DEF MarukoPop
  <2> QED BY <1>1, <1>2, <2>1 DEF MarukoInv, MarukoTypeOK, BoundUnitsExist,
                                  EncoderServed, BindEnds, Vpe
<1>4. CASE MarukoPop /\ g_mi_isp_initialized' = TRUE
  <2>1. stage' = stage /\ Ahead' = Ahead \ {"isp_bin"} /\ Followed'
    BY <1>1, <1>4, MarukoPopping DEF MarukoPop
  <2>2. ToUndo' /\ Rebuilt' /\ IspKept' /\ UnitsGone'
    BY <1>1, <1>2, <2>1, StillConfiguring
  <2>3. Configured' /\ NotYet' /\ Flagged'
    BY <1>1, <1>2, <1>4, <2>1 DEF MarukoInv, Configured, NotYet, Flagged, BindEnds
  <2> QED BY <1>3, <2>1, <2>2, <2>3 DEF MarukoInv
<1>5. CASE Down /\ UNCHANGED g_mi_isp_initialized
  <2>1. Flagged' /\ IspKept'
    BY <1>1, <1>2, <1>5, GoesDown DEF MarukoInv, Configured, NotYet, Flagged, IspKept
  <2> QED BY <1>3, <1>5, <2>1, GoesDown DEF MarukoInv
<1> QED BY <1>1, <1>4, <1>5

\* The socket.
LEMMA SocketMade ==
    ASSUME MarukoInv, OutputInit
    PROVE  MarukoInv'
<1> USE DEF graph, flags, http, hist, rest
<1>1. /\ MarukoDo("output")
      /\ UNCHANGED <<units, binds, created, started, g_mi_isp_initialized, rest, lostIsp>>
      /\ \/ output' = TRUE /\ MarukoPop
         \/ UNCHANGED output /\ Down
  BY DEF OutputInit
<1>2. /\ MarukoAt("output") /\ stage \in {"init", "rebuild"}
      /\ "isp" \notin Ahead /\ "scl" \notin Ahead
  BY <1>1, MarukoAtStep, Configuring DEF ConfigureCourse
<1>3. MarukoTypeOK' /\ BoundUnitsExist' /\ EncoderServed'
  <2>1. stage' \in {"init", "rebuild", "down"}
    BY <1>1, <1>2, GoesDown DEF MarukoPop
  <2> QED BY <1>1, <1>2, <2>1 DEF MarukoInv, MarukoTypeOK, BoundUnitsExist,
                                  EncoderServed, BindEnds, Vpe
<1>4. CASE MarukoPop /\ output' = TRUE
  <2>1. stage' = stage /\ Ahead' = Ahead \ {"output"} /\ Followed'
    BY <1>1, <1>4, MarukoPopping DEF MarukoPop
  <2>2. ToUndo' /\ Rebuilt' /\ IspKept' /\ UnitsGone'
    BY <1>1, <1>2, <2>1, StillConfiguring
  <2>3. Configured' /\ NotYet' /\ Flagged'
    BY <1>1, <1>2, <1>4, <2>1 DEF MarukoInv, Configured, NotYet, Flagged, BindEnds
  <2> QED BY <1>3, <2>1, <2>2, <2>3 DEF MarukoInv
<1>5. CASE Down /\ UNCHANGED output
  <2>1. Flagged' /\ IspKept'
    BY <1>1, <1>2, <1>5, GoesDown DEF MarukoInv, Configured, NotYet, Flagged, IspKept
  <2> QED BY <1>3, <1>5, <2>1, GoesDown DEF MarukoInv
<1> QED BY <1>1, <1>4, <1>5

\* The controls: from now on the server may ask for restarts.
LEMMA ControlsBound ==
    ASSUME MarukoInv, BindControls
    PROVE  MarukoInv'
<1> USE DEF graph, flags, http, hist, rest
<1>1. /\ MarukoDo("controls") /\ MarukoPop /\ stage' = stage /\ controls' = TRUE
      /\ UNCHANGED <<graph, flags, httpd, serving, hist>>
  BY DEF BindControls, MarukoPop
<1>2. /\ MarukoAt("controls") /\ Ahead' = Ahead \ {"controls"} /\ Followed'
      /\ stage \in {"init", "rebuild"} /\ "venc" \notin Ahead
  BY <1>1, MarukoAtStep, MarukoPopping, Configuring DEF ConfigureCourse
<1>3. ToUndo' /\ Rebuilt' /\ IspKept' /\ UnitsGone'
  BY <1>1, <1>2, StillConfiguring
<1>4. MarukoTypeOK' /\ BoundUnitsExist' /\ EncoderServed'
  BY <1>1, <1>2 DEF MarukoInv, Configured, MarukoTypeOK, BoundUnitsExist,
                    EncoderServed, BindEnds
<1>5. Configured' /\ NotYet' /\ Flagged'
  BY <1>1, <1>2 DEF MarukoInv, Configured, NotYet, Flagged, BindEnds
<1> QED BY <1>2, <1>3, <1>4, <1>5 DEF MarukoInv

\* The ISP: until the SCL is made, no flag covers it.
LEMMA IspConfigured ==
    ASSUME MarukoInv, ConfigureIsp
    PROVE  MarukoInv'
<1> USE DEF graph, flags, http, hist, rest
<1>1. /\ MarukoDo("isp") /\ MarukoPop /\ stage' = stage
      /\ units' = units \cup {"isp", "isp_dev", "isp_chn"}
      /\ created' = created \cup {"isp_dev", "isp_chn"} /\ started' = started
      /\ UNCHANGED <<binds, output, g_mi_isp_initialized, rest, lostIsp>>
  BY DEF ConfigureIsp, ConfigureUnit, MarukoPop
<1>2. /\ MarukoAt("isp") /\ Ahead' = Ahead \ {"isp"} /\ Followed'
      /\ stage \in {"init", "rebuild"} /\ "scl" \in Ahead
  BY <1>1, MarukoAtStep, MarukoPopping, Configuring DEF ConfigureCourse
<1>3. ToUndo' /\ Rebuilt' /\ IspKept' /\ UnitsGone'
  BY <1>1, <1>2, StillConfiguring
<1>4. MarukoTypeOK' /\ BoundUnitsExist' /\ EncoderServed'
  BY <1>1, <1>2 DEF MarukoInv, MarukoTypeOK, BoundUnitsExist, EncoderServed,
                    BindEnds, Vpe
<1>5. Configured' /\ NotYet' /\ Flagged'
  BY <1>1, <1>2 DEF MarukoInv, Configured, NotYet, Flagged, BindEnds
<1> QED BY <1>2, <1>3, <1>4, <1>5 DEF MarukoInv

\* The SCL, with which the flag stands for both units.
LEMMA SclConfigured ==
    ASSUME MarukoInv, ConfigureScl
    PROVE  MarukoInv'
<1> USE DEF graph, flags, http, hist, rest
<1>1. /\ MarukoDo("scl") /\ MarukoPop /\ stage' = stage
      /\ units' = units \cup {"scl", "scl_dev", "scl_chn"}
      /\ created' = created \cup {"scl_dev", "scl_chn"} /\ started' = started \cup {"vpe"}
      /\ UNCHANGED <<binds, output, g_mi_isp_initialized, rest, lostIsp>>
  BY DEF ConfigureScl, ConfigureUnit, MarukoPop
<1>2. /\ MarukoAt("scl") /\ Ahead' = Ahead \ {"scl"} /\ Followed'
      /\ stage \in {"init", "rebuild"} /\ "isp" \notin Ahead
  BY <1>1, MarukoAtStep, MarukoPopping, Configuring DEF ConfigureCourse
<1>3. ToUndo' /\ Rebuilt' /\ IspKept' /\ UnitsGone'
  BY <1>1, <1>2, StillConfiguring
<1>4. MarukoTypeOK' /\ BoundUnitsExist' /\ EncoderServed'
  BY <1>1, <1>2 DEF MarukoInv, Configured, MarukoTypeOK, BoundUnitsExist,
                    EncoderServed, BindEnds, Vpe
<1>5. Configured' /\ NotYet' /\ Flagged'
  BY <1>1, <1>2 DEF MarukoInv, Configured, NotYet, Flagged, BindEnds
<1> QED BY <1>2, <1>3, <1>4, <1>5 DEF MarukoInv

\* A failing ISP or SCL, whose units nothing is bound to yet.  The ISP's channel can
\* go under the 3A framework in a rebuild only.
LEMMA UnitFailed ==
    ASSUME MarukoInv, IspFails \/ SclFails
    PROVE  MarukoInv'
<1> USE DEF graph, flags, http, hist, rest
<1>1. PICK unit \in {"isp", "scl"}, gone \in SUBSET Vpe :
         /\ MarukoDo(unit) /\ Down /\ created' \subseteq Vpe /\ created \subseteq created'
         /\ units' = units \ (gone \cup {unit}) /\ (unit = "scl" => "isp" \in gone)
         /\ Lost(gone)
         /\ UNCHANGED <<binds, output, started, g_mi_isp_initialized, rest>>
  <2>1. CASE IspFails
    <3>1. PICK gone \in {{}, {"isp_dev"}, {"isp_dev", "isp_chn"}} :
             /\ created' = created \cup gone
             /\ units' = units \ (gone \cup {} \cup {"isp"}) /\ Lost(gone \cup {})
      BY <2>1 DEF IspFails, UnitFails
    <3>2. gone \in SUBSET Vpe /\ created \subseteq Vpe /\ gone \cup {} = gone
      BY DEF MarukoInv, MarukoTypeOK, Vpe
    <3>3. /\ MarukoDo("isp") /\ Down
          /\ UNCHANGED <<binds, output, started, g_mi_isp_initialized, rest>>
      BY <2>1 DEF IspFails, UnitFails
    <3>4. created' \subseteq Vpe /\ created \subseteq created'
      BY <3>1, <3>2
    <3> QED BY <3>1, <3>2, <3>3, <3>4
  <2>2. CASE SclFails
    <3>1. PICK made \in {{}, {"scl_dev"}, {"scl_dev", "scl_chn"}} :
             /\ created' = created \cup made
             /\ units' = units \ (made \cup {"isp", "isp_dev", "isp_chn"} \cup {"scl"})
             /\ Lost(made \cup {"isp", "isp_dev", "isp_chn"})
      BY <2>2 DEF SclFails, UnitFails
    <3> DEFINE gone == made \cup {"isp", "isp_dev", "isp_chn"}
    <3>2. /\ gone \in SUBSET Vpe /\ created \subseteq Vpe /\ "isp" \in gone
          /\ made \subseteq gone
      BY DEF MarukoInv, MarukoTypeOK, Vpe
    <3>3. /\ MarukoDo("scl") /\ Down
          /\ UNCHANGED <<binds, output, started, g_mi_isp_initialized, rest>>
      BY <2>2 DEF SclFails, UnitFails
    <3>4. units' = units \ (gone \cup {"scl"}) /\ Lost(gone)
      BY <3>1
    <3>5. created' \subseteq Vpe /\ created \subseteq created'
      BY <3>1, <3>2
    <3> HIDE DEF gone
    <3> QED BY <3>2, <3>3, <3>4, <3>5
  <2> QED BY <2>1, <2>2
<1>2. /\ MarukoAt(unit) /\ stage \in {"init", "rebuild"} /\ "scl" \in Ahead
      /\ "isp" \in Ahead \/ unit = "scl"
      /\ DOMAIN BindEnds \subseteq Ahead /\ "isp_bin" \in Ahead
  BY <1>1, MarukoAtStep, Configuring DEF ConfigureCourse, BindEnds
<1>3. "vpe" \notin started /\ binds = {} /\ "isp" \notin units'
  <2>1. "vpe" \notin started
    BY <1>2 DEF MarukoInv, NotYet
  <2>2. binds = {}
    BY <1>2 DEF MarukoInv, NotYet, MarukoTypeOK
  <2>3. "isp" \notin units'
    BY <1>1, <1>2
  <2> QED BY <2>1, <2>2, <2>3
<1>4. stage' = "down"
  BY <1>1, GoesDown
<1>5. MarukoTypeOK' /\ BoundUnitsExist' /\ EncoderServed'
  <2>1. lostIsp' \in BOOLEAN
    BY <1>1 DEF Lost
  <2>2. /\ units' \subseteq units
        /\ units' \cap {"sensor", "vif", "venc", "venc_dev"}
              = units \cap {"sensor", "vif", "venc", "venc_dev"}
    BY <1>1 DEF Vpe
  <2>3. MarukoTypeOK'
    BY <1>1, <1>3, <1>4, <2>1, <2>2 DEF MarukoInv, MarukoTypeOK
  <2>4. BoundUnitsExist' /\ EncoderServed'
    BY <1>1, <1>3, <2>2 DEF MarukoInv, BoundUnitsExist, EncoderServed
  <2> QED BY <2>3, <2>4
<1>6. Flagged' /\ IspKept'
  <2>1. Flagged'
    <3>1. /\ "vpe" \notin started' /\ "isp" \notin units'
          /\ units' \cap {"scl", "scl_chn"} = {}
      BY <1>1, <1>3 DEF MarukoInv, Flagged
    <3>2. "venc_dev" \in units' => "venc" \in started'
      BY <1>1 DEF MarukoInv, Flagged
    <3> QED BY <3>1, <3>2 DEF Flagged
  <2>2. lostIsp => rebuilding
    BY DEF MarukoInv, IspKept
  <2>3. g_mi_isp_initialized => rebuilding
    BY <1>2 DEF MarukoInv, NotYet, Rebuilt
  <2>4. lostIsp' => lostIsp \/ g_mi_isp_initialized
    BY <1>1 DEF Lost
  <2> QED BY <1>1, <1>4, <2>1, <2>2, <2>3, <2>4 DEF IspKept
<1> QED BY <1>1, <1>5, <1>6, GoesDown DEF MarukoInv

\* What ends cannot disturb what configuring is about.
LEMMA StillEnding ==
    ASSUME MarukoInv, stage \in {"teardown", "down"}, stage' = stage,
           lostIsp' = lostIsp, rebuilding' = rebuilding, sensorLeft' = sensorLeft
    PROVE  Configured' /\ NotYet' /\ Rebuilt' /\ IspKept' /\ UnitsGone'
BY DEF MarukoInv, Configured, NotYet, Rebuilt, IspKept, UnitsGone

\* The server's end, before anything it uses goes.
LEMMA HttpdStopped ==
    ASSUME MarukoInv, StopHttpd
    PROVE  MarukoInv'
<1> USE DEF graph, flags, http, hist, rest
<1>1. /\ MarukoDo("httpd_stop") /\ MarukoPop /\ stage' = stage
      /\ httpd' = FALSE /\ UNCHANGED <<graph, flags, controls, serving, hist>>
  BY DEF StopHttpd, MarukoPop
<1>2. /\ MarukoAt("httpd_stop") /\ Ahead' = Ahead \ {"httpd_stop"} /\ Followed'
      /\ stage \in {"teardown", "down"}
  BY <1>1, MarukoAtStep, MarukoPopping, Ending DEF EndCourse
<1>3. Configured' /\ NotYet' /\ Rebuilt' /\ IspKept' /\ UnitsGone'
  BY <1>1, <1>2, StillEnding
<1>4. MarukoTypeOK' /\ BoundUnitsExist' /\ EncoderServed'
  BY <1>1, <1>2 DEF MarukoInv, ToUndo, Rebuilt, MarukoTypeOK, BoundUnitsExist,
                    EncoderServed, BindEnds, Vpe
<1>5. Flagged' /\ ToUndo'
  BY <1>1, <1>2 DEF MarukoInv, Flagged, ToUndo, MarukoTypeOK, BindEnds
<1> QED BY <1>2, <1>3, <1>4, <1>5 DEF MarukoInv

\* The socket's.
LEMMA OutputTornDown ==
    ASSUME MarukoInv, OutputTeardown
    PROVE  MarukoInv'
<1> USE DEF graph, flags, http, hist, rest
<1>1. /\ MarukoDo("free_output") /\ MarukoPop /\ stage' = stage
      /\ output' = FALSE
      /\ UNCHANGED <<units, binds, created, started, g_mi_isp_initialized, rest, lostIsp>>
  BY DEF OutputTeardown, MarukoPop
<1>2. /\ MarukoAt("free_output") /\ Ahead' = Ahead \ {"free_output"} /\ Followed'
      /\ stage \in {"teardown", "down"}
  BY <1>1, MarukoAtStep, MarukoPopping, Ending DEF EndCourse
<1>3. Configured' /\ NotYet' /\ Rebuilt' /\ IspKept' /\ UnitsGone'
  BY <1>1, <1>2, StillEnding
<1>4. MarukoTypeOK' /\ BoundUnitsExist' /\ EncoderServed'
  BY <1>1, <1>2 DEF MarukoInv, ToUndo, Rebuilt, MarukoTypeOK, BoundUnitsExist,
                    EncoderServed, BindEnds, Vpe
<1>5. Flagged' /\ ToUndo'
  BY <1>1, <1>2 DEF MarukoInv, Flagged, ToUndo, MarukoTypeOK, BindEnds
<1> QED BY <1>2, <1>3, <1>4, <1>5 DEF MarukoInv

\* A link's.
LEMMA LinkUnbound ==
    ASSUME MarukoInv, NEW step, NEW l,
           <<step, l>> \in {<<"unbind_vif_isp", "vif_isp">>,
                           <<"unbind_isp_scl", "isp_scl">>,
                           <<"unbind_scl_venc", "scl_venc">>},
           UnbindLink(step, l)
    PROVE  MarukoInv'
<1> USE DEF graph, flags, http, hist, rest
<1>1. /\ MarukoDo(step) /\ MarukoPop /\ stage' = stage
      /\ binds' = binds \ (started \cap {l}) /\ started' = started \ {l}
      /\ UNCHANGED <<units, output, created, g_mi_isp_initialized, rest, lostIsp>>
  BY DEF UnbindLink, MarukoPop
<1>2. /\ MarukoAt(step) /\ Ahead' = Ahead \ {step} /\ Followed'
      /\ stage \in {"teardown", "down"}
  BY <1>1, MarukoAtStep, MarukoPopping, Ending DEF EndCourse
<1>3. Configured' /\ NotYet' /\ Rebuilt' /\ IspKept' /\ UnitsGone'
  BY <1>1, <1>2, StillEnding
<1>4. MarukoTypeOK' /\ BoundUnitsExist' /\ EncoderServed'
  BY <1>1, <1>2 DEF MarukoInv, ToUndo, Rebuilt, MarukoTypeOK, BoundUnitsExist,
                    EncoderServed, BindEnds, Vpe
<1>5. Flagged' /\ ToUndo'
  BY <1>1, <1>2 DEF MarukoInv, Flagged, ToUndo, MarukoTypeOK, BindEnds
<1> QED BY <1>2, <1>3, <1>4, <1>5 DEF MarukoInv

\* The encoder's, which no link and no callback reaches by then.
LEMMA VencStopped ==
    ASSUME MarukoInv, StopVenc
    PROVE  MarukoInv'
<1> USE DEF graph, flags, http, hist, rest
<1>1. /\ MarukoDo("stop_venc") /\ MarukoPop /\ stage' = stage
      /\ IF "venc" \in started
         THEN /\ units' = units \ (started \cap {"venc", "venc_dev"})
              /\ started' = started \ {"venc", "venc_dev"}
         ELSE UNCHANGED <<units, started>>
      /\ UNCHANGED <<binds, output, created, g_mi_isp_initialized, rest, lostIsp>>
  BY DEF StopVenc, MarukoPop
<1>2. /\ MarukoAt("stop_venc") /\ Ahead' = Ahead \ {"stop_venc"} /\ Followed'
      /\ stage \in {"teardown", "down"}
      /\ {"httpd_stop", "unbind_scl_venc"} \cap Ahead = {}
  BY <1>1, MarukoAtStep, MarukoPopping, Ending DEF EndCourse
<1>3. Configured' /\ NotYet' /\ Rebuilt' /\ IspKept' /\ UnitsGone'
  BY <1>1, <1>2, StillEnding
<1>4. MarukoTypeOK' /\ BoundUnitsExist' /\ EncoderServed'
  <2>1. "scl_venc" \notin binds /\ (httpd => rebuilding)
    BY <1>2 DEF MarukoInv, ToUndo, Rebuilt
  <2>2. /\ units' \subseteq units /\ started' \subseteq started
        /\ units \ units' \subseteq {"venc", "venc_dev"}
        /\ LET flagged == {"sensor", "vif", "venc", "venc_dev"}
               unflagged == IF sensorLeft THEN {"sensor"} ELSE {}
           IN  started' \cap flagged = (units' \cap flagged) \ unflagged
        /\ started' \cap DOMAIN BindEnds = binds
    BY <1>1 DEF MarukoInv, MarukoTypeOK, Flagged, BindEnds
  <2>3. MarukoTypeOK'
    BY <1>1, <2>2 DEF MarukoInv, MarukoTypeOK, Vpe
  <2>4. BoundUnitsExist'
    BY <1>1, <2>1, <2>2 DEF MarukoInv, BoundUnitsExist, MarukoTypeOK, BindEnds
  <2> QED BY <1>1, <2>1, <2>3, <2>4 DEF EncoderServed
<1>5. Flagged' /\ ToUndo'
  BY <1>1, <1>2 DEF MarukoInv, Flagged, ToUndo, MarukoTypeOK, BindEnds
<1> QED BY <1>2, <1>3, <1>4, <1>5 DEF MarukoInv

\* Those of ISP and SCL.
LEMMA IspAndSclStopped ==
    ASSUME MarukoInv, StopVpe
    PROVE  MarukoInv'
<1> USE DEF graph, flags, http, hist, rest
<1>1. /\ MarukoDo("stop_vpe") /\ MarukoPop /\ stage' = stage
      /\ IF "vpe" \in started
         THEN /\ units' = units \ ((created \cap {"scl_chn"}) \cup {"isp", "scl"})
              /\ created' = created \ {"scl_chn"} /\ started' = started \ {"vpe"}
         ELSE UNCHANGED <<units, created, started>>
      /\ UNCHANGED <<binds, output, g_mi_isp_initialized, rest, lostIsp>>
  BY DEF StopVpe, MarukoPop
<1>2. /\ MarukoAt("stop_vpe") /\ Ahead' = Ahead \ {"stop_vpe"} /\ Followed'
      /\ stage \in {"teardown", "down"}
      /\ {"unbind_vif_isp", "unbind_isp_scl", "unbind_scl_venc"} \cap Ahead = {}
  BY <1>1, MarukoAtStep, MarukoPopping, Ending DEF EndCourse
<1>3. Configured' /\ NotYet' /\ Rebuilt' /\ IspKept' /\ UnitsGone'
  BY <1>1, <1>2, StillEnding
<1>4. MarukoTypeOK' /\ BoundUnitsExist' /\ EncoderServed'
  BY <1>1, <1>2 DEF MarukoInv, ToUndo, Rebuilt, MarukoTypeOK, BoundUnitsExist,
                    EncoderServed, BindEnds, Vpe
<1>5. Flagged' /\ ToUndo'
  BY <1>1, <1>2 DEF MarukoInv, Flagged, ToUndo, MarukoTypeOK, BindEnds
<1> QED BY <1>2, <1>3, <1>4, <1>5 DEF MarukoInv

\* Those of the input unit and of the sensor.
LEMMA VifOrSensorStopped ==
    ASSUME MarukoInv, NEW step, NEW part,
           <<step, part>> \in {<<"stop_vif", "vif">>, <<"stop_sensor", "sensor">>},
           Stop(step, part)
    PROVE  MarukoInv'
<1> USE DEF graph, flags, http, hist, rest
<1>1. /\ MarukoDo(step) /\ MarukoPop /\ stage' = stage
      /\ units' = units \ (started \cap {part}) /\ started' = started \ {part}
      /\ UNCHANGED <<binds, output, created, g_mi_isp_initialized, rest, lostIsp>>
  BY DEF Stop, MarukoPop
<1>2. /\ MarukoAt(step) /\ Ahead' = Ahead \ {step} /\ Followed'
      /\ stage \in {"teardown", "down"}
      /\ "unbind_vif_isp" \notin Ahead
  BY <1>1, MarukoAtStep, MarukoPopping, Ending DEF EndCourse
<1>3. Configured' /\ NotYet' /\ Rebuilt' /\ IspKept' /\ UnitsGone'
  BY <1>1, <1>2, StillEnding
<1>4. MarukoTypeOK' /\ BoundUnitsExist' /\ EncoderServed'
  <2>1. "vif_isp" \notin binds /\ part \in {"vif", "sensor"}
    BY <1>2 DEF MarukoInv, ToUndo
  <2>2. /\ units' \subseteq units /\ started' \subseteq started
        /\ units \ units' \subseteq {part} /\ started \ started' \subseteq {part}
        /\ LET flagged == {"sensor", "vif", "venc", "venc_dev"}
               unflagged == IF sensorLeft THEN {"sensor"} ELSE {}
           IN  started' \cap flagged = (units' \cap flagged) \ unflagged
        /\ started' \cap DOMAIN BindEnds = binds
    BY <1>1, <2>1 DEF MarukoInv, MarukoTypeOK, BindEnds
  <2>3. MarukoTypeOK'
    BY <1>1, <2>1, <2>2 DEF MarukoInv, MarukoTypeOK, Vpe
  <2>4. BoundUnitsExist'
    BY <1>1, <2>1, <2>2 DEF MarukoInv, BoundUnitsExist, MarukoTypeOK, BindEnds
  <2> QED BY <1>1, <2>1, <2>2, <2>3, <2>4 DEF MarukoInv, EncoderServed
<1>5. Flagged' /\ ToUndo'
  BY <1>1, <1>2 DEF MarukoInv, Flagged, ToUndo, MarukoTypeOK, BindEnds
<1> QED BY <1>2, <1>3, <1>4, <1>5 DEF MarukoInv

\* And the system's.
LEMMA SysExited ==
    ASSUME MarukoInv, SysExit
    PROVE  MarukoInv'
<1> USE DEF graph, flags, http, hist, rest
<1>1. /\ MarukoDo("sys_exit") /\ MarukoPop /\ stage' = stage
      /\ units' = units \ {"sys"}
      /\ UNCHANGED <<binds, output, created, started, g_mi_isp_initialized>>
      /\ UNCHANGED <<rest, lostIsp>>
  BY DEF SysExit, MarukoPop
<1>2. /\ MarukoAt("sys_exit") /\ Ahead' = Ahead \ {"sys_exit"} /\ Followed'
      /\ stage \in {"teardown", "down"}
      /\ stage = "down"
  BY <1>1, MarukoAtStep, MarukoPopping, Ending DEF EndCourse, MarukoInv, ToUndo
<1>3. Configured' /\ NotYet' /\ Rebuilt' /\ IspKept' /\ UnitsGone'
  BY <1>1, <1>2, StillEnding
<1>4. MarukoTypeOK' /\ BoundUnitsExist' /\ EncoderServed'
  BY <1>1, <1>2 DEF MarukoInv, ToUndo, Rebuilt, MarukoTypeOK, BoundUnitsExist,
                    EncoderServed, BindEnds, Vpe
<1>5. Flagged' /\ ToUndo'
  BY <1>1, <1>2 DEF MarukoInv, Flagged, ToUndo, MarukoTypeOK, BindEnds
<1> QED BY <1>2, <1>3, <1>4, <1>5 DEF MarukoInv

--------------------------------------------------------------------------------
(* Maruko: the loop.                                                       *)

\* With no step left, a graph is whole, or gone.
LEMMA RunBegan ==
    ASSUME MarukoInv, RunBegins
    PROVE  MarukoInv'
<1> USE DEF graph, flags, http, hist
<1>1. /\ stage \in {"init", "rebuild"} /\ Ahead = {} /\ steps = <<>>
      /\ stage' = "top" /\ rebuilding' = FALSE
      /\ UNCHANGED <<graph, steps, flags, http, lostIsp, sensorLeft>>
  BY DEF RunBegins, MarukoIdle, Ahead, Range
<1>2. Ahead' = {} /\ Followed'
  BY <1>1 DEF Ahead, Followed, Along, Range
<1>3. MarukoTypeOK' /\ BoundUnitsExist'
  BY <1>1 DEF MarukoInv, MarukoTypeOK, BoundUnitsExist
<1>4. EncoderServed' /\ IspKept'
  BY <1>1 DEF MarukoInv, Configured, IspKept, EncoderServed
<1>5. Configured' /\ NotYet' /\ ToUndo' /\ Rebuilt' /\ UnitsGone'
  BY <1>1, <1>2 DEF MarukoInv, Configured, NotYet, ToUndo, Rebuilt, UnitsGone
<1>6. Flagged'
  BY <1>1 DEF MarukoInv, Configured, Flagged
<1> QED BY <1>2, <1>3, <1>4, <1>5, <1>6 DEF MarukoInv

\* An error or the end of the loop, on the graph as it is.
LEMMA LoopLeft ==
    ASSUME MarukoInv, Down, stage \in {"top", "turn", "teardown"}, steps = <<>>,
           UNCHANGED <<graph, http, hist>>, g_maruko_running' \in {0, 1},
           hup' \in {0, 1}, reinit' \in 0 .. 2
    PROVE  MarukoInv'
<1> USE DEF graph, http, hist
<1>1. stage' = "down"
  BY GoesDown
<1>2. MarukoTypeOK' /\ BoundUnitsExist' /\ EncoderServed'
  BY <1>1 DEF MarukoInv, MarukoTypeOK, BoundUnitsExist, EncoderServed
<1>3. Flagged' /\ IspKept'
  BY <1>1 DEF MarukoInv, Flagged, IspKept
<1> QED BY <1>2, <1>3, GoesDown DEF MarukoInv

\* The loop goes on.
LEMMA LoopGoesOn ==
    ASSUME MarukoInv, stage \in {"top", "check", "turn"},
           stage' \in {"top", "check", "turn"},
           UNCHANGED <<graph, steps, flags, http, hist>>
    PROVE  MarukoInv'
<1> USE DEF graph, flags, http, hist
<1>1. Ahead' = {} /\ Ahead = {} /\ Followed'
  BY DEF MarukoInv, Ahead, Followed, Along, Range
<1>2. MarukoTypeOK' /\ BoundUnitsExist' /\ EncoderServed' /\ IspKept' /\ Flagged'
  BY DEF MarukoInv, MarukoTypeOK, BoundUnitsExist, EncoderServed, IspKept, Flagged
<1>3. Configured' /\ NotYet' /\ ToUndo' /\ Rebuilt' /\ UnitsGone'
  BY <1>1 DEF MarukoInv, Configured, NotYet, ToUndo, Rebuilt, UnitsGone
<1> QED BY <1>1, <1>2, <1>3 DEF MarukoInv

\* A rebuild begins: the whole graph is to be taken down, the system stays.
LEMMA ReinitChecked ==
    ASSUME MarukoInv, CheckReinit
    PROVE  MarukoInv'
<1> USE DEF graph, flags, http, hist
<1>1. /\ stage = "check" /\ steps = <<>> /\ Ahead = {}
      /\ UNCHANGED <<graph, g_maruko_running, reinit, http, lostIsp, sensorLeft>>
  BY DEF CheckReinit, MarukoIdle, Ahead, Range
<1>2. CASE hup = 1 \/ reinit # 0
  <2>1. stage' = "teardown" /\ steps' = TeardownSteps /\ hup' = 0 /\ rebuilding' = TRUE
    BY <1>2 DEF CheckReinit
  <2>2. /\ StageCourse' = EndCourse
        /\ Ahead' = DOMAIN EndCourse \ {"httpd_stop", "sys_exit"}
    BY <2>1, TeardownList DEF StageCourse, Ahead
  <2>3. Followed'
    BY <2>1, <2>2, TeardownList DEF Followed, EndCourse
  <2>4. MarukoTypeOK' /\ BoundUnitsExist' /\ EncoderServed' /\ IspKept'
    BY <1>1, <2>1 DEF MarukoInv, MarukoTypeOK, BoundUnitsExist, EncoderServed,
                      IspKept
  <2>5. Configured' /\ NotYet' /\ Rebuilt' /\ UnitsGone' /\ Flagged'
    BY <1>1, <2>1 DEF MarukoInv, Configured, NotYet, Rebuilt, UnitsGone, Flagged
  <2>6. ToUndo'
    BY <1>1, <2>1, <2>2 DEF MarukoInv, Configured, ToUndo, EndCourse
  <2> QED BY <2>3, <2>4, <2>5, <2>6 DEF MarukoInv
<1>3. CASE ~(hup = 1 \/ reinit # 0)
  BY <1>1, <1>3, LoopGoesOn DEF CheckReinit
<1> QED BY <1>2, <1>3

\* It goes on with nothing bound or running, and the ISP channel in place.
LEMMA Rebuilding ==
    ASSUME MarukoInv, Rebuild
    PROVE  MarukoInv'
<1> USE DEF graph, http, hist
<1>1. /\ stage = "teardown" /\ Ahead = {} /\ reinit' = 0 /\ g_maruko_running' = 1
      /\ stage' = "rebuild" /\ steps' = ConfigureSteps \o <<"controls">>
      /\ UNCHANGED <<graph, hup, http, hist>>
  BY DEF Rebuild, MarukoIdle, Ahead, Range
<1>2. /\ StageCourse' = ConfigureCourse
      /\ Ahead' = DOMAIN ConfigureCourse \ {"httpd", "sys"}
  BY <1>1, RebuildList DEF StageCourse, Ahead
<1>3. Followed'
  BY <1>1, <1>2, RebuildList DEF Followed, ConfigureCourse
<1>4. /\ "vpe" \notin started /\ "isp" \notin units /\ binds = {} /\ "sys" \in units
      /\ "sensor" \notin started
  BY <1>1 DEF MarukoInv, ToUndo, Rebuilt, Flagged, MarukoTypeOK, BindEnds
<1>5. MarukoTypeOK' /\ BoundUnitsExist' /\ EncoderServed' /\ IspKept'
  BY <1>1 DEF MarukoInv, MarukoTypeOK, BoundUnitsExist, EncoderServed, IspKept
<1>6. Configured' /\ NotYet'
  BY <1>1, <1>2, <1>4 DEF Configured, NotYet, ConfigureCourse, BindEnds
<1>7. ToUndo' /\ Rebuilt' /\ UnitsGone' /\ Flagged'
  BY <1>1, <1>4 DEF MarukoInv, ToUndo, Rebuilt, UnitsGone, Flagged
<1> QED BY <1>3, <1>5, <1>6, <1>7 DEF MarukoInv

\* The exit leaves what is never destroyed.
LEMMA Exited ==
    ASSUME MarukoInv, MarukoExit
    PROVE  MarukoInv'
<1> USE DEF graph, flags, http, hist
<1>1. /\ stage = "down" /\ Ahead = {} /\ steps = <<>> /\ stage' = "exited"
      /\ UNCHANGED <<graph, steps, flags, http, hist>>
  BY DEF MarukoExit, MarukoIdle, Ahead, Range
<1>2. Followed'
  BY <1>1 DEF Followed, Along, Ahead, Range
<1>3. /\ units \cap {"vif", "venc", "sys"} = {} /\ "vpe" \notin started
      /\ "sensor" \in units => sensorLeft
      /\ binds = {} /\ ~output /\ ~httpd
  BY <1>1 DEF MarukoInv, ToUndo, MarukoTypeOK, BindEnds
<1>4. UnitsGone'
  BY <1>1, <1>3 DEF MarukoInv, Flagged, UnitsGone, MarukoTypeOK, Vpe
<1>5. MarukoTypeOK' /\ BoundUnitsExist' /\ EncoderServed' /\ IspKept'
  BY <1>1 DEF MarukoInv, MarukoTypeOK, BoundUnitsExist, EncoderServed, IspKept
<1>6. Configured' /\ NotYet' /\ ToUndo' /\ Rebuilt' /\ Flagged'
  BY <1>1 DEF MarukoInv, Configured, NotYet, ToUndo, Rebuilt, Flagged
<1> QED BY <1>2, <1>4, <1>5, <1>6 DEF MarukoInv

\* Signals and requests touch three flags only.
LEMMA FlagsSet ==
    ASSUME MarukoInv, UNCHANGED <<graph, stage, steps, http, hist>>,
           g_maruko_running' \in {0, 1}, hup' \in {0, 1}, reinit' \in 0 .. 2
    PROVE  MarukoInv'
<1> USE DEF graph, http, hist
<1>1. Ahead' = Ahead /\ StageCourse' = StageCourse /\ Followed'
  BY DEF MarukoInv, Ahead, StageCourse, Followed
<1>2. MarukoTypeOK' /\ Flagged'
  BY <1>1 DEF MarukoInv, MarukoTypeOK, Flagged
<1>3. Configured' /\ NotYet' /\ ToUndo'
  BY <1>1 DEF MarukoInv, Configured, NotYet, ToUndo
<1>4. Rebuilt' /\ BoundUnitsExist' /\ IspKept' /\ EncoderServed' /\ UnitsGone'
  BY DEF MarukoInv, Rebuilt, BoundUnitsExist, IspKept, EncoderServed, UnitsGone
<1> QED BY <1>1, <1>2, <1>3, <1>4 DEF MarukoInv

\* A request comes or goes.
LEMMA RequestSeen ==
    ASSUME MarukoInv, serving' \in BOOLEAN,
           UNCHANGED <<graph, stage, steps, flags, httpd, controls, hist>>
    PROVE  MarukoInv'
<1> USE DEF graph, flags, hist
<1>1. Ahead' = Ahead /\ StageCourse' = StageCourse /\ Followed'
  BY DEF MarukoInv, Ahead, StageCourse, Followed
<1>2. MarukoTypeOK' /\ Flagged'
  BY <1>1 DEF MarukoInv, MarukoTypeOK, Flagged
<1>3. Configured' /\ NotYet' /\ ToUndo'
  BY <1>1 DEF MarukoInv, Configured, NotYet, ToUndo
<1>4. Rebuilt' /\ BoundUnitsExist' /\ IspKept' /\ EncoderServed' /\ UnitsGone'
  BY DEF MarukoInv, Rebuilt, BoundUnitsExist, IspKept, EncoderServed, UnitsGone
<1> QED BY <1>1, <1>2, <1>3, <1>4 DEF MarukoInv

\* The process starts with nothing.
LEMMA MarukoBegins == MarukoInit => MarukoInv
<1> SUFFICES ASSUME MarukoInit PROVE MarukoInv
  OBVIOUS
<1>1. StageCourse = ConfigureCourse /\ Ahead = DOMAIN ConfigureCourse
  BY InitList DEF MarukoInit, StageCourse, Ahead
<1>2. Followed
  BY <1>1, InitList DEF MarukoInit, Followed
<1>3. MarukoTypeOK /\ BoundUnitsExist /\ IspKept /\ EncoderServed /\ UnitsGone
  <2>1. /\ units = {} /\ binds = {} /\ created = {} /\ started = {} /\ stage = "init"
        /\ g_maruko_running = 1 /\ hup = 0 /\ reinit = 0
    BY DEF MarukoInit
  <2>2. /\ output = FALSE /\ g_mi_isp_initialized = FALSE /\ httpd = FALSE
        /\ controls = FALSE /\ serving = FALSE /\ rebuilding = FALSE
        /\ lostIsp = FALSE /\ sensorLeft = FALSE
    BY DEF MarukoInit
  <2>3. MarukoTypeOK
    <3>1. /\ {output, g_mi_isp_initialized, httpd, controls, serving} \subseteq BOOLEAN
          /\ {rebuilding, lostIsp, sensorLeft} \subseteq BOOLEAN
      BY <2>2
    <3>2. /\ started \cap DOMAIN BindEnds = binds
          /\ LET flagged == {"sensor", "vif", "venc", "venc_dev"}
                 unflagged == IF sensorLeft THEN {"sensor"} ELSE {}
             IN  started \cap flagged = (units \cap flagged) \ unflagged
      BY <2>1
    <3> QED BY <2>1, <3>1, <3>2 DEF MarukoTypeOK
  <2> QED BY <2>1, <2>2, <2>3 DEF BoundUnitsExist, IspKept, EncoderServed, UnitsGone
<1>4. Configured /\ NotYet
  BY <1>1 DEF MarukoInit, Configured, NotYet, ConfigureCourse, BindEnds
<1>5. Flagged /\ ToUndo /\ Rebuilt
  BY DEF MarukoInit, Flagged, ToUndo, Rebuilt
<1> QED BY <1>2, <1>3, <1>4, <1>5 DEF MarukoInv

\* Every step keeps what is known of the graph.
LEMMA MarukoGoesOn == MarukoInv /\ [MarukoNext]_marukoVars => MarukoInv'
<1> SUFFICES ASSUME MarukoInv, [MarukoNext]_marukoVars PROVE MarukoInv'
  OBVIOUS
<1>1. /\ g_maruko_running \in {0, 1} /\ hup \in {0, 1} /\ reinit \in 0 .. 2
  BY DEF MarukoInv, MarukoTypeOK
<1>2. CASE Configure
  BY <1>2, HttpdStarted, SysStarted, SensorOrVifStarted, SensorUnflagged, IspConfigured,
     SclConfigured,
     UnitFailed, VencStarted, UnitsBound, IspBinLoaded, SocketMade, ControlsBound
     DEF Configure
<1>3. CASE TakeDownGraph
  BY <1>3, HttpdStopped, OutputTornDown, LinkUnbound, VencStopped, IspAndSclStopped,
     VifOrSensorStopped, SysExited DEF TakeDownGraph
<1>4. CASE RunBegins \/ CheckReinit \/ Rebuild \/ MarukoExit
  BY <1>4, RunBegan, ReinitChecked, Rebuilding, Exited
<1>5. CASE LoopTop \/ Turn
  BY <1>1, <1>5, LoopLeft, LoopGoesOn DEF LoopTop, Turn, MarukoIdle, flags
<1>6. CASE TurnFails \/ RebuildFails
  BY <1>1, <1>6, LoopLeft DEF TurnFails, RebuildFails, MarukoIdle, flags
<1>7. CASE MarukoSigterm \/ Hangup \/ \E m \in {1, 2} : RequestRestart(m)
  BY <1>1, <1>7, FlagsSet DEF MarukoSigterm, Hangup, RequestRestart
<1>8. CASE RequestArrives \/ RequestEnds
  BY <1>8, RequestSeen DEF RequestArrives, RequestEnds
<1>9. CASE UNCHANGED marukoVars
  BY <1>1, <1>9, FlagsSet DEF marukoVars, flags
<1> QED BY <1>2, <1>3, <1>4, <1>5, <1>6, <1>7, <1>8, <1>9 DEF MarukoNext, MarukoStep

\* So it holds throughout.
LEMMA MarukoHolds == MarukoSpec => []MarukoInv
BY MarukoBegins, MarukoGoesOn, PTL DEF MarukoSpec

\* Whatever fails while the graph is configured or rebuilt, the flags by which
\* maruko_pipeline_teardown_graph goes say what is there (maruko_pipeline.c), but for
\* a sensor that fails once it is enabled.
THEOREM MarukoTypes == MarukoSpec => []MarukoTypeOK
<1>1. MarukoInv => MarukoTypeOK
  BY DEF MarukoInv
<1> QED BY <1>1, MarukoHolds, PTL

\* Through failures, rebuilds and exit what is bound exists, the loop runs on a whole
\* graph, the ISP channel outlives the 3A framework unless ISP or SCL fail in a
\* rebuild, a request finds the encoder but in a rebuild and in the final teardown,
\* and the exit leaves nothing that can be destroyed but a sensor that failed once
\* it was enabled.
THEOREM GraphStands == MarukoSpec => []GraphSound
<1>1. MarukoInv => GraphSound
  <2> SUFFICES ASSUME MarukoInv PROVE GraphSound
    OBVIOUS
  <2>1. stage \in {"top", "check", "turn"} => Ahead = {}
    BY DEF MarukoInv, Followed, Ahead, Range
  <2>2. GraphIsWhole
    BY <2>1 DEF MarukoInv, MarukoTypeOK, Configured, GraphIsWhole, BindEnds
  <2>3. ControlsFindEncoder
    BY DEF MarukoInv, EncoderServed, ControlsFindEncoder
  <2> QED BY <2>2, <2>3 DEF MarukoInv, GraphSound
<1> QED BY <1>1, MarukoHolds, PTL
================================================================================
