---------------------------- MODULE RecordingProofs ---------------------------
(***************************************************************************)
(* Proofs about Recording for every mode, format and number of requests,   *)
(* reinits and files.  The inductive invariant says which thread may be    *)
(* where, and, as long as no reinit raced the recording thread, that the   *)
(* descriptor the TS recorder holds is the one that is open.               *)
(***************************************************************************)
EXTENDS Recording, FiniteSetTheorems, TLAPS

(* Who runs when: ch1 exists in dual mode only and its thread leaves the   *)
(* flags alone; no frame is written before the first start is complete.    *)
Places ==
    /\ mode \notin Duals => dual = 0
    /\ dual = 1 => mpc \notin {"writing", "take_start", "take_stop"} /\ back = "frame"
    /\ mpc \in {"boot", "boot_start", "ts_start"} => fd = 0 /\ wpc = "idle"
    /\ mpc = "writing" => wpc # "idle"
    /\ mpc \in {"boot", "boot_start"} => back = "frame" /\ hevc = 0
    /\ mpc \in {"exit_stop", "exited"} => dual = 0
    /\ mpc \in {"reinit_close", "reinit_reset"} => reinits > 0

(* The state of the recorders as long as one thread at a time has them.    *)
Descriptors ==
    /\ open = IF fd = 0 \/ mpc = "reinit_reset" THEN {} ELSE {fd}
    /\ wpc = "rotate" => fd = 0
    /\ fd # 0 \/ wpc # "idle" \/ mpc = "ts_start" => hevc = 0
    /\ (fd # 0 /\ mpc # "reinit_reset") \/ wpc # "idle" \/ mpc = "ts_start" => rec_ring = Audio
    /\ mode \notin Duals /\ wpc = "write" => wfd = fd
    /\ mpc = "exited" => fd = 0 /\ hevc = 0

(* A stop that came last: it is pending, or all is at rest.                *)
Stops ==
    last = "stop" =>
        /\ start_pending = 0
        /\ stop_pending = 0 =>
              /\ fd = 0 /\ hevc = 0 /\ rec_ring = 0 /\ wpc = "idle" /\ dual = 0
              /\ mpc \notin {"boot", "boot_start", "ts_start", "ts_tables"}

(* A file begun by rotation, until its first frame is in it.               *)
Rotated ==
    /\ seg.how = "rotate" /\ seg.first = "none" =>
          \/ wpc = "idle" /\ fd = 0
          \/ wpc = "rotate_tables" /\ kind \in {"idr", "cut"}
          \/ wpc \in {"load", "write"} /\ kind \in {"idr", "cut"} /\ seg.tables = 1
    /\ wpc \in {"rotate", "rotate_tables"} => kind \in {"idr", "cut"}
    /\ RotatedPlayable

RecInv == TypeOK /\ Places /\ Stops /\ Rotated /\ (Raced \/ Descriptors)

-------------------------------------------------------------------------------
(* The invariant is inductive.                                             *)

\* The steps of write_stream, by either thread, preserve the invariant.
LEMMA WriteStepInv == RecInv /\ WriteStep => RecInv'
<1> SUFFICES ASSUME RecInv, WriteStep PROVE RecInv'
  OBVIOUS
<1> USE DEF flags, loop, conf, ch1, ts, wr
<1>1. CASE WriteNothing
  <2>1. ConfigType'
    BY <1>1 DEF RecInv, TypeOK, ConfigType, WriteNothing, Writer, HevcWrite, LoopGoesOn
  <2>2. FileType'
    BY <1>1 DEF RecInv, TypeOK, FileType, WriteNothing, Writer, HevcWrite, LoopGoesOn
  <2>3. ControlType'
    BY <1>1 DEF RecInv, TypeOK, ControlType, WriteNothing, Writer, HevcWrite, LoopGoesOn
  <2>4. Places'
    BY <1>1 DEF RecInv, TypeOK, ControlType, ConfigType, FileType, Places, Duals,
       WriteNothing, Writer, HevcWrite, LoopGoesOn
  <2>5. Stops'
    BY <1>1 DEF RecInv, TypeOK, ControlType, ConfigType, FileType, Places, Stops,
       WriteNothing, Writer, HevcWrite, LoopGoesOn
  <2>6. Rotated'
    BY <1>1 DEF RecInv, TypeOK, ControlType, FileType, Places, Rotated, RotatedPlayable,
       WriteNothing, Writer, HevcWrite, LoopGoesOn
  <2>7. (Raced \/ Descriptors)'
    BY <1>1 DEF RecInv, TypeOK, ControlType, ConfigType, FileType, Places, Raced, Duals,
       Descriptors, WriteNothing, Writer, HevcWrite, LoopGoesOn
  <2> QED BY <2>1, <2>2, <2>3, <2>4, <2>5, <2>6, <2>7 DEF RecInv, TypeOK
<1>2. CASE SpaceLow
  <2>1. ConfigType'
    BY <1>2 DEF RecInv, TypeOK, ConfigType, SpaceLow, Stopped, LoopGoesOn
  <2>2. FileType'
    BY <1>2 DEF RecInv, TypeOK, FileType, SpaceLow, Stopped, LoopGoesOn
  <2>3. ControlType'
    BY <1>2 DEF RecInv, TypeOK, ControlType, SpaceLow, Stopped, LoopGoesOn
  <2>4. Places'
    BY <1>2 DEF RecInv, TypeOK, ControlType, ConfigType, FileType, Places, Duals,
       SpaceLow, Stopped, LoopGoesOn
  <2>5. Stops'
    BY <1>2 DEF RecInv, TypeOK, ControlType, ConfigType, FileType, Places, Stops,
       SpaceLow, Stopped, LoopGoesOn
  <2>6. Rotated'
    BY <1>2 DEF RecInv, TypeOK, ControlType, FileType, Places, Rotated, RotatedPlayable,
       SpaceLow, Stopped, LoopGoesOn
  <2>7. (Raced \/ Descriptors)'
    BY <1>2 DEF RecInv, TypeOK, ControlType, ConfigType, FileType, Places, Raced, Duals,
       Descriptors, SpaceLow, Stopped, LoopGoesOn
  <2> QED BY <2>1, <2>2, <2>3, <2>4, <2>5, <2>6, <2>7 DEF RecInv, TypeOK
<1>3. CASE SpaceGood
  <2>1. ConfigType'
    BY <1>3 DEF RecInv, TypeOK, ConfigType, SpaceGood
  <2>2. FileType'
    BY <1>3 DEF RecInv, TypeOK, FileType, SpaceGood
  <2>3. ControlType'
    BY <1>3 DEF RecInv, TypeOK, ControlType, SpaceGood
  <2>4. Places'
    BY <1>3 DEF RecInv, TypeOK, ControlType, ConfigType, FileType, Places, Duals,
       SpaceGood
  <2>5. Stops'
    BY <1>3 DEF RecInv, TypeOK, ControlType, ConfigType, FileType, Places, Stops,
       SpaceGood
  <2>6. Rotated'
    BY <1>3 DEF RecInv, TypeOK, ControlType, FileType, Places, Rotated, RotatedPlayable,
       SpaceGood
  <2>7. (Raced \/ Descriptors)'
    BY <1>3 DEF RecInv, TypeOK, ControlType, ConfigType, FileType, Places, Raced, Duals,
       Descriptors, SpaceGood
  <2> QED BY <2>1, <2>2, <2>3, <2>4, <2>5, <2>6, <2>7 DEF RecInv, TypeOK
<1>4. CASE RotateClose
  <2>1. ConfigType'
    BY <1>4 DEF RecInv, TypeOK, ConfigType, RotateClose, Stopped
  <2>2. FileType'
    BY <1>4 DEF RecInv, TypeOK, FileType, RotateClose, Stopped
  <2>3. ControlType'
    BY <1>4 DEF RecInv, TypeOK, ControlType, RotateClose, Stopped
  <2>4. Places'
    BY <1>4 DEF RecInv, TypeOK, ControlType, ConfigType, FileType, Places, Duals,
       RotateClose, Stopped
  <2>5. Stops'
    BY <1>4 DEF RecInv, TypeOK, ControlType, ConfigType, FileType, Places, Stops,
       RotateClose, Stopped
  <2>6. Rotated'
    BY <1>4 DEF RecInv, TypeOK, ControlType, FileType, Places, Rotated, RotatedPlayable,
       RotateClose, Stopped
  <2>7. (Raced \/ Descriptors)'
    BY <1>4 DEF RecInv, TypeOK, ControlType, ConfigType, FileType, Places, Raced, Duals,
       Descriptors, RotateClose, Stopped
  <2> QED BY <2>1, <2>2, <2>3, <2>4, <2>5, <2>6, <2>7 DEF RecInv, TypeOK
<1>5. CASE RotateOpen
  <2>1. ConfigType'
    BY <1>5 DEF RecInv, TypeOK, ConfigType, RotateOpen, Opened
  <2>2. FileType'
    BY <1>5 DEF RecInv, TypeOK, FileType, RotateOpen, Opened
  <2>3. ControlType'
    BY <1>5 DEF RecInv, TypeOK, ControlType, RotateOpen, Opened
  <2>4. Places'
    BY <1>5 DEF RecInv, TypeOK, ControlType, ConfigType, FileType, Places, Duals,
       RotateOpen, Opened
  <2>5. Stops'
    BY <1>5 DEF RecInv, TypeOK, ControlType, ConfigType, FileType, Places, Stops,
       RotateOpen, Opened
  <2>6. Rotated'
    BY <1>5 DEF RecInv, TypeOK, ControlType, FileType, Places, Rotated, RotatedPlayable,
       RotateOpen, Opened
  <2>7. (Raced \/ Descriptors)'
    <3> SUFFICES ASSUME ~Raced' PROVE Descriptors'
      OBVIOUS
    <3>1. ~Raced /\ Descriptors
      BY <1>5 DEF RecInv, TypeOK, ConfigType, Raced, Duals, RotateOpen, Opened
    <3>3. fd = 0 /\ mpc # "reinit_reset" /\ open = {}
      BY <1>5, <3>1 DEF RecInv, TypeOK, ControlType, ConfigType, Places, Raced, Duals,
         Descriptors, RotateOpen
    <3>4. open' = {fd'} /\ fd' # 0
      BY <1>5, <3>3 DEF RecInv, TypeOK, FileType, RotateOpen, Opened
    <3>2. open' = IF fd' = 0 \/ mpc' = "reinit_reset" THEN {} ELSE {fd'}
      BY <1>5, <3>3, <3>4 DEF RotateOpen, loop
    <3> QED
      BY <1>5, <3>1, <3>2 DEF RecInv, TypeOK, ControlType, ConfigType, FileType, Places,
         Duals, Raced, Descriptors, RotateOpen, Opened
  <2> QED BY <2>1, <2>2, <2>3, <2>4, <2>5, <2>6, <2>7 DEF RecInv, TypeOK
<1>6. CASE RotateTables
  <2>1. ConfigType'
    BY <1>6 DEF RecInv, TypeOK, ConfigType, RotateTables
  <2>2. FileType'
    BY <1>6 DEF RecInv, TypeOK, FileType, RotateTables
  <2>3. ControlType'
    BY <1>6 DEF RecInv, TypeOK, ControlType, RotateTables
  <2>4. Places'
    BY <1>6 DEF RecInv, TypeOK, ControlType, ConfigType, FileType, Places, Duals,
       RotateTables
  <2>5. Stops'
    BY <1>6 DEF RecInv, TypeOK, ControlType, ConfigType, FileType, Places, Stops,
       RotateTables
  <2>6. Rotated'
    BY <1>6 DEF RecInv, TypeOK, ControlType, FileType, Places, Rotated, RotatedPlayable,
       RotateTables
  <2>7. (Raced \/ Descriptors)'
    BY <1>6 DEF RecInv, TypeOK, ControlType, ConfigType, FileType, Places, Raced, Duals,
       Descriptors, RotateTables
  <2> QED BY <2>1, <2>2, <2>3, <2>4, <2>5, <2>6, <2>7 DEF RecInv, TypeOK
<1>7. CASE RotateFails
  <2>1. ConfigType'
    BY <1>7 DEF RecInv, TypeOK, ConfigType, RotateFails, Stopped, LoopGoesOn
  <2>2. FileType'
    BY <1>7 DEF RecInv, TypeOK, FileType, RotateFails, Stopped, LoopGoesOn
  <2>3. ControlType'
    BY <1>7 DEF RecInv, TypeOK, ControlType, RotateFails, Stopped, LoopGoesOn
  <2>4. Places'
    BY <1>7 DEF RecInv, TypeOK, ControlType, ConfigType, FileType, Places, Duals,
       RotateFails, Stopped, LoopGoesOn
  <2>5. Stops'
    BY <1>7 DEF RecInv, TypeOK, ControlType, ConfigType, FileType, Places, Stops,
       RotateFails, Stopped, LoopGoesOn
  <2>6. Rotated'
    BY <1>7 DEF RecInv, TypeOK, ControlType, FileType, Places, Rotated, RotatedPlayable,
       RotateFails, Stopped, LoopGoesOn
  <2>7. (Raced \/ Descriptors)'
    BY <1>7 DEF RecInv, TypeOK, ControlType, ConfigType, FileType, Places, Raced, Duals,
       Descriptors, RotateFails, Stopped, LoopGoesOn
  <2> QED BY <2>1, <2>2, <2>3, <2>4, <2>5, <2>6, <2>7 DEF RecInv, TypeOK
<1>8. CASE LoadFd
  <2>1. ConfigType'
    BY <1>8 DEF RecInv, TypeOK, ConfigType, LoadFd
  <2>2. FileType'
    BY <1>8 DEF RecInv, TypeOK, FileType, LoadFd
  <2>3. ControlType'
    BY <1>8 DEF RecInv, TypeOK, ControlType, LoadFd
  <2>4. Places'
    BY <1>8 DEF RecInv, TypeOK, ControlType, ConfigType, FileType, Places, Duals, LoadFd
  <2>5. Stops'
    BY <1>8 DEF RecInv, TypeOK, ControlType, ConfigType, FileType, Places, Stops, LoadFd
  <2>6. Rotated'
    BY <1>8 DEF RecInv, TypeOK, ControlType, FileType, Places, Rotated, RotatedPlayable,
       LoadFd
  <2>7. (Raced \/ Descriptors)'
    BY <1>8 DEF RecInv, TypeOK, ControlType, ConfigType, FileType, Places, Raced, Duals,
       Descriptors, LoadFd
  <2> QED BY <2>1, <2>2, <2>3, <2>4, <2>5, <2>6, <2>7 DEF RecInv, TypeOK
<1>9. CASE WriteFrame
  <2>1. ConfigType'
    BY <1>9 DEF RecInv, TypeOK, ConfigType, WriteFrame, LoopGoesOn
  <2>2. FileType'
    BY <1>9 DEF RecInv, TypeOK, FileType, ControlType, WriteFrame, LoopGoesOn
  <2>3. ControlType'
    BY <1>9 DEF RecInv, TypeOK, ControlType, WriteFrame, LoopGoesOn
  <2>4. Places'
    BY <1>9 DEF RecInv, TypeOK, ControlType, ConfigType, FileType, Places, Duals,
       WriteFrame, LoopGoesOn
  <2>5. Stops'
    BY <1>9 DEF RecInv, TypeOK, ControlType, ConfigType, FileType, Places, Stops,
       WriteFrame, LoopGoesOn
  <2>6. Rotated'
    BY <1>9 DEF RecInv, TypeOK, ControlType, FileType, Places, Rotated, RotatedPlayable,
       WriteFrame, LoopGoesOn
  <2>7. (Raced \/ Descriptors)'
    BY <1>9 DEF RecInv, TypeOK, ControlType, ConfigType, FileType, Places, Raced, Duals,
       Descriptors, WriteFrame, LoopGoesOn
  <2> QED BY <2>1, <2>2, <2>3, <2>4, <2>5, <2>6, <2>7 DEF RecInv, TypeOK
<1>10. CASE WriteError
  <2>1. ConfigType'
    BY <1>10 DEF RecInv, TypeOK, ConfigType, WriteError, Stopped, LoopGoesOn
  <2>2. FileType'
    BY <1>10 DEF RecInv, TypeOK, FileType, WriteError, Stopped, LoopGoesOn
  <2>3. ControlType'
    BY <1>10 DEF RecInv, TypeOK, ControlType, WriteError, Stopped, LoopGoesOn
  <2>4. Places'
    BY <1>10 DEF RecInv, TypeOK, ControlType, ConfigType, FileType, Places, Duals,
       WriteError, Stopped, LoopGoesOn
  <2>5. Stops'
    BY <1>10 DEF RecInv, TypeOK, ControlType, ConfigType, FileType, Places, Stops,
       WriteError, Stopped, LoopGoesOn
  <2>6. Rotated'
    BY <1>10 DEF RecInv, TypeOK, ControlType, FileType, Places, Rotated,
       RotatedPlayable, WriteError, Stopped, LoopGoesOn
  <2>7. (Raced \/ Descriptors)'
    BY <1>10 DEF RecInv, TypeOK, ControlType, ConfigType, FileType, Places, Raced,
       Duals, Descriptors, WriteError, Stopped, LoopGoesOn
  <2> QED BY <2>1, <2>2, <2>3, <2>4, <2>5, <2>6, <2>7 DEF RecInv, TypeOK
<1>11. ASSUME NEW k \in {"idr", "cut", "p"}, WriteBegin(k) PROVE RecInv'
  <2>1. ConfigType'
    BY <1>11 DEF RecInv, TypeOK, ConfigType, WriteBegin, Writer, HevcWrite
  <2>2. FileType'
    BY <1>11 DEF RecInv, TypeOK, FileType, WriteBegin, Writer, HevcWrite
  <2>3. ControlType'
    BY <1>11 DEF RecInv, TypeOK, ControlType, WriteBegin, Writer, HevcWrite
  <2>4. Places'
    BY <1>11 DEF RecInv, TypeOK, ControlType, ConfigType, FileType, Places, Duals,
       WriteBegin, Writer, HevcWrite
  <2>5. Stops'
    BY <1>11 DEF RecInv, TypeOK, ControlType, ConfigType, FileType, Places, Stops,
       WriteBegin, Writer, HevcWrite
  <2>6. Rotated'
    BY <1>11 DEF RecInv, TypeOK, ControlType, FileType, Places, Rotated,
       RotatedPlayable, WriteBegin, Writer, HevcWrite
  <2>7. (Raced \/ Descriptors)'
    <3> SUFFICES ASSUME ~Raced' PROVE Descriptors'
      OBVIOUS
    <3>1. ~Raced /\ Descriptors
      BY <1>11 DEF RecInv, TypeOK, ConfigType, Raced, Duals, WriteBegin, Writer,
         HevcWrite
    <3>2. open' = IF fd' = 0 \/ mpc' = "reinit_reset" THEN {} ELSE {fd'}
      BY <1>11, <3>1 DEF RecInv, TypeOK, ControlType, FileType, Places, Descriptors,
         WriteBegin, Writer, HevcWrite
    <3> QED
      BY <1>11, <3>1, <3>2 DEF RecInv, TypeOK, ControlType, ConfigType, FileType,
         Places, Duals, Raced, Descriptors, WriteBegin, Writer, HevcWrite
  <2> QED BY <2>1, <2>2, <2>3, <2>4, <2>5, <2>6, <2>7 DEF RecInv, TypeOK
<1> QED BY <1>1, <1>2, <1>3, <1>4, <1>5, <1>6, <1>7, <1>8, <1>9, <1>10, <1>11 DEF
   WriteStep

\* Starting, stopping, reinits and the exit preserve the invariant.
LEMMA MainStepInv == RecInv /\ (MainStep \/ Reinit \/ StreamError) => RecInv'
<1> SUFFICES ASSUME RecInv, (MainStep \/ Reinit \/ StreamError) PROVE RecInv'
  OBVIOUS
<1> USE DEF flags, loop, conf, ch1, ts, wr
<1>1. CASE TsStart
  <2>1. ConfigType'
    BY <1>1 DEF RecInv, TypeOK, ConfigType, TsStart, Opened
  <2>2. FileType'
    <3>1. UNCHANGED wfd
      BY <1>1 DEF TsStart
    <3>2. CASE Opened("start")
      BY <3>1, <3>2 DEF RecInv, TypeOK, FileType, Opened
    <3>3. CASE UNCHANGED ts
      BY <3>1, <3>3 DEF RecInv, TypeOK, FileType
    <3> QED BY <1>1, <3>2, <3>3 DEF TsStart
  <2>3. ControlType'
    BY <1>1 DEF RecInv, TypeOK, ControlType, TsStart, Opened
  <2>4. Places'
    BY <1>1 DEF RecInv, TypeOK, ControlType, ConfigType, FileType, Places, Duals,
       TsStart, Opened
  <2>5. Stops'
    BY <1>1 DEF RecInv, TypeOK, ControlType, ConfigType, FileType, Places, Stops,
       TsStart, Opened
  <2>6. Rotated'
    BY <1>1 DEF RecInv, TypeOK, ControlType, FileType, Places, Rotated, RotatedPlayable,
       TsStart, Opened
  <2>7. (Raced \/ Descriptors)'
    <3> SUFFICES ASSUME ~Raced' PROVE Descriptors'
      OBVIOUS
    <3>1. ~Raced /\ Descriptors
      BY <1>1 DEF RecInv, TypeOK, ConfigType, Raced, Duals, TsStart, Opened
    <3>2. open' = IF fd' = 0 \/ mpc' = "reinit_reset" THEN {} ELSE {fd'}
      BY <1>1, <3>1 DEF RecInv, TypeOK, ControlType, FileType, Places, Descriptors,
         TsStart, Opened
    <3> QED
      BY <1>1, <3>1, <3>2 DEF RecInv, TypeOK, ControlType, ConfigType, FileType, Places,
         Duals, Raced, Descriptors, TsStart, Opened
  <2> QED BY <2>1, <2>2, <2>3, <2>4, <2>5, <2>6, <2>7 DEF RecInv, TypeOK
<1>2. CASE TsTables
  <2>1. ConfigType'
    BY <1>2 DEF RecInv, TypeOK, ConfigType, TsTables, Stopped
  <2>2. FileType'
    BY <1>2 DEF RecInv, TypeOK, FileType, TsTables, Stopped
  <2>3. ControlType'
    BY <1>2 DEF RecInv, TypeOK, ControlType, TsTables, Stopped
  <2>4. Places'
    BY <1>2 DEF RecInv, TypeOK, ControlType, ConfigType, FileType, Places, Duals,
       TsTables, Stopped
  <2>5. Stops'
    BY <1>2 DEF RecInv, TypeOK, ControlType, ConfigType, FileType, Places, Stops,
       TsTables, Stopped
  <2>6. Rotated'
    BY <1>2 DEF RecInv, TypeOK, ControlType, FileType, Places, Rotated, RotatedPlayable,
       TsTables, Stopped
  <2>7. (Raced \/ Descriptors)'
    BY <1>2 DEF RecInv, TypeOK, ControlType, ConfigType, FileType, Places, Raced, Duals,
       Descriptors, TsTables, Stopped
  <2> QED BY <2>1, <2>2, <2>3, <2>4, <2>5, <2>6, <2>7 DEF RecInv, TypeOK
<1>3. CASE BootDual
  <2>1. ConfigType'
    BY <1>3 DEF RecInv, TypeOK, ConfigType, BootDual
  <2>2. FileType'
    BY <1>3 DEF RecInv, TypeOK, FileType, BootDual
  <2>3. ControlType'
    BY <1>3 DEF RecInv, TypeOK, ControlType, BootDual
  <2>4. Places'
    BY <1>3 DEF RecInv, TypeOK, ControlType, ConfigType, FileType, Places, Duals,
       BootDual
  <2>5. Stops'
    BY <1>3 DEF RecInv, TypeOK, ControlType, ConfigType, FileType, Places, Stops,
       BootDual
  <2>6. Rotated'
    BY <1>3 DEF RecInv, TypeOK, ControlType, FileType, Places, Rotated, RotatedPlayable,
       BootDual
  <2>7. (Raced \/ Descriptors)'
    BY <1>3 DEF RecInv, TypeOK, ControlType, ConfigType, FileType, Places, Raced, Duals,
       Descriptors, BootDual
  <2> QED BY <2>1, <2>2, <2>3, <2>4, <2>5, <2>6, <2>7 DEF RecInv, TypeOK
<1>4. CASE BootStart
  <2>1. ConfigType'
    BY <1>4 DEF RecInv, TypeOK, ConfigType, BootStart, StartRecording
  <2>2. FileType'
    BY <1>4 DEF RecInv, TypeOK, FileType, BootStart, StartRecording
  <2>3. ControlType'
    BY <1>4, RecordingAssumption DEF RecInv, TypeOK, ControlType, BootStart,
       StartRecording
  <2>4. Places'
    BY <1>4 DEF RecInv, TypeOK, ControlType, ConfigType, FileType, Places, Duals,
       BootStart, StartRecording
  <2>5. Stops'
    BY <1>4 DEF RecInv, TypeOK, ControlType, ConfigType, FileType, Places, Stops,
       BootStart, StartRecording
  <2>6. Rotated'
    BY <1>4 DEF RecInv, TypeOK, ControlType, FileType, Places, Rotated, RotatedPlayable,
       BootStart, StartRecording
  <2>7. (Raced \/ Descriptors)'
    BY <1>4, RecordingAssumption DEF RecInv, TypeOK, ControlType, ConfigType, FileType,
       Places, Raced, Duals, Descriptors, BootStart, StartRecording
  <2> QED BY <2>1, <2>2, <2>3, <2>4, <2>5, <2>6, <2>7 DEF RecInv, TypeOK
<1>5. CASE TakeStart
  <2>1. ConfigType'
    BY <1>5 DEF RecInv, TypeOK, ConfigType, TakeStart, Stopped, StartRecording
  <2>2. FileType'
    <3>1. open' \in SUBSET open /\ fd' \in {0, fd} /\ UNCHANGED <<nfiles, seg, wfd>>
      BY <1>5 DEF TakeStart, Stopped, StartRecording
    <3> QED BY <3>1 DEF RecInv, TypeOK, FileType
  <2>3. ControlType'
    BY <1>5, RecordingAssumption DEF RecInv, TypeOK, ControlType, TakeStart, Stopped,
       StartRecording
  <2>4. Places'
    BY <1>5 DEF RecInv, TypeOK, ControlType, ConfigType, FileType, Places, Duals,
       TakeStart, Stopped, StartRecording
  <2>5. Stops'
    BY <1>5 DEF RecInv, TypeOK, ControlType, ConfigType, FileType, Places, Stops,
       TakeStart, Stopped, StartRecording
  <2>6. Rotated'
    BY <1>5 DEF RecInv, TypeOK, ControlType, FileType, Places, Rotated, RotatedPlayable,
       TakeStart, Stopped, StartRecording
  <2>7. (Raced \/ Descriptors)'
    BY <1>5, RecordingAssumption DEF RecInv, TypeOK, ControlType, ConfigType, FileType,
       Places, Raced, Duals, Descriptors, TakeStart, Stopped, StartRecording
  <2> QED BY <2>1, <2>2, <2>3, <2>4, <2>5, <2>6, <2>7 DEF RecInv, TypeOK
<1>6. CASE TakeStop
  <2>1. ConfigType'
    BY <1>6 DEF RecInv, TypeOK, ConfigType, TakeStop, Stopped
  <2>2. FileType'
    <3>1. open' \in SUBSET open /\ fd' \in {0, fd} /\ UNCHANGED <<nfiles, seg, wfd>>
      BY <1>6 DEF TakeStop, Stopped
    <3> QED BY <3>1 DEF RecInv, TypeOK, FileType
  <2>3. ControlType'
    BY <1>6 DEF RecInv, TypeOK, ControlType, TakeStop, Stopped
  <2>4. Places'
    BY <1>6 DEF RecInv, TypeOK, ControlType, ConfigType, FileType, Places, Duals,
       TakeStop, Stopped
  <2>5. Stops'
    BY <1>6 DEF RecInv, TypeOK, ControlType, ConfigType, FileType, Places, Stops,
       TakeStop, Stopped
  <2>6. Rotated'
    BY <1>6 DEF RecInv, TypeOK, ControlType, FileType, Places, Rotated, RotatedPlayable,
       TakeStop, Stopped
  <2>7. (Raced \/ Descriptors)'
    BY <1>6 DEF RecInv, TypeOK, ControlType, ConfigType, FileType, Places, Raced, Duals,
       Descriptors, TakeStop, Stopped
  <2> QED BY <2>1, <2>2, <2>3, <2>4, <2>5, <2>6, <2>7 DEF RecInv, TypeOK
<1>7. CASE ReinitClose
  <2>1. ConfigType'
    BY <1>7 DEF RecInv, TypeOK, ConfigType, ReinitClose
  <2>2. FileType'
    BY <1>7 DEF RecInv, TypeOK, FileType, ReinitClose
  <2>3. ControlType'
    BY <1>7 DEF RecInv, TypeOK, ControlType, ReinitClose
  <2>4. Places'
    BY <1>7 DEF RecInv, TypeOK, ControlType, ConfigType, FileType, Places, Duals,
       ReinitClose
  <2>5. Stops'
    BY <1>7 DEF RecInv, TypeOK, ControlType, ConfigType, FileType, Places, Stops,
       ReinitClose
  <2>6. Rotated'
    BY <1>7 DEF RecInv, TypeOK, ControlType, FileType, Places, Rotated, RotatedPlayable,
       ReinitClose
  <2>7. (Raced \/ Descriptors)'
    BY <1>7 DEF RecInv, TypeOK, ControlType, ConfigType, FileType, Places, Raced, Duals,
       Descriptors, ReinitClose
  <2> QED BY <2>1, <2>2, <2>3, <2>4, <2>5, <2>6, <2>7 DEF RecInv, TypeOK
<1>8. CASE ReinitReset
  <2>1. ConfigType'
    BY <1>8 DEF RecInv, TypeOK, ConfigType, ReinitReset
  <2>2. FileType'
    BY <1>8 DEF RecInv, TypeOK, FileType, ReinitReset
  <2>3. ControlType'
    BY <1>8 DEF RecInv, TypeOK, ControlType, ReinitReset
  <2>4. Places'
    BY <1>8 DEF RecInv, TypeOK, ControlType, ConfigType, FileType, Places, Duals,
       ReinitReset
  <2>5. Stops'
    BY <1>8 DEF RecInv, TypeOK, ControlType, ConfigType, FileType, Places, Stops,
       ReinitReset
  <2>6. Rotated'
    BY <1>8 DEF RecInv, TypeOK, ControlType, FileType, Places, Rotated, RotatedPlayable,
       ReinitReset
  <2>7. (Raced \/ Descriptors)'
    <3> SUFFICES ASSUME ~Raced' PROVE Descriptors'
      OBVIOUS
    <3>1. ~Raced /\ Descriptors
      BY <1>8 DEF RecInv, TypeOK, ConfigType, Raced, Duals, ReinitReset
    <3>2. open' = IF fd' = 0 \/ mpc' = "reinit_reset" THEN {} ELSE {fd'}
      BY <1>8, <3>1 DEF RecInv, TypeOK, ControlType, FileType, Places, Descriptors,
         ReinitReset
    <3> QED
      BY <1>8, <3>1, <3>2 DEF RecInv, TypeOK, ControlType, ConfigType, FileType, Places,
         Duals, Raced, Descriptors, ReinitReset
  <2> QED BY <2>1, <2>2, <2>3, <2>4, <2>5, <2>6, <2>7 DEF RecInv, TypeOK
<1>9. CASE ReinitSignal
  <2>1. ConfigType'
    BY <1>9 DEF RecInv, TypeOK, ConfigType, ReinitSignal
  <2>2. FileType'
    BY <1>9 DEF RecInv, TypeOK, FileType, ReinitSignal
  <2>3. ControlType'
    BY <1>9 DEF RecInv, TypeOK, ControlType, ReinitSignal
  <2>4. Places'
    BY <1>9 DEF RecInv, TypeOK, ControlType, ConfigType, FileType, Places, Duals,
       ReinitSignal
  <2>5. Stops'
    BY <1>9 DEF RecInv, TypeOK, ControlType, ConfigType, FileType, Places, Stops,
       ReinitSignal
  <2>6. Rotated'
    BY <1>9 DEF RecInv, TypeOK, ControlType, FileType, Places, Rotated, RotatedPlayable,
       ReinitSignal
  <2>7. (Raced \/ Descriptors)'
    BY <1>9 DEF RecInv, TypeOK, ControlType, ConfigType, FileType, Places, Raced, Duals,
       Descriptors, ReinitSignal
  <2> QED BY <2>1, <2>2, <2>3, <2>4, <2>5, <2>6, <2>7 DEF RecInv, TypeOK
<1>10. CASE ReinitJoin
  <2>1. ConfigType'
    BY <1>10 DEF RecInv, TypeOK, ConfigType, ReinitJoin, Joined
  <2>2. FileType'
    BY <1>10 DEF RecInv, TypeOK, FileType, ReinitJoin, Joined
  <2>3. ControlType'
    BY <1>10 DEF RecInv, TypeOK, ControlType, ReinitJoin, Joined
  <2>4. Places'
    BY <1>10 DEF RecInv, TypeOK, ControlType, ConfigType, FileType, Places, Duals,
       ReinitJoin, Joined
  <2>5. Stops'
    BY <1>10 DEF RecInv, TypeOK, ControlType, ConfigType, FileType, Places, Stops,
       ReinitJoin, Joined
  <2>6. Rotated'
    BY <1>10 DEF RecInv, TypeOK, ControlType, FileType, Places, Rotated,
       RotatedPlayable, ReinitJoin, Joined
  <2>7. (Raced \/ Descriptors)'
    BY <1>10 DEF RecInv, TypeOK, ControlType, ConfigType, FileType, Places, Raced,
       Duals, Descriptors, ReinitJoin, Joined
  <2> QED BY <2>1, <2>2, <2>3, <2>4, <2>5, <2>6, <2>7 DEF RecInv, TypeOK
<1>11. CASE LoopEnds
  <2>1. ConfigType'
    BY <1>11 DEF RecInv, TypeOK, ConfigType, LoopEnds
  <2>2. FileType'
    BY <1>11 DEF RecInv, TypeOK, FileType, LoopEnds
  <2>3. ControlType'
    BY <1>11 DEF RecInv, TypeOK, ControlType, LoopEnds
  <2>4. Places'
    BY <1>11 DEF RecInv, TypeOK, ControlType, ConfigType, FileType, Places, Duals,
       LoopEnds
  <2>5. Stops'
    BY <1>11 DEF RecInv, TypeOK, ControlType, ConfigType, FileType, Places, Stops,
       LoopEnds
  <2>6. Rotated'
    BY <1>11 DEF RecInv, TypeOK, ControlType, FileType, Places, Rotated,
       RotatedPlayable, LoopEnds
  <2>7. (Raced \/ Descriptors)'
    BY <1>11 DEF RecInv, TypeOK, ControlType, ConfigType, FileType, Places, Raced,
       Duals, Descriptors, LoopEnds
  <2> QED BY <2>1, <2>2, <2>3, <2>4, <2>5, <2>6, <2>7 DEF RecInv, TypeOK
<1>12. CASE ExitSignal
  <2>1. ConfigType'
    BY <1>12 DEF RecInv, TypeOK, ConfigType, ExitSignal
  <2>2. FileType'
    BY <1>12 DEF RecInv, TypeOK, FileType, ExitSignal
  <2>3. ControlType'
    BY <1>12 DEF RecInv, TypeOK, ControlType, ExitSignal
  <2>4. Places'
    BY <1>12 DEF RecInv, TypeOK, ControlType, ConfigType, FileType, Places, Duals,
       ExitSignal
  <2>5. Stops'
    BY <1>12 DEF RecInv, TypeOK, ControlType, ConfigType, FileType, Places, Stops,
       ExitSignal
  <2>6. Rotated'
    BY <1>12 DEF RecInv, TypeOK, ControlType, FileType, Places, Rotated,
       RotatedPlayable, ExitSignal
  <2>7. (Raced \/ Descriptors)'
    BY <1>12 DEF RecInv, TypeOK, ControlType, ConfigType, FileType, Places, Raced,
       Duals, Descriptors, ExitSignal
  <2> QED BY <2>1, <2>2, <2>3, <2>4, <2>5, <2>6, <2>7 DEF RecInv, TypeOK
<1>13. CASE ExitJoin
  <2>1. ConfigType'
    BY <1>13 DEF RecInv, TypeOK, ConfigType, ExitJoin, Joined
  <2>2. FileType'
    BY <1>13 DEF RecInv, TypeOK, FileType, ExitJoin, Joined
  <2>3. ControlType'
    BY <1>13 DEF RecInv, TypeOK, ControlType, ExitJoin, Joined
  <2>4. Places'
    BY <1>13 DEF RecInv, TypeOK, ControlType, ConfigType, FileType, Places, Duals,
       ExitJoin, Joined
  <2>5. Stops'
    BY <1>13 DEF RecInv, TypeOK, ControlType, ConfigType, FileType, Places, Stops,
       ExitJoin, Joined
  <2>6. Rotated'
    BY <1>13 DEF RecInv, TypeOK, ControlType, FileType, Places, Rotated,
       RotatedPlayable, ExitJoin, Joined
  <2>7. (Raced \/ Descriptors)'
    BY <1>13 DEF RecInv, TypeOK, ControlType, ConfigType, FileType, Places, Raced,
       Duals, Descriptors, ExitJoin, Joined
  <2> QED BY <2>1, <2>2, <2>3, <2>4, <2>5, <2>6, <2>7 DEF RecInv, TypeOK
<1>14. CASE ExitStop
  <2>1. ConfigType'
    BY <1>14 DEF RecInv, TypeOK, ConfigType, ExitStop, Stopped
  <2>2. FileType'
    BY <1>14 DEF RecInv, TypeOK, FileType, ExitStop, Stopped
  <2>3. ControlType'
    BY <1>14 DEF RecInv, TypeOK, ControlType, ExitStop, Stopped
  <2>4. Places'
    BY <1>14 DEF RecInv, TypeOK, ControlType, ConfigType, FileType, Places, Duals,
       ExitStop, Stopped
  <2>5. Stops'
    BY <1>14 DEF RecInv, TypeOK, ControlType, ConfigType, FileType, Places, Stops,
       ExitStop, Stopped
  <2>6. Rotated'
    BY <1>14 DEF RecInv, TypeOK, ControlType, FileType, Places, Rotated,
       RotatedPlayable, ExitStop, Stopped
  <2>7. (Raced \/ Descriptors)'
    BY <1>14 DEF RecInv, TypeOK, ControlType, ConfigType, FileType, Places, Raced,
       Duals, Descriptors, ExitStop, Stopped
  <2> QED BY <2>1, <2>2, <2>3, <2>4, <2>5, <2>6, <2>7 DEF RecInv, TypeOK
<1>15. CASE Reinit
  <2>1. ConfigType'
    BY <1>15 DEF RecInv, TypeOK, ConfigType, Reinit
  <2>2. FileType'
    BY <1>15 DEF RecInv, TypeOK, FileType, Reinit
  <2>3. ControlType'
    BY <1>15 DEF RecInv, TypeOK, ControlType, Reinit
  <2>4. Places'
    BY <1>15 DEF RecInv, TypeOK, ControlType, ConfigType, FileType, Places, Duals,
       Reinit
  <2>5. Stops'
    BY <1>15 DEF RecInv, TypeOK, ControlType, ConfigType, FileType, Places, Stops,
       Reinit
  <2>6. Rotated'
    BY <1>15 DEF RecInv, TypeOK, ControlType, FileType, Places, Rotated,
       RotatedPlayable, Reinit
  <2>7. (Raced \/ Descriptors)'
    BY <1>15 DEF RecInv, TypeOK, ControlType, ConfigType, FileType, Places, Raced,
       Duals, Descriptors, Reinit
  <2> QED BY <2>1, <2>2, <2>3, <2>4, <2>5, <2>6, <2>7 DEF RecInv, TypeOK
<1>16. CASE StreamError
  <2>1. ConfigType'
    BY <1>16 DEF RecInv, TypeOK, ConfigType, StreamError
  <2>2. FileType'
    BY <1>16 DEF RecInv, TypeOK, FileType, StreamError
  <2>3. ControlType'
    BY <1>16 DEF RecInv, TypeOK, ControlType, StreamError
  <2>4. Places'
    BY <1>16 DEF RecInv, TypeOK, ControlType, ConfigType, FileType, Places, Duals,
       StreamError
  <2>5. Stops'
    BY <1>16 DEF RecInv, TypeOK, ControlType, ConfigType, FileType, Places, Stops,
       StreamError
  <2>6. Rotated'
    BY <1>16 DEF RecInv, TypeOK, ControlType, FileType, Places, Rotated,
       RotatedPlayable, StreamError
  <2>7. (Raced \/ Descriptors)'
    BY <1>16 DEF RecInv, TypeOK, ControlType, ConfigType, FileType, Places, Raced,
       Duals, Descriptors, StreamError
  <2> QED BY <2>1, <2>2, <2>3, <2>4, <2>5, <2>6, <2>7 DEF RecInv, TypeOK
<1> QED BY <1>1, <1>2, <1>3, <1>4, <1>5, <1>6, <1>7, <1>8, <1>9, <1>10, <1>11, <1>12,
   <1>13, <1>14, <1>15, <1>16 DEF MainStep

\* Requests of the HTTP thread and signals preserve the invariant.
LEMMA RequestsInv == RecInv /\ Requests => RecInv'
<1> SUFFICES ASSUME RecInv, Requests PROVE RecInv'
  OBVIOUS
<1> USE DEF flags, loop, conf, ch1, ts, wr
<1>1. CASE RequestStart
  <2>1. ConfigType'
    BY <1>1 DEF RecInv, TypeOK, ConfigType, RequestStart
  <2>2. FileType'
    BY <1>1 DEF RecInv, TypeOK, FileType, RequestStart
  <2>3. ControlType'
    BY <1>1 DEF RecInv, TypeOK, ControlType, RequestStart
  <2>4. Places'
    BY <1>1 DEF RecInv, TypeOK, ControlType, ConfigType, FileType, Places, Duals,
       RequestStart
  <2>5. Stops'
    BY <1>1 DEF RecInv, TypeOK, ControlType, ConfigType, FileType, Places, Stops,
       RequestStart
  <2>6. Rotated'
    BY <1>1 DEF RecInv, TypeOK, ControlType, FileType, Places, Rotated, RotatedPlayable,
       RequestStart
  <2>7. (Raced \/ Descriptors)'
    BY <1>1 DEF RecInv, TypeOK, ControlType, ConfigType, FileType, Places, Raced, Duals,
       Descriptors, RequestStart
  <2> QED BY <2>1, <2>2, <2>3, <2>4, <2>5, <2>6, <2>7 DEF RecInv, TypeOK
<1>2. CASE RequestStop
  <2>1. ConfigType'
    BY <1>2 DEF RecInv, TypeOK, ConfigType, RequestStop
  <2>2. FileType'
    BY <1>2 DEF RecInv, TypeOK, FileType, RequestStop
  <2>3. ControlType'
    BY <1>2 DEF RecInv, TypeOK, ControlType, RequestStop
  <2>4. Places'
    BY <1>2 DEF RecInv, TypeOK, ControlType, ConfigType, FileType, Places, Duals,
       RequestStop
  <2>5. Stops'
    BY <1>2 DEF RecInv, TypeOK, ControlType, ConfigType, FileType, Places, Stops,
       RequestStop
  <2>6. Rotated'
    BY <1>2 DEF RecInv, TypeOK, ControlType, FileType, Places, Rotated, RotatedPlayable,
       RequestStop
  <2>7. (Raced \/ Descriptors)'
    BY <1>2 DEF RecInv, TypeOK, ControlType, ConfigType, FileType, Places, Raced, Duals,
       Descriptors, RequestStop
  <2> QED BY <2>1, <2>2, <2>3, <2>4, <2>5, <2>6, <2>7 DEF RecInv, TypeOK
<1>3. CASE Terminate
  <2>1. ConfigType'
    BY <1>3 DEF RecInv, TypeOK, ConfigType, Terminate
  <2>2. FileType'
    BY <1>3 DEF RecInv, TypeOK, FileType, Terminate
  <2>3. ControlType'
    BY <1>3 DEF RecInv, TypeOK, ControlType, Terminate
  <2>4. Places'
    BY <1>3 DEF RecInv, TypeOK, ControlType, ConfigType, FileType, Places, Duals,
       Terminate
  <2>5. Stops'
    BY <1>3 DEF RecInv, TypeOK, ControlType, ConfigType, FileType, Places, Stops,
       Terminate
  <2>6. Rotated'
    BY <1>3 DEF RecInv, TypeOK, ControlType, FileType, Places, Rotated, RotatedPlayable,
       Terminate
  <2>7. (Raced \/ Descriptors)'
    BY <1>3 DEF RecInv, TypeOK, ControlType, ConfigType, FileType, Places, Raced, Duals,
       Descriptors, Terminate
  <2> QED BY <2>1, <2>2, <2>3, <2>4, <2>5, <2>6, <2>7 DEF RecInv, TypeOK
<1>4. ASSUME NEW f \in Formats, SetFormat(f) PROVE RecInv'
  <2>1. ConfigType'
    BY <1>4 DEF RecInv, TypeOK, ConfigType, SetFormat
  <2>2. FileType'
    BY <1>4 DEF RecInv, TypeOK, FileType, SetFormat
  <2>3. ControlType'
    BY <1>4 DEF RecInv, TypeOK, ControlType, SetFormat
  <2>4. Places'
    BY <1>4 DEF RecInv, TypeOK, ControlType, ConfigType, FileType, Places, Duals,
       SetFormat
  <2>5. Stops'
    BY <1>4 DEF RecInv, TypeOK, ControlType, ConfigType, FileType, Places, Stops,
       SetFormat
  <2>6. Rotated'
    BY <1>4 DEF RecInv, TypeOK, ControlType, FileType, Places, Rotated, RotatedPlayable,
       SetFormat
  <2>7. (Raced \/ Descriptors)'
    BY <1>4 DEF RecInv, TypeOK, ControlType, ConfigType, FileType, Places, Raced, Duals,
       Descriptors, SetFormat
  <2> QED BY <2>1, <2>2, <2>3, <2>4, <2>5, <2>6, <2>7 DEF RecInv, TypeOK
<1> QED BY <1>1, <1>2, <1>3, <1>4 DEF Requests

\* The invariant holds of every behaviour of the recorders.
LEMMA InvHolds == Spec => []RecInv
<1>1. Init => RecInv
  <2> SUFFICES ASSUME Init PROVE RecInv
    OBVIOUS
  <2>1. ConfigType
    BY DEF Init, ConfigType
  <2>2. FileType
    BY DEF Init, FileType, NoSeg
  <2>3. ControlType
    BY DEF Init, ControlType
  <2>4. Places /\ Stops
    BY DEF Init, Places, Stops
  <2>5. Rotated
    BY DEF Init, Rotated, RotatedPlayable, NoSeg
  <2>6. Descriptors
    BY DEF Init, Descriptors
  <2> QED BY <2>1, <2>2, <2>3, <2>4, <2>5, <2>6 DEF RecInv, TypeOK
<1>2. RecInv /\ UNCHANGED vars => RecInv'
  BY DEF vars, flags, loop, conf, ch1, ts, wr, RecInv, TypeOK, ConfigType, FileType,
     ControlType, Places, Stops, Rotated, RotatedPlayable, Raced, Duals, Descriptors
<1>3. RecInv /\ [Next]_vars => RecInv'
  BY <1>2, WriteStepInv, MainStepInv, RequestsInv DEF Next
<1> QED BY <1>1, <1>3, PTL DEF Spec

-------------------------------------------------------------------------------
(* What the runs check.                                                    *)

\* Every variable has its type, and write_stream always has a thread.
THEOREM TypeCorrect == Spec => []TypeOK
<1>1. RecInv => TypeOK
  BY DEF RecInv
<1> QED BY <1>1, InvHolds, PTL

\* One recording at a time, with its audio, into files that begin with an IDR
\* and are closed in the end, whatever requests, disk errors, rotations and
\* rebuilds do to each other.
THEOREM RecordingSound == Spec => []FilesSound
<1>1. RecInv => SoleWriterSafe
  BY DEF RecInv, TypeOK, ControlType, Places, Descriptors, SoleWriterSafe,
     DescriptorOpen, Raced
<1>2. RecInv => OneRecording
  <2> SUFFICES ASSUME RecInv, ~Raced PROVE ~(hevc = 1 /\ fd # 0) /\ Cardinality(open) <= 1
    BY DEF OneRecording
  <2>1. open = {} \/ open = {fd}
    BY DEF RecInv, Descriptors
  <2>2. Cardinality(open) \in {0, 1}
    BY <2>1, FS_EmptySet, FS_Singleton
  <2>3. ~(hevc = 1 /\ fd # 0)
    BY DEF RecInv, Descriptors
  <2> QED BY <2>2, <2>3
<1>3. RecInv => AudioAttached
  BY DEF RecInv, Descriptors, AudioAttached
<1>4. RecInv => RotatedPlayable
  BY DEF RecInv, Rotated
<1>5. RecInv => AllClosed
  BY DEF RecInv, Descriptors, AllClosed
<1>6. RecInv => FilesSound
  BY <1>1, <1>2, <1>3, <1>4, <1>5 DEF FilesSound
<1> QED BY <1>6, InvHolds, PTL

\* A stop that came last has left nothing running once the loop took it.
THEOREM LastStopWins == Spec => []StopHonoured
<1>1. RecInv => StopHonoured
  BY DEF RecInv, Stops, StopHonoured
<1> QED BY <1>1, InvHolds, PTL
===============================================================================
