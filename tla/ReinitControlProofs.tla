------------------------- MODULE ReinitControlProofs -------------------------
(***************************************************************************)
(* Proofs about ReinitControl for every set of fields and values and any   *)
(* number of requests, reloads and edits of the file.  The inductive       *)
(* invariant says, field by field, why the pipeline may differ from the    *)
(* configuration: something is still on its way that makes the loop read   *)
(* the field again.                                                        *)
(***************************************************************************)
EXTENDS ReinitControl, TLAPS

(* A change of field f that the pipeline does not have yet: a request on   *)
(* its way to the flag, the flag itself, a rebuild that has begun and will *)
(* read the field, or a loop that has ended.                               *)
Awaited(f) ==
    \/ hpc \in {"commit", "check", "store"} \/ g_reinit # 0
    \/ mpc \in {"nap", "clear", "defaults", "parse", "load", "clamp_check", "clamp_store",
               "stopped"}
    \/ mpc = "rebuild" /\ f \in todo

Pending ==
    /\ \A f \in Fields : pipe[f] = Used(f, mem[f]) \/ Awaited(f)
    /\ mpc = "clamp_store" => todo = Fields
    /\ mpc = "load" => todo \subseteq InFile

(* Field f has a value in memory that somebody gave it: the built-in       *)
(* defaults are there from a reload's first default to its last field.     *)
Given(f) ==
    mpc \notin {"defaults", "parse"} /\ (mpc = "load" => f \notin todo) => mem[f] # Default

(* The built-in defaults are in nobody's copy and not in the pipeline.     *)
NoDefaults ==
    torn \/ mpc = "stopped" \/
        \A f \in InFile : /\ pipe[f] # Default
                          /\ Given(f)
                          /\ hpc = "copy" /\ f \notin left => new[f] # Default
                          /\ hpc = "commit" /\ f \in left => new[f] # Default

ReinitInv == TypeOK /\ Pending /\ NoDefaults

-------------------------------------------------------------------------------
(* Configurations.                                                         *)

\* The defaults and the values of the file are configurations, and the
\* pipeline makes a configuration of one; limiting the frame rate in memory
\* makes no difference to it.
LEMMA Configurations ==
    /\ Defaults \in Config
    /\ \A f \in Fields : \A v \in Values \cup {Default} : Used(f, v) \in Values \cup {Default}
    /\ \A f \in Fields : \A v \in Values : Used(f, v) # Default
    /\ \A v \in Values : v # Default /\ v \in Nat
    /\ \A v \in Values : v > MaxFps => Used("fps", v) = Used("fps", MaxFps)
    /\ MaxFps \in Values /\ "fps" \in Fields /\ InFile \subseteq Fields
    /\ Default \in Int /\ ~(Default > MaxFps)
  BY FieldsAssumption DEF Defaults, Config, Used, Fields, Default

-------------------------------------------------------------------------------
(* The invariant is inductive.                                             *)

\* Requests, the HTTP thread and the signal handlers preserve the invariant.
LEMMA RequestStepInv == ReinitInv /\ (HttpStep \/ SignalStep \/ Requests) => ReinitInv'
<1> SUFFICES ASSUME ReinitInv, (HttpStep \/ SignalStep \/ Requests) PROVE ReinitInv'
  OBVIOUS
<1> USE DEF main, http, count, hist, At
<1>0. ASSUME NEW f \in Fields, CopyField(f) PROVE ReinitInv'
  <2>1. DataType'
    BY <1>0 DEF ReinitInv, TypeOK, DataType, Config, CopyField
  <2>2. ControlType'
    BY <1>0 DEF ReinitInv, TypeOK, ControlType, CopyField, Reloading
  <2>5. FieldType'
    BY <1>0 DEF ReinitInv, TypeOK, FieldType, CopyField, Reloading
  <2>3. Pending'
    BY <1>0 DEF ReinitInv, TypeOK, ControlType, Pending, Awaited, CopyField
  <2>4. NoDefaults'
    <3> SUFFICES ASSUME ~torn', mpc' # "stopped", NEW g \in InFile
                 PROVE  /\ pipe'[g] # Default
                        /\ Given(g)'
                        /\ hpc' = "copy" /\ g \notin left' => new'[g] # Default
                        /\ hpc' = "commit" /\ g \in left' => new'[g] # Default
      BY DEF NoDefaults
    <3>1. ~torn /\ mpc # "stopped" /\ mpc \notin {"defaults", "parse", "load"}
      BY <1>0 DEF CopyField, Reloading, ReinitInv, TypeOK, ControlType
    <3>2. pipe[g] # Default /\ mem[g] # Default /\ Given(g)
          /\ (g \notin left => new[g] # Default)
      BY <1>0, <3>1 DEF ReinitInv, NoDefaults, Given, CopyField
    <3>3. new'[g] = IF g = f THEN mem[g] ELSE new[g]
      BY <1>0, Configurations DEF CopyField, ReinitInv, TypeOK, DataType, Config
    <3>4. g # f => (g \notin left \/ (hpc' = "copy" /\ g \in left'))
      <4>1. CASE left = {f}
        BY <4>1
      <4>2. CASE left # {f}
        BY <1>0, <4>2 DEF CopyField
      <4> QED BY <4>1, <4>2
    <3>5. pipe' = pipe /\ mpc' = mpc /\ mem' = mem /\ todo' = todo
      BY <1>0 DEF CopyField
    <3>6. hpc' = "copy" \/ hpc' = "commit"
      BY <1>0 DEF CopyField
    <3> QED BY <3>2, <3>3, <3>4, <3>5, <3>6 DEF Given
  <2> QED BY <2>1, <2>2, <2>3, <2>4, <2>5 DEF ReinitInv, TypeOK
<1>1. ASSUME NEW f \in Fields, SetCommit(f) PROVE ReinitInv'
  <2>1. DataType'
    BY <1>1, Configurations DEF ReinitInv, TypeOK, DataType, Config, SetCommit
  <2>2. ControlType'
    BY <1>1 DEF ReinitInv, TypeOK, ControlType, SetCommit
  <2>5. FieldType'
    BY <1>1 DEF ReinitInv, TypeOK, FieldType, SetCommit
  <2>3. Pending'
    BY <1>1 DEF ReinitInv, TypeOK, ControlType, Pending, Awaited, SetCommit
  <2>4. NoDefaults'
    <3> SUFFICES ASSUME ~torn', mpc' # "stopped", NEW g \in InFile
                 PROVE  /\ pipe'[g] # Default
                        /\ Given(g)'
                        /\ hpc' = "copy" /\ g \notin left' => new'[g] # Default
                        /\ hpc' = "commit" /\ g \in left' => new'[g] # Default
      BY DEF NoDefaults
    <3>1. /\ pipe[g] # Default /\ Given(g) /\ (g \in left => new[g] # Default)
          /\ f \in left /\ hpc' # "copy"
      BY <1>1 DEF SetCommit, ReinitInv, NoDefaults
    <3>2. mem'[g] = IF g = f THEN new[g] ELSE mem[g]
      BY <1>1, Configurations DEF SetCommit, ReinitInv, TypeOK, DataType, Config
    <3>3. hpc' = "commit" => new' = new /\ left' \subseteq left
      BY <1>1 DEF SetCommit
    <3> QED BY <1>1, <3>1, <3>2, <3>3 DEF SetCommit, Given
  <2> QED BY <2>1, <2>2, <2>3, <2>4, <2>5 DEF ReinitInv, TypeOK
<1>2. CASE RequestCheck
  <2>1. DataType'
    BY <1>2 DEF ReinitInv, TypeOK, DataType, RequestCheck
  <2>2. ControlType'
    BY <1>2 DEF ReinitInv, TypeOK, ControlType, RequestCheck, GivesWay
  <2>5. FieldType'
    BY <1>2 DEF ReinitInv, TypeOK, FieldType, RequestCheck
  <2>3. Pending'
    <3>1. hpc' = "store" \/ g_reinit' # 0
      BY <1>2 DEF ReinitInv, TypeOK, ControlType, RequestCheck
    <3> QED BY <1>2, <3>1 DEF ReinitInv, Pending, Awaited, RequestCheck
  <2>4. NoDefaults'
    BY <1>2 DEF ReinitInv, NoDefaults, Given, RequestCheck
  <2> QED BY <2>1, <2>2, <2>3, <2>4, <2>5 DEF ReinitInv, TypeOK
<1>3. CASE RequestStore
  <2>1. DataType'
    BY <1>3 DEF ReinitInv, TypeOK, DataType, RequestStore
  <2>2. ControlType'
    BY <1>3 DEF ReinitInv, TypeOK, ControlType, RequestStore, GivesWay
  <2>5. FieldType'
    BY <1>3 DEF ReinitInv, TypeOK, FieldType, RequestStore
  <2>3. Pending'
    BY <1>3 DEF ReinitInv, TypeOK, ControlType, Pending, Awaited, RequestStore
  <2>4. NoDefaults'
    BY <1>3 DEF ReinitInv, NoDefaults, Given, RequestStore
  <2> QED BY <2>1, <2>2, <2>3, <2>4, <2>5 DEF ReinitInv, TypeOK
<1>4. CASE HangupCheck
  <2>1. DataType'
    BY <1>4 DEF ReinitInv, TypeOK, DataType, HangupCheck
  <2>2. ControlType'
    BY <1>4 DEF ReinitInv, TypeOK, ControlType, HangupCheck, GivesWay
  <2>5. FieldType'
    BY <1>4 DEF ReinitInv, TypeOK, FieldType, HangupCheck
  <2>3. Pending'
    BY <1>4 DEF ReinitInv, TypeOK, ControlType, Pending, Awaited, HangupCheck
  <2>4. NoDefaults'
    BY <1>4 DEF ReinitInv, NoDefaults, Given, HangupCheck
  <2> QED BY <2>1, <2>2, <2>3, <2>4, <2>5 DEF ReinitInv, TypeOK
<1>5. CASE HangupStore
  <2>1. DataType'
    BY <1>5 DEF ReinitInv, TypeOK, DataType, HangupStore
  <2>2. ControlType'
    BY <1>5 DEF ReinitInv, TypeOK, ControlType, HangupStore
  <2>5. FieldType'
    BY <1>5 DEF ReinitInv, TypeOK, FieldType, HangupStore
  <2>3. Pending'
    BY <1>5 DEF ReinitInv, TypeOK, ControlType, Pending, Awaited, HangupStore
  <2>4. NoDefaults'
    BY <1>5 DEF ReinitInv, NoDefaults, Given, HangupStore
  <2> QED BY <2>1, <2>2, <2>3, <2>4, <2>5 DEF ReinitInv, TypeOK
<1>6. CASE Restart
  <2>1. DataType'
    BY <1>6 DEF ReinitInv, TypeOK, DataType, Restart
  <2>2. ControlType'
    BY <1>6 DEF ReinitInv, TypeOK, ControlType, Restart
  <2>5. FieldType'
    BY <1>6 DEF ReinitInv, TypeOK, FieldType, Restart
  <2>3. Pending'
    BY <1>6 DEF ReinitInv, TypeOK, ControlType, Pending, Awaited, Restart
  <2>4. NoDefaults'
    BY <1>6 DEF ReinitInv, NoDefaults, Given, Restart
  <2> QED BY <2>1, <2>2, <2>3, <2>4, <2>5 DEF ReinitInv, TypeOK
<1>7. CASE Hangup
  <2>1. DataType'
    BY <1>7 DEF ReinitInv, TypeOK, DataType, Hangup
  <2>2. ControlType'
    BY <1>7 DEF ReinitInv, TypeOK, ControlType, Hangup
  <2>5. FieldType'
    BY <1>7 DEF ReinitInv, TypeOK, FieldType, Hangup
  <2>3. Pending'
    BY <1>7 DEF ReinitInv, TypeOK, ControlType, Pending, Awaited, Hangup
  <2>4. NoDefaults'
    BY <1>7 DEF ReinitInv, NoDefaults, Given, Hangup
  <2> QED BY <2>1, <2>2, <2>3, <2>4, <2>5 DEF ReinitInv, TypeOK
<1>8. CASE Terminate
  <2>1. DataType'
    BY <1>8 DEF ReinitInv, TypeOK, DataType, Terminate
  <2>2. ControlType'
    BY <1>8 DEF ReinitInv, TypeOK, ControlType, Terminate
  <2>5. FieldType'
    BY <1>8 DEF ReinitInv, TypeOK, FieldType, Terminate
  <2>3. Pending'
    BY <1>8 DEF ReinitInv, TypeOK, ControlType, Pending, Awaited, Terminate
  <2>4. NoDefaults'
    BY <1>8 DEF ReinitInv, NoDefaults, Given, Terminate
  <2> QED BY <2>1, <2>2, <2>3, <2>4, <2>5 DEF ReinitInv, TypeOK
<1>9. ASSUME NEW f \in Fields, NEW v \in Values, SetCopy(f, v) PROVE ReinitInv'
  <2>1. DataType'
    BY <1>9, Configurations DEF ReinitInv, TypeOK, DataType, Config, SetCopy, Fields
  <2>2. ControlType'
    BY <1>9 DEF ReinitInv, TypeOK, ControlType, SetCopy, Fields
  <2>5. FieldType'
    BY <1>9 DEF ReinitInv, TypeOK, FieldType, SetCopy, Fields
  <2>3. Pending'
    BY <1>9, Configurations DEF ReinitInv, TypeOK, ControlType, DataType, Config,
       Pending, Awaited, SetCopy, Fields
  <2>4. NoDefaults'
    BY <1>9, Configurations DEF ReinitInv, TypeOK, ControlType, DataType, Config,
       NoDefaults, Given, SetCopy, Fields
  <2> QED BY <2>1, <2>2, <2>3, <2>4, <2>5 DEF ReinitInv, TypeOK
<1>10. ASSUME NEW d \in Disk, EditFile(d) PROVE ReinitInv'
  <2>1. DataType'
    BY <1>10, Configurations DEF ReinitInv, TypeOK, DataType, Config, EditFile
  <2>2. ControlType'
    BY <1>10 DEF ReinitInv, TypeOK, ControlType, EditFile
  <2>5. FieldType'
    BY <1>10 DEF ReinitInv, TypeOK, FieldType, EditFile
  <2>3. Pending'
    BY <1>10, Configurations DEF ReinitInv, TypeOK, ControlType, DataType, Config,
       Pending, Awaited, EditFile
  <2>4. NoDefaults'
    BY <1>10, Configurations DEF ReinitInv, TypeOK, ControlType, DataType, Config,
       NoDefaults, Given, EditFile
  <2> QED BY <2>1, <2>2, <2>3, <2>4, <2>5 DEF ReinitInv, TypeOK
<1> QED BY <1>0, <1>1, <1>2, <1>3, <1>4, <1>5, <1>6, <1>7, <1>8, <1>9, <1>10 DEF HttpStep,
   SignalStep, Requests

\* The streaming loop, its reload and its rebuild preserve the invariant.
LEMMA MainStepInv == ReinitInv /\ (MainStep \/ Failures) => ReinitInv'
<1> SUFFICES ASSUME ReinitInv, (MainStep \/ Failures) PROVE ReinitInv'
  OBVIOUS
<1> USE DEF main, http, count, hist, At
<1>1. CASE LoopTop
  <2>1. DataType'
    BY <1>1 DEF ReinitInv, TypeOK, DataType, LoopTop
  <2>2. ControlType'
    BY <1>1 DEF ReinitInv, TypeOK, ControlType, LoopTop
  <2>5. FieldType'
    BY <1>1 DEF ReinitInv, TypeOK, FieldType, LoopTop
  <2>3. Pending'
    BY <1>1 DEF ReinitInv, TypeOK, ControlType, Pending, Awaited, LoopTop
  <2>4. NoDefaults'
    BY <1>1 DEF ReinitInv, NoDefaults, Given, LoopTop
  <2> QED BY <2>1, <2>2, <2>3, <2>4, <2>5 DEF ReinitInv, TypeOK
<1>2. CASE Reread
  <2>1. DataType'
    BY <1>2 DEF ReinitInv, TypeOK, DataType, Reread
  <2>2. ControlType'
    BY <1>2 DEF ReinitInv, TypeOK, ControlType, Reread
  <2>5. FieldType'
    BY <1>2 DEF ReinitInv, TypeOK, FieldType, Reread
  <2>3. Pending'
    BY <1>2 DEF ReinitInv, TypeOK, ControlType, Pending, Awaited, Reread
  <2>4. NoDefaults'
    BY <1>2 DEF ReinitInv, NoDefaults, Given, Reread
  <2> QED BY <2>1, <2>2, <2>3, <2>4, <2>5 DEF ReinitInv, TypeOK
<1>3. CASE Clear
  <2>1. DataType'
    BY <1>3 DEF ReinitInv, TypeOK, DataType, Clear
  <2>2. ControlType'
    BY <1>3 DEF ReinitInv, TypeOK, ControlType, Clear
  <2>5. FieldType'
    BY <1>3 DEF ReinitInv, TypeOK, FieldType, Clear
  <2>3. Pending'
    BY <1>3 DEF ReinitInv, TypeOK, ControlType, Pending, Awaited, Clear
  <2>4. NoDefaults'
    BY <1>3 DEF ReinitInv, NoDefaults, Given, Clear
  <2> QED BY <2>1, <2>2, <2>3, <2>4, <2>5 DEF ReinitInv, TypeOK
<1>4. ASSUME NEW f \in Fields, ReloadDefaults(f) PROVE ReinitInv'
  <2>1. DataType'
    BY <1>4 DEF ReinitInv, TypeOK, DataType, Config, ReloadDefaults
  <2>2. ControlType'
    BY <1>4 DEF ReinitInv, TypeOK, ControlType, ReloadDefaults
  <2>5. FieldType'
    BY <1>4 DEF ReinitInv, TypeOK, FieldType, ReloadDefaults
  <2>3. Pending'
    BY <1>4 DEF ReinitInv, TypeOK, ControlType, Pending, Awaited, ReloadDefaults
  <2>4. NoDefaults'
    BY <1>4 DEF ReinitInv, NoDefaults, Given, ReloadDefaults
  <2> QED BY <2>1, <2>2, <2>3, <2>4, <2>5 DEF ReinitInv, TypeOK
<1>5. CASE ReloadFile
  <2>1. disk.state \in {"ok", "absent", "bad"} /\ disk.val \in [InFile -> Values]
    BY FieldsAssumption DEF ReinitInv, TypeOK, DataType, Disk
  <2>2. mpc' \in {"stopped", "clamp_check", "load"} /\ (mpc' = "clamp_check" => torn')
        /\ todo' = InFile
    BY <1>5, <2>1 DEF ReloadFile
  <2>3. DataType'
    BY <1>5, <2>1 DEF ReinitInv, TypeOK, DataType, ReloadFile
  <2>4. ControlType'
    BY <1>5, <2>2, Configurations DEF ReinitInv, TypeOK, ControlType, ReloadFile
  <2>7. FieldType'
    BY <1>5, <2>2, Configurations DEF ReinitInv, TypeOK, FieldType, ReloadFile
  <2>5. Pending'
    BY <1>5, <2>2 DEF ReinitInv, TypeOK, ControlType, Pending, Awaited, ReloadFile
  <2>6. NoDefaults'
    BY <1>5, <2>2 DEF ReinitInv, NoDefaults, Given, ReloadFile
  <2> QED BY <2>3, <2>4, <2>5, <2>6, <2>7 DEF ReinitInv, TypeOK
<1>11. ASSUME NEW f \in Fields, ReloadField(f) PROVE ReinitInv'
  <2>0. f \in InFile /\ root[f] \in Values /\ f \in todo /\ mpc = "load"
    BY <1>11 DEF ReloadField, ReinitInv, TypeOK, DataType, Pending
  <2>1. DataType'
    BY <1>11, <2>0 DEF ReinitInv, TypeOK, DataType, Config, ReloadField
  <2>2. ControlType'
    BY <1>11 DEF ReinitInv, TypeOK, ControlType, ReloadField
  <2>5. FieldType'
    BY <1>11 DEF ReinitInv, TypeOK, FieldType, ReloadField
  <2>3. Pending'
    BY <1>11 DEF ReinitInv, TypeOK, ControlType, Pending, Awaited, ReloadField
  <2>4. NoDefaults'
    <3> SUFFICES ASSUME ~torn', mpc' # "stopped", NEW g \in InFile
                 PROVE  /\ pipe'[g] # Default
                        /\ Given(g)'
                        /\ hpc' = "copy" /\ g \notin left' => new'[g] # Default
                        /\ hpc' = "commit" /\ g \in left' => new'[g] # Default
      BY DEF NoDefaults
    <3>1. pipe[g] # Default /\ (g \notin todo => mem[g] # Default)
          /\ (hpc = "copy" /\ g \notin left => new[g] # Default)
          /\ (hpc = "commit" /\ g \in left => new[g] # Default)
      BY <1>11, <2>0 DEF ReloadField, ReinitInv, NoDefaults, Given
    <3>2. mem'[g] = IF g = f THEN root[g] ELSE mem[g]
      BY <1>11, Configurations DEF ReloadField, ReinitInv, TypeOK, DataType, Config
    <3>3. (g # f /\ (mpc' = "load" => g \notin todo')) => g \notin todo
      BY <1>11, <2>0 DEF ReloadField
    <3>4. Given(g)'
      BY <2>0, <3>1, <3>2, <3>3, Configurations DEF Given
    <3> QED BY <1>11, <3>1, <3>4 DEF ReloadField
  <2> QED BY <2>1, <2>2, <2>3, <2>4, <2>5 DEF ReinitInv, TypeOK
<1>6. CASE ClampCheck
  <2>1. DataType'
    BY <1>6, Configurations DEF ReinitInv, TypeOK, DataType, Config, ClampCheck
  <2>2. ControlType'
    BY <1>6 DEF ReinitInv, TypeOK, ControlType, ClampCheck
  <2>5. FieldType'
    BY <1>6 DEF ReinitInv, TypeOK, FieldType, ClampCheck
  <2>3. Pending'
    BY <1>6, Configurations DEF ReinitInv, TypeOK, ControlType, DataType, Config,
       Pending, Awaited, ClampCheck
  <2>4. NoDefaults'
    BY <1>6, Configurations DEF ReinitInv, TypeOK, ControlType, DataType, Config,
       NoDefaults, Given, ClampCheck
  <2> QED BY <2>1, <2>2, <2>3, <2>4, <2>5 DEF ReinitInv, TypeOK
<1>7. CASE ClampStore
  <2>1. DataType'
    BY <1>7, Configurations DEF ReinitInv, TypeOK, DataType, Config, ClampStore, Used,
       Fields
  <2>2. ControlType'
    BY <1>7 DEF ReinitInv, TypeOK, ControlType, ClampStore, Used, Fields
  <2>5. FieldType'
    BY <1>7 DEF ReinitInv, TypeOK, FieldType, ClampStore, Used, Fields
  <2>3. Pending'
    BY <1>7, Configurations DEF ReinitInv, TypeOK, ControlType, DataType, Config,
       Pending, Awaited, ClampStore, Used, Fields
  <2>4. NoDefaults'
    BY <1>7, Configurations DEF ReinitInv, TypeOK, ControlType, DataType, Config,
       NoDefaults, Given, ClampStore, Used, Fields
  <2> QED BY <2>1, <2>2, <2>3, <2>4, <2>5 DEF ReinitInv, TypeOK
<1>8. CASE RebuildDone
  <2>1. DataType'
    BY <1>8 DEF ReinitInv, TypeOK, DataType, RebuildDone
  <2>2. ControlType'
    BY <1>8 DEF ReinitInv, TypeOK, ControlType, RebuildDone
  <2>5. FieldType'
    BY <1>8 DEF ReinitInv, TypeOK, FieldType, RebuildDone
  <2>3. Pending'
    BY <1>8 DEF ReinitInv, TypeOK, ControlType, Pending, Awaited, RebuildDone
  <2>4. NoDefaults'
    BY <1>8 DEF ReinitInv, NoDefaults, Given, RebuildDone
  <2> QED BY <2>1, <2>2, <2>3, <2>4, <2>5 DEF ReinitInv, TypeOK
<1>9. ASSUME NEW f \in Fields, RebuildField(f) PROVE ReinitInv'
  <2>1. DataType'
    BY <1>9, Configurations DEF ReinitInv, TypeOK, DataType, Config, RebuildField, Used,
       Fields
  <2>2. ControlType'
    BY <1>9 DEF ReinitInv, TypeOK, ControlType, RebuildField, Used, Fields
  <2>5. FieldType'
    BY <1>9 DEF ReinitInv, TypeOK, FieldType, RebuildField, Used, Fields
  <2>3. Pending'
    BY <1>9, Configurations DEF ReinitInv, TypeOK, ControlType, DataType, Config,
       Pending, Awaited, RebuildField, Used, Fields
  <2>4. NoDefaults'
    BY <1>9, Configurations DEF ReinitInv, TypeOK, ControlType, DataType, Config,
       NoDefaults, Given, RebuildField, Used, Fields
  <2> QED BY <2>1, <2>2, <2>3, <2>4, <2>5 DEF ReinitInv, TypeOK
<1>10. CASE RebuildFails
  <2>1. DataType'
    BY <1>10 DEF ReinitInv, TypeOK, DataType, RebuildFails
  <2>2. ControlType'
    BY <1>10 DEF ReinitInv, TypeOK, ControlType, RebuildFails
  <2>5. FieldType'
    BY <1>10 DEF ReinitInv, TypeOK, FieldType, RebuildFails
  <2>3. Pending'
    BY <1>10 DEF ReinitInv, TypeOK, ControlType, Pending, Awaited, RebuildFails
  <2>4. NoDefaults'
    BY <1>10 DEF ReinitInv, NoDefaults, Given, RebuildFails
  <2> QED BY <2>1, <2>2, <2>3, <2>4, <2>5 DEF ReinitInv, TypeOK
<1>12. CASE StreamFails
  <2>1. DataType'
    BY <1>12 DEF ReinitInv, TypeOK, DataType, StreamFails
  <2>2. ControlType'
    BY <1>12 DEF ReinitInv, TypeOK, ControlType, StreamFails
  <2>5. FieldType'
    BY <1>12 DEF ReinitInv, TypeOK, FieldType, StreamFails
  <2>3. Pending'
    BY <1>12 DEF ReinitInv, TypeOK, ControlType, Pending, Awaited, StreamFails
  <2>4. NoDefaults'
    BY <1>12 DEF ReinitInv, NoDefaults, StreamFails
  <2> QED BY <2>1, <2>2, <2>3, <2>4, <2>5 DEF ReinitInv, TypeOK
<1> QED BY <1>1, <1>2, <1>3, <1>4, <1>5, <1>6, <1>7, <1>8, <1>9, <1>10, <1>11, <1>12
   DEF MainStep, Failures

\* The invariant holds of every behaviour.
LEMMA InvHolds == Spec => []ReinitInv
<1>1. Init => ReinitInv
  <2> SUFFICES ASSUME Init PROVE ReinitInv
    OBVIOUS
  <2>1. disk \in Disk /\ root \in [InFile -> Values]
    BY FieldsAssumption DEF Init, Disk
  <2>2. mem \in Config /\ new \in Config
    BY <2>1, Configurations DEF Init, Config, Disk
  <2>3. DataType
    BY <2>1, <2>2, Configurations DEF Init, DataType, Config
  <2>4. ControlType
    BY DEF Init, ControlType
  <2>8. FieldType
    BY DEF Init, FieldType
  <2>5. Pending
    BY DEF Init, Pending
  <2>6. \A f \in InFile : f \in Fields /\ mem[f] = disk.val[f] /\ disk.val[f] \in Values
    BY <2>1 DEF Init, Disk, Fields
  <2>7. NoDefaults
    BY <2>6, Configurations DEF Init, NoDefaults, Given
  <2> QED BY <2>3, <2>4, <2>5, <2>7, <2>8 DEF ReinitInv, TypeOK
<1>2. ReinitInv /\ UNCHANGED vars => ReinitInv'
  <2> SUFFICES ASSUME ReinitInv, UNCHANGED vars PROVE ReinitInv'
    OBVIOUS
  <2> USE DEF vars, main, http, count, hist
  <2>1. TypeOK'
    BY DEF ReinitInv, TypeOK, DataType, ControlType, FieldType
  <2>2. Pending'
    BY DEF ReinitInv, Pending, Awaited
  <2>3. NoDefaults'
    BY DEF ReinitInv, NoDefaults, Given
  <2> QED BY <2>1, <2>2, <2>3 DEF ReinitInv
<1>3. ReinitInv /\ [Next]_vars => ReinitInv'
  BY <1>2, RequestStepInv, MainStepInv DEF Next
<1> QED BY <1>1, <1>3, PTL DEF Spec

-------------------------------------------------------------------------------
(* What the runs check.                                                    *)

\* Every variable has its type, whatever overlaps.
THEOREM TypeCorrect == Spec => []TypeOK
<1>1. ReinitInv => TypeOK
  BY DEF ReinitInv
<1> QED BY <1>1, InvHolds, PTL

\* At rest the pipeline runs the configuration the API reports, and no field
\* of the file at its built-in default.
THEOREM QuietIsConfigured == Spec => []QuietPipeline
<1>1. ReinitInv => AppliedWhenQuiet
  <2> SUFFICES ASSUME ReinitInv, Quiet PROVE pipe = [f \in Fields |-> Used(f, mem[f])]
    BY DEF AppliedWhenQuiet
  <2>1. \A f \in Fields : pipe[f] = Used(f, mem[f])
    BY DEF ReinitInv, Pending, Awaited, Quiet
  <2>2. pipe \in Config
    BY DEF ReinitInv, TypeOK, DataType
  <2> QED BY <2>1, <2>2 DEF Config
<1>2. ReinitInv => DefaultsStayInside
  BY DEF ReinitInv, NoDefaults, DefaultsStayInside, Quiet
<1>3. ReinitInv => QuietPipeline
  BY <1>1, <1>2 DEF QuietPipeline
<1> QED BY <1>3, InvHolds, PTL
===============================================================================
