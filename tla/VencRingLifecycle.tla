-------------------------- MODULE VencRingLifecycle ---------------------------
(***************************************************************************)
(* Life of the shared ring: venc creates, destroys and re-creates it (a    *)
(* reinit, a clean exit, a crash and a respawn), while wfb_tx attaches,    *)
(* drains, notices that the producer is gone and attaches again.           *)
(* The transfer of one packet is VencRing's subject; here a write is one   *)
(* step and a read is two, the load of the indexes and the store of        *)
(* read_idx, because a restart may come between them.                      *)
(***************************************************************************)
EXTENDS RingIndex

CONSTANTS MaxCreates,     \* bound on calls of venc_ring_create
          MaxWrites,      \* bound on packets written per ring
          MaxCrashes,     \* bound on crashes of the producer
          MaxStarts       \* bound on starts of the consumer process

ASSUME LifecycleAssumption ==
    /\ SlotCount \in Nat \ {0} /\ MaxCreates \in Nat /\ MaxWrites \in Nat
    /\ MaxCrashes \in Nat /\ MaxStarts \in Nat
    /\ IdxMod \in Nat /\ IdxMod > MaxWrites + SlotCount

Objects == 1 .. MaxCreates    \* shared-memory objects, one per O_CREAT that made one

VARIABLES
    obj,        \* the objects: size, header fields, init_complete, epoch, indexes
    name,       \* the object /dev/shm/<name> refers to, 0 if none
    creator, mine,  \* the producer's program counter and the object it has mapped
    creates, crashes,
    attacher, hold,  \* the consumer's program counter and the object it has opened
    first,      \* 1 at the attach of a new process, 0 at a re-attach
    shm_epoch, cw, crd,  \* the consumer's copies of epoch, write_idx, read_idx
    starts,
    mark,       \* history: write_idx the consumer decided to start from
    destroyed,  \* history: objects whose owner called venc_ring_destroy
    straddled   \* history: an object was truncated under the consumer

pvars == <<creator, mine, creates, crashes>>
cvars == <<attacher, hold, first, shm_epoch, cw, crd, starts, mark>>
lifeVars  == <<obj, name, pvars, cvars, destroyed, straddled>>

Blank == [size |-> 0, fields |-> 0, init_complete |-> 0, epoch |-> 0,
          write_idx |-> 0, read_idx |-> 0]

LifeInit ==
    /\ obj = [o \in Objects |-> Blank] /\ name = 0
    /\ creator = "down" /\ mine = 0 /\ creates = 0 /\ crashes = 0
    /\ attacher = "off" /\ hold = 0 /\ first = 1 /\ shm_epoch = 0
    /\ cw = 0 /\ crd = 0 /\ starts = 0 /\ mark = 0
    /\ destroyed = {} /\ straddled = FALSE

-------------------------------------------------------------------------------
(* venc_ring_create, one step per system call or group of stores.          *)

\* shm_open with O_CREAT | O_TRUNC: a name a crashed producer left behind is
\* opened again and its object is cut to nothing; otherwise a new one is made.
OpenShm ==
    /\ creator = "down" /\ creates < MaxCreates
    /\ creates' = creates + 1
    /\ LET o == IF name # 0 THEN name ELSE creates + 1
       IN  /\ obj' = [obj EXCEPT ![o] = Blank]
           /\ name' = o /\ mine' = o
           /\ straddled' = (straddled \/ hold = o)
           /\ destroyed' = destroyed \ {o}
    /\ creator' = "opened"
    /\ UNCHANGED <<crashes, cvars>>

Resize ==
    /\ creator = "opened"
    /\ obj' = [obj EXCEPT ![mine].size = 1]
    /\ creator' = "sized"
    /\ UNCHANGED <<name, mine, creates, crashes, cvars, destroyed, straddled>>

\* ftruncate or mmap failed: the name is removed.
CreateFails ==
    /\ creator \in {"opened", "sized"}
    /\ name' = 0 /\ mine' = 0 /\ creator' = "down"
    /\ UNCHANGED <<obj, creates, crashes, cvars, destroyed, straddled>>

Zero ==
    /\ creator = "sized"
    /\ obj' = [obj EXCEPT ![mine] = [Blank EXCEPT !.size = 1]]
    /\ creator' = "zeroed"
    /\ UNCHANGED <<name, mine, creates, crashes, cvars, destroyed, straddled>>

\* magic ... total_size and the epoch, unique to this call.
FillHeader ==
    /\ creator = "zeroed"
    /\ obj' = [obj EXCEPT ![mine].fields = 1, ![mine].epoch = creates]
    /\ creator' = "filled"
    /\ UNCHANGED <<name, mine, creates, crashes, cvars, destroyed, straddled>>

Complete ==
    /\ creator = "filled"
    /\ obj' = [obj EXCEPT ![mine].init_complete = 1]
    /\ creator' = "complete"
    /\ UNCHANGED <<name, mine, creates, crashes, cvars, destroyed, straddled>>

\* The handle is allocated last: if that fails the name is removed, but
\* init_complete stays up.
AllocHandle ==
    /\ creator = "complete"
    /\ \/ creator' = "up" /\ UNCHANGED <<name, mine>>
       \/ creator' = "down" /\ name' = 0 /\ mine' = 0
    /\ UNCHANGED <<obj, creates, crashes, cvars, destroyed, straddled>>

-------------------------------------------------------------------------------
(* venc_ring_write and venc_ring_destroy by the owner; a crash.            *)

\* A write that finds the ring full changes nothing in the mapping.
Write ==
    /\ creator = "up"
    /\ obj[mine].write_idx < MaxWrites
    /\ U64Sub(obj[mine].write_idx, obj[mine].read_idx) < SlotCount
    /\ obj' = [obj EXCEPT ![mine].write_idx = @ + 1]
    /\ UNCHANGED <<name, pvars, cvars, destroyed, straddled>>

\* Mutant of Invalidate: the flag is left up.
InvalidateForgets ==
    /\ creator = "up"
    /\ destroyed' = destroyed \cup {mine}
    /\ creator' = "closing"
    /\ UNCHANGED <<obj, name, mine, creates, crashes, cvars, straddled>>

Invalidate ==
    /\ creator = "up"
    /\ obj' = [obj EXCEPT ![mine].init_complete = 0]
    /\ destroyed' = destroyed \cup {mine}
    /\ creator' = "closing"
    /\ UNCHANGED <<name, mine, creates, crashes, cvars, straddled>>

Unlink ==
    /\ creator = "closing"
    /\ name' = 0 /\ mine' = 0 /\ creator' = "down"
    /\ UNCHANGED <<obj, creates, crashes, cvars, destroyed, straddled>>

\* The producer dies anywhere, or is killed by its own teardown watchdog: the
\* name and the header stay as they are.
Crash ==
    /\ creator # "down" /\ crashes < MaxCrashes
    /\ crashes' = crashes + 1
    /\ creator' = "down" /\ mine' = 0
    /\ UNCHANGED <<obj, name, creates, cvars, destroyed, straddled>>

ProducerStep == \/ OpenShm \/ Resize \/ CreateFails \/ Zero \/ FillHeader \/ Complete
                \/ AllocHandle \/ Write \/ Invalidate \/ Unlink

-------------------------------------------------------------------------------
(* venc_ring_attach and the SHM path of wfb_tx's data_source loop.         *)

StartConsumer ==
    /\ attacher = "off" /\ starts < MaxStarts
    /\ starts' = starts + 1
    /\ first' = 1 /\ attacher' = "open"
    /\ UNCHANGED <<obj, name, pvars, hold, shm_epoch, cw, crd, mark, destroyed,
                   straddled>>

\* Mutant of AttachFails: the loop goes on without a mapping.
AttachFailsUnchecked == attacher' = "loop" /\ hold' = 0

\* A failed attach ends a new process (it throws); a failed re-attach leaves
\* g_shm_ring NULL.
AttachFails ==
    /\ attacher' = IF first = 1 THEN "off" ELSE "lost"
    /\ hold' = 0

AttachOpen ==
    /\ attacher = "open"
    /\ \/ name = 0 /\ AttachFails
       \/ name # 0 /\ hold' = name /\ attacher' = "validate"
    /\ UNCHANGED <<obj, name, pvars, first, shm_epoch, cw, crd, starts, mark,
                   destroyed, straddled>>

\* Mutant of Valid: init_complete is not looked at.
ValidIncomplete(o) == obj[o].size = 1

\* The tests on a header: magic, version, sizes, init_complete; fstat.
Valid(o) == obj[o].size = 1 /\ obj[o].fields = 1 /\ obj[o].init_complete = 1

\* read() of the header before the mapping.
AttachValidate ==
    /\ attacher = "validate"
    /\ \/ ~Valid(hold) /\ AttachFails
       \/ Valid(hold) /\ attacher' = "map" /\ UNCHANGED hold
    /\ UNCHANGED <<obj, name, pvars, first, shm_epoch, cw, crd, starts, mark,
                   destroyed, straddled>>

\* mmap and the second validation.
AttachMap ==
    /\ attacher = "map"
    /\ \/ ~Valid(hold) /\ AttachFails /\ UNCHANGED shm_epoch
       \/ Valid(hold) /\ attacher' = "skip_load" /\ shm_epoch' = obj[hold].epoch
                      /\ UNCHANGED hold
    /\ UNCHANGED <<obj, name, pvars, first, cw, crd, starts, mark, destroyed, straddled>>

\* Packets already in the ring are skipped.
SkipLoad ==
    /\ attacher = "skip_load" /\ obj[hold].size = 1
    /\ cw' = obj[hold].write_idx
    /\ mark' = obj[hold].write_idx
    /\ attacher' = IF first = 1 /\ ~(obj[hold].read_idx < obj[hold].write_idx)
              THEN "loop" ELSE "skip_store"
    /\ UNCHANGED <<obj, name, pvars, hold, first, shm_epoch, crd, starts, destroyed,
                   straddled>>

\* Mutant of SkipStore: one packet too many is skipped.
SkipStoreTooFar ==
    /\ attacher = "skip_store" /\ obj[hold].size = 1
    /\ obj' = [obj EXCEPT ![hold].read_idx = cw + 1]
    /\ attacher' = "loop"
    /\ UNCHANGED <<name, pvars, hold, first, shm_epoch, cw, crd, starts, mark,
                   destroyed, straddled>>

\* Mutant of SkipStore: the packets are not skipped.
SkipStoreNot ==
    /\ attacher = "skip_store" /\ obj[hold].size = 1
    /\ attacher' = "loop"
    /\ UNCHANGED <<obj, name, pvars, hold, first, shm_epoch, cw, crd, starts, mark,
                   destroyed, straddled>>

SkipStore ==
    /\ attacher = "skip_store" /\ obj[hold].size = 1
    /\ obj' = [obj EXCEPT ![hold].read_idx = cw]
    /\ attacher' = "loop"
    /\ UNCHANGED <<name, pvars, hold, first, shm_epoch, cw, crd, starts, mark,
                   destroyed, straddled>>

\* Top of the loop: the producer's flag decides between draining and
\* detaching, which is followed at once by one try to attach again.
CheckProducer ==
    /\ attacher = "loop" /\ obj[hold].size = 1
    /\ \/ obj[hold].init_complete = 1 /\ attacher' = "drain" /\ UNCHANGED <<hold, first>>
       \/ obj[hold].init_complete # 1 /\ attacher' = "open" /\ hold' = 0 /\ first' = 0
    /\ UNCHANGED <<obj, name, pvars, shm_epoch, cw, crd, starts, mark, destroyed,
                   straddled>>

\* venc_ring_read: the loads; an empty ring (or the log timer) leads back to
\* the top of the loop.
ReadLoad ==
    /\ attacher = "drain" /\ obj[hold].size = 1
    /\ crd' = obj[hold].read_idx
    /\ attacher' = IF obj[hold].read_idx >= obj[hold].write_idx THEN "loop" ELSE "take"
    /\ UNCHANGED <<obj, name, pvars, hold, first, shm_epoch, cw, starts, mark,
                   destroyed, straddled>>

ReadStore ==
    /\ attacher = "take" /\ obj[hold].size = 1
    /\ obj' = [obj EXCEPT ![hold].read_idx = crd + 1]
    /\ attacher' \in {"drain", "loop"}
    /\ UNCHANGED <<name, pvars, hold, first, shm_epoch, cw, crd, starts, mark,
                   destroyed, straddled>>

\* Touching a mapping whose object has been cut to nothing is SIGBUS.
Fault ==
    /\ attacher \in {"skip_load", "skip_store", "loop", "drain", "take"}
    /\ obj[hold].size = 0
    /\ attacher' = "faulted" /\ hold' = 0
    /\ UNCHANGED <<obj, name, pvars, first, shm_epoch, cw, crd, starts, mark,
                   destroyed, straddled>>

\* wfb_tx is stopped, or killed, anywhere.
ConsumerExits ==
    /\ attacher # "off"
    /\ attacher' = "off" /\ hold' = 0
    /\ UNCHANGED <<obj, name, pvars, first, shm_epoch, cw, crd, starts, mark,
                   destroyed, straddled>>

AttacherStep == \/ AttachOpen \/ AttachValidate \/ AttachMap \/ SkipLoad \/ SkipStore
                \/ CheckProducer \/ ReadLoad \/ ReadStore \/ Fault

LifeNext == ProducerStep \/ Crash \/ AttacherStep \/ StartConsumer \/ ConsumerExits

\* A call in progress runs on, and so does wfb_tx's loop; nothing makes venc
\* create another ring, write, or exit.
LifeFairness == /\ WF_lifeVars(AttacherStep)
            /\ WF_lifeVars(Resize \/ Zero \/ FillHeader \/ Complete \/ AllocHandle)
            /\ WF_lifeVars(Unlink)

LifeSpec     == LifeInit /\ [][LifeNext]_lifeVars
LifeFairSpec == LifeSpec /\ LifeFairness

-------------------------------------------------------------------------------
(* Properties.                                                             *)

Mapped == attacher \in {"skip_load", "skip_store", "loop", "drain", "take"}

Record == [size : {0, 1}, fields : {0, 1}, init_complete : {0, 1},
           epoch : 0 .. MaxCreates, write_idx : 0 .. MaxWrites, read_idx : 0 .. MaxWrites]

ObjectType == obj \in [Objects -> Record]

ControlType ==
    /\ name \in 0 .. MaxCreates /\ mine \in 0 .. MaxCreates /\ creates \in 0 .. MaxCreates
    /\ creator \in {"down", "opened", "sized", "zeroed", "filled", "complete", "up", "closing"}
    /\ attacher \in {"off", "open", "validate", "map", "skip_load", "skip_store", "loop",
                "drain", "take", "lost", "faulted"}
    /\ hold \in 0 .. MaxCreates /\ first \in {0, 1} /\ straddled \in BOOLEAN
    /\ cw \in 0 .. MaxWrites /\ crd \in 0 .. MaxWrites /\ mark \in 0 .. MaxWrites
    /\ attacher = "take" => crd < MaxWrites
    /\ Mapped \/ attacher \in {"validate", "map"} => hold # 0
    /\ creator # "down" => mine # 0

\* Every variable of the life cycle has its type.
LifeTypeOK == ObjectType /\ ControlType

\* A mapped header is never one a create call has not finished: wfb_tx cannot
\* compute a slot from a slot_count that is not there yet.
HeaderComplete == Mapped => obj[hold].fields = 1 /\ obj[hold].size = 1

\* The indexes of a ring in use never cross, whichever process restarts: once
\* read_idx is ahead, the producer's unsigned difference says full and the
\* consumer's comparison says empty, for ever.
IndexesOrdered == creator = "up" => obj[mine].read_idx <= obj[mine].write_idx

\* A consumer that has a destroyed ring mapped lets go of it, unless a new
\* producer takes over that very object.
DestroyNoticed == (Mapped /\ hold \in destroyed) ~> (hold = 0 \/ hold \notin destroyed)

\* No packet from before the (re-)attach is forwarded.
StaleSkipped == attacher = "take" => crd >= mark

\* Only a consumer that had the ring mapped when a venc that had crashed created
\* it anew can fault, see a half-made header, cross the indexes or forward what is
\* older than its attach.
HarmNeedsStraddling ==
    straddled \/ (HeaderComplete /\ IndexesOrdered /\ StaleSkipped /\ attacher # "faulted")
===============================================================================
