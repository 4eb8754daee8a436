---------------------------- MODULE RawRecorder ----------------------------
(***************************************************************************)
(* The raw video recorder of modules/raw_video/mlv_lite/mlv_lite.c with    *)
(* one memory card.  Four activities share the frame slots:                *)
(*                                                                         *)
(*   LiveView   process_frame, called on every vsync: chooses a slot for   *)
(*              the coming frame and hands it to the compression task;     *)
(*   compress   compress_task: fills the slot, then marks it full;         *)
(*   rec        raw_video_rec_task(0): saves full slots, in queue order;   *)
(*   module     another module (sound) that borrows slots through          *)
(*              mlv_rec_get_free_slot and mlv_rec_release_slot.            *)
(*                                                                         *)
(* The vsync handler interrupts the tasks and is not interrupted by them   *)
(* (the tasks disable interrupts where they share data with it), so each   *)
(* of its runs is one step, except where it loops waiting for another      *)
(* task.  All slots have the size of an uncompressed frame: slot s + 1     *)
(* follows slot s in memory unless it is in Gaps; resizing is left out.    *)
(*                                                                         *)
(* A definition marked "mutant" is a slip one could make in the definition *)
(* that follows it; no formula below uses it.  With it in place of that    *)
(* definition TLC finds a property violated.                               *)
(***************************************************************************)
EXTENDS Integers, Sequences, FiniteSets, Subsequences

CONSTANTS
    NSlots,      \* total_slot_count once the buffers are set up
    Gaps,        \* slots that do not follow their predecessor in memory
    Outputs,     \* whether the output is compressed (OUTPUT_COMPRESSION), of
    PreRecords,  \* the values of the setting raw.pre-record, and of
    RecTriggers, \* raw.rec-trigger, those the user may choose
    PreFrames,   \* pre_record_num_frames
    MaxLag,      \* how many vsyncs after its own a frame may still be compressing
    Failures,    \* which of the failures below the environment may produce
    MaxSkip,     \* bound: frames a module may ask to skip at the start
    MaxFrames,   \* bound: frames captured in one recording
    MaxMeta,     \* bound: slots borrowed by modules in the whole behaviour
    MaxRuns      \* bound: recordings

Slots == 1..NSlots
None  == 0

(* rec_trigger *)
HalfshutterStartStop == 1
HalfshutterHold      == 2
HalfshutterPreOnly   == 3

FailureKinds == {"prepare",   \* raw detection or the output file fails
                 "cardfull",  \* FIO_WriteFile fails before the 4GB limit
                 "nochunk",   \* the next file chunk cannot be created
                 "lv",        \* the user leaves LiveView
                 "settings"}  \* the LiveView geometry changes

ASSUME SlotsAssumption == NSlots \in Nat \ {0} /\ Gaps \subseteq Slots
ASSUME ModeAssumption  == /\ Outputs \subseteq BOOLEAN
                          /\ PreRecords \subseteq BOOLEAN
                          /\ RecTriggers \subseteq 0..3
                          /\ PreFrames \in Nat \ {0}
ASSUME EnvAssumption   == /\ MaxLag \in 0..9   \* compress_mq holds 10 messages
                          /\ Failures \subseteq FailureKinds
ASSUME BoundAssumption == {MaxSkip, MaxFrames, MaxMeta, MaxRuns} \subseteq Nat

VARIABLES
    rstate,       \* raw_recording_state
    triggered,    \* pre_record_triggered
    firstFrame,   \* pre_record_first_frame
    frameCount,   \* frame_count
    skipFrames,   \* skip_frames
    bufferFull,   \* buffer_full
    captureSlot,  \* capture_slot, None for -1
    forceNew,     \* force_new_buffer
    live,         \* where the vsync handler is: idle, or in one of its loops
    scan,         \* pre_record_queue_frames: the frame it looks for, the last slot found
    buffers,      \* the slots are backed by allocated memory
    status,       \* slots[].status
    number,       \* slots[].frame_number
    isMeta,       \* slots[].is_meta
    queue,        \* writing_queue, from writing_queue_head to writing_queue_tail
    mq,           \* compress_mq, the frame in progress first
    dma,          \* the slot an EDMAC copy is filling (edmac_active), or None
    rec,          \* where raw_video_rec_task is
    group,        \* the slots write_frames is saving, or not yet freed
    counted,      \* num_frames - meta_slots for that group
    content,      \* what a slot holds: the capture stamp of a frame, or Audio
    stamp,        \* frames captured in this recording
    file,         \* the blocks saved in this recording
    declared,     \* frames counted in the headers of its chunks
    failed,       \* a write has failed in this recording
    settings,     \* the menu settings; they change between recordings only
    held,         \* slots other modules have not released
    metas, runs   \* counters of the bounds

liveVars   == <<captureSlot, forceNew, live, scan, skipFrames>>
preVars    == <<triggered, firstFrame, frameCount>>
slotVars   == <<status, number, isMeta, content>>
recVars    == <<rec, group, counted>>
fileVars   == <<file, declared, failed>>
envVars    == <<settings, held, metas, runs>>
vars == <<rstate, liveVars, preVars, bufferFull, buffers, slotVars, queue, mq,
          dma, recVars, fileVars, stamp, envVars>>

Audio == 0

Settings   == [lossless : Outputs, preRecord : PreRecords, recTrigger : RecTriggers]
Lossless   == settings.lossless
PreRecord  == settings.preRecord
RecTrigger == settings.recTrigger

RecStates  == {"IDLE", "PREPARING", "RECORDING", "FINISHING", "PRE_RECORDING"}
Recording  == {"RECORDING", "PRE_RECORDING"}          \* RAW_IS_RECORDING
SlotStates == {"FREE", "CAPTURING", "LOCKED", "FULL", "WRITING"}
LiveStates == {"idle", "queueing", "discarding"}
NoScan     == [frame |-> 0, slot |-> None]
RecPoints  == {"none", "created", "preparing", "starting", "loop", "writing",
               "freeing", "abort", "stopping", "wait2", "wait1", "drain",
               "cleanup", "freed"}

Init ==
    /\ rstate = "IDLE" /\ rec = "none" /\ live = "idle" /\ scan = NoScan
    /\ triggered = FALSE /\ firstFrame = 0 /\ frameCount = 0 /\ skipFrames = 0
    /\ bufferFull = FALSE /\ captureSlot = None /\ forceNew = FALSE
    /\ buffers = FALSE
    /\ status = [s \in Slots |-> "FREE"]
    /\ number = [s \in Slots |-> 0]
    /\ isMeta = [s \in Slots |-> FALSE]
    /\ content = [s \in Slots |-> Audio]
    /\ queue = <<>> /\ mq = <<>> /\ dma = None
    /\ group = <<>> /\ counted = 0 /\ stamp = 0
    /\ file = <<>> /\ declared = 0 /\ failed = FALSE
    /\ settings \in Settings /\ held = {} /\ metas = 0 /\ runs = 0

-----------------------------------------------------------------------------
(* GuiMainTask: raw_rec_keypress_cbr and raw_start_stop                    *)

(* REC while idle creates the recording task, with the settings chosen by then. *)
PressRecStart ==
    /\ rstate = "IDLE" /\ rec = "none" /\ runs < MaxRuns
    /\ rec' = "created" /\ runs' = runs + 1 /\ settings' \in Settings
    /\ UNCHANGED <<rstate, liveVars, preVars, bufferFull, buffers, slotVars, queue,
                   mq, dma, group, counted, fileVars, stamp, held, metas>>

(* REC while recording stops it; the key does nothing in the other states. *)
PressRecStop ==
    /\ \/ rstate = "RECORDING"
       \/ rstate = "PRE_RECORDING" /\ RecTrigger # 0
    /\ rstate' = "FINISHING"
    /\ UNCHANGED <<liveVars, preVars, bufferFull, buffers, slotVars, queue, mq,
                   dma, recVars, fileVars, stamp, envVars>>

(* REC while pre-recording triggers the recording proper. *)
PressRecTrigger ==
    /\ rstate = "PRE_RECORDING" /\ RecTrigger = 0
    /\ triggered' = TRUE
    /\ UNCHANGED <<rstate, liveVars, firstFrame, frameCount, bufferFull, buffers,
                   slotVars, queue, mq, dma, recVars, fileVars, stamp, envVars>>

HalfshutterPress ==
    /\ rstate \in Recording
    /\ RecTrigger # 0
    /\ triggered' = (RecTrigger = HalfshutterStartStop => ~triggered)
    /\ UNCHANGED <<rstate, liveVars, firstFrame, frameCount, bufferFull, buffers,
                   slotVars, queue, mq, dma, recVars, fileVars, stamp, envVars>>

HalfshutterRelease ==
    /\ rstate \in Recording
    /\ RecTrigger = HalfshutterHold
    /\ triggered' = FALSE
    /\ UNCHANGED <<rstate, liveVars, firstFrame, frameCount, bufferFull, buffers,
                   slotVars, queue, mq, dma, recVars, fileVars, stamp, envVars>>

Gui == \/ PressRecStart \/ PressRecStop \/ PressRecTrigger
       \/ HalfshutterPress \/ HalfshutterRelease

-----------------------------------------------------------------------------
(* LiveView: raw_rec_vsync_cbr                                             *)
(*                                                                         *)
(* process_frame and the helpers it calls change several variables in      *)
(* turn; m is a snapshot of these, and Commit(m) stores it.                *)

Snapshot == [status |-> status, number |-> number, count |-> frameCount,
             queue |-> queue, capture |-> captureSlot, force |-> forceNew]

Commit(m) == /\ status' = m.status /\ number' = m.number
             /\ frameCount' = m.count /\ queue' = m.queue
             /\ captureSlot' = m.capture /\ forceNew' = m.force

FreeOrFullSlots(m) == {s \in Slots : m.status[s] \in {"FREE", "FULL"}}   \* mutant

FreeSlots(m) == {s \in Slots : m.status[s] = "FREE"}

(* pre_record_discard_frame: drop the oldest frame, renumber the others. *)
FullAt(m, n) == {s \in Slots : m.status[s] = "FULL" /\ m.number[s] = n}

DiscardKeepingNumbers(m, first) ==                                       \* mutant
    [m EXCEPT !.status = [s \in Slots |->
                  IF s \in FullAt(m, first) THEN "FREE" ELSE m.status[s]],
              !.count  = @ - Cardinality(FullAt(m, first))]

Discard(m, first) ==
    [m EXCEPT
        !.status = [s \in Slots |->
                       IF s \in FullAt(m, first) THEN "FREE" ELSE m.status[s]],
        !.number = [s \in Slots |->
                       IF m.status[s] = "FULL" /\ m.number[s] > first
                       THEN m.number[s] - 1 ELSE m.number[s]],
        !.count  = @ - Cardinality(FullAt(m, first))]

(* choose_next_capture_slot: the slot after the last one if it is free and
   adjacent, else the start of the longest contiguous run of free slots. *)
Rolls(m) == /\ m.capture # None /\ ~m.force
            /\ m.capture + 1 \in FreeSlots(m) \ Gaps

FreeRun(m, s, n) ==
    /\ s..(s + n) \subseteq FreeSlots(m)
    /\ (s + 1)..(s + n) \cap Gaps = {}

Chooses(m, s) ==
    /\ s \in FreeSlots(m)
    /\ IF Rolls(m)
       THEN s = m.capture + 1
       ELSE \A t \in Slots, n \in 0..(NSlots - 1) :
               FreeRun(m, t, n) => \/ FreeRun(m, s, n) /\ s <= t
                                   \/ FreeRun(m, s, n + 1)

(* pre_record_queue_frames: for each frame kept, in the order of their numbers,
   it looks for the slot, going round from the last one found, and stops at a
   frame that is not full yet.  f holds the slots it finds. *)
Found(m, frame) == {n \in frame..(m.count - 1) :
                       \A j \in frame..n : FullAt(m, j) # {}}

Ahead(s, i) == (s - i - 1 + NSlots) % NSlots

Finds(m, at, f) ==
    \A k \in DOMAIN f :
        LET from == IF k = 1 THEN at.slot ELSE f[k - 1]
            full == FullAt(m, at.frame + k - 1)
        IN  f[k] \in full /\ \A t \in full : Ahead(f[k], from) <= Ahead(t, from)

(* The frames waiting for compress_task grow older with every vsync. *)
Tick     == [k \in DOMAIN mq |-> [mq[k] EXCEPT !.age = @ + 1]]
CanTick  == \A k \in DOMAIN mq : mq[k].age < MaxLag
Messages == IF live = "idle" THEN Tick ELSE mq

(* The end of process_frame: slot s is for the coming frame, and is queued
   for writing "even if it isn't done yet" unless this is pre-recording. *)
Place(m, state, s) ==
    /\ Chooses(m, s)
    /\ Commit([m EXCEPT !.status[s] = "CAPTURING",
                        !.number[s] = m.count,
                        !.count = @ + 1,
                        !.queue = IF state = "PRE_RECORDING" THEN @ ELSE Append(@, s),
                        !.capture = s,
                        !.force = @ /\ Rolls(m)])
    /\ content' = [content EXCEPT ![s] = stamp + 1]
    /\ stamp' = stamp + 1
    /\ mq' = Append(Messages, [slot |-> s, age |-> 0])
    /\ live' = "idle"
    /\ UNCHANGED bufferFull

(* One turn of the loop that discards old frames until a slot is free. *)
DiscardAndPlace(m, state, first) ==
    LET d == Discard([m EXCEPT !.capture = None, !.force = FALSE], first) IN
    \/ \E s \in Slots : Place(d, state, s)
    \/ /\ FreeSlots(d) = {}
       /\ Commit(d)
       /\ live' = "discarding" /\ mq' = Messages
       /\ UNCHANGED <<content, stamp, bufferFull>>

CardTooSlow(m) ==
    /\ bufferFull' = TRUE
    /\ Commit([m EXCEPT !.capture = None, !.force = FALSE])
    /\ live' = "idle" /\ mq' = Messages
    /\ UNCHANGED <<content, stamp>>

Capture(m, state, first) ==
    \/ \E s \in Slots : Place(m, state, s)
    \/ FreeSlots(m) = {} /\ state = "PRE_RECORDING" /\ DiscardAndPlace(m, state, first)
    \/ FreeSlots(m) = {} /\ state # "PRE_RECORDING" /\ CardTooSlow(m)

(* The handler returns early: not recording, or the buffer is full.  The
   recording task counts these vsyncs in wait_lv_frames(2). *)
ReturnsEarly == rstate \notin Recording \/ bufferFull

VsyncIdle ==
    /\ live = "idle" /\ CanTick
    /\ ReturnsEarly
    /\ mq' = Tick
    /\ rec' = CASE rec = "wait2" -> "wait1"
                [] rec = "wait1" -> "drain"
                [] OTHER -> rec
    /\ UNCHANGED <<rstate, liveVars, preVars, bufferFull, buffers, slotVars, queue,
                   dma, group, counted, fileVars, stamp, envVars>>

VsyncSettingsChanged ==
    /\ "settings" \in Failures
    /\ live = "idle" /\ CanTick
    /\ rstate \in Recording
    /\ rstate' = "FINISHING" /\ mq' = Tick
    /\ UNCHANGED <<liveVars, preVars, bufferFull, buffers, slotVars, queue,
                   dma, recVars, fileVars, stamp, envVars>>

Processing == live = "idle" /\ CanTick /\ ~ReturnsEarly

SkipsWithoutEnd == frameCount > 0                                        \* mutant

(* process_frame leaves the first frame out, then the ones to skip. *)
MustSkip == frameCount > 0 /\ skipFrames > 0

VsyncSkips ==
    /\ Processing
    /\ \/ frameCount <= 0 /\ frameCount' = frameCount + 1 /\ UNCHANGED skipFrames
       \/ MustSkip /\ skipFrames' = skipFrames - 1 /\ UNCHANGED frameCount
    /\ mq' = Tick
    /\ UNCHANGED <<rstate, captureSlot, forceNew, live, scan, triggered, firstFrame,
                   bufferFull, buffers, slotVars, queue, dma, recVars, fileVars,
                   stamp, envVars>>

Processes == Processing /\ frameCount > 0 /\ ~MustSkip

VsyncEdmacBusy ==
    /\ Processes /\ dma # None
    /\ bufferFull' = TRUE /\ mq' = Tick
    /\ UNCHANGED <<rstate, liveVars, preVars, buffers, slotVars, queue,
                   dma, recVars, fileVars, stamp, envVars>>

Captures  == Processes /\ dma = None /\ stamp < MaxFrames
untouched == <<skipFrames, buffers, isMeta, dma, recVars, fileVars, envVars>>

VsyncRecord ==
    /\ Captures
    /\ rstate = "RECORDING" /\ triggered
    /\ Capture(Snapshot, rstate, firstFrame)
    /\ UNCHANGED <<rstate, triggered, firstFrame, scan, untouched>>

(* pre_record_vsync_step: fall back to pre-recording, or start it; once the
   pre-recording buffer is full, every frame replaces the oldest. *)
PreFirst == IF rstate = "RECORDING" \/ firstFrame = 0 THEN frameCount ELSE firstFrame

VsyncPreRecord ==
    /\ Captures
    /\ rstate \in Recording /\ ~triggered
    /\ rstate' = "PRE_RECORDING" /\ firstFrame' = PreFirst
    /\ LET m == IF frameCount - PreFirst >= PreFrames
                THEN Discard(Snapshot, PreFirst) ELSE Snapshot
       IN  Capture(m, "PRE_RECORDING", PreFirst)
    /\ UNCHANGED <<triggered, scan, untouched>>

(* Triggered: queue the kept frames, then record, or begin another session. *)
StartsAgain(m, first) ==
    IF RecTrigger = HalfshutterPreOnly
    THEN /\ triggered' = FALSE /\ firstFrame' = m.count
         /\ Capture(m, rstate, m.count)
         /\ UNCHANGED rstate
    ELSE /\ rstate' = "RECORDING" /\ firstFrame' = first
         /\ Capture(m, "RECORDING", first)
         /\ UNCHANGED triggered

QueueAndCapture(m, at, first) ==
    LET n == Cardinality(Found(m, at.frame)) IN
    \E f \in [1..n -> Slots] :
        /\ Finds(m, at, f)
        /\ LET q == [m EXCEPT !.queue = @ \o f] IN
           \/ /\ at.frame + n >= m.count
              /\ scan' = NoScan /\ StartsAgain(q, first)
           \/ /\ at.frame + n < m.count
              /\ Commit(q) /\ firstFrame' = first /\ live' = "queueing" /\ mq' = Messages
              /\ scan' = [frame |-> at.frame + n, slot |-> IF n = 0 THEN at.slot ELSE f[n]]
              /\ UNCHANGED <<rstate, triggered, content, stamp, bufferFull>>

VsyncTrigger ==
    /\ Captures
    /\ rstate = "PRE_RECORDING" /\ triggered
    /\ LET m == IF FreeSlots(Snapshot) = {}
                THEN Discard(Snapshot, PreFirst) ELSE Snapshot
       IN  QueueAndCapture(m, [frame |-> PreFirst, slot |-> NSlots], PreFirst)
    /\ UNCHANGED untouched

(* pre_record_queue_frames spins until the frame it looks for is full. *)
VsyncQueueing ==
    /\ live = "queueing"
    /\ QueueAndCapture(Snapshot, scan, firstFrame)
    /\ UNCHANGED untouched

VsyncDiscarding ==
    /\ live = "discarding"
    /\ DiscardAndPlace(Snapshot, rstate, firstFrame)
    /\ UNCHANGED <<rstate, triggered, firstFrame, scan, untouched>>

LiveView == \/ VsyncIdle \/ VsyncSettingsChanged \/ VsyncSkips \/ VsyncEdmacBusy
            \/ VsyncRecord \/ VsyncPreRecord \/ VsyncTrigger
            \/ VsyncQueueing \/ VsyncDiscarding

-----------------------------------------------------------------------------
(* compress_task, and the completion of an uncompressed EDMAC copy         *)

(* Lossless: the slot becomes full once compressed.  Uncompressed: it does
   so as soon as the copy is started. *)
Compress ==
    /\ mq # <<>>
    /\ status' = [status EXCEPT ![Head(mq).slot] = "FULL"]
    /\ dma' = IF Lossless THEN dma ELSE Head(mq).slot
    /\ mq' = Tail(mq)
    /\ UNCHANGED <<rstate, liveVars, preVars, bufferFull, buffers, number, isMeta,
                   content, queue, recVars, fileVars, stamp, envVars>>

EdmacDone ==
    /\ dma # None
    /\ dma' = None
    /\ UNCHANGED <<rstate, liveVars, preVars, bufferFull, buffers, slotVars, queue,
                   mq, recVars, fileVars, stamp, envVars>>

(* Slots whose data is still being produced. *)
InProgress == {mq[k].slot : k \in DOMAIN mq} \cup ({dma} \ {None})

-----------------------------------------------------------------------------
(* Another module: mlv_rec_get_free_slot and mlv_rec_release_slot          *)

ModuleLocksSlot ==
    /\ buffers /\ rec \in {"starting", "loop", "writing", "freeing"}
    /\ metas < MaxMeta
    /\ \E s \in Slots :
          /\ status[s] = "FREE"
          /\ \A t \in 1..(s - 1) : status[t] # "FREE"
          /\ status' = [status EXCEPT ![s] = "LOCKED"]
          /\ held' = held \cup {s}
    /\ metas' = metas + 1
    /\ UNCHANGED <<rstate, liveVars, preVars, bufferFull, buffers, number, isMeta,
                   content, queue, mq, dma, recVars, fileVars, stamp, runs, settings>>

(* The release does not look at the status of the slot; it does nothing while
   the slots are not set up (total_slot_count is 0). *)
ModuleReleasesSlot ==
    \E s \in held :
        /\ held' = held \ {s}
        /\ \/ /\ buffers                                     \* to be written
              /\ status' = [status EXCEPT ![s] = "FULL"]
              /\ isMeta' = [isMeta EXCEPT ![s] = TRUE]
              /\ content' = [content EXCEPT ![s] = Audio]
              /\ queue' = Append(queue, s)
           \/ /\ buffers                                     \* not needed
              /\ status' = [status EXCEPT ![s] = "FREE"]
              /\ UNCHANGED <<isMeta, content, queue>>
           \/ /\ ~buffers
              /\ UNCHANGED <<status, isMeta, content, queue>>
        /\ UNCHANGED <<rstate, liveVars, preVars, bufferFull, buffers, number, mq, dma,
                       recVars, fileVars, stamp, metas, runs, settings>>

Module == ModuleLocksSlot \/ ModuleReleasesSlot

-----------------------------------------------------------------------------
(* raw_video_rec_task(0)                                                   *)

RecStart ==
    /\ rec = "created"
    /\ rec' = "preparing" /\ rstate' = "PREPARING"
    /\ frameCount' = 0 /\ captureSlot' = None /\ dma' = None    \* init_vsync_vars
    /\ bufferFull' = FALSE
    /\ triggered' = (~PreRecord /\ RecTrigger = 0)
    /\ firstFrame' = 0
    /\ UNCHANGED <<forceNew, live, scan, skipFrames, buffers, slotVars, queue, mq, group,
                   counted, fileVars, stamp, envVars>>

(* setup_buffers, the output file and its headers; then STARTING is sent *)
RecSetup ==
    /\ rec = "preparing"
    /\ rec' = "starting"
    /\ buffers' = TRUE
    /\ status' = [s \in Slots |-> "FREE"]
    /\ file' = <<>> /\ declared' = 0 /\ failed' = FALSE /\ stamp' = 0
    /\ UNCHANGED <<rstate, liveVars, preVars, bufferFull, number, isMeta, content,
                   queue, mq, dma, group, counted, envVars>>

RecSetupFails ==
    /\ "prepare" \in Failures
    /\ rec \in {"preparing", "starting"}
    /\ rec' = "cleanup"
    /\ UNCHANGED <<rstate, liveVars, preVars, bufferFull, buffers, slotVars, queue,
                   mq, dma, group, counted, fileVars, stamp, envVars>>

(* "this will enable the vsync CBR and the other task(s)" *)
RecEnable ==
    /\ rec = "starting"
    /\ rec' = "loop"
    /\ rstate' = IF PreRecord THEN "PRE_RECORDING" ELSE "RECORDING"
    /\ skipFrames' \in 0..MaxSkip
    /\ UNCHANGED <<captureSlot, forceNew, live, scan, preVars, bufferFull, buffers, slotVars,
                   queue, mq, dma, group, counted, fileVars, stamp, envVars>>

GroupableUnfinished(n) ==                                                \* mutant
    /\ n <= Len(queue)
    /\ \A k \in 1..(n - 1) : /\ queue[k + 1] = queue[k] + 1
                             /\ queue[k + 1] \notin Gaps

(* The first n queued slots can be saved with one call: all are full, and
   contiguous in memory. *)
Groupable(n) ==
    /\ n <= Len(queue)
    /\ \A k \in 1..n : status[queue[k]] = "FULL"
    /\ \A k \in 1..(n - 1) : /\ queue[k + 1] = queue[k] + 1
                             /\ queue[k + 1] \notin Gaps

(* The module slots the grouping loop looks at: it counts a slot before it
   checks that the slot belongs to the group. *)
MetaSlotsSeen == {k \in DOMAIN queue : /\ Groupable(k - 1)
                                       /\ status[queue[k]] = "FULL"
                                       /\ isMeta[queue[k]]}

RestSkippingOne(n) == SubSeq(queue, n + 2, Len(queue))                   \* mutant
RestKeepingOne(n)  == SubSeq(queue, n, Len(queue))                       \* mutant

(* after_last_grouped: the queue without its first n slots *)
Rest(n) == SubSeq(queue, n + 1, Len(queue))

RecTakesGroup ==
    /\ rec = "loop" /\ rstate \in Recording /\ ~bufferFull
    /\ \E n \in 1..Len(queue) :      \* fewer than possible if about to overflow
          /\ Groupable(n)
          /\ group' = SubSeq(queue, 1, n)
          /\ queue' = Rest(n)
          /\ status' = [s \in Slots |-> IF \E k \in 1..n : queue[k] = s
                                        THEN "WRITING" ELSE status[s]]
          /\ counted' = n - Cardinality(MetaSlotsSeen)
    /\ forceNew' = (forceNew \/ queue' = <<>>)
    /\ rec' = "writing"
    /\ UNCHANGED <<rstate, captureSlot, live, scan, skipFrames, preVars, bufferFull, buffers,
                   number, isMeta, content, mq, dma, fileVars, stamp, envVars>>

Block(s) == [what |-> content[s], number |-> number[s], meta |-> isMeta[s],
             whole |-> s \notin InProgress]

RecWrites ==
    /\ rec = "writing"
    /\ file' = file \o [k \in DOMAIN group |-> Block(group[k])]
    /\ declared' = declared + counted
    /\ rec' = "freeing"
    /\ UNCHANGED <<failed, rstate, liveVars, preVars, bufferFull, buffers, slotVars, queue,
                   mq, dma, group, counted, stamp, envVars>>

RecFreesSlot ==
    /\ rec = "freeing" /\ group # <<>>
    /\ status' = [status EXCEPT ![Head(group)] = "FREE"]
    /\ isMeta' = [isMeta EXCEPT ![Head(group)] = FALSE]
    /\ group' = Tail(group)
    /\ rec' = IF Len(group) = 1 THEN "loop" ELSE "freeing"
    /\ UNCHANGED <<rstate, liveVars, preVars, bufferFull, buffers, number, content,
                   queue, mq, dma, counted, fileVars, stamp, envVars>>

(* write_frames returns 0: it empties the queue when the card is full, not
   when it could not create the next chunk. *)
QueueAfterFailure(q) ==
    \/ "cardfull" \in Failures /\ queue' = <<>>
    \/ "nochunk" \in Failures /\ queue' = q

RecWriteFails ==
    /\ rec = "writing"
    /\ QueueAfterFailure(queue)
    /\ failed' = TRUE
    /\ group' = <<>>
    /\ rec' = "abort"
    /\ UNCHANGED <<rstate, liveVars, preVars, bufferFull, buffers, slotVars, mq, dma,
                   counted, file, declared, stamp, envVars>>

(* The main loop ends; "this will stop the vsync CBR and the copying task" *)
RecLeavesLoop ==
    /\ \/ rec = "loop" /\ (rstate \notin Recording \/ bufferFull \/ "lv" \in Failures)
       \/ rec = "abort"
    /\ rstate' = "FINISHING"
    /\ rec' = "stopping"
    /\ UNCHANGED <<liveVars, preVars, bufferFull, buffers, slotVars, queue, mq, dma,
                   group, counted, fileVars, stamp, envVars>>

(* The STOPPING callback returns once the modules have given their slots
   back; then wait_lv_frames(2) counts vsyncs. *)
RecStopped ==
    /\ rec = "stopping"
    /\ held = {}
    /\ rec' = "wait2"
    /\ UNCHANGED <<rstate, liveVars, preVars, bufferFull, buffers, slotVars, queue,
                   mq, dma, group, counted, fileVars, stamp, envVars>>

(* wait_lv_frames gives up when LiveView is closed, or after four frames
   without a vsync: the handler is in one of its loops, for good unless this
   task frees a slot. *)
Stuck == /\ mq = <<>>
         /\ \/ live = "queueing" /\ FullAt(Snapshot, scan.frame) = {}
            \/ /\ live = "discarding" /\ FreeSlots(Snapshot) = {}
               /\ \A s \in Slots : status[s] = "FULL" => number[s] < firstFrame

RecStopsWaiting ==
    /\ rec \in {"wait2", "wait1"}
    /\ Stuck \/ "lv" \in Failures
    /\ rec' = "drain"
    /\ UNCHANGED <<rstate, liveVars, preVars, bufferFull, buffers, slotVars, queue,
                   mq, dma, group, counted, fileVars, stamp, envVars>>

(* "write remaining frames", one at a time, full or not *)
RecFlushes ==
    /\ rec = "drain" /\ queue # <<>>
    /\ file' = Append(file, Block(Head(queue)))
    /\ declared' = declared + (IF isMeta[Head(queue)] THEN 0 ELSE 1)
    /\ status' = [status EXCEPT ![Head(queue)] = "FREE"]
    /\ queue' = Tail(queue)
    /\ UNCHANGED <<failed, rstate, liveVars, preVars, bufferFull, buffers, number, isMeta,
                   content, mq, dma, recVars, stamp, envVars>>

RecFlushFails ==
    /\ rec = "drain" /\ queue # <<>>
    /\ status' = [status EXCEPT ![Head(queue)] = "WRITING"]
    /\ QueueAfterFailure(queue)
    /\ failed' = TRUE
    /\ rec' = "cleanup"
    /\ UNCHANGED <<rstate, liveVars, preVars, bufferFull, buffers, number, isMeta,
                   content, mq, dma, group, counted, file, declared, stamp, envVars>>

RecFlushed ==
    /\ rec = "drain" /\ queue = <<>>
    /\ rec' = "cleanup"
    /\ UNCHANGED <<rstate, liveVars, preVars, bufferFull, buffers, slotVars, queue,
                   mq, dma, group, counted, fileVars, stamp, envVars>>

RecKeepsBuffersOnFailure ==                                              \* mutant
    /\ rec = "cleanup"
    /\ buffers' = (buffers /\ failed)
    /\ rec' = "freed"
    /\ UNCHANGED <<rstate, liveVars, preVars, bufferFull, slotVars, queue,
                   mq, dma, group, counted, fileVars, stamp, envVars>>

RecFreesBuffers ==
    /\ rec = "cleanup"
    /\ buffers' = FALSE
    /\ rec' = "freed"
    /\ UNCHANGED <<rstate, liveVars, preVars, bufferFull, slotVars, queue,
                   mq, dma, group, counted, fileVars, stamp, envVars>>

RecEnds ==
    /\ rec = "freed"
    /\ rstate' = "IDLE" /\ rec' = "none"
    /\ UNCHANGED <<liveVars, preVars, bufferFull, buffers, slotVars, queue, mq, dma,
                   group, counted, fileVars, stamp, envVars>>

RecTask == \/ RecStart \/ RecSetup \/ RecSetupFails \/ RecEnable
           \/ RecTakesGroup \/ RecWrites \/ RecFreesSlot \/ RecWriteFails
           \/ RecLeavesLoop \/ RecStopped \/ RecStopsWaiting
           \/ RecFlushes \/ RecFlushFails \/ RecFlushed
           \/ RecFreesBuffers \/ RecEnds

-----------------------------------------------------------------------------
Next == Gui \/ LiveView \/ Compress \/ EdmacDone \/ Module \/ RecTask

Spec == Init /\ [][Next]_vars

-----------------------------------------------------------------------------
(* Properties                                                              *)

(* Every variable keeps its type: the states of the recorder and of the slots
   are among the enumerated ones, skip_frames never goes below zero (the code
   tests it with > 0 before it counts down). *)
TypeOK ==
    /\ rstate \in RecStates /\ rec \in RecPoints /\ live \in LiveStates
    /\ {triggered, bufferFull, forceNew, buffers, failed} \subseteq BOOLEAN
    /\ {firstFrame, frameCount, counted, declared} \subseteq Int
    /\ {skipFrames, stamp, metas, runs} \subseteq Nat
    /\ settings \in Settings
    /\ captureSlot \in Slots \cup {None} /\ dma \in Slots \cup {None}
    /\ held \subseteq Slots
    /\ scan \in [frame : Int, slot : Slots \cup {None}]
    /\ status \in [Slots -> SlotStates]
    /\ number \in [Slots -> Int]
    /\ isMeta \in [Slots -> BOOLEAN]
    /\ content \in [Slots -> Nat]
    /\ queue \in Seq(Slots) /\ group \in Seq(Slots)
    /\ mq \in Seq([slot : Slots, age : Nat])
    /\ file \in Seq([what : Nat, number : Int, meta : BOOLEAN, whole : BOOLEAN])

Queued(s)  == \E k \in DOMAIN queue : queue[k] = s
Grouped(s) == \E k \in DOMAIN group : group[k] = s

(* A slot waits in the queue at most once, and never while write_frames has
   it; so the queue, one longer than the slots, cannot overflow. *)
QueuedOnce ==
    /\ \A j, k \in DOMAIN queue : queue[j] = queue[k] => j = k
    /\ \A s \in Slots : ~(Queued(s) /\ Grouped(s))

(* "queue of completed frames (slot indices) waiting to be saved": while the
   recorder runs, a queued slot holds a frame that is done or on its way. *)
QueueHoldsFrames ==
    rec \notin {"none", "created", "cleanup", "freed"} =>
        \A k \in DOMAIN queue : status[queue[k]] \in {"CAPTURING", "FULL"}

(* No slot is lost: a slot that is neither free nor with a module is on its
   way to the card, or is a frame kept by pre-recording. *)
Keeps(s) == /\ rstate = "PRE_RECORDING" \/ live # "idle"
            /\ firstFrame > 0
            /\ number[s] >= IF live = "queueing" THEN scan.frame ELSE firstFrame

NoSlotLost ==
    rec \in {"loop", "writing", "freeing"} /\ rstate \in Recording =>
        \A s \in Slots :
            /\ status[s] \in {"CAPTURING", "FULL"} => Queued(s) \/ Keeps(s)
            /\ status[s] = "WRITING" => Grouped(s)

(* compress_task asserts that the slot of a message is still being captured;
   its memory must still be ours as well. *)
CompressTargetValid ==
    \A k \in DOMAIN mq : buffers /\ status[mq[k].slot] = "CAPTURING"

(* "the recording thread will wait until it's done" *)
SavedWhole == \A k \in DOMAIN file : file[k].what # Audio => file[k].whole

(* The file holds the frames in capture order, numbered from 1 without a gap
   ("Frame order error" otherwise). *)
VideoFrames == [what : Nat \ {Audio}, number : Int, meta : BOOLEAN, whole : BOOLEAN]
Saved       == Keeping(file, VideoFrames)

SavedInOrder ==
    failed \/ \A k \in DOMAIN Saved :
        /\ Saved[k].number = k
        /\ k > 1 => Saved[k].what > Saved[k - 1].what

(* is_meta: "does not contain VIDF".  It fails after a recording with sound:
   README.md, section 6. *)
MetaIsNotVideo ==
    \A k \in DOMAIN file : file[k].meta <=> file[k].what = Audio

(* chunk_frame_count: "how many frames in the current file chunk".  It fails
   with sound: README.md, section 6. *)
HeaderCountsFrames ==
    declared = Len(Saved)

(* pre_record_discard_frame: "at the moment of this call, there should be no
   slots in progress".  It is called for every frame once enough of them are
   kept, and whenever pre-recording has no free slot.  It fails when compression
   is late: README.md, section 6. *)
Discards ==
    \/ /\ Captures /\ rstate \in Recording
       /\ IF triggered THEN rstate = "PRE_RECORDING" /\ FreeSlots(Snapshot) = {}
                       ELSE frameCount - PreFirst >= PreFrames
    \/ live = "discarding"

NoneInProgress == Discards => \A s \in Slots : status[s] # "CAPTURING"

(* The vsync handler is never left looping.  It is, when compression is late:
   README.md, section 6. *)
LiveViewReturns == live = "idle"

-----------------------------------------------------------------------------
(* RawRecorder implements FramePipeline: the frames are those of the queued
   slots, including the group being written, and the ones pre-recording
   keeps, by number. *)
FramesOf(q) == Keeping([k \in DOMAIN q |-> content[q[k]]], Nat \ {Audio})
SavedFrames == Keeping([k \in DOMAIN file |-> file[k].what], Nat \ {Audio})

KeptFrames ==
    IF rstate = "PRE_RECORDING" /\ firstFrame > 0
    THEN [k \in 1..(frameCount - firstFrame) |->
            content[CHOOSE s \in Slots : /\ status[s] \in {"CAPTURING", "FULL"}
                                         /\ number[s] = firstFrame + k - 1
                                         /\ ~Queued(s)]]
    ELSE <<>>

Pipeline == INSTANCE FramePipeline WITH
    kept    <- KeptFrames,
    pending <- FramesOf(IF rec = "writing" THEN group \o queue ELSE queue),
    saved   <- SavedFrames,
    last    <- stamp

ImplementsPipeline == Pipeline!Spec

-----------------------------------------------------------------------------
(* Liveness, with the tasks scheduled fairly and LiveView running.          *)

Fairness == /\ WF_vars(RecTask) /\ WF_vars(Compress) /\ WF_vars(EdmacDone)
            /\ WF_vars(LiveView) /\ WF_vars(ModuleReleasesSlot)

FairSpec == Spec /\ Fairness

(* A recording that is being stopped ends, with its memory given back. *)
StopEnds == (rstate = "FINISHING") ~> (rstate = "IDLE" /\ ~buffers)

(* Every frame that joins the queue is saved, unless a write fails. *)
QueuedIsSaved ==
    \A n \in 1..MaxFrames :
        (\E k \in DOMAIN queue : content[queue[k]] = n) ~>
            (failed \/ \E k \in DOMAIN file : file[k].what = n)

(* A slot with a frame is queued, kept or being written, and in one place. *)
SlotsKept == QueuedOnce /\ NoSlotLost
=============================================================================
