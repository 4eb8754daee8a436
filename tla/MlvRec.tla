------------------------------- MODULE MlvRec -------------------------------
(***************************************************************************)
(* The older recorder (modules/raw_video/mlv_rec/mlv_rec.c).  Three kinds  *)
(* of tasks share the slots:                                               *)
(*                                                                         *)
(*   raw_rec_vsync_cbr, process_frame   start a copy into a free slot;     *)
(*   raw_video_rec_task                 the manager: hands full slots to   *)
(*       the writers, takes them back, opens and closes files for them;    *)
(*   raw_writer_task                    one per card: writes blocks.       *)
(*                                                                         *)
(* They talk through queues of jobs that are taken from a pool.  A file    *)
(* ends at mlv_max_filesize; a writer asks for the next one early enough.  *)
(* The sound recorder, modules/raw_video/mlv_snd, borrows slots for its    *)
(* blocks; MlvSound looks at it more closely.                              *)
(*                                                                         *)
(* A slot is one unit of size: header bytes and metadata blocks are left   *)
(* out.  A definition marked "mutant" is a slip one could make in the      *)
(* definition that follows it; no formula below uses it.                   *)
(***************************************************************************)
EXTENDS Integers, Sequences, FiniteSets, FiniteSetsExt

CONSTANTS
    NWriters,    \* mlv_writer_threads: 2 with card spanning, else 1
    Groups,      \* slot_groups: contiguous slots, the largest group first
    FastGroups,  \* fast_card_buffers: groups the second writer leaves alone
    FillMethod,  \* buffer_fill_method
    MaxBlock,    \* slots written at once by each writer (16 MB, 4 MB)
    Shrinking,   \* whether enqueue_buffer may shorten a block
    ChunkSize,   \* mlv_max_filesize in slots
    Ahead,       \* 8: blocks that must fit before the next file is asked for
    NJobs,       \* jobs in the pool (50)
    AllowSkip,   \* allow_frame_skip
    Failures,    \* what may fail: "buffers", "open", "create", "card",
                 \*   "settings"
    ModuleSkips, \* whether a module's skip_frame callback may refuse a frame
    MaxFrames,   \* bound: frames of a recording
    SoundSlots,  \* MLV_SND_SLOTS: slots mlv_snd holds, 0 without sound
    MaxMeta,     \* bound: slots mlv_snd takes in a recording
    MaxTimeouts, \* 10: vsyncs in a row that may find EDMAC busy
    MaxRuns      \* bound: recordings

ASSUME WriterAssumption == NWriters \in {1, 2} /\ FastGroups \in Nat
ASSUME GroupAssumption  == Groups \in Seq([slot : Nat \ {0}, len : Nat \ {0}])
ASSUME SizeAssumption   == /\ ChunkSize \in Nat \ {0} /\ Ahead \in Nat \ {0}
                           /\ MaxBlock \in [{0, 1} -> 1..ChunkSize]
                           /\ NJobs \in Nat
ASSUME OptionAssumption == /\ FillMethod \in 0..4
                           /\ Shrinking \in BOOLEAN /\ AllowSkip \in BOOLEAN
                           /\ ModuleSkips \in BOOLEAN
ASSUME BoundAssumption  == {MaxFrames, SoundSlots, MaxMeta, MaxTimeouts, MaxRuns} \subseteq Nat

Queues   == {0, 1}               \* mlv_writer_queues
Writers  == 0..NWriters - 1
GroupIds == 1..Len(Groups)
SlotsOf(g) == Groups[g].slot .. Groups[g].slot + Groups[g].len - 1
Slots    == UNION {SlotsOf(g) : g \in GroupIds}
None     == 0                    \* no slot, no file, a block of sound
NoJob    == [type |-> "none"]
WriteJob(w, s, n) == [type |-> "write", writer |-> w, start |-> s, len |-> n]
AbortJob == WriteJob(0, None, 0)

JobSlots(j) == IF j.type = "write" THEN j.start .. j.start + j.len - 1 ELSE {}

VARIABLES
    state,       \* raw_recording_state
    slots,       \* status and frame of each slot
    frame_count, frame_skips, capture_slot,
    dma_active, edmac_timeouts,
    mgr,         \* raw_video_rec_task: where it is, the returned job, used_slots
    mgr_queue, writer_queues,
    pool,        \* jobs in mlv_job_alloc_queue
    job_count,   \* writer_job_count
    writers,     \* raw_writer_task of each writer
    files,       \* the files of this recording; file #n is files[n + 1]
    meta, metas, \* slots mlv_snd holds, and how many it took
    owes,        \* mlv_snd gave a slot back and is about to take another
    runs

recVars == <<frame_count, frame_skips, capture_slot, dma_active, edmac_timeouts>>
metaVars == <<meta, metas, owes>>
vars == <<state, slots, recVars, mgr, mgr_queue, writer_queues, pool, job_count,
          writers, files, metaVars, runs>>

Statuses == {"free", "locked", "full", "writing"}
Idle     == [pc |-> "off", file |-> None, next |-> None, num |-> 0, nextNum |-> 0,
             frames |-> 0, size |-> 0, asked |-> FALSE, job |-> NoJob, error |-> "no"]
NewFile  == [data |-> <<>>, num |-> 0, count |-> 0, closed |-> 0, gone |-> FALSE]
Recording == mgr.pc \notin {"off", "dead", "prepare", "open"}
Alive(w) == writers[w].pc # "off"
\* mlv_rec_threads
Threads  == Cardinality({w \in Writers : Alive(w)})

Init ==
    /\ state = "idle"
    /\ slots = [s \in Slots |-> [st |-> "free", frame |-> None]]
    /\ frame_count = 0 /\ frame_skips = FALSE /\ capture_slot = None
    /\ dma_active = FALSE /\ edmac_timeouts = 0
    /\ mgr = [pc |-> "off", at |-> 0, job |-> NoJob, used |-> FALSE]
    /\ mgr_queue = <<>> /\ writer_queues = [q \in Queues |-> <<>>]
    /\ pool = NJobs /\ job_count = [w \in Queues |-> 0]
    /\ writers = [w \in Writers |-> Idle]
    /\ files = <<>>
    /\ meta = {} /\ metas = 0 /\ owes = FALSE /\ runs = 0

-----------------------------------------------------------------------------
(* Slots.                                                                  *)

Mark(S, st) == [s \in Slots |-> IF s \in S THEN [slots[s] EXCEPT !.st = st] ELSE slots[s]]
Free(s)     == slots[s].st = "free"

FreeGroups   == {g \in GroupIds : \E s \in SlotsOf(g) : Free(s)}
FirstFree(g) == Min({s \in SlotsOf(g) : Free(s)})

\* blocks <<first, length>> of slots of one group that all have a status
Blocks(g, st, max) ==
    {b \in SlotsOf(g) \X (1..max) :
        /\ b[1] + b[2] - 1 \in SlotsOf(g)
        /\ \A s \in b[1] .. b[1] + b[2] - 1 : slots[s].st = st}
Longest(B) == CHOOSE b \in B : \A c \in B : \/ b[2] > c[2]
                                            \/ b[2] = c[2] /\ b[1] <= c[1]

\* methods 2 and 3: the next slot in memory if it is free ...
Rolling == /\ FillMethod \in {2, 3} /\ capture_slot # None
           /\ \E g \in GroupIds : {capture_slot, capture_slot + 1} \subseteq SlotsOf(g)
           /\ Free(capture_slot + 1)

\* mutant: any slot that is not full will do
NextUnfullSlot ==
    LET S == {s \in Slots : slots[s].st # "full"} IN IF S = {} THEN None ELSE Min(S)

\* choose_next_capture_slot
NextCaptureSlot ==
    LET all == UNION {Blocks(g, "free", Cardinality(Slots)) : g \in GroupIds} IN
    IF FreeGroups = {} THEN None
    ELSE CASE FillMethod = 0         -> Min({s \in Slots : Free(s)})
           [] FillMethod \in {1, 4}  -> FirstFree(Min(FreeGroups))
           [] Rolling                -> capture_slot + 1
           [] OTHER                  -> Longest(all)[1]

\* find_largest_buffer: the longest block of one group, of the groups from
\* "first"; a fast group is taken only when all of it is full (or the part of
\* it that reaches the maximum), unless nothing else is found
LargestBuffer(first, max) ==
    LET from    == {g \in GroupIds : g > first /\ Blocks(g, "full", max) # {}}
        best(g) == Longest(Blocks(g, "full", max))
        ready   == {g \in from : \/ FillMethod \notin {3, 4}
                                 \/ g > FastGroups
                                 \/ \A s \in SlotsOf(g) : slots[s].st = "full"
                                 \/ best(g) = <<Groups[g].slot, max>>}
        these   == IF ready # {} THEN ready ELSE from
    IN {best(g) : g \in {g \in these : \A h \in these :
            \/ best(g)[2] > best(h)[2]
            \/ best(g)[2] = best(h)[2] /\ g <= h}}

\* enqueue_buffer: when the slots would run out at the measured speed the block
\* is shortened, to two frames below what could be written in time
Shortened(n) == {n} \cup IF Shrinking /\ ~AllowSkip
                         THEN {Max({1, l - 1}) : l \in 0..n - 1} ELSE {}

-----------------------------------------------------------------------------
(* Frames: raw_rec_vsync_cbr and the copy it starts.                       *)

\* the previous copy is not finished: the frame is skipped
VsyncBusy ==
    /\ dma_active /\ frame_count <= MaxFrames
    /\ frame_skips' = TRUE
    /\ IF edmac_timeouts + 1 > MaxTimeouts
       THEN edmac_timeouts' = 0 /\ state' = "finishing"
       ELSE edmac_timeouts' = edmac_timeouts + 1 /\ UNCHANGED state
    /\ UNCHANGED <<slots, frame_count, capture_slot, dma_active, mgr, mgr_queue,
                   writer_queues, pool, job_count, writers, files, metaVars, runs>>

\* what follows is for a vsync that finds EDMAC idle
Vsync == ~dma_active /\ edmac_timeouts' = 0 /\ state = "recording"

SettingsChanged ==
    /\ Vsync /\ "settings" \in Failures
    /\ state' = "finishing"
    /\ UNCHANGED <<slots, frame_count, frame_skips, capture_slot, dma_active, mgr,
                   mgr_queue, writer_queues, pool, job_count, writers, files,
                   metaVars, runs>>

\* process_frame
CaptureFrame ==
    /\ Vsync /\ (AllowSkip \/ ~frame_skips) /\ frame_count <= MaxFrames
    /\ IF frame_count = 0
       THEN frame_count' = 1 /\ UNCHANGED <<slots, frame_skips, capture_slot, dma_active>>
       ELSE /\ capture_slot' = NextCaptureSlot
            /\ IF capture_slot' = None
               THEN frame_skips' = TRUE /\ UNCHANGED <<slots, frame_count, dma_active>>
               ELSE /\ slots' = [slots EXCEPT ![capture_slot'] =
                                    [st |-> "full", frame |-> frame_count]]
                    /\ frame_count' = frame_count + 1
                    /\ dma_active' = TRUE
                    /\ UNCHANGED frame_skips
    /\ UNCHANGED <<state, mgr, mgr_queue, writer_queues, pool, job_count, writers,
                   files, metaVars, runs>>

\* a module's skip_frame callback refuses the frame: process_frame returns and
\* the slot stays as choose_next_capture_slot left it
SkipFrame ==
    /\ Vsync /\ (AllowSkip \/ ~frame_skips) /\ ModuleSkips
    /\ frame_count \in 1..MaxFrames /\ FreeGroups # {}
    /\ capture_slot' = NextCaptureSlot
    /\ slots' = IF Rolling THEN slots ELSE Mark({capture_slot'}, "locked")
    /\ UNCHANGED <<state, frame_count, frame_skips, dma_active, mgr, mgr_queue,
                   writer_queues, pool, job_count, writers, files, metaVars, runs>>

\* mlv_rec_dma_cbr_w
DmaDone ==
    /\ dma_active /\ dma_active' = FALSE
    /\ UNCHANGED <<state, slots, frame_count, frame_skips, capture_slot,
                   edmac_timeouts, mgr, mgr_queue, writer_queues, pool, job_count,
                   writers, files, metaVars, runs>>

-----------------------------------------------------------------------------
(* Sound: what mlv_snd does with the slots.                                *)

\* mlv_snd_alloc_buffers, on STARTING, takes as many slots as there are
Allocating == mgr.pc = "open" /\ metas < SoundSlots /\ FreeGroups # {}

\* mlv_snd_queue_slot, mlv_rec_get_free_slot: a slot of the smallest group that
\* has one; when none is free mlv_snd goes on with fewer
TakeSlot ==
    /\ Allocating \/ owes
    /\ owes' = FALSE
    /\ IF FreeGroups = {} THEN UNCHANGED <<slots, meta, metas>>
       ELSE LET s == FirstFree(Max(FreeGroups)) IN
            /\ meta' = meta \cup {s} /\ metas' = metas + 1
            /\ slots' = Mark({s}, "locked")
    /\ UNCHANGED <<state, recVars, mgr, mgr_queue, writer_queues, pool, job_count,
                   writers, files, runs>>

\* mlv_snd_writer: the last block of a slot is filled, and another slot is
\* wanted.  The slot whose blocks ASIF fills next stays: ASIF stops before the
\* last block of all is handed to the writer.
ReleaseSlot ==
    /\ Recording /\ frame_count > 0 /\ metas < MaxMeta
    /\ ~owes /\ owes' = TRUE /\ Cardinality(meta) > 1
    /\ \E s \in meta : /\ meta' = meta \ {s}
                       /\ slots' = [slots EXCEPT ![s] = [st |-> "full", frame |-> None]]
    /\ UNCHANGED <<state, recVars, mgr, mgr_queue, writer_queues, pool, job_count,
                   writers, files, metas, runs>>

\* mlv_snd_stop waits for the writer of mlv_snd and gives back all slots
SoundStops ==
    /\ ~owes /\ UNCHANGED <<metas, owes>> /\ meta' = {}
    /\ slots' = [s \in Slots |-> IF s \in meta THEN [st |-> "full", frame |-> None]
                                 ELSE slots[s]]

-----------------------------------------------------------------------------
(* The manager: raw_video_rec_task.                                        *)

\* raw_start_stop: the REC key
PressRec ==
    /\ IF state = "idle"
       THEN /\ runs < MaxRuns /\ runs' = runs + 1
            /\ state' = "preparing" /\ mgr' = [mgr EXCEPT !.pc = "prepare"]
       ELSE state' = "finishing" /\ UNCHANGED <<mgr, runs>>
    /\ UNCHANGED <<slots, recVars, mgr_queue, writer_queues, pool, job_count,
                   writers, files, metaVars>>

\* set-up, up to the opening of the writers' files
Prepare ==
    /\ mgr.pc = "prepare"
    /\ \/ /\ mgr' = [mgr EXCEPT !.pc = "open"]
          /\ slots' = [s \in Slots |-> [st |-> "free", frame |-> None]]
       \/ /\ "buffers" \in Failures
          /\ mgr' = [mgr EXCEPT !.pc = "cleanup"] /\ UNCHANGED slots
    /\ metas' = 0
    /\ UNCHANGED <<state, recVars, mgr_queue, writer_queues, pool, job_count,
                   writers, files, meta, owes, runs>>

OpenFiles ==
    /\ mgr.pc = "open" /\ (metas = 0 \/ ~Allocating)   \* sound is off, or has its slots
    /\ frame_count' = 0 /\ frame_skips' = FALSE /\ capture_slot' = None
    /\ job_count' = [w \in Queues |-> IF w \in Writers THEN 0 ELSE job_count[w]]
    /\ files' = [i \in 1..NWriters |-> [NewFile EXCEPT !.num = i - 1]]
    /\ \/ /\ writers' = [w \in Writers |->
                [Idle EXCEPT !.pc = "take", !.file = w + 1, !.num = w]]
          /\ mgr' = [mgr EXCEPT !.pc = "begin"]
       \/ /\ "open" \in Failures   \* the task returns without any clean-up
          /\ mgr' = [mgr EXCEPT !.pc = "dead"] /\ UNCHANGED writers
    /\ UNCHANGED <<state, slots, dma_active, edmac_timeouts, mgr_queue,
                   writer_queues, pool, metaVars, runs>>

Begin ==
    /\ mgr.pc = "begin" /\ Threads = NWriters
    /\ state' = "recording"
    /\ mgr' = [mgr EXCEPT !.pc = "loop", !.used = FALSE, !.job = NoJob]
    /\ UNCHANGED <<slots, recVars, mgr_queue, writer_queues, pool, job_count,
                   writers, files, metaVars, runs>>

\* the main loop ends when no slot was in use at the end of its last turn
Finished == state # "recording" /\ ~mgr.used
\* mutant: the main loop does not look
NoWritersAtEnd == mgr.pc = "drain" /\ Threads = 0

\* mlv_rec_threads is 0: all writers gave up
NoWriters == Threads = 0

\* the head of the main loop: its condition, the check for writers that gave
\* up, and the returned job, which is handled after the queues are filled
MgrLoop ==
    /\ mgr.pc = "loop"
    /\ IF Finished
       THEN mgr' = [mgr EXCEPT !.pc = "stopping"] /\ UNCHANGED <<state, mgr_queue>>
       ELSE IF NoWriters
       THEN mgr' = [mgr EXCEPT !.pc = "cleanup"] /\ UNCHANGED <<state, mgr_queue>>
       ELSE /\ IF mgr_queue = <<>>
               THEN mgr' = [mgr EXCEPT !.pc = "fill", !.at = 0, !.job = NoJob]
                    /\ UNCHANGED mgr_queue
               ELSE /\ mgr' = [mgr EXCEPT !.pc = "fill", !.at = 0, !.job = Head(mgr_queue)]
                    /\ mgr_queue' = Tail(mgr_queue)
            /\ state' = IF ~AllowSkip /\ frame_skips /\ state = "recording"
                        THEN "finishing" ELSE state
    /\ UNCHANGED <<slots, recVars, writer_queues, pool, job_count, writers, files,
                   metaVars, runs>>

FillNext == mgr' = IF mgr.at + 1 < NWriters THEN [mgr EXCEPT !.at = @ + 1]
                   ELSE [mgr EXCEPT !.pc = "handle"]

\* enqueue_buffer of what find_largest_buffer found for writer mgr.at; the
\* count of jobs is unsigned, so "< 1" is "= 0"
CanFill(w)     == job_count[w] = 0
BlocksFor(w)   == IF CanFill(w) THEN LargestBuffer(w * FastGroups, MaxBlock[w]) ELSE {}

\* mutant: the slots are handed over without being marked
EnqueueUnmarked(w, b) ==
    /\ UNCHANGED slots
    /\ pool > 0 /\ pool' = pool - 1
    /\ writer_queues' = [writer_queues EXCEPT ![w] = Append(@, WriteJob(w, b[1], b[2]))]
    /\ job_count' = [job_count EXCEPT ![w] = @ + 1]

Enqueue(w, b)  ==
    /\ slots' = Mark(b[1] .. b[1] + b[2] - 1, "writing")
    /\ pool > 0 /\ pool' = pool - 1
    /\ writer_queues' = [writer_queues EXCEPT ![w] = Append(@, WriteJob(w, b[1], b[2]))]
    /\ job_count' = [job_count EXCEPT ![w] = @ + 1]

FillQueue ==
    /\ mgr.pc = "fill" /\ FillNext
    /\ IF BlocksFor(mgr.at) = {}
       THEN UNCHANGED <<slots, pool, writer_queues, job_count>>
       ELSE \E b \in BlocksFor(mgr.at) : \E n \in Shortened(b[2]) :
                Enqueue(mgr.at, <<b[1], n>>)
    /\ UNCHANGED <<state, recVars, mgr_queue, writers, files, metaVars, runs>>

\* the end of the loop: the returned job, then the slots in use
Returned(type) == mgr.pc = "handle" /\ mgr.job.type = type
EndLoop == mgr' = [mgr EXCEPT !.pc = "loop", !.job = NoJob,
                              !.used = \E s \in Slots : slots'[s].st # "free"]

NothingReturned ==
    /\ Returned("none") /\ UNCHANGED slots /\ EndLoop
    /\ UNCHANGED <<state, recVars, mgr_queue, writer_queues, pool, job_count,
                   writers, files, metaVars, runs>>

WriteReturned ==
    /\ Returned("write")
    /\ slots' = Mark(JobSlots(mgr.job), "free") /\ EndLoop
    /\ pool' = pool + 1
    /\ UNCHANGED <<state, recVars, mgr_queue, writer_queues, job_count, writers,
                   files, metaVars, runs>>

\* raw_get_next_filenum
NextFileNum == Len(files)

\* open the next file: one of those made at the start or a new one.  The job
\* keeps the header it came with.
HandleWanted ==
    /\ Returned("handle") /\ UNCHANGED slots /\ EndLoop
    /\ \/ /\ files' = Append(files, [NewFile EXCEPT !.num = Len(files)])
          /\ writer_queues' = [writer_queues EXCEPT ![mgr.job.writer] =
                Append(@, [mgr.job EXCEPT !.file = NextFileNum + 1])]
          /\ UNCHANGED state
       \/ /\ "create" \in Failures
          /\ files' = Append(files, [NewFile EXCEPT !.gone = TRUE])
          /\ writer_queues' = [writer_queues EXCEPT ![mgr.job.writer] = Append(@, mgr.job)]
          /\ state' = "finishing"
    /\ UNCHANGED <<recVars, mgr_queue, pool, job_count, writers, metaVars, runs>>

Closed(i, num, count) ==
    [files EXCEPT ![i].num = num, ![i].count = count, ![i].closed = @ + 1]

CloseWanted ==
    /\ Returned("close") /\ UNCHANGED slots /\ EndLoop
    /\ files' = Closed(mgr.job.file, mgr.job.num, mgr.job.frames)
    /\ pool' = pool + 1
    /\ UNCHANGED <<state, recVars, mgr_queue, writer_queues, job_count, writers,
                   metaVars, runs>>

\* the STOPPING event, and mlv_rec_precreate_cleanup: files without data are
\* deleted; the first one has more in its header
Stopping ==
    /\ mgr.pc = "stopping" /\ mgr' = [mgr EXCEPT !.pc = "drain"] /\ SoundStops
    /\ files' = [i \in DOMAIN files |->
                    [files[i] EXCEPT !.gone = @ \/ (i > 1 /\ files[i].data = <<>>)]]
    /\ UNCHANGED <<state, recVars, mgr_queue, writer_queues, pool, job_count,
                   writers, runs>>

\* wait for the blocks that are being written
Drain ==
    /\ mgr.pc = "drain"
    /\ IF NoWriters
       THEN mgr' = [mgr EXCEPT !.pc = "cleanup"] /\ UNCHANGED state
       ELSE /\ \A s \in Slots : slots[s].st # "writing"
            /\ mgr' = [mgr EXCEPT !.pc = "abort", !.at = 0] /\ state' = "finishing"
    /\ UNCHANGED <<slots, recVars, mgr_queue, writer_queues, pool, job_count,
                   writers, files, metaVars, runs>>

\* two jobs that tell the writers to end, whether there are two or one
AbortWriters ==
    /\ mgr.pc = "abort" /\ pool > 0 /\ pool' = pool - 1
    /\ writer_queues' = [writer_queues EXCEPT ![mgr.at] = Append(@, AbortJob)]
    /\ mgr' = IF mgr.at = 0 THEN [mgr EXCEPT !.at = 1] ELSE [mgr EXCEPT !.pc = "flush"]
    /\ UNCHANGED <<state, slots, recVars, mgr_queue, job_count, writers, files,
                   metaVars, runs>>

\* the task sleeps 250 ms before and 500 ms after: by then the writers ended
Flush ==
    /\ mgr.pc = "flush" /\ Threads = 0
    /\ mgr_queue' = <<>> /\ writer_queues' = [q \in Queues |-> <<>>]
    /\ mgr' = [mgr EXCEPT !.pc = "cleanup"]
    /\ UNCHANGED <<state, slots, recVars, pool, job_count, writers, files,
                   metaVars, runs>>

\* the STOPPED event; the last copy takes a part of a frame time: it is over
\* before this
CleanUp ==
    /\ mgr.pc = "cleanup" /\ ~dma_active /\ SoundStops
    /\ state' = "idle" /\ mgr' = [mgr EXCEPT !.pc = "off", !.used = FALSE]
    /\ UNCHANGED <<recVars, mgr_queue, writer_queues, pool, job_count, writers,
                   files, runs>>

-----------------------------------------------------------------------------
(* The writers: raw_writer_task.                                           *)

Set(w, r) == writers' = [writers EXCEPT ![w] = r]
Receive(w) == writer_queues' = [writer_queues EXCEPT ![w] = Tail(@)]
Ready(w, type) ==
    /\ writers[w].pc = "take" /\ state # "preparing"
    /\ writer_queues[w] # <<>> /\ Head(writer_queues[w]).type = type

NextHandle(w) ==
    /\ Ready(w, "handle") /\ Receive(w)
    /\ LET job == Head(writer_queues[w]) IN
       Set(w, [writers[w] EXCEPT !.next = job.file, !.nextNum = job.num])
    /\ UNCHANGED <<state, slots, recVars, mgr, mgr_queue, pool, job_count, files,
                   metaVars, runs>>

\* a job of length 0: the end
TakeAbort(w) ==
    /\ Ready(w, "write") /\ Receive(w) /\ Head(writer_queues[w]).len = 0
    /\ job_count' = [job_count EXCEPT ![w] = @ - 1]
    /\ pool' = pool + 1
    /\ Set(w, [writers[w] EXCEPT !.pc = "close"])
    /\ UNCHANGED <<state, slots, recVars, mgr, mgr_queue, files, metaVars, runs>>

TakeJob(w) ==
    /\ Ready(w, "write") /\ Receive(w) /\ Head(writer_queues[w]).len > 0
    /\ job_count' = [job_count EXCEPT ![w] = @ - 1]

Room(w) == ChunkSize - writers[w].size
JobLen(w) == Head(writer_queues[w]).len
NearEnd(w) == Room(w) < Ahead * JobLen(w)
WithJob(w) == [writers[w] EXCEPT !.pc = "write", !.job = Head(writer_queues[w])]

\* room for this block, and no need to ask for another file, or asked already
TakeFits(w) ==
    /\ TakeJob(w) /\ Room(w) >= JobLen(w)
    /\ ~NearEnd(w) \/ writers[w].asked
    /\ Set(w, WithJob(w))
    /\ UNCHANGED <<state, slots, recVars, mgr, mgr_queue, pool, files, metaVars, runs>>

TakeAsks(w) ==
    /\ TakeJob(w) /\ Room(w) >= JobLen(w) /\ NearEnd(w) /\ ~writers[w].asked
    /\ pool > 0 /\ pool' = pool - 1
    /\ mgr_queue' = Append(mgr_queue, [type |-> "handle", writer |-> w, file |-> None,
                                       num |-> writers[w].num])
    /\ Set(w, [WithJob(w) EXCEPT !.asked = TRUE])
    /\ UNCHANGED <<state, slots, recVars, mgr, files, metaVars, runs>>

\* mutant: the count of frames stays
SwitchedKeepingCount(w) == [WithJob(w) EXCEPT
    !.file = writers[w].next, !.num = writers[w].nextNum, !.next = None,
    !.size = 0, !.asked = FALSE]

\* the writer with its next file
Switched(w) == [WithJob(w) EXCEPT
    !.file = writers[w].next, !.num = writers[w].nextNum, !.next = None,
    !.frames = 0, !.size = 0, !.asked = FALSE]

\* no room: the manager is to close the file, and the next one takes its place
TakeSwitches(w) ==
    /\ TakeJob(w) /\ Room(w) < JobLen(w)
    /\ pool > 0 /\ pool' = pool - 1
    /\ mgr_queue' = Append(mgr_queue,
            [type |-> "close", writer |-> w, file |-> writers[w].file,
             num |-> writers[w].num, frames |-> writers[w].frames])
    /\ IF writers[w].next = None
       THEN /\ Set(w, [WithJob(w) EXCEPT !.pc = "close", !.error = "file"])
            /\ state' = "finishing"
       ELSE Set(w, Switched(w)) /\ UNCHANGED state
    /\ UNCHANGED <<slots, recVars, mgr, files, metaVars, runs>>

FramesOf(j) == [i \in 1..j.len |-> slots[j.start + i - 1].frame]

\* the job goes back to the manager
WriteBlock(w) ==
    LET job == writers[w].job IN
    /\ writers[w].pc = "write"
    /\ files' = [files EXCEPT ![writers[w].file].data = @ \o FramesOf(job)]
    /\ mgr_queue' = Append(mgr_queue, job)
    /\ Set(w, [writers[w] EXCEPT !.pc = "take", !.job = NoJob,
                  !.size = @ + job.len, !.frames = @ + job.len])
    /\ UNCHANGED <<state, slots, recVars, mgr, writer_queues, pool, job_count,
                   metaVars, runs>>

\* the card is full: as much of the block as still fits is written, and not
\* counted; the job stays with the writer, which ends
WriteFails(w) ==
    LET job == writers[w].job IN
    /\ writers[w].pc = "write" /\ "card" \in Failures
    /\ \E n \in 0..job.len : files' = [files EXCEPT
            ![writers[w].file].data = @ \o SubSeq(FramesOf(job), 1, n)]
    /\ state' = "finishing"
    /\ Set(w, [writers[w] EXCEPT !.pc = "close", !.error = "card"])
    /\ UNCHANGED <<slots, recVars, mgr, mgr_queue, writer_queues, pool, job_count,
                   metaVars, runs>>

\* mutant: after an error the header is not written
CloseFileIfWell(w) ==
    /\ writers[w].pc = "close"
    /\ files' = IF writers[w].error # "no" THEN files
                ELSE Closed(writers[w].file, writers[w].num, writers[w].frames)
    /\ Set(w, [writers[w] EXCEPT !.pc = "off"])
    /\ UNCHANGED <<state, slots, recVars, mgr, mgr_queue, writer_queues, pool,
                   job_count, metaVars, runs>>

CloseFile(w) ==
    /\ writers[w].pc = "close"
    /\ files' = IF writers[w].file = None THEN files
                ELSE Closed(writers[w].file, writers[w].num, writers[w].frames)
    /\ Set(w, [writers[w] EXCEPT !.pc = "off"])
    /\ UNCHANGED <<state, slots, recVars, mgr, mgr_queue, writer_queues, pool,
                   job_count, metaVars, runs>>

-----------------------------------------------------------------------------
Manager == \/ Prepare \/ OpenFiles \/ Begin \/ MgrLoop \/ FillQueue
           \/ NothingReturned \/ WriteReturned \/ HandleWanted \/ CloseWanted
           \/ Stopping \/ Drain \/ AbortWriters \/ Flush \/ CleanUp
Writer(w) == \/ NextHandle(w) \/ TakeAbort(w) \/ TakeFits(w) \/ TakeAsks(w)
             \/ TakeSwitches(w) \/ WriteBlock(w) \/ WriteFails(w) \/ CloseFile(w)
Camera == VsyncBusy \/ SettingsChanged \/ CaptureFrame \/ SkipFrame

Next == \/ Manager \/ (\E w \in Writers : Writer(w))
        \/ Camera \/ DmaDone \/ TakeSlot \/ ReleaseSlot \/ PressRec

Spec == Init /\ [][Next]_vars

\* tasks that can run do, and EDMAC copies end
Fairness == /\ WF_vars(Manager) /\ \A w \in Writers : WF_vars(Writer(w))
            /\ WF_vars(DmaDone)
FairSpec == Spec /\ Fairness
\* ... and mlv_snd goes on
SoundFairSpec == FairSpec /\ WF_vars(TakeSlot \/ ReleaseSlot)

-----------------------------------------------------------------------------
(* Properties.                                                             *)

\* Every variable has a value of its type; a file is never larger than it may be.
TypeOK ==
    /\ state \in {"idle", "preparing", "recording", "finishing"}
    /\ slots \in [Slots -> [st : Statuses, frame : 0..MaxFrames]]
    /\ frame_count \in 0..MaxFrames + 1 /\ frame_skips \in BOOLEAN
    /\ capture_slot \in Slots \cup {None} /\ meta \subseteq Slots
    /\ pool \in 0..NJobs
    /\ \A w \in Writers : /\ job_count[w] \in -1..1
                          /\ writers[w].size \in 0..ChunkSize
                          /\ Alive(w) => writers[w].file \in 1..Len(files)

\* every job there is: waiting, in a writer's hands, or on its way back
Jobs == writer_queues[0] \o writer_queues[1] \o mgr_queue \o <<mgr.job>>
            \o [i \in 1..NWriters |-> writers[i - 1].job]

\* The slots being written are those of the write jobs, and no two jobs share
\* one: the manager frees what a job names without looking at the status, so
\* frames are safe only if the vsync handler, the modules and the other writer
\* keep off these slots.
JobsOwnSlots ==
    Recording =>
    /\ {s \in Slots : slots[s].st = "writing"}
          = UNION {JobSlots(Jobs[i]) : i \in DOMAIN Jobs}
    /\ \A i, j \in DOMAIN Jobs :
          i # j => JobSlots(Jobs[i]) \cap JobSlots(Jobs[j]) = {}

\* how often a frame is in the files, and the slots that hold it
Places == UNION {{<<i, k>> : k \in DOMAIN files[i].data} : i \in DOMAIN files}
Copies(f) == Cardinality({p \in Places : files[p[1]].data[p[2]] = f})
Holding(f, sts) == {s \in Slots : slots[s].frame = f /\ slots[s].st \in sts}

\* Frames are written in any order and by any writer, but each exactly once:
\* one that is not in a file is in one slot that will be or is being written,
\* one that is in a file waits nowhere.
FrameOnce ==
    Recording =>
    \A f \in 1..frame_count - 1 :
        \/ Copies(f) = 0 /\ Cardinality(Holding(f, {"full", "writing"})) = 1
        \/ Copies(f) = 1 /\ Holding(f, {"full"}) = {}

\* When a recording ends without a failure, frames may be missing at its end
\* only: those captured between the last look at the slots and the end of the
\* main loop.
Failed == \E w \in Writers : writers[w].error # "no"
NoGaps ==
    mgr.pc = "cleanup" /\ ~Failed =>
        \A f, g \in 1..frame_count - 1 : f < g /\ Copies(g) = 1 => Copies(f) = 1

\* A file is closed once, and its header then tells how many slots it holds,
\* however late the manager gets to it; only the block that did not fit on the
\* card is not counted.  A writer that finds no next file closes the file that
\* it has asked the manager to close.
ClosedTwice(i) == \E w \in Writers : writers[w].error = "file" /\ writers[w].file = i
Uncounted(i) == {writers[w].job.len : w \in
                    {w \in Writers : writers[w].error = "card" /\ writers[w].file = i}}
HeadersCount == \A i \in DOMAIN files : files[i].closed > 0 =>
    /\ files[i].closed = 1 \/ (files[i].closed = 2 /\ ClosedTwice(i))
    /\ Len(files[i].data) - files[i].count \in 0 .. Max({0} \cup Uncounted(i))

\* At the end every file with data is kept and closed, or all writers gave up
\* while the manager had not seen the request to close it.
CloseLost(i) == \E k \in DOMAIN mgr_queue :
                    mgr_queue[k].type = "close" /\ mgr_queue[k].file = i
AllClosed == mgr.pc = "cleanup" /\ Threads = 0 =>
    \A i \in DOMAIN files : files[i].data # <<>> =>
        ~files[i].gone /\ (files[i].closed > 0 \/ (Failed /\ CloseLost(i)))

\* "This should never happen, as the main queue handler should take care of us"
\* (raw_writer_task): the next file is there when it is needed, unless it could
\* not be created.  That is so where Ahead blocks are more than all the slots: the
\* manager answers before it frees what was written after the question.  (Without
\* its first files a recording has no writers; these are the last recording's.)
FarAhead == Cardinality(Slots) < Ahead /\ 2 * Cardinality(Slots) <= ChunkSize
ChunkReady == FarAhead /\ mgr.pc # "dead" => \A w \in Writers : writers[w].error = "file" =>
                  \E i \in DOMAIN files : files[i].gone

\* Two writers, and the requests under way for them, never mean the same file.
FilesOf(w) == ({writers[w].file, writers[w].next}
    \cup {Jobs[i].file : i \in {k \in DOMAIN Jobs :
             Jobs[k].type \in {"handle", "close"} /\ Jobs[k].writer = w}}) \ {None}
FilesApart == Recording =>
    \A v, w \in Writers : v # w => FilesOf(v) \cap FilesOf(w) = {}

\* A recording that ends without a failure leaves nothing in the queues for the
\* next one.
QueuesFlushed == mgr.pc = "off" /\ ~Failed => \A q \in Queues : writer_queues[q] = <<>>

\* mlv.h: a file's header has "the ID within fileCount this file has".  It has
\* not: README.md, section 6.
FilesNumbered == \A i \in DOMAIN files : files[i].num = i - 1

\* Once the recording is to stop the recorder becomes idle: in any case when all
\* writers have given up, and else unless a slot is lost to a module that refused
\* a frame, or one of two writers gave up and the blocks it leaves are waited for,
\* or sound is recorded (see StoppingSent).
Lost == {s \in Slots : slots[s].st = "locked"} \ meta
StopEnds ==
    state = "finishing" /\ mgr.pc \notin {"prepare", "open", "begin", "dead"}
        ~> \/ state = "idle"
           \/ Threads # 0 /\ (Lost # {} \/ meta # {} \/ (NWriters = 2 /\ Failed))

\* mlv_rec_interface.h of the event STOPPING: "gets called when going to stop
\* recoding for whatever reason".  It is never sent when sound is recorded: the
\* main loop waits until no slot is in use, and mlv_snd, which waits for STOPPING,
\* keeps its slots.
StoppingSent == state = "finishing" /\ mgr.pc \in {"loop", "fill", "handle"}
                   ~> mgr.pc = "stopping" \/ Lost # {} \/ Failed

\* Every frame is in a file exactly once, or will be; at the end nothing is
\* missing between two frames unless something failed.
FramesKept == FrameOnce /\ NoGaps

\* The handshake about files: the next one is open when a writer needs it,
\* each is closed at the end, and no message about one is left over.
FilesKept == AllClosed /\ ChunkReady /\ QueuesFlushed

\* Two writers never work on the same slot, and never on the same file.
WritersApart == TypeOK /\ JobsOwnSlots /\ FilesApart
=============================================================================
