# Magic Lantern: TLA+ models of raw video recording

Magic Lantern is firmware that runs next to Canon's own on EOS cameras. Most of the repository talks
to hardware, draws, or holds constants of one camera. The part where tasks, interrupts and callbacks share
memory under time pressure is **raw video recording** (`src/modules/raw_video`), and this project models that:
the three recorders, the sound module that borrows memory from the main one, the files they write, the memory slots
are cut from, and the core's service that memory is borrowed from.

| module | what it is | source |
|---|---|---|
| `RawRecorder` | vsync handler, compression task, recording task, borrowed slots | `mlv_lite.c`, `wait_lv_frames` of `state-object.c` |
| `FramePipeline` | what the recorder promises about frames (abstract) | the same |
| `SlotMemory`, `MCSlotMemory` | how memory is cut into slots, slots that shrink and are put together again | `mlv_lite.c` |
| `ChunkFiles` | splitting a clip over several files | `write_frames`, `finish_chunk` of `mlv_lite.c` |
| `MlvSound` | sound: ASIF callback, writer task, event callbacks | `mlv_snd.c` |
| `MlvRec`, `MCMlvRec` | the older recorder: vsync handler, manager, writer tasks, job queues | `mlv_rec.c` |
| `RawVid` | the experimental recorder: pool of events, pusher, worker | `raw_vid/*.c` |
| `ExMem` | shooting and SRM memory, borrowed from the camera | `src/src/exmem.c` |
| `Subsequences` | what is left of a sequence when some elements are kept | |
| `RawRecorderProofs` (with `FramePipeline`), `ChunkFilesProofs`, `MlvSoundProofs`, `ExMemProofs`, `RawVidProofs`, `MlvRecProofs`, `MlvRecFrameProofs`, `SubsequencesProofs` | theorems | |

Paths below are relative to `src/modules/raw_video`, unless they start with `src/`.

## 1. The system and its parts

### Raw recorder (`mlv_lite/mlv_lite.c`)

State: `raw_recording_state`; frame slots (`slots[]`: address, size, frame number, status, `is_meta`);
`writing_queue`, a ring of slot indices; `compress_mq`; pre-recording counters; the file and its counts.

- `raw_rec_keypress_cbr` (GuiMainTask) starts and stops recordings and sets the pre-record trigger.
- `raw_rec_vsync_cbr` (LiveViewTask, once per frame) runs `process_frame`: picks a slot, queues it for saving
  *before* it is filled, and sends it to `compress_task`. With pre-recording it keeps frames by number, discards
  the oldest and queues all of them when triggered.
- `compress_task` compresses a frame into its slot, or starts an EDMAC copy, and marks the slot full.
- `raw_video_rec_task` sets up memory and file, takes groups of full slots that follow each other in memory,
  writes each group with one call, frees the slots, and flushes the rest when recording stops.
- `mlv_rec_get_free_slot` / `mlv_rec_release_slot` lend slots to other modules.

Hard: slots are queued before they are full; the vsync handler loops while it waits for other tasks; two scans
for a free slot run concurrently; the queue survives a recording; waiting for compression is a guess of two
frames; every exit of the recording task must leave slots, queue and modules as the next recording expects.
Correct when no slot is queued twice, lost, or saved before it is done; frames are saved in capture order
without a gap; and whatever fails, a recording that is being stopped ends.

### Chunk files (`write_frames`, `finish_chunk`)

State: the open file, `mlv_chunk`, `written_chunk`, `chunk_frame_count`, and `file_size_limit`, which outlives a
recording. Hard: the 4GB limit is learnt from a failed write, part of which may be in the file; the next file
may not be created, or not take its headers. Correct when the chunks, in the order of their numbers, hold the
frames in order, each header counts its frames, and every file is closed once.

### Sound (`mlv_snd/mlv_snd.c`)

State: `mlv_snd_state` (7 values, written by three tasks without a lock), queues of empty and filled blocks, the
two blocks ASIF knows of, counters. `mlv_snd_asif_in_cbr` runs when the audio hardware has filled a block;
`mlv_snd_writer` hands full slots to the recorder and asks for others; callbacks follow the recorder's events
STARTING, STARTED, STOPPING, STOPPED and BLOCK. Hard: stopping is a handshake of three parties with a timeout;
a slot must be released with its last block, by whoever gets to it; the recorder may have no slot to give.
Correct when the file holds all sound in order and says how much, and slots are returned before the recorder
frees their memory.

### Slot memory (`mlv_lite.c`: `setup_buffers` to `free_slot`)

State: the chunks of the two memory suites, the full-size buffer, `slots[]` with address and size, `valid_slot_count`.
`setup_buffers` cuts chunks into slots of one frame each, in groups one write can transfer. After compression
`shrink_slot` gives what is left of a slot to its successor, `free_slot` puts neighbours together again. Hard: a slot may be lent,
captured or written while memory moves past it. Correct when slots never overlap or leave their chunk, one in use
stays where it is, a free one holds a frame, and the count of these is right.

### Older recorder (`mlv_rec/mlv_rec.c`)

State: slots in groups of neighbours; queues of jobs from manager to writers and back; a pool of jobs; for each
writer its file, the next file and counts.

- `raw_rec_vsync_cbr` copies a frame into a slot that one of five `buffer_fill_method`s chooses.
- `raw_video_rec_task`, the manager, gives each writer the longest block of full slots, frees what comes back, and opens
  and closes files for the writers.
- `raw_writer_task`, one per card (two with card spanning), writes blocks; before its file is full it asks for the next one.

Hard: everything goes through queues, while slots are read and written by all tasks; the answer to a request comes
after work that was queued before; a writer may give up with a job in its hands; what the manager knows of the slots is one turn old;
the manager waits for slots that sound gives back when it hears from the manager.
Correct when each frame is in one file exactly once, files are closed with the right counts, and every way to stop ends.

### Experimental recorder (`raw_vid/event_pusher.c`, `worker.c`)

State: a pool of events, a queue of pointers to them, `prevent_recording`, two capture buffers the camera fills
in turn, two crop buffers with their frame counts. The vsync and key callbacks and short-lived stop tasks fill events; one worker
acts on them: it crops frames into a buffer with EDMAC and lets a `raw_write` task save a full buffer. Hard: stop and start
race with queued events, buffers are freed while a copy or a write may use them, an event refers to a buffer that the camera
overwrites. Correct when no event is lost or used by two, a buffer is saved when complete, and a worker that keeps up saves every frame.

### Shooting memory (`src/src/exmem.c`)

State: `alloc_sem`, `free_sem`, `shoot_full_suite`, `srm_buffers`, `srm_allocated`. Requests go to the camera's resource
manager and are answered by callback; one not answered in 100 ms is given up. The largest size is found by asking for more and more.
SRM memory comes in a few buffers that are allocated all at once, with the shutter locked. Hard: answers to requests that were given up; a
request that is left pending on purpose; a buffer used after it was freed, because "all memory is ours". Correct when every
suite has one owner, an answer goes to the request it is for, and all is given back.

### Other parts

`PROJECT.json` lists them all. Those with behaviour that deserves a model, and what would make them correct:

| part | state and operations | hard | correct when |
|---|---|---|---|
| card spanning of `mlv_lite.c` (second `raw_video_rec_task`) | two tasks take from one `writing_queue` | the head is set again after the write, outside the semaphore | each frame goes to one card |
| `mlv_rec_register_cbr` ... | table of callbacks without holes | unregistering while callbacks run | a callback registered is called, one removed is not |
| callback lists (`src/src/ml-cbr.c`) | sorted lists, node pools | removal and notification under one lock | a list stays a list |
| properties (`src/src/property.c`) | handlers, acknowledge flags | polling with a timeout | an acknowledgement belongs to the request |
| RPC between processors (`src/src/ml_rpc.c`) | one buffer, one flag | late replies, two callers | a caller gets its own reply |

Modules interact like this: the recorder calls registered callbacks with its events (in the recording task;
STARTED in the vsync handler; BLOCK from `finish_chunk`); sound calls back for slots; both post to queues of the
operating system; `ml-cbr` and the state object hooks deliver vsync and key events. All three recorders get their
memory from `exmem.c`.

## 2. Plan

Order: the recorder first, since everything else feeds it; then its borrowers and its files; then its memory; then
the other recorders and the services below them.

1. `FramePipeline`, `RawRecorder` with the refinement, type and safety theorems - **done**
2. `MlvSound`, `ChunkFiles` - **modelled, checked and proved**
3. `ExMem` - **modelled, checked, and proved** but for what the search for the largest suite finds; `SlotMemory` - **modelled and checked**
4. `RawVid` - **modelled, checked and proved**; `MlvRec` - **modelled, checked, and proved** for the first recording, and for later ones that find empty queues, as to the slots and files of the writers, the frames, the headers of the files, and the handshake about files
5. theorems left: `Disjoint` of `SlotMemory`
6. `RawSpanning` (two recording tasks over the queue), `MlvCallbacks` and `MlCbr` (tables and lists, with a reference definition: a set of
   registrations), `PropertyAck`, `MlRpc`

Abstract specifications worth stating: `FramePipeline` (done); an allocator whose answers match its requests for `ExMem`; a set
of registrations for the callback tables.

Composition: `RawRecorder` sees sound as "another module" that borrows slots, and assumes that it has
returned them when STOPPING returns (`held = {}` in `RecStopped`); `MlvSound` shows when that is so
(`SlotsReturnedIfFed`) and section 6 when it is not. `RawRecorder` takes `write_frames` for one step
that succeeds or fails; `ChunkFiles` is the inside of that step. `RawRecorder` takes the slots and their neighbourhood for
constants; `SlotMemory` is where they come from and how they change. `SlotMemory` takes chunks for constants; `ExMem` is who gives them.

## 3. How the models correspond to the code

Actions are the uninterrupted stretches of the code. `map` in `PROJECT.json` gives the lines of each definition.

**`RawRecorder`.** The vsync handler is never preempted by the tasks it shares data with, and they disable
interrupts where they touch that data, so one call is one step (`VsyncRecord`, `VsyncPreRecord`, ...). Where
`process_frame` or `pre_record_queue_frames` loop waiting, the handler is suspended in state `live`
(`VsyncQueueing`, `VsyncDiscarding`) and tasks run. `Snapshot`/`Commit` carry the handler's variables through the
nested calls, so that a step includes all of them. `compress_task` is `Compress` (a message has an age in vsyncs;
`MaxLag` says how late the task may be) and `EdmacDone`. The recording task goes from point to point
(`RecPoints`): a group is taken, written, and its slots freed one by one, with other tasks in between.
`content` and `stamp` are history: which frame a slot holds, in capture order. `file` and `declared` are what is on
the card and in the headers.

What is merged or cut: `mlv_rec_get_free_slot` (`ModuleLocksSlot`) is one step, scan and mark together; REC cannot be pressed a second time before
the recording task has set RAW_PREPARING (`PressRecStart`; the code would create a second task); `RecSetup` always resets the slots (the early return of
`setup_buffers`, 1553, keeps them as they are: section 6); a frame always compresses into its slot (for one that does not, 2790-2803, the code sets `buffer_full`
and asserts).

Left out: slots that are resized (all have the full size; which of them are neighbours in memory is `Gaps`; see
`SlotMemory`), the allocation of buffers when idle, `mlv_rec_queue_block` (metadata blocks without slots), the second card, the H.264
proxy, and settings changed in mid-recording (the menu is locked). The size estimate that limits a group is
replaced by "any prefix of the contiguous slots".

**`MlvSound`.** One action per callback stretch and per step of the writer task. The recorder is `host`: it sends its
events, saves what is queued, and closes chunks. A slot is a row of `Blocks` blocks, each NULL or an AUDF block with
its number. Several writer tasks may exist, one per recording that created one, since a recording can leave one
behind. Assumed: the writer is at most `MaxBacklog` blocks behind ASIF (a block lasts 0.2 s); `mlv_snd_stop`, which
waits two seconds, gives up only if nothing is left that could end its wait; no recording starts while STOPPED is
being delivered. `trouble` records what went wrong in this recording: a slot was refused (`starved`), it ended
before its first frame (`early`), it began with state left over from the last one (`leftover`). The writer releases a slot and counts its blocks (422, 423)
in one step.

**`ChunkFiles`.** One action per path through `write_frames`. A frame takes two units, the limit is odd as 0xFFFFFFFF
is. A file is a sequence of frames, NULL blocks and torn blocks, with the count in its header. Calls on a file that
has been closed are taken to fail, and remembered in `onClosed`. A single stray byte, which the code does not
cover with a NULL block, is not distinguished from none.

**`SlotMemory`.** `Layout` is `setup_buffers` as a function from chunks to the table of slots; `Shrunk` and `Reallocated` are
`shrink_slot` and `free_slot` as functions from table to table. Both run with interrupts off, so that each is one step with whatever calls
it: `Compress`, `FreeSlot`, `Capture`, `Lend`, `Release`, `Measure` (the trial frame of `measure_compression_ratio`), `Start`, `End`, `Setup`,
`GiveUp`, `Realloc`. Memory is counted in blocks of the size frame sizes are rounded to. Assumed: chunks are not adjacent to each other. `Setup` leaves out single buffering of very large frames (1578), which takes no memory from the chunks, and
the return when there is no full-size buffer (1607), which cannot happen since Canon's buffer is the last resort.

**`MlvRec`.** The manager goes through its loop in steps (`MgrLoop`, `FillQueue` for each writer, one action for
each kind of returned job) with the other tasks in between; a writer takes a job, then writes it. A slot is one unit of size.
Groups and block sizes are constants, as are the methods; `Shortened` stands for the estimate of the writing speed.
Sound is what `mlv_snd` does with slots: it takes some when it hears STARTING (`Allocating`), hands one back when the last of its blocks is filled and
takes another (`ReleaseSlot`, `TakeSlot`), and gives back the rest at STOPPING or STOPPED (`SoundStops`, in `Stopping` and `CleanUp`). It always keeps the slot
that ASIF fills next: when no further block is there ASIF stops (mlv_snd.c:155) and what it filled last stays until STOPPED. Sound that starved is a matter of `MlvSound`.
Each search for a slot is one step with its check under `cli` and its retries (`NextCaptureSlot`, `TakeSlot`): what another task changes between scan and
check is not seen, and five lost races in a row, after which the code drops the frame, do not occur. `force_new_buffer` (2051), which the
rolling methods look at, is taken to be 0; the `skip_frames` at the start (2324) change nothing and are no step.
The number `HandleWanted` gives the new file is that of the file; the code writes the writer's number (3594), and in the end so does the model. Each file is a sequence of what its slots
held, with what its header says. `pool` counts the jobs that are free. Timing assumed: the copy of the last frame and the writers are done when the manager's
pauses at the end (250 and 500 ms) are over. Left out: blocks put into the padding of a frame (`mlv_rec_queue_block`), dummy files, debug blocks, shutdown,
writers that do not start. `buffer_fill_method` 3 behaves like 2 and is modelled so (its case falls through). A slot is full as soon as its copy is
started, here as in the code; a copy takes a part of a frame time.

**`RawVid`.** The vsync callback is one step; key callback, stop tasks, worker, EDMAC and the `raw_write` tasks are separate.
`get_empty_event` is one step since nobody waits while holding `events_sem` (its 2 s timeout cannot occur). The camera writes a captured frame into
the buffer of the last `raw_lv_redirect_edmac`, for one frame; `memory` says which frame a place of a crop buffer really holds, `Hole` if none.
`keepsUp` is chosen at the start: a worker that deals with each frame before the next vsync, or one that may be late. Reading through
`crop_buf` before it is tested (worker.c:267, tested at 282) is taken as dropping the frame. A copy or a `raw_write` task may go on with buffers that STOP has freed (458): the model
lets it, and no property speaks of it.

**`ExMem`.** One operation at a time (`op`, under `mem_sem`), in steps between which the manager, late callbacks and the shutter act.
External, and assumed: the manager answers requests in the order they came, each when its size is free, never with NULL; memory is not fragmented, so
a suite is one chunk; SRM buffers come and go one at a time. `Preempted` lets a timeout come between the test of `timed_out` in `allocCBR` and its answer
(98 to 111), or before line 181. The code does not prevent it; in the run it is off, since it does harm (section 6).

**`FramePipeline`.** Frames are numbers in capture order; they are kept, pending, or saved.

## 4. Runs

| run | module | checks | shows |
|---|---|---|---|
| `record` | RawRecorder | TypeOK, QueuedOnce, QueueHoldsFrames, NoSlotLost, CompressTargetValid, SavedWhole, ImplementsPipeline | lossless recording with a borrowed slot, twice |
| `prerecord` | RawRecorder | SavedInOrder, StopEnds, QueuedIsSaved | pre-recording, with and without half-shutter starting it over; stopping ends, queued frames are saved (liveness) |
| `modes` | RawRecorder | SlotsKept | every mode and every failure in one recording, without modules (with them: section 6) |
| `sound` | MlvSound | AudioInOrder, AudioKept, SlotsKept, StopsInTime | sound is complete, in order, counted; slots come back; the handshake ends |
| `chunks` | ChunkFiles | ChunksInSequence, ClipInOrder, HeadersCount, BlocksWhole | clips over several files with every failure |
| `slots` | MCSlotMemory | Disjoint, TableSound, GroupsSound, UsedStays | any order of captures, compressions, loans and writes |
| `exmem` | ExMem | SuitesKept, AnswersKept, DetectionSound, SrmSafe, FreedInOrder, OperationEnds | two clients, requests given up and answered late |
| `mlv_rec` | MCMlvRec | FramesKept, FilesKept, WritersApart, HeadersCount, StopEnds | two cards, several files, sound or none, every failure |
| `raw_vid` | RawVid | EventPool, CopySafe, SavedInOrder, LvPaired, StopEnds | two recordings with every failure |
| `discard` | RawRecorder | NoneInProgress | disagreement, section 6 |
| `mlv_rec_sound` | MCMlvRec | StoppingSent | disagreement, section 6 |
| `raw_vid_restart` | RawVid | ReenabledOnStart | disagreement, section 6 |

Several of these are conjunctions of named invariants, stated one by one in the module, of which sections 1, 3 and 6 speak:

| property | of | parts |
|---|---|---|
| `SlotsKept` | RawRecorder | QueuedOnce, NoSlotLost |
| `AudioKept`, `SlotsKept` | MlvSound | AudioComplete, AudioCounted; TypeOK, ReturnedIsDone, SlotsReturnedIfFed |
| `ChunksInSequence` | ChunkFiles | TypeOK, ChunksNumbered, NoneLeftOpen, ClosedIsClosed |
| `TableSound`, `GroupsSound` | SlotMemory | TypeOK, FreeIsWhole, ValidCounts; GroupsSplit, ChoosesLargest |
| `SuitesKept`, `AnswersKept` | ExMem | OneOwner, FullIsHeld; TypeOK, AnswerIsMine, MessagesLive |
| `DetectionSound`, `SrmSafe` | ExMem | Conserved, BackupServes, DetectedFits; SrmOneUser, SrmReturned, SrmNotStuck, NoJobMeanwhile |
| `FramesKept`, `FilesKept` | MlvRec | FrameOnce, NoGaps; AllClosed, ChunkReady, QueuesFlushed |
| `WritersApart` | MlvRec | TypeOK, JobsOwnSlots, FilesApart |
| `EventPool`, `CopySafe` | RawVid | TypeOK, QueueSound, PostSucceeds, EventsNotLost; OneCopy, FlushedAtRest, RoomKept |

**Bounds.** `record`, `prerecord`, `modes`: three slots are the least with a queue of two and one in compression; a gap before the third makes
groups that end early. Four slots with two pre-recorded frames let a slot be discarded while another is in compression and a third
queued. Two recordings are what it takes for state left over to matter. Four frames reuse
every slot. `MaxLag` 0 or 1: compression finishes within its frame or within the next one, which is what
`wait_lv_frames(2)` provides for. `prerecord` has 0, since with 1 it goes wrong: that is the run `discard`. `MaxSkip` 1 reaches the frames skipped at the start for sound.

`sound`: four slots, two of them borrowed at first, three blocks each so that a slot has a first, a middle and a last block,
seven blocks so that a third slot is begun. (The branch of STARTING that
finds a state other than IDLE needs three recordings: with NSlots = 3, Blocks = 2, MaxBacklog = 0, MaxFrames = 5 and MaxRuns = 3 the
properties hold over 7.3 million states; the listed run keeps to two.) `chunks`: a limit of 9 units with headers of 2 puts three frames in a file, so
eight frames fill three files, and groups of up to three straddle the limit in every way; the second recording
starts with `file_size_limit` set.

`slots`: three chunks, one with the full-size buffer in it, seven slots at most, groups of eight blocks, two frame sizes that fit differently; the table
has no other bound, so every sequence of operations is covered. `exmem`: memory for two of the suites asked for and one that must wait; two clients; the detection
asks up to four times; `MaxPending` 0 lets an operation start only when no request given up earlier is pending, apart from the one the detection leaves.

`mlv_rec`: two slots, one for the fast card and one for both, files of four slots, five frames: either writer may change files, or fail, at any moment of the other; with sound, which takes
both slots at first, hands one back and takes it again if no frame was quicker. `Ahead` is the code's 8. A copy that is not finished at the next vsync ends the recording at once (`MaxTimeouts` 0;
with 1 the properties hold as well, over 499 905 states). With a group of two slots and blocks of up to two (`Groups <- OneGroup`, `FastGroups = 0`, `MaxBlock <- BlockOf2`, `MaxFrames = 4`), where a part of a block may fit on the card, they
hold over 596 466 states, which takes three minutes. The wait for a file is what matters in `ChunkReady`: with one card, larger files (8 slots), blocks of up to three and
11 frames it holds as well; blocks of one size would make do with 4 instead of 8. It is stated where `Ahead` is more than the number of slots and a file holds them all twice (`FarAhead`, true in this run);
section 6 shows what happens otherwise. One recording is enough because `QueuesFlushed` says what the next one finds.
`StopEnds` leaves out a recording in which sound holds slots, which does not end unless all writers give up: `mlv_rec_sound` is about that, with three slots, of which sound has two.

`raw_vid`: three events (the code has more), so that a frame waits behind another and behind commands, and they run out; one stop task at a time, whose
command may be queued when the next task is created; crop buffers of one frame and four frames, so that both buffers are full when one more
comes; two recordings. The properties hold as well with `QLen = 2, BufFrames = 2, MaxFrames = 6, MaxStops = 2` (two stop tasks, buffers filled in part) and
with `QLen = 3, BufFrames = 2, MaxFrames = 6`; for the safety of events and copies section 5 has the proof for all sizes.

**Deadlock.** Most runs stop at their bounds, and a recorder at rest with no user is a legal end, so deadlock is not
checked there; `StopEnds` and `StopsInTime` say what must not hang. `exmem` and `slots` have no such end, and check it.

**Fairness.** Weak fairness of tasks that are ready: DryOS schedules them, and none is starved by one of higher priority that
never waits. `prerecord`: recording and compression task; `EdmacDone`, which is hardware; `LiveView`, since vsync comes
25 to 60 times a second while LiveView is on (leaving it, `"lv"`, is not among the failures there); `ModuleReleasesSlot`: `mlv_snd_stop` ends (StopsInTime).
`exmem`: the camera's manager, and the operation in progress as one task. `mlv_rec`: manager, writers, EDMAC; nothing of sound, so that nobody is assumed to give a slot back
(`mlv_rec_sound` assumes that sound goes on with its blocks, and the recording does not end all the same). `raw_vid`: worker and stop tasks only.
Nothing is assumed of the user, of the card, or of vsync in `mlv_rec` and `raw_vid`.

## 5. What is proved

All proofs hold for every value of the constants (any number of slots, any memory layout, any bounds), under the hypotheses named.
`theorems` in `PROJECT.json` lists the results.

### `RawRecorder`

- `TypeCorrect` (`RawRecorderProofs`): `Spec => []TypeOK`, in every mode with every failure. One lemma per
  activity, over three parts of the invariant.
- `QueuedOnceHolds`, `QueueHoldsFramesHolds`, `NoSlotLostHolds`, `CompressTargetHolds`, `SavedWholeHolds` (the same module),
  `SlotsKeptHolds`, `SavedInOrderHolds` and the refinement `RefinesPipeline` (second part of that module), under
  `PlainModes`: lossless output, no pre-recording, trigger 0, compression at most one vsync late. They say `Spec /\ [][NothingLeft]_vars => []P`, with every failure
  and any module.

`NothingLeft` is what the code takes for granted and does not see to, as a condition on single steps: no recording starts with slots in the queue that one that failed
has left there; `wait_lv_frames` does not give up while a frame is being compressed; set-up does not fail while a module holds a slot. So the theorems cover a
chunk that cannot be created, LiveView being left, and a start that fails, up to the step at which one of these does harm; the table below has the harm. In a first recording
without sound and with LiveView on, `NothingLeft` holds. `RefinesPipeline` also assumes `Emptied`, that a write that fails empties the queue, as it does when the card is full:
`FramePipeline` gives up everything that is pending at once.

None of these is inductive alone. That a slot is queued once needs to know that nobody chooses a slot in use, so
what status a queued slot, a written one and a borrowed one has; that needs the messages to `compress_task`, which
changes a status; those need the phase of the recording task, because its flush frees slots whatever their status
and relies on two vsyncs having passed. `IInv` is `TypeOK` and:
`Phases` (which recording state goes with which point of the recording task), `HeldInv` (borrowed slots are locked,
only while a recording runs), `MessagesInv` (messages name distinct slots being captured; after the first of the two
vsyncs all are old), `QueueInv` and `GroupInv` (distinct slots, with their statuses; empty when they should be),
`SlotsInv` (every slot in use is queued or being written), `SavedWhole`. The proof has a lemma per action that
disturbs any of it.

The order of the frames needs `OrderInv` besides: the counter of frames agrees with the number of captures (`CountInv`), a frame carries the number it
was captured with (`NumberInv`), and `LineInv`: until a write fails, the frames in the file followed by those in the slots of the group and of the queue
are all the captured ones, 1 to `stamp`. Every action makes one of six moves on that line (`Moves`: nothing changes, a recording begins, a frame
is captured, a group is saved, what is left is given up, or a group is given up and the queue stays), and each move but the last, which `Emptied` excludes, is an action of `FramePipeline`: this is the refinement, whose
abstract side is `PipelineInOrder` (part three of `RawRecorderProofs`: `Spec => []InOrder` of `FramePipeline` over variables of its own, from an invariant that adds that everything captured is at most `last`, and that
kept frames come after pending ones).

Each conjunct of `PlainModes` and of `NothingLeft` is needed, and TLC shows it with the constants changed accordingly:

| without | fails | because |
|---|---|---|
| lossless only | SavedWhole | a slot is marked full when its copy starts (section 6) |
| no pre-recording | QueuedOnce | with a module: its queued slot still carries a frame number, is taken for a kept frame and queued again, or discarded (mlv_lite.c:2446, 2476) |
| trigger 0 only | QueuedOnce | half-shutter leads to pre-recording, so the same; without modules both are covered by TLC (`prerecord`, `modes`) |
| `MaxLag <= 1` | CompressTargetValid | with 2, compression outlives `wait_lv_frames(2)` and its slot is freed |
| empty queue at the start (`"nochunk"`, two recordings) | QueueHoldsFrames | the queue is not emptied and greets the next recording |
| nothing in compression when `wait_lv_frames` gives up (`"lv"`) | CompressTargetValid | it gives up at once, and the slot in compression is freed |
| nothing lent when set-up fails (`"prepare"`, a module) | QueuedOnce | a borrowed slot outlives a start that is given up (section 6) |

### `ChunkFiles`

- `ChunksAreInSequence`, `BlocksAreWhole` (`ChunkFilesProofs`), for any limit, size of headers and of groups, and any failures. `ChunksNumbered`,
  `NoneLeftOpen` and `ClosedIsClosed` need to know that the task appends to the last chunk (`CurrentIsLast`), that a closed one is the current one
  only after a failed start of its successor, and what `mlv_chunk` counts (`Numbers`).
- `ClipIsInOrder`: `ClipInv` says that the frames in all the chunks, one after the other, are ascending and among those given so far (`Good`), and all of
  those if no call failed (`Complete`). What a write at the limit leaves of its group is covered by a NULL block before the group
  is written again, so only whole writes add to the clip.
- `HeadersAreRight`: `CountInv` says that a closed chunk declares the frames it holds and that `chunk_frame_count` is the number in the open one. A group that
  meets the limit is counted after the next chunk was started, not before: its count is reset by that start.

### `MlvSound`

- `AudioInOrderHolds`, whatever goes wrong but a recording that begins with what is left of another one or ends before its first frame;
- `AudioKeptHolds`, `SlotsKeptHolds`, `StopsInTimeHolds` under `InTime`, `MaxBacklog + 2 <= Blocks`: the writer is never behind by a slot less the two blocks
  that ASIF has. The code does not enforce it, but a block lasts 0.2 s and a slot of the size of a frame has room for dozens (256 at most). Without it ASIF can run out of empty blocks while
  the writer has a slot yet to ask for, and sound ends as if it were starved.

`Common` holds in every recording, also in one that began with a state or a writer left over: types, and which states go with which tasks (an ASIF that has blocks has a
writer that works, `STOP_TASK` means that ASIF has none). `Live` holds in a recording that began properly while its memory is there. Its core is `Kept`. The
blocks sound has form one line: the block the writer handles, the filled ones, the two ASIF knows of, the empty ones; and the line is the rest of one slot, from block `p`
on, followed by all of another (`Laid`). The slots handed back go on where the file ends, each holding consecutive blocks and then NULL blocks (`Chained`), and the line
goes on where they end (`Numbered`), so the number of a block follows from its place. `Books` adds the counters. Every step moves one block along the line, adds a slot at its end, or
takes one off its front. `LastBlock` says that a block ASIF has filled or will fill is left for the flush, so that the writer does not get to the end of what was recorded. `Ended` is what
remains of this when the slots are gone. `Fed` says that without trouble more than a slot is on the line until sound is stopped, so that ASIF always has a
next block to bring the handshake to its end.

### `ExMem`

- `SuitesAreKept`, `AnswersAreKept` (`ExMemProofs`) for any number of clients, sizes, and requests given up before, as `Spec /\ [][InTime]_vars => []P`: no request is given up between the test of `timed_out`
  in `allocCBR` (98) and the answer (111). The code does not exclude that, and section 6 shows what happens then; every other time-out is covered;
- `SrmIsSafe`, `FreedInOrderHolds`, whenever requests are given up.

`ShootInv`: the manager has a request once, and exactly one of those it has is not given up, the one waited for, and only until it is answered (`MsgInv`); a suite exists as long as
somebody will free it - a client, the answer waiting to be fetched, the manager about to give it back, the callback, the backup of the search, the suite under test - and nobody else will
(`OwnerInv`, the six excluding each other); a client has one suite, none while it asks (`HeldInv`). That a free suite and a free message can always be found is
counted: operations leave two requests behind at most (`RoomInv`), so that the owners are fewer than the names. `SrmInv` does the same for SRM buffers, whose
order of release is the order of their addresses.

### `RawVid`

- `EventsAreSound`, `CopiesAreSafe`, `RequestsArePaired` (`RawVidProofs`), for any length of the queue, size of the buffers, number of tries, stop tasks and
  recordings, any pace of the worker and any failures. Four parts, each preserved on its own or with those before it:
  - `EventInv`: nobody has an event that is empty, the worker and each stop task have one of their own, and an IMAGE_DATA event
    that nobody has is the only one, after which `count` is not 0 while frames come. A queue without repetition that lacks an event of the pool
    has a place (an injection into a smaller set), hence posting succeeds;
  - `SessionInv`: what each point of the worker knows of `recording_state`, the file, the buffers and the requests of raw mode;
  - `EndInv`: `prevent_recording` is set before a stop task looks for an event, so that no frame is queued behind a stop command, and none is left when the worker obeys it;
  - `BufferInv`: as long as there are frames, a buffer with a `raw_write` task is full and not the current one, so that the next frame
    goes elsewhere. After the end of a recording this no longer holds (the buffers are freed under the task) and is no longer needed, for no frame follows: that is `EndInv`.
- `FramesAreInOrder`, for a worker that keeps up, any moment at which the user stops and any failures. `OrderInv` adds where each frame is. While the file is
  open (`Flow`): one frame at most is on its way, with the number before the one of the frame the camera works on (`Captures`); the frames that left the queue
  all have a place, so that there are as many places as frames (`Numbers`); the buffer with a `raw_write` task goes on where the file ends (`Writing`), the
  current one where that buffer does (`Filling`). The last place of the current buffer is the weak spot: it is taken before its copy ends, and once frames are
  prevented the copy may bring nothing. No frame follows then, hence that buffer is never written (`Spent`: after the end the memories are empty).
  A vsync that finds no event would leave a number out: `PreparedInv` shows that this takes a stop command, for with nothing under way the
  only event not empty is that of the first vsync (`EventsInUse`).

### `MlvRec`

- `FirstRecordingApart` (`MlvRecProofs`): `Spec => []WritersApart` for `MaxRuns <= 1`, that is, in the first recording after start-up, with any groups, fill method,
  number of cards, sizes, modules and failures: the slots that are being written are those of the jobs there are, no two jobs share one, and no file is
  meant by two writers or by requests of two writers;
- `WritersStayApart`: `Spec /\ []StartsClean => []WritersApart`, the same for any number of recordings. `StartsClean` says that a recording finds empty queues. It is needed because a writer that gives up leaves its jobs in the queue and the flush is skipped (section 6): the next recording
  would write and free the slots these name. `FirstRecordingApart` is where it always holds, and is proved from the same invariant.

`IInv` has, besides types:
`FlowInv` (what the point the manager is at says of recording state, writers and copies: the slots are reset only while no writer runs, and when the queues are flushed no slot is being written);
`WriterInv` (a writer has a write job exactly while it writes or after it gave up, and room for it in its file);
`CountInv` (a block waits for a writer only if `writer_job_count` says so, and one at most);
`PoolInv` (all the jobs, wherever they are, are no more than the pool had);
`SlotInv`: each slot being written is named at exactly one of five places - the queue of either writer, the manager's queue, the manager's hands, a writer's hands - and each slot named is being written;
`FileInv`: the same for files, where a writer's current and next file and the requests under way count as places, and an answer is only ever in the queue of the writer that asked.
None is inductive alone: that a slot taken for a block is named nowhere needs `SlotInv` itself; that a job put back into the pool frees slots nobody else names needs its last clause; that a writer's
new file is not another's needs that file numbers only grow and every number under way has been opened.
Each move of a job from one place to another is one lemma over the places (`Holder`), and the lemma for an action names its move.

- `FirstHeadersRight` and `HeadersStayRight`: the same two statements about `HeadersCount`, that a closed file's header tells how many slots it holds and that a file is closed once
  (twice only by the writer that found no next file).

`HeadInv` adds to `IInv` what each party will say of a file. `CloseOrder`, `AnswerOrder`: the manager opens files in the order of their numbers, so a file a writer will get has a larger number
than its own, one it asked to have closed a smaller one, or its own if it gave up for want of a next file; no two requests are to close the same file. `FreshFiles`: a file that a writer has not got yet is empty.
`WriterCounts`: `frames` is what is in the writer's file, but for the part of a block that did not fit on the card. `CloseCounts`: a request to close has the number of slots that are in the file by the
time the manager gets to it, since nobody writes there any more. `Told`: what the headers of closed files say. The order of numbers is what makes this inductive: without it a writer might be given,
or be still writing, the file that a request waiting in the manager's queue counts.

- `FirstFramesKept` and `FramesStayKept` (`MlvRecFrameProofs`): the same two statements about `FramesKept`, that a frame is in the files exactly once or in one slot that will be written (`FrameOnce`), and that a recording
without a failure misses frames at its end only (`NoGaps`).

`KeepsFrames` adds to `IInv` where each frame is. `FrameInv`: a frame of this recording is in a file or in a slot (`NoneMissing`), in one place of the files (`WrittenOnce`) and in one slot (`HeldOnce`); the frame
of a slot that waits for a writer - full, in a writer's queue, in a writer's hands - is in no file (`NotYet`), and that of a slot on its way back to the manager is in one (`Already`), so that freeing the slots
of a returned job loses nothing. A writer whose card is full is the exception: its block may be in the file or not, and its slots count as neither.
`NoGaps` is about one moment, the end, and needs to know how the manager got there. `GapInv`: from the turn of the loop in which it found every slot free no slot is being written (`Calm`), so nothing more gets
into a file, and as long as no writer has failed the frames in the files have no gap (`Gapless`). That they have none at the start of that turn follows from `FrameInv`: all slots were free, hence every frame
counted by then was in a file. `EndInv` says that until the manager ends the writers no queue has an empty job, and only a writer that failed has ended.

- `FirstFilesKept` and `FilesStayKept` (`MlvRecFrameProofs`): the same two statements about `FilesKept`, that every file with data is on the card and closed at the end unless all writers gave up (`AllClosed`),
that the next file is there when a writer has no room for a block, unless it could not be created (`ChunkReady`), and that a recording without a failure leaves nothing in the queues (`QueuesFlushed`).

`KeepsFiles` adds what happens to files. `LeftInv`: once the writers have ended, the queues are empty if no writer failed. `GoneInv`: a file that is deleted had no data, and while
recording no file that a writer has, or will get, is gone. `CloseInv`: each file with data is closed, or a writer has it, or a request to close it is under way; behind each request that waits a block is on its way
back to the manager, whose slots are in use, so the main loop does not end before it has seen the request.
`ReadyInv` is why the wait for a file is long enough, under `FarAhead` and while no file is gone. A writer that has not asked has room for its block and for all the slots after it. One that asked and has no file
yet either has its question in the manager's queue, with so many slots in the places behind it that the rest of the file holds what can still come, or has the answer in its queue and the block before it fits.
It needs `SlotInv`, since blocks in different places are disjoint and all of them together no more than the slots, and `CountInv`, since one block only waits in a queue. It is the
argument the comment "this should never happen" takes for granted, and section 6 shows that it fails without `FarAhead`.

### `Subsequences`

`Keeping(q, S)` is `SelectSeq` stated without recursion, by the rank of each element that stays. `SubsequencesProofs` shows that it distributes over concatenation, what it does to one
element, and to one appended; the proofs above rest on that wherever frames are picked from blocks, in `RawRecorder`, `ChunkFiles` and `MlvSound`.

### Only model-checked

`DetectionSound` of `ExMem` (its first part is a sum, folded over the suites); everything in `SlotMemory`; pre-recording and
uncompressed output of `RawRecorder`. Out of the prover's reach and left to TLC: liveness under fairness (`StopEnds`,
`QueuedIsSaved`, `OperationEnds`), ENABLED, and induction over data (what a fold or the recursive layout of `SlotMemory` computes for every input).

## 6. Where the code and its documentation disagree

Three disagreements are kept as runs:

1. **Discarding too early** (`discard`, mlv_lite.c:2443). "At the moment of this call, there should be no slots in progress", and an assertion of it. `pre_record_discard_frame` is called for
   every frame once enough are kept, and when no slot is free, without a look at `compress_task`, which may take until the next vsync. It renumbers full slots only, so a frame still in
   compression keeps its number, and when the kept frames are queued the handler waits for a number that never comes (`LiveViewReturns` fails with `MaxLag = 1`).
2. **Second recording** (`raw_vid_restart`, `event_pusher.c:296`). "Consumer will re-enable recording when it is ready": it does so once, when it is
   initialised; after the first stop every frame is dropped.
3. **Recording with sound** (`mlv_rec_sound`, mlv_rec.c:3445). STOPPING is said to come when recording stops "for whatever reason". The main loop goes on while a slot is in use (3445), and a slot lent to
   `mlv_snd` is (3622-3629); STOPPING comes after the loop (3645). `mlv_snd` takes a new slot for each it hands back (mlv_snd.c:422-424), keeps the ones it has until STOPPING
   (566-576), and so both wait: a recording with sound does not end, unless the writers give up.

The following are found by TLC with the constants changed as described.

`RawRecorder` (from `RawRecorder_record.cfg`):

- **aborted start** (`Failures = {"prepare"}`, `QueuedOnce`, mlv_lite.c:3452). If the headers of the first chunk cannot be written, modules
  have been told STARTING but are never told STOPPING. A slot borrowed by then is still held in the next recording,
  chosen for a frame, and queued twice;
- **reused module slot** (`MetaIsNotVideo`, mlv_lite.c:3907). The final flush does not clear `is_meta`; a frame in this slot passes for a module's block in the next recording;
- **header counts** (`HeaderCountsFrames`, mlv_lite.c:3602). A module slot next to a group, but outside it, is subtracted from the
  frames of the group;
- **uncompressed frames** (`Outputs = {FALSE}`, `SavedWhole`, mlv_lite.c:2833). The comment at 2900 says the recording task waits until a
  frame is done; an uncompressed one counts as done when its copy starts;
- pre-recording with `MaxLag = 1`: `SavedInOrder`, `StopEnds` and `QueuedIsSaved` fail besides `LiveViewReturns`, for the reason given for `discard`;
- pre-recording with trigger 1 or 2: half-shutter may come while the handler waits, and `LiveViewReturns` and `QueuedIsSaved` fail with `MaxLag = 0` too;
- pre-recording with sound (`NSlots = 3`, `MaxMeta = 1`): `SavedInOrder`, `QueuedOnce` and `NoSlotLost` fail. `pre_record_discard_frame`
  and `pre_record_queue_frames` look at the status and the frame number of a slot and not at `is_meta`; a slot that
  held a frame, then sound, and waits in the queue is freed there, or queued a second time;
- half-shutter with LiveView left: a frame may be queued after the flush, and not saved; frames may also be written
  after a write that failed.

`MlvSound`:

- **starved sound** (`SlotsReturned`, mlv_snd.c:568). When sound ended because no slot was free, STOPPING returns without
  giving back the slots sound holds; their last blocks are lost;
- a writer task that an earlier recording left over sets STOPPED when another is already idle or ready (435): the next recording is silent.

`SlotMemory`:

- **too small** (`FrameSizes = {3, 8}`, `ConfigurationValid`, mlv_lite.c:1635). When less than two slots fit, `setup_buffers` has replaced the slots and leaves
  `configured_max_frame_size`; back at the old frame size "current configuration still valid, nothing to do" (1557) keeps the wrong slots;
- `measure_compression_ratio` leaves `slots[0]` full (2833): it is lost for the next recording, or taken for a frame by pre-recording;
- a slot that shrinks while its successor is in use loses the difference until buffers are set up again (2324); slots of full size that are freed return
  early, so that pieces next to them are not put together.

`ExMem`:

- **preempted callback** (`Preempted = TRUE`, `NoSuiteLost`, exmem.c:181). A timeout that comes after `allocCBR` has read `timed_out` (98) and before it answers: the
  suite is never freed, and the next request takes the stale count of `alloc_sem` for its own answer;
- freeing NULL waits for ever with `mem_sem` held; a second early return of `srm_alloc_internal` leaves the shutter locked (507); with a single SRM buffer
  `srm_allocated` remains set; a second client's request for everything overwrites `shoot_full_suite`, and the buffer used after it was freed stays in use when that suite is freed.

`MlvRec`:

- the request for the next file carries the writer's header, and the number of the file opened is not put into it (2999): all files of a writer but the first get the
  first one's number in the end, where `mlv.h:53` says fileNum is "the ID within fileCount this file has" (`FilesNumbered`, one card without failures, `MaxFrames = 5`);
- after a recording whose writer gave up, `goto cleanup` (3453) skips "make sure all queues are empty" (3730). With two recordings the next writer takes the stale
  job, its count of jobs wraps below zero (`job_count` is -1), and it is never given another: the recording does not end (`StopEnds` with one card, `MaxRuns = 2`, `MaxFrames = 2`, `SoundSlots = 0`, `Failures = {"card"}`);
- each NEXT_HANDLE job, and each end of a recording without card spanning (the job for the writer that is not there), is not returned to the pool; after 50 of
  them the next receive of a job waits for ever;
- a frame that a module's `skip_frame` callback refuses leaves its slot locked (2289): the recording has a slot less and does not end (left out of `StopEnds` by `Lost`);
- with two writers, one that gives up leaves slots that are being written, and the manager waits for them for ever (also left out);
- "this should never happen" (2863): a writer comes to the end of its file and the next one is not there. It asks when eight blocks *as long as the one in its hands* would not fit; after short
  blocks come long ones, and the manager fills the queues before it opens the file. It happens with a group of eight slots, blocks of up to four and files of eight slots (`ChunkReady` without `FarAhead`, `MaxFrames = 9`);
- in that case the writer has already asked for its file to be closed (2844), and closes it again when it gives up (3012): one `FIO_CloseFile` too many on a handle (`HeadersCount` allows for it by `ClosedTwice`);
- a request to close a file is lost when all writers have given up; the file opened ahead stays open at the end; the block that
  did not fit is partly in the file and not counted (`HeadersCount` allows for it);
- the files cannot be opened (3409), or threads do not start (3433): the task returns and the state stays RAW_PREPARING;
- frames captured between the last count of used slots and the end of the loop are not written (`NoGaps` allows for it).

`RawVid`:

- a worker that is late saves frames that were overwritten meanwhile, where `raw_vid.h:10` expects dropped ones;
- the first vsync takes an event without posting it; if it finds none, the next one posts a frame that was not captured;
- a start that fails at the file name keeps the crop buffers and LiveView's raw mode, so that no later start is accepted;
- the events and copies are sound in a second recording only because it gets no frames. If `StartRecords` reset `prevent_recording`, as the comment intends, `CopySafe`
  would fail (a `raw_write` task of the last recording may wait when the next one's frames are copied) and so would `EventPool` (every recording loses
  the event of its first vsync);
- STOP closes the file and frees the buffers while a `raw_write` task may use them; a late second STOP ends a recording that has just begun.

## 7. Not modelled

See the components marked `not_modelled` in `PROJECT.json`, each with its reason: user interface and drawing, camera
control by trial and delay, register tables, file formats, vendored interpreters and compilers, installers. The parts
listed in section 1 under "Other parts" are planned (section 2). What the modelled parts leave out is in section 3.

## 8. Running it

    tlc -workers 2 -config RawRecorder_record.cfg RawRecorder
    tlapm RawRecorderProofs.tla

`raw_vid`, `modes`, `prerecord` and `mlv_rec` take one to three minutes with two workers; the others take seconds.
The proofs of a module take two to five minutes from nothing.
