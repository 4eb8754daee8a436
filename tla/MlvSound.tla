------------------------------ MODULE MlvSound ------------------------------
(***************************************************************************)
(* The sound module modules/raw_video/mlv_snd/mlv_snd.c.  It borrows two   *)
(* slots from the raw recorder at a time and divides each into blocks that *)
(* the audio hardware (ASIF) fills; a full slot is handed back, to be      *)
(* written to the file, and another one is borrowed.                       *)
(*                                                                         *)
(*   asif      mlv_snd_asif_in_cbr, when the hardware has filled a block;  *)
(*   writer    mlv_snd_writer, the task that hands full slots back;        *)
(*   host      the recorder as this module sees it: its events STARTING,   *)
(*             STARTED, STOPPING and STOPPED run the callbacks below in    *)
(*             the task that sends them.  The rest of the recorder is in   *)
(*             RawRecorder, which calls this module "another module".      *)
(*                                                                         *)
(* mlv_snd_stop waits two seconds at most.  A block lasts 0.2 seconds, so  *)
(* it is taken to give up only when nothing is left that could end the     *)
(* wait.  Definitions marked "mutant" are slips nothing else uses.         *)
(***************************************************************************)
EXTENDS Integers, Sequences, FiniteSets, Subsequences

CONSTANTS
    NSlots,       \* slots of the recorder
    Blocks,       \* blocks in a slot (MLV_SND_BLOCKS_PER_SLOT, or what fits)
    MaxBacklog,   \* blocks the writer may be behind when ASIF finishes one
    Troubles,     \* which of the troubles below the environment may produce
    MaxFrames,    \* bound: blocks filled in one recording
    MaxRuns       \* bound: recordings

TroubleKinds == {"starved",  \* no slot of the recorder is free when asked
                 "early"}    \* the recording ends before its first frame

ASSUME SizeAssumption  == /\ NSlots \in Nat /\ NSlots >= 2
                          /\ Blocks \in Nat \ {0}
ASSUME SoundAssumption == /\ Troubles \subseteq TroubleKinds
                          /\ {MaxBacklog, MaxFrames, MaxRuns} \subseteq Nat

VARIABLES
    state,         \* mlv_snd_state
    empty, done,   \* mlv_snd_buffers_empty, mlv_snd_buffers_done
    current, next, \* mlv_snd_current_buffer, mlv_snd_next_buffer
    frameNumber,   \* mlv_snd_frame_number
    framesQueued,  \* mlv_snd_frames_queued
    framesSaved,   \* mlv_snd_frames_saved
    writer,        \* where each writer task is; one is created per recording
    hand,          \* the block it handles
    host,          \* where the recorder is
    memory,        \* the slots are allocated
    owner,         \* who has a slot: free, sound, or queued to be written
    queue,         \* slots handed back and not yet written
    block,         \* block[s][b]: 0 for a NULL block, n for AUDF number n - 1
    audio,         \* the AUDF blocks written, in the same notation
    declared,      \* sum of audioFrameCount over the chunk headers
    trouble,       \* what went wrong in this recording
    runs

asifVars  == <<current, next, frameNumber>>
countVars == <<framesQueued, framesSaved>>
taskVars  == <<writer, hand>>
slotVars  == <<owner, queue, block>>
fileVars  == <<audio, declared>>
vars == <<state, empty, done, asifVars, countVars, taskVars, host, memory,
          slotVars, fileVars, trouble, runs>>

Slots     == 1..NSlots
Tasks     == 1..MaxRuns
States    == {"IDLE", "READY", "RUNNING", "STOPPING", "STOP_ASIF", "STOP_TASK",
              "STOPPED"}
NoEntry   == [slot |-> 0, block |-> 0, frame |-> 0]
EntryType == [slot : 0..NSlots, block : 0..Blocks, frame : Nat]
IsEndEarly(e) == e.block >= Blocks - 1                                  \* mutant

(* mlv_slot_end *)
IsEnd(e) == e.block = Blocks

(* mlv_snd_queue_slot *)
Entries(s) == [b \in 1..Blocks |-> [slot |-> s, block |-> b, frame |-> 0]]
NullBlocks == [b \in 1..Blocks |-> 0]
FreeSlots  == {s \in Slots : memory /\ owner[s] = "free"}

(* mlv_rec_release_slot(slot, 1), once e is handled, if e ends its slot *)
Releases(e) == IsEnd(e) /\ memory
ReleaseOf(e) ==
    /\ owner' = IF Releases(e) THEN [owner EXCEPT ![e.slot] = "queued"] ELSE owner
    /\ queue' = IF Releases(e) THEN Append(queue, e.slot) ELSE queue

Init ==
    /\ state = "IDLE" /\ host = "idle" /\ memory = FALSE
    /\ empty = <<>> /\ done = <<>> /\ current = NoEntry /\ next = NoEntry
    /\ frameNumber = 0 /\ framesQueued = 0 /\ framesSaved = 0
    /\ writer = [w \in Tasks |-> "none"] /\ hand = [w \in Tasks |-> NoEntry]
    /\ owner = [s \in Slots |-> "free"] /\ queue = <<>>
    /\ block = [s \in Slots |-> NullBlocks]
    /\ audio = <<>> /\ declared = 0 /\ trouble = {} /\ runs = 0

-----------------------------------------------------------------------------
(* The events of the recorder                                              *)

ResetCounters ==
    frameNumber' = 0 /\ framesQueued' = 0 /\ framesSaved' = 0

(* The last recording has left a writer behind, or a state it had set. *)
LeftOver == state # "IDLE" \/ \E w \in Tasks : writer[w] # "none"

(* STARTING: the slots have just been set up.  mlv_snd_cbr_starting creates
   the writer task and queues the first two slots. *)
Starting ==
    /\ host = "idle" /\ runs < MaxRuns
    /\ host' = "preparing" /\ runs' = runs + 1
    /\ memory' = TRUE /\ queue' = <<>> /\ audio' = <<>> /\ declared' = 0
    /\ trouble' = IF LeftOver THEN {"leftover"} ELSE {}
    /\ IF state = "IDLE"
       THEN /\ state' = "READY"
            /\ writer' = [writer EXCEPT ![runs + 1] = "loop"]
            /\ owner' = [s \in Slots |-> IF s <= 2 THEN "sound" ELSE "free"]
            /\ block' = [s \in Slots |-> IF s <= 2 THEN NullBlocks ELSE block[s]]
            /\ empty' = empty \o Entries(1) \o Entries(2)
            /\ ResetCounters
       ELSE /\ owner' = [s \in Slots |-> "free"]
            /\ UNCHANGED <<state, writer, block, empty, frameNumber, countVars>>
    /\ UNCHANGED <<done, current, next, hand>>

Enabled ==
    /\ host = "preparing"
    /\ host' = "recording"
    /\ UNCHANGED <<state, empty, done, asifVars, countVars, taskVars, memory,
                   slotVars, fileVars, trouble, runs>>

(* The file headers cannot be written: no STOPPING is sent. *)
Aborted ==
    /\ host = "preparing" /\ "early" \in Troubles
    /\ host' = "freed" /\ memory' = FALSE
    /\ trouble' = trouble \cup {"early"}
    /\ UNCHANGED <<state, empty, done, asifVars, countVars, taskVars, slotVars,
                   fileVars, runs>>

(* STARTED, in the vsync handler of the first frame *)
Started ==
    /\ host = "recording" /\ state = "READY"
    /\ Len(empty) >= 2
    /\ current' = empty[1] /\ next' = empty[2]
    /\ empty' = SubSeq(empty, 3, Len(empty))
    /\ state' = "RUNNING"
    /\ UNCHANGED <<done, frameNumber, countVars, taskVars, host, memory, slotVars,
                   fileVars, trouble, runs>>

(* STOPPING: mlv_snd_cbr_stopping calls mlv_snd_stop if sound is running. *)
Stopping ==
    /\ host = "recording"
    /\ state = "READY" => "early" \in Troubles
    /\ host' = IF state = "RUNNING" THEN "stopping" ELSE "saving"
    /\ trouble' = IF state = "READY" THEN trouble \cup {"early"} ELSE trouble
    /\ UNCHANGED <<state, empty, done, asifVars, countVars, taskVars, memory,
                   slotVars, fileVars, runs>>

(* STOPPED, once the slots are gone: whatever is not stopped yet is now. *)
Stopped ==
    /\ host = "freed"
    /\ host' = IF state = "IDLE" THEN "idle" ELSE "stopping"
    /\ UNCHANGED <<state, empty, done, asifVars, countVars, taskVars, memory,
                   slotVars, fileVars, trouble, runs>>

-----------------------------------------------------------------------------
(* mlv_snd_stop                                                            *)

StopBegins ==
    /\ host = "stopping"
    /\ state' = "STOPPING" /\ host' = "waiting"
    /\ UNCHANGED <<empty, done, asifVars, countVars, taskVars, memory, slotVars,
                   fileVars, trouble, runs>>

(* Nothing will change the state any more: ASIF is off, and the writers, if
   any, only look at a state that tells them to go on waiting. *)
GivesUp == /\ current = NoEntry /\ state \in {"STOPPING", "STOP_ASIF"}
           /\ \A w \in Tasks : writer[w] \in {"none", "loop"}

StopWaited ==
    /\ host = "waiting"
    /\ state = "STOPPED" \/ GivesUp
    /\ host' = "flushing"
    /\ UNCHANGED <<state, empty, done, asifVars, countVars, taskVars, memory,
                   slotVars, fileVars, trouble, runs>>

Larger(a, b) == IF a > b THEN a ELSE b

FlushDone ==
    /\ host = "flushing" /\ done # <<>>
    /\ LET e == Head(done) IN
          /\ block' = IF memory THEN [block EXCEPT ![e.slot][e.block] = e.frame + 1]
                      ELSE block
          /\ framesQueued' = Larger(framesQueued, e.frame + 1)
          /\ ReleaseOf(e)
    /\ done' = Tail(done)
    /\ UNCHANGED <<state, empty, asifVars, framesSaved, taskVars, host, memory, fileVars,
                   trouble, runs>>

FlushEmpty ==
    /\ host = "flushing" /\ done = <<>> /\ empty # <<>>
    /\ LET e == Head(empty) IN
          /\ block' = IF memory THEN [block EXCEPT ![e.slot][e.block] = 0] ELSE block
          /\ ReleaseOf(e)
    /\ empty' = Tail(empty)
    /\ UNCHANGED <<state, done, asifVars, countVars, taskVars, host, memory, fileVars,
                   trouble, runs>>

NothingLeft     == done = <<>> /\ empty = <<>>

StopReturns ==
    /\ host = "flushing" /\ NothingLeft
    /\ state' = "IDLE"
    /\ host' = IF memory THEN "saving" ELSE "idle"
    /\ UNCHANGED <<empty, done, asifVars, countVars, taskVars, memory, slotVars,
                   fileVars, trouble, runs>>

-----------------------------------------------------------------------------
(* mlv_snd_asif_in_cbr                                                     *)

Backlog == Len(done) + Cardinality({w \in Tasks : writer[w] \in {"handling", "requeueing"}})

AfterBlockAtOnce(st) ==                                                 \* mutant
    CASE st = "STOPPING"  -> "STOP_TASK"
      [] st = "STOP_ASIF" -> "STOP_TASK"
      [] OTHER            -> st

AfterBlockNeverEnds(st) == IF st = "STOPPING" THEN "STOP_ASIF" ELSE st  \* mutant

(* How the state goes on while sound is being stopped *)
AfterBlock(st) ==
    CASE st = "STOPPING"  -> "STOP_ASIF"
      [] st = "STOP_ASIF" -> "STOP_TASK"
      [] OTHER            -> st

AsifBlockFilled ==
    /\ current # NoEntry
    /\ state = "RUNNING" => Backlog <= MaxBacklog /\ frameNumber < MaxFrames
    /\ done' = Append(done, [current EXCEPT !.frame = frameNumber])
    /\ frameNumber' = frameNumber + 1
    /\ current' = next
    /\ IF state = "RUNNING" /\ empty # <<>>
       THEN /\ next' = Head(empty) /\ empty' = Tail(empty)
            /\ UNCHANGED state
       ELSE /\ next' = NoEntry
            /\ state' = IF state = "RUNNING" THEN "STOP_ASIF" ELSE AfterBlock(state)
            /\ UNCHANGED empty
    /\ UNCHANGED <<countVars, taskVars, host, memory, slotVars, fileVars, trouble, runs>>

-----------------------------------------------------------------------------
(* mlv_snd_writer                                                          *)

WriterLooks(w) ==
    /\ writer[w] = "loop"
    /\ \/ state = "RUNNING" /\ writer' = [writer EXCEPT ![w] = "receiving"]
       \/ state = "STOP_TASK" /\ writer' = [writer EXCEPT ![w] = "exiting"]
    /\ UNCHANGED <<state, empty, done, asifVars, countVars, hand, host, memory, slotVars,
                   fileVars, trouble, runs>>

WriterReceives(w) ==
    /\ writer[w] = "receiving"
    /\ IF done = <<>>                                      \* timed out
       THEN /\ writer' = [writer EXCEPT ![w] = "loop"]
            /\ UNCHANGED <<hand, done>>
       ELSE /\ writer' = [writer EXCEPT ![w] = "handling"]
            /\ hand' = [hand EXCEPT ![w] = Head(done)]
            /\ done' = Tail(done)
    /\ UNCHANGED <<state, empty, asifVars, countVars, host, memory, slotVars, fileVars,
                   trouble, runs>>

(* mlv_snd_frames_queued after block e is handed over *)
CountThrough(e) == e.frame + 1

WriterHandles(w) ==
    /\ writer[w] = "handling"
    /\ LET e == hand[w] IN
          /\ block' = IF memory THEN [block EXCEPT ![e.slot][e.block] = e.frame + 1]
                      ELSE block
          /\ framesQueued' = IF IsEnd(e) THEN CountThrough(e) ELSE framesQueued
          /\ ReleaseOf(e)
          /\ writer' = [writer EXCEPT ![w] = IF IsEnd(e) THEN "requeueing" ELSE "loop"]
    /\ hand' = [hand EXCEPT ![w] = NoEntry]
    /\ UNCHANGED <<state, empty, done, asifVars, framesSaved, host, memory, fileVars,
                   trouble, runs>>

(* mlv_snd_queue_slot again, with the first free slot if there is one *)
WriterRequeues(w) ==
    /\ writer[w] = "requeueing"
    /\ \/ \E s \in FreeSlots :
             /\ \A t \in FreeSlots : s <= t
             /\ owner' = [owner EXCEPT ![s] = "sound"]
             /\ block' = [block EXCEPT ![s] = NullBlocks]
             /\ empty' = empty \o Entries(s)
             /\ UNCHANGED trouble
       \/ /\ "starved" \in Troubles \/ ~memory
          /\ trouble' = trouble \cup {"starved"}
          /\ UNCHANGED <<owner, block, empty>>
    /\ writer' = [writer EXCEPT ![w] = "loop"]
    /\ UNCHANGED <<state, done, asifVars, countVars, hand, host, memory, queue, fileVars,
                   runs>>

WriterExits(w) ==
    /\ writer[w] = "exiting"
    /\ state' = "STOPPED"
    /\ writer' = [writer EXCEPT ![w] = "none"]
    /\ UNCHANGED <<empty, done, asifVars, countVars, hand, host, memory, slotVars,
                   fileVars, trouble, runs>>

Writer == \E w \in Tasks : \/ WriterLooks(w) \/ WriterReceives(w) \/ WriterHandles(w)
                           \/ WriterRequeues(w) \/ WriterExits(w)

-----------------------------------------------------------------------------
(* What the recorder does with the slots and with the file                 *)

HostSaves ==
    /\ queue # <<>> /\ host \in {"recording", "stopping", "waiting", "flushing", "saving"}
    /\ memory
    /\ audio' = audio \o Keeping(block[Head(queue)], Nat \ {0})
    /\ owner' = [owner EXCEPT ![Head(queue)] = "free"]
    /\ queue' = Tail(queue)
    /\ UNCHANGED <<state, empty, done, asifVars, countVars, taskVars, host, memory, block,
                   declared, trouble, runs>>

(* mlv_snd_cbr_mlv_block, for the header of a chunk that is complete *)
CountChunk ==
    IF state = "READY"
    THEN UNCHANGED <<declared, framesSaved>>
    ELSE /\ declared' = declared + (framesQueued - framesSaved)
         /\ framesSaved' = framesQueued

(* The file reaches its 4GB limit. *)
HostNextChunk ==
    /\ host = "recording" /\ framesQueued # framesSaved
    /\ CountChunk
    /\ UNCHANGED <<state, empty, done, asifVars, framesQueued, taskVars, host, memory,
                   slotVars, audio, trouble, runs>>

HostFinishes ==
    /\ host = "saving" /\ queue = <<>>
    /\ CountChunk
    /\ memory' = FALSE /\ host' = "freed"
    /\ UNCHANGED <<state, empty, done, asifVars, framesQueued, taskVars, slotVars, audio,
                   trouble, runs>>

Host == \/ Starting \/ Enabled \/ Aborted \/ Started \/ Stopping \/ Stopped
        \/ StopBegins \/ StopWaited \/ FlushDone \/ FlushEmpty \/ StopReturns
        \/ HostSaves \/ HostNextChunk \/ HostFinishes

Next == Host \/ AsifBlockFilled \/ Writer

Spec == Init /\ [][Next]_vars

-----------------------------------------------------------------------------
(* Properties                                                              *)

(* Every variable keeps its type. *)
TypeOK ==
    /\ state \in States
    /\ empty \in Seq(EntryType) /\ done \in Seq(EntryType)
    /\ {current, next} \subseteq EntryType /\ hand \in [Tasks -> EntryType]
    /\ {frameNumber, framesQueued, framesSaved, runs} \subseteq Nat /\ declared \in Int
    /\ writer \in [Tasks -> {"none", "loop", "receiving", "handling", "requeueing",
                            "exiting"}]
    /\ host \in {"idle", "preparing", "recording", "stopping", "waiting", "flushing",
                 "saving", "freed"}
    /\ memory \in BOOLEAN /\ trouble \subseteq TroubleKinds \cup {"leftover"}
    /\ owner \in [Slots -> {"free", "sound", "queued"}] /\ queue \in Seq(Slots)
    /\ block \in [Slots -> [1..Blocks -> Nat]] /\ audio \in Seq(Nat)

(* The file holds the sound in the order it was recorded, from its first block
   and without a gap, also when sound had to end before the video. *)
AudioInOrder ==
    trouble \subseteq {"starved"} => \A k \in DOMAIN audio : audio[k] = k

(* Once the recorder stops, every block that was filled is in the file. *)
AudioComplete ==
    host = "freed" /\ trouble = {} => Len(audio) = frameNumber

(* The counts in the chunk headers add up to the blocks in the file, wherever
   the chunks were split. *)
AudioCounted ==
    host = "freed" /\ trouble \subseteq {"starved"} => declared = Len(audio)

InUse == {e \in {empty[k] : k \in DOMAIN empty} \cup {done[k] : k \in DOMAIN done}
                 \cup {hand[w] : w \in Tasks} \cup {current, next} : e # NoEntry}

(* A slot is handed back only when none of its blocks is waiting to be filled,
   being filled by ASIF, or on its way to the writer. *)
ReturnedIsDone ==
    trouble \subseteq {"starved"} /\ memory => \A e \in InUse : owner[e.slot] = "sound"

(* When the STOPPING event returns, the recorder has all its slots back:
   "must be submitted using mlv_rec_release_slot()" (mlv_lite.c).  It fails
   when sound is starved: README.md, section 6. *)
SlotsReturned ==
    host = "saving" => \A s \in Slots : owner[s] # "sound"

(* The same while nothing went wrong *)
SlotsReturnedIfFed == trouble = {} => SlotsReturned

(* mlv_snd_stop does not run into its timeout: the three-way handshake between
   it, ASIF and the writer comes to an end. *)
StopsInTime ==
    [][host = "waiting" /\ host' = "flushing" => state = "STOPPED" \/ trouble # {}]_vars

(* All the sound is in the file, and its chunks declare all of it. *)
AudioKept == AudioComplete /\ AudioCounted

(* The slots sound borrows all return to the recorder, none too early. *)
SlotsKept == TypeOK /\ ReturnedIsDone /\ SlotsReturnedIfFed
=============================================================================
