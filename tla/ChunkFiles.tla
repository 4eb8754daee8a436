----------------------------- MODULE ChunkFiles -----------------------------
(***************************************************************************)
(* How the recording task of mlv_lite.c splits a clip into chunk files:    *)
(* write_frames, finish_chunk and the calls raw_video_rec_task makes to    *)
(* them, with one memory card.  A file cannot grow beyond 4GB; the code    *)
(* learns that from a write that fails, and from then on starts the next   *)
(* chunk in time.                                                          *)
(*                                                                         *)
(* Sizes are counted in units.  A frame takes 2 units, the headers of a    *)
(* chunk take HeaderSize, and the limit is odd, as 0xFFFFFFFF is: no file  *)
(* is ever exactly full.  Frames are numbered in the order in which they   *)
(* are to be saved.  Definitions marked "mutant" are slips nothing uses.   *)
(***************************************************************************)
EXTENDS Integers, Sequences, SequencesExt, Subsequences

CONSTANTS
    Limit,        \* what fits in a file (0xFFFFFFFF)
    HeaderSize,   \* written by write_mlv_chunk_headers
    MaxGroup,     \* frames saved with one call
    Failures,     \* which of the failures below the environment may produce
    MaxFrames,    \* bound: frames of a recording
    MaxRuns       \* bound: recordings

FrameSize == 2

FailureKinds == {"cardfull",  \* a write fails before the limit
                 "create",    \* the next file cannot be created
                 "headers"}   \* or its headers, or its first frames, not written

ASSUME LimitAssumption == /\ Limit \in Nat /\ Limit % 2 = 1
                          /\ HeaderSize \in Nat \ {0} /\ HeaderSize % 2 = 0
                          /\ MaxGroup \in Nat \ {0}
                          /\ HeaderSize + MaxGroup * FrameSize <= Limit
                          /\ Failures \subseteq FailureKinds

VARIABLES
    phase,        \* what the task is at: idle, recording, flushing, closing
    files,        \* the chunks on the card
    current,      \* index in files of the file f
    mlvChunk,     \* mlv_chunk
    sizeLimit,    \* file_size_limit; it outlives a recording
    written,      \* written_chunk
    frameCount,   \* chunk_frame_count
    given,        \* frames handed to write_frames in this recording
    failed,       \* the failures of this recording
    onClosed,     \* a call was made on a file already closed
    runs

vars == <<phase, files, current, mlvChunk, sizeLimit, written, frameCount, given,
          failed, onClosed, runs>>

(* Blocks of a chunk: a frame by its number, a NULL block, or a block of which
   only the beginning was written *)
Null == 0
Torn == -1

Chunk(num) == [num |-> num, blocks |-> <<>>, count |-> 0, open |-> TRUE]

Init ==
    /\ phase = "idle" /\ files = <<>> /\ current = 0 /\ mlvChunk = 0
    /\ sizeLimit = FALSE /\ written = 0 /\ frameCount = 0 /\ given = 0
    /\ failed = {} /\ onClosed = FALSE /\ runs = 0

-----------------------------------------------------------------------------
FinishWithoutCount(fs) ==                                               \* mutant
    IF fs[current].open THEN [fs EXCEPT ![current].open = FALSE] ELSE fs

FinishWithoutClose(fs) ==                                               \* mutant
    IF fs[current].open THEN [fs EXCEPT ![current].count = frameCount] ELSE fs

(* finish_chunk: the frame count goes to the header, and the file is closed.
   On a file closed before, the calls are taken to fail. *)
Finish(fs) ==
    IF fs[current].open
    THEN [fs EXCEPT ![current].open = FALSE, ![current].count = frameCount]
    ELSE fs

Frames(n) == [k \in 1..n |-> given + k]
Size(n)   == n * FrameSize

ExceedsLimit(n)      == written + Size(n) > Limit

(* The two results of write_frames.  A main loop that sees a failure stops
   recording; a flush that sees one is over. *)
Succeeds(n) ==
    /\ given' = given + n
    /\ UNCHANGED <<phase, failed>>

Fails(n, why) ==
    /\ given' = given + n
    /\ failed' = failed \cup {why}
    /\ phase' = IF phase = "recording" THEN "flushing" ELSE "closing"

(* What a failed write leaves of the group in the file *)
Parts(n) == {Frames(k) \o rest : k \in 0..(n - 1), rest \in {<<>>, <<Torn>>}}

WriteAll(n) ==
    /\ ~ExceedsLimit(n)
    /\ files[current].open
    /\ files' = [files EXCEPT ![current].blocks = @ \o Frames(n)]
    /\ written' = written + Size(n) /\ frameCount' = frameCount + n
    /\ Succeeds(n)
    /\ UNCHANGED <<current, mlvChunk, sizeLimit, onClosed>>

(* "failed, but not at 4GB limit, card must be full" *)
WriteCardFull(n) ==
    /\ "cardfull" \in Failures
    /\ ~ExceedsLimit(n)
    /\ files[current].open
    /\ \E part \in Parts(n) : files' = [files EXCEPT ![current].blocks = @ \o part]
    /\ Fails(n, "cardfull")
    /\ UNCHANGED <<current, mlvChunk, sizeLimit, written, frameCount, onClosed>>

(* f may have been closed by a call that could not start the next chunk; the
   write fails, and is taken for a full card. *)
WriteClosed(n) ==
    /\ ~ExceedsLimit(n)
    /\ ~files[current].open
    /\ onClosed' = TRUE
    /\ Fails(n, "cardfull")
    /\ UNCHANGED <<files, current, mlvChunk, sizeLimit, written, frameCount>>

-----------------------------------------------------------------------------
(* The next chunk; fs are the files after finish_chunk                     *)

NoBlocks(n)    == <<>>                                                  \* mutant
FirstBlocks(n) == Frames(n)

NextNumber == mlvChunk + 1

NewChunk(n, fs) ==
    /\ files' = Append(fs, [Chunk(NextNumber) EXCEPT !.blocks = FirstBlocks(n)])
    /\ current' = Len(fs) + 1 /\ mlvChunk' = NextNumber
    /\ written' = HeaderSize + Size(n) /\ frameCount' = n
    /\ Succeeds(n)

(* The number is not given back. *)
CreateFails(n, fs) ==
    /\ "create" \in Failures
    /\ files' = fs
    /\ mlvChunk' = mlvChunk + 1 /\ frameCount' = 0
    /\ Fails(n, "create")
    /\ UNCHANGED <<current, written>>

(* The new file is removed; size is what written_chunk says of it. *)
NewChunkRemoved(n, fs, size) ==
    /\ "headers" \in Failures
    /\ files' = fs
    /\ written' = size /\ frameCount' = 0
    /\ Fails(n, "headers")
    /\ UNCHANGED <<current, mlvChunk>>

(* The new chunk has its headers, but not the group. *)
NewChunkFull(n, fs) ==
    /\ "cardfull" \in Failures
    /\ \E part \in Parts(n) :
          files' = Append(fs, [Chunk(NextNumber) EXCEPT !.blocks = part])
    /\ current' = Len(fs) + 1 /\ mlvChunk' = NextNumber
    /\ written' = HeaderSize /\ frameCount' = 0
    /\ Fails(n, "cardfull")

(* "we're about to exceed it, go ahead and make a new chunk" *)
WriteBeforeLimit(n) ==
    /\ sizeLimit /\ ExceedsLimit(n)
    /\ onClosed' = (onClosed \/ ~files[current].open)
    /\ LET fs == Finish(files) IN
       \/ NewChunk(n, fs) \/ CreateFails(n, fs)
       \/ NewChunkRemoved(n, fs, 0) \/ NewChunkFull(n, fs)
    /\ UNCHANGED sizeLimit

KeptParts(n) == Parts(n)                                                \* mutant

(* "5D2 does not write anything if the call failed, but 5D3 writes exactly
   4294967295": whatever was written is covered by one NULL block. *)
CoveredParts(n) == {<<>>, <<Null>>}

WriteAtLimit(n) ==
    /\ ~sizeLimit /\ ExceedsLimit(n)
    /\ sizeLimit' = TRUE
    /\ \E part \in CoveredParts(n) :
          LET fs == Finish([files EXCEPT ![current].blocks = @ \o part]) IN
          \/ NewChunk(n, fs) \/ CreateFails(n, fs)
          \/ \E size \in {0, HeaderSize} : NewChunkRemoved(n, fs, size)
    /\ UNCHANGED onClosed

write_frames(n) == \/ WriteAll(n) \/ WriteCardFull(n) \/ WriteClosed(n)
                   \/ WriteBeforeLimit(n) \/ WriteAtLimit(n)

-----------------------------------------------------------------------------
(* raw_video_rec_task *)

Start ==
    /\ phase = "idle" /\ runs < MaxRuns
    /\ phase' = "recording" /\ runs' = runs + 1
    /\ files' = <<Chunk(0)>> /\ current' = 1 /\ mlvChunk' = 0
    /\ written' = HeaderSize /\ frameCount' = 0 /\ given' = 0
    /\ failed' = {} /\ onClosed' = FALSE
    /\ UNCHANGED sizeLimit

SaveGroup ==
    /\ phase = "recording"
    /\ \E n \in 1..MaxGroup : given + n <= MaxFrames /\ write_frames(n)
    /\ UNCHANGED runs

StopRecording ==
    /\ phase = "recording"
    /\ phase' = "flushing"
    /\ UNCHANGED <<files, current, mlvChunk, sizeLimit, written, frameCount, given,
                   failed, onClosed, runs>>

(* "write remaining frames": there may be some after a failure, too. *)
FlushFrame ==
    /\ phase = "flushing" /\ given < MaxFrames
    /\ write_frames(1)
    /\ UNCHANGED runs

FlushEnds ==
    /\ phase = "flushing"
    /\ phase' = "closing"
    /\ UNCHANGED <<files, current, mlvChunk, sizeLimit, written, frameCount, given,
                   failed, onClosed, runs>>

Close ==
    /\ phase = "closing"
    /\ files' = Finish(files) /\ frameCount' = 0
    /\ onClosed' = (onClosed \/ ~files[current].open)
    /\ phase' = "idle"
    /\ UNCHANGED <<current, mlvChunk, sizeLimit, written, given, failed, runs>>

Next == Start \/ SaveGroup \/ StopRecording \/ FlushFrame \/ FlushEnds \/ Close

Spec == Init /\ [][Next]_vars

-----------------------------------------------------------------------------
(* Properties                                                              *)

(* Every variable keeps its type, and a chunk never outgrows the limit. *)
TypeOK ==
    /\ phase \in {"idle", "recording", "flushing", "closing"}
    /\ files \in Seq([num : Nat, blocks : Seq(Int), count : Nat, open : BOOLEAN])
    /\ current \in 0..Len(files)
    /\ {mlvChunk, frameCount, given, runs} \subseteq Nat
    /\ written \in 0..Limit
    /\ {sizeLimit, onClosed} \subseteq BOOLEAN
    /\ failed \subseteq FailureKinds

Video == Nat \ {Null}

FramesIn(chunk) == Keeping(chunk.blocks, Video)

(* The chunks, one after the other, hold the frames in order, none twice; a
   chunk that had to be started in the middle of a group does not lose any. *)
InOrder(fs) ==
    \A i, j \in DOMAIN fs :
        \A k \in DOMAIN fs[i].blocks, l \in DOMAIN fs[j].blocks :
            /\ i < j \/ (i = j /\ k < l)
            /\ {fs[i].blocks[k], fs[j].blocks[l]} \subseteq Video
            => fs[i].blocks[k] < fs[j].blocks[l]

Holds(fs, n) == \E i \in DOMAIN fs : \E k \in DOMAIN fs[i].blocks : fs[i].blocks[k] = n

ClipInOrder ==
    /\ InOrder(files)
    /\ failed = {} => \A n \in 1..given : Holds(files, n)

(* A chunk that is closed says how many frames it has: "update the frame count
   and close the chunk". *)
HeadersCount ==
    "cardfull" \notin failed =>
        \A i \in DOMAIN files : ~files[i].open => files[i].count = Len(FramesIn(files[i]))

(* "otherwise the file could end in the middle of a block" *)
BlocksWhole ==
    "cardfull" \notin failed =>
        \A i \in DOMAIN files : ~Contains(files[i].blocks, Torn)

(* The chunks are numbered from 0 without a gap: a reader looks for .MLV, .M00,
   .M01 and so on. *)
ChunksNumbered ==
    "create" \notin failed => \A i \in DOMAIN files : files[i].num = i - 1

(* Only the last chunk is open, and none is left open when the task ends. *)
NoneLeftOpen ==
    \A i \in DOMAIN files : files[i].open => i = Len(files) /\ phase # "idle"

(* A file that was closed is not used again, unless no next one could be
   started. *)
ClosedIsClosed == onClosed => failed \cap {"create", "headers"} # {}

(* The chunks follow one another without a gap: one is closed before the next
   is used, and the last when the task ends. *)
ChunksInSequence == TypeOK /\ ChunksNumbered /\ NoneLeftOpen /\ ClosedIsClosed
=============================================================================
