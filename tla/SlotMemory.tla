----------------------------- MODULE SlotMemory -----------------------------
(***************************************************************************)
(* The memory of the frame slots of the raw video recorder                 *)
(* (src/modules/raw_video/mlv_lite/mlv_lite.c): how chunks of memory are   *)
(* cut into slots (setup_buffers, add_mem_suite), how a slot shrinks to    *)
(* the size its frame was compressed to and passes the rest on             *)
(* (shrink_slot), how memory is put together again (free_slot), and which  *)
(* slot the next frame goes to (choose_next_capture_slot).                 *)
(*                                                                         *)
(* RawRecorder models the frames and takes the slots as given; here the    *)
(* slots are all there is, and a slot is filled, lent, written or          *)
(* discarded by whoever may do it.  shrink_slot and free_slot run with     *)
(* interrupts off: each is one step.  Memory is counted in blocks of the   *)
(* size that frame sizes are rounded to; indices start at 1.               *)
(*                                                                         *)
(* A definition marked "mutant" is a slip one could make in the definition *)
(* that follows it; no formula below uses it.                              *)
(***************************************************************************)
EXTENDS Integers, Sequences, FiniteSets, FiniteSetsExt

CONSTANTS
    ShootChunks, SrmChunks, \* chunks of the two suites: sequences of [start, size]
    FrameSizes,  \* max_frame_size, one of these when buffers are set up
    FullSize,    \* fullres_buf_size
    MaxSlots,    \* COUNT(slots)
    GroupSize,   \* 0xFFFE * 512: no group of slots is larger
    Gap          \* between groups

ASSUME ChunkAssumption ==
    \A s \in {ShootChunks, SrmChunks} :
        s \in Seq([start : Nat, size : Nat])
ASSUME SizeAssumption ==
    /\ FrameSizes \subseteq Nat \ {0} /\ FullSize \in Nat \ {0}
    /\ MaxSlots \in Nat /\ GroupSize \in Nat /\ Gap \in Nat \ {0}

None == 0

VARIABLES
    recording,   \* not RAW_IS_IDLE
    held,        \* shoot_mem_suite and srm_mem_suite are there
    frame,       \* max_frame_size
    configured,  \* configured_max_frame_size
    fullBuf,     \* fullsize_buffers[0]: a chunk, or None if it is Canon's
    slots,       \* ptr, size and status of slots[0 .. total_slot_count - 1]
    valid,       \* valid_slot_count
    capture      \* capture_slot

vars == <<recording, held, frame, configured, fullBuf, slots, valid, capture>>

Init ==
    /\ recording = FALSE /\ held = FALSE
    /\ frame \in FrameSizes /\ configured = 0 /\ fullBuf = None
    /\ slots = <<>> /\ valid = 0 /\ capture = None

NextOf(s) == s.ptr + s.size
Chunks    == ShootChunks \o SrmChunks

-----------------------------------------------------------------------------
(* Setting up: from memory chunks to slots                                 *)

(* alloc_fullsize_buffer: the chunk that wastes least, in the first suite  *)
(* that has one large enough; the memory behind it is used for frames.  64 *)
(* bytes are subtracted first, so what fits exactly wastes less than none. *)
Wasted(c, max) == IF c.size = FullSize THEN -1 ELSE (c.size - FullSize - 1) % max

BestChunk(chunks, max) ==
    LET fits == {i \in DOMAIN chunks : chunks[i].size >= FullSize}
    IN IF fits = {} THEN None
       ELSE CHOOSE i \in fits : \A j \in fits :
                \/ Wasted(chunks[i], max) < Wasted(chunks[j], max)
                \/ Wasted(chunks[i], max) = Wasted(chunks[j], max) /\ i <= j

FullBuffer(max) ==
    IF BestChunk(ShootChunks, max) # None THEN BestChunk(ShootChunks, max)
    ELSE IF BestChunk(SrmChunks, max) # None THEN Len(ShootChunks) + BestChunk(SrmChunks, max)
    ELSE None

Slot(p, n, st) == [ptr |-> p, size |-> n, status |-> st]

(* add_reserved_slots: empty slots, to be used when frames are compressed  *)
Reserve(s, p, n) ==
    s \o [i \in 1..(IF Len(s) + n <= MaxSlots THEN n ELSE MaxSlots - Len(s)) |-> Slot(p, 0, "RESERVED")]

Splits(n, max) == (n + 1) * max > GroupSize

(* The loop of add_mem_suite over a chunk: slots so far, place, what is    *)
(* left, and the frames of this group                                      *)
RECURSIVE AddFrames(_, _, _, _, _)
AddFrames(s, p, left, n, max) ==
    IF left < max \/ Len(s) >= MaxSlots THEN Reserve(s, p, n)
    ELSE LET more == Append(s, Slot(p, max, "FREE"))
         IN IF Splits(n + 1, max)
            THEN AddFrames(Reserve(more, p + max, n + 1), p + max + Gap, left - max - Gap, 0, max)
            ELSE AddFrames(more, p + max, left - max, n + 1, max)

(* mutant: the full-size buffer is forgotten *)
SkipNothing(i, max) == 0

(* What the full-size buffer takes from a chunk *)
Skip(i, max) == IF i = FullBuffer(max) THEN FullSize ELSE 0

AddChunk(s, i, max) ==
    AddFrames(s, Chunks[i].start + Skip(i, max), Chunks[i].size - Skip(i, max), 0, max)

(* setup_buffers: all chunks of both suites, in their order                *)
Layout(max) ==
    LET upTo[i \in 0..Len(Chunks)] == IF i = 0 THEN <<>> ELSE AddChunk(upTo[i - 1], i, max)
    IN upTo[Len(Chunks)]

Count(s, st) == Cardinality({i \in DOMAIN s : s[i].status \in st})

-----------------------------------------------------------------------------
(* Choosing a slot                                                         *)

Follows(s, i) == i - 1 \in DOMAIN s /\ s[i].ptr = NextOf(s[i - 1])

(* The length of the free section that ends with each slot, as the loop    *)
(* of choose_next_capture_slot counts it                                   *)
FreeRun(s) ==
    LET len[i \in 0..Len(s)] ==
            IF i = 0 \/ (i > 0 /\ s[i].status # "FREE") THEN 0
            ELSE IF Follows(s, i) /\ s[i - 1].status = "FREE" THEN len[i - 1] + 1 ELSE 1
    IN len

(* mutant: the start of the section is not worked out *)
EndOfSection(i, len) == i

StartOfSection(i, len) == i - len + 1

(* The first slot of the first of the largest contiguous free sections     *)
LargestFree(s) ==
    LET len  == FreeRun(s)
        best == CHOOSE i \in DOMAIN s : \A j \in DOMAIN s :
                    len[j] < len[i] \/ (len[j] = len[i] /\ i <= j)
    IN IF \A i \in DOMAIN s : s[i].status # "FREE" THEN None ELSE StartOfSection(best, len[best])

(* "Keep on rolling?" *)
Rolls == /\ capture # None /\ capture + 1 \in DOMAIN slots
         /\ Follows(slots, capture + 1) /\ slots[capture + 1].status = "FREE"

(* choose_next_capture_slot, with force_new_buffer                         *)
NextCapture(force) == IF Rolls /\ ~force THEN capture + 1 ELSE LargestFree(slots)

-----------------------------------------------------------------------------
(* Shrinking and freeing                                                   *)

Movable == {"FREE", "RESERVED"}

(* mutant: exactly a frame is not enough *)
NotQuiteEnough(n) == n > frame

Enough(n) == n >= frame

(* shrink_slot: the next slot of the chunk gets what is left, becomes      *)
(* available if that is enough, and passes the rest on.                    *)
RECURSIVE Shrunk(_, _, _)
Shrunk(s, i, new) ==
    LET dif    == s[i].size - new
        linked == i + 1 \in DOMAIN s /\ s[i + 1].status \in Movable /\ Follows(s, i + 1)
        mine   == [s EXCEPT ![i].size = new]
        passed == [mine EXCEPT ![i + 1].ptr = @ - dif, ![i + 1].size = @ + dif]
    IN IF dif = 0 THEN s
       ELSE IF ~linked THEN mine
       ELSE IF Enough(passed[i + 1].size)
            THEN Shrunk([passed EXCEPT ![i + 1].status = "FREE"], i + 1, frame)
            ELSE passed

(* mutant: the next slot is taken for a neighbour whoever uses it *)
ShrunkInto(s, i, new) ==
    IF i + 1 \in DOMAIN s /\ Follows(s, i + 1)
    THEN [s EXCEPT ![i].size = new, ![i + 1].ptr = @ - (s[i].size - new),
                   ![i + 1].size = @ + s[i].size - new]
    ELSE [s EXCEPT ![i].size = new]

Compress(s, i, new) == Shrunk(s, i, new)

Span(i, j) == IF i < j THEN i..j ELSE j..i

(* The free and reserved slots that touch each other around slot i         *)
Touching(s, i) ==
    {j \in DOMAIN s : \A k \in Span(i, j) : /\ k # i => s[k].status \in Movable
                                            /\ k + 1 \in Span(i, j) => Follows(s, k + 1)}

(* mutant: one more frame than there is room for *)
FitsRoundedUp(room) == room \div frame + 1

Fits(room) == room \div frame

(* free_slot makes full frames of them again; the first slot that remains  *)
(* keeps the rest, and the others are empty.                               *)
Reallocated(s, i) ==
    LET T     == Touching(s, i)
        first == Min(T)
        start == s[first].ptr
        end   == NextOf(s[Max(T)])
        Again(k) == IF k < Fits(end - start) THEN Slot(start + k * frame, frame, "FREE")
                    ELSE IF k = Fits(end - start)
                         THEN Slot(start + k * frame, end - start - k * frame, "RESERVED")
                         ELSE Slot(end, 0, "RESERVED")
    IN [j \in DOMAIN s |-> IF j \in T THEN Again(j - first) ELSE s[j]]

Freed(s, i) ==
    IF s[i].size = frame THEN [s EXCEPT ![i].status = "FREE"] ELSE Reallocated(s, i)

-----------------------------------------------------------------------------
(* The operations                                                          *)

Idle == ~recording

(* realloc_buffers, free_buffers: what was configured is void.             *)
Buffers(h) ==
    /\ held' = h /\ configured' = 0 /\ slots' = <<>> /\ valid' = 0 /\ fullBuf' = None
    /\ UNCHANGED frame

Realloc ==
    /\ Idle /\ Buffers(TRUE)
    /\ UNCHANGED <<recording, capture>>

GiveUp ==
    /\ Idle /\ held /\ Buffers(FALSE)
    /\ UNCHANGED <<recording, capture>>

(* setup_buffers, with the frame size of the new settings.  A layout with  *)
(* less than two slots is not recorded as configured.                      *)
Setup ==
    /\ Idle
    /\ \E max \in FrameSizes :
        /\ frame' = max
        /\ IF configured = max THEN UNCHANGED <<slots, valid, fullBuf, configured>>
           ELSE IF ~held
                THEN slots' = <<>> /\ valid' = 0 /\ UNCHANGED <<fullBuf, configured>>
                ELSE /\ slots' = Layout(max) /\ fullBuf' = FullBuffer(max)
                     /\ valid' = Count(Layout(max), {"FREE"})
                     /\ configured' = IF valid' < 2 THEN configured ELSE max
    /\ UNCHANGED <<recording, held, capture>>

(* measure_compression_ratio compresses a frame into the first slot, which *)
(* compress_task marks as full, and nobody frees.                          *)
Measure ==
    /\ Idle /\ valid # 0
    /\ slots' = [slots EXCEPT ![1].status = "FULL"]
    /\ UNCHANGED <<recording, held, frame, configured, fullBuf, valid, capture>>

(* raw_video_rec_task: init_vsync_vars, and at the end free_buffers        *)
Start ==
    /\ Idle
    /\ recording' = TRUE /\ capture' = None
    /\ UNCHANGED <<held, frame, configured, fullBuf, slots, valid>>

End ==
    /\ recording
    /\ recording' = FALSE
    /\ Buffers(FALSE)
    /\ UNCHANGED capture

OnlySlots == UNCHANGED <<recording, held, frame, configured, fullBuf>>

(* process_frame: no slot is a full buffer                                 *)
Capture ==
    /\ recording
    /\ \E force \in BOOLEAN :
        /\ capture' = NextCapture(force)
        /\ slots' = IF capture' = None THEN slots ELSE [slots EXCEPT ![capture'].status = "CAPTURING"]
    /\ UNCHANGED valid /\ OnlySlots

(* compress_task: the frame takes its whole slot, or less                  *)
Compressed ==
    /\ recording
    /\ \E i \in DOMAIN slots, n \in 1..frame :
        /\ slots[i].status = "CAPTURING"
        /\ slots' = [Compress(slots, i, n) EXCEPT ![i].status = "FULL"]
        /\ valid' = valid + Cardinality({j \in DOMAIN slots : /\ slots[j].status = "RESERVED"
                                                             /\ slots'[j].status = "FREE"})
    /\ UNCHANGED capture /\ OnlySlots

(* mlv_rec_get_free_slot                                                   *)
Lend ==
    /\ recording
    /\ LET free == {i \in DOMAIN slots : slots[i].status = "FREE"}
       IN free # {} /\ slots' = [slots EXCEPT ![Min(free)].status = "LOCKED"]
    /\ UNCHANGED <<valid, capture>> /\ OnlySlots

(* mlv_rec_release_slot                                                    *)
Release ==
    /\ recording
    /\ \E i \in DOMAIN slots, st \in {"FULL", "FREE"} :
        slots[i].status = "LOCKED" /\ slots' = [slots EXCEPT ![i].status = st]
    /\ UNCHANGED <<valid, capture>> /\ OnlySlots

(* valid_slot_count after free_slot                                        *)
ValidAfter(s, i) ==
    IF s[i].size = frame THEN valid
    ELSE valid - 1 - Cardinality({j \in Touching(s, i) : s[j].status = "FREE"})
                   + Cardinality({j \in Touching(s, i) : Freed(s, i)[j].status = "FREE"})

(* free_slot, for a block that was written or discarded                    *)
FreeSlot ==
    /\ recording
    /\ \E i \in DOMAIN slots :
        /\ slots[i].status = "FULL"
        /\ slots' = Freed(slots, i)
        /\ valid' = ValidAfter(slots, i)
    /\ UNCHANGED capture /\ OnlySlots

Next == \/ Realloc \/ GiveUp \/ Setup \/ Measure \/ Start \/ End
        \/ Capture \/ Compressed \/ Lend \/ Release \/ FreeSlot

Spec == Init /\ [][Next]_vars

-----------------------------------------------------------------------------
(* Properties                                                              *)

Statuses == {"FREE", "RESERVED", "CAPTURING", "LOCKED", "FULL"}
InUse    == {"CAPTURING", "LOCKED", "FULL"}

(* Types, and the bound of the table of slots                              *)
TypeOK ==
    /\ recording \in BOOLEAN /\ held \in BOOLEAN
    /\ frame \in FrameSizes /\ configured \in FrameSizes \cup {0}
    /\ fullBuf \in DOMAIN Chunks \cup {None}
    /\ slots \in Seq([ptr : Nat, size : Nat, status : Statuses]) /\ Len(slots) <= MaxSlots
    /\ valid \in 0..MaxSlots /\ capture \in 0..MaxSlots

Blocks(p, n) == p .. p + n - 1

(* No two slots share memory, and none reaches into the full-size buffer   *)
(* or out of its chunk, however often they were shrunk and put together.   *)
Disjoint ==
    /\ \A i, j \in DOMAIN slots : i # j =>
          Blocks(slots[i].ptr, slots[i].size) \cap Blocks(slots[j].ptr, slots[j].size) = {}
    /\ \A i \in DOMAIN slots : \E c \in DOMAIN Chunks :
          Blocks(slots[i].ptr, slots[i].size)
            \subseteq Blocks(Chunks[c].start, Chunks[c].size)
                      \ (IF c = fullBuf THEN Blocks(Chunks[c].start, FullSize) ELSE {})

(* A slot that may be captured to, or lent, holds a whole frame, and a     *)
(* reserved one does not (asserted in shrink_slot and free_slot).          *)
FreeIsWhole ==
    \A i \in DOMAIN slots :
        /\ slots[i].status \in {"FREE", "CAPTURING", "LOCKED"} => slots[i].size = frame
        /\ slots[i].status = "RESERVED" => slots[i].size < frame

(* valid_slot_count is "total minus reserved".                             *)
ValidCounts == valid = Count(slots, Statuses \ {"RESERVED"})

(* What is contiguous can be written at once: no group exceeds the limit.  *)
GroupsSplit ==
    \A i, j \in DOMAIN slots :
        i <= j /\ (\A k \in i + 1..j : Follows(slots, k)) => NextOf(slots[j]) - slots[i].ptr <= GroupSize

(* "Choose the largest contiguous free section."                           *)
FreeSection(i, j) ==
    \A k \in i..j : slots[k].status = "FREE" /\ (k > i => Follows(slots, k))

ChoosesLargest ==
    LET c == LargestFree(slots)
    IN IF c = None THEN \A i \in DOMAIN slots : slots[i].status # "FREE"
       ELSE \A i, j \in DOMAIN slots :
               i <= j /\ FreeSection(i, j) => c + j - i \in DOMAIN slots /\ FreeSection(c, c + j - i)

(* While a frame or a block is in its slot, the slot stays where it is.    *)
UsedStays ==
    [][recording /\ recording' =>
        \A i \in DOMAIN slots : slots[i].status \in InUse /\ slots'[i].status \in InUse =>
            slots'[i].ptr = slots[i].ptr]_vars

(* "Current configuration still valid, nothing to do": when setup_buffers  *)
(* finds the size it has configured, the slots are those of that size.  It *)
(* fails when a frame size leaves less than two slots: README.md, section  *)
(* 6.                                                                      *)
ConfigurationValid ==
    configured # 0 /\ configured = frame => \A i \in DOMAIN slots : slots[i].size <= frame

(* The table of slots stays one that setup_buffers could have made: every  *)
(* slot that counts as valid holds a whole frame.                          *)
TableSound == TypeOK /\ FreeIsWhole /\ ValidCounts

(* Frames that follow one another in memory are written together, and the  *)
(* slots for them are chosen so that they do (choose_next_capture_slot).   *)
GroupsSound == GroupsSplit /\ ChoosesLargest
=============================================================================
