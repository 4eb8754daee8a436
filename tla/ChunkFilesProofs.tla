-------------------------- MODULE ChunkFilesProofs --------------------------
(* The chunks of a clip are numbered without a gap, one is open at a time   *)
(* and it is the last, no block is torn unless the card was full, the       *)
(* frames stand in the chunks in their order, and every header counts       *)
(* those of its chunk: for any limit, any size of the headers and of a      *)
(* group, and any failures.                                                 *)
EXTENDS ChunkFiles, SubsequencesProofs, SequenceTheorems, TLAPS

ChunkType == [num : Nat, blocks : Seq(Int), count : Nat, open : BOOLEAN]

Whole(c) == \A k \in 1..Len(c.blocks) : c.blocks[k] # Torn

(* The task appends to the last chunk.  It is closed while the task runs only
   when no next one could be started. *)
CurrentIsLast ==
    /\ current = Len(files)
    /\ phase # "idle" =>
        /\ current > 0
        /\ ~files[current].open => failed \cap {"create", "headers"} # {}

Numbers ==
    "create" \notin failed /\ files # <<>> => mlvChunk = Len(files) - 1

AllWhole == "cardfull" \notin failed => \A i \in 1..Len(files) : Whole(files[i])

IInv == /\ TypeOK /\ CurrentIsLast /\ NoneLeftOpen
        /\ ChunksNumbered /\ Numbers /\ AllWhole /\ ClosedIsClosed

-----------------------------------------------------------------------------
(* The blocks that are written                                             *)
LEMMA FunctionIsSeq ==
    ASSUME NEW S, NEW n \in Nat, NEW f \in [1..n -> S]
    PROVE  f \in Seq(S) /\ Len(f) = n
  <1>1. f \in UNION {[1..k -> S] : k \in Nat}
    OBVIOUS
  <1>2. f \in Seq(S)
    BY <1>1, SeqDef
  <1> QED BY <1>2

LEMMA FramesType ==
    ASSUME given \in Nat, NEW n \in Nat
    PROVE  /\ Frames(n) \in Seq(Int) /\ Len(Frames(n)) = n
           /\ \A k \in 1..n : Frames(n)[k] # Torn
  <1>1. Frames(n) \in [1..n -> Int]
    BY DEF Frames
  <1>2. \A k \in 1..n : Frames(n)[k] # Torn
    BY DEF Frames, Torn
  <1> QED BY <1>1, <1>2, FunctionIsSeq

LEMMA PartsType ==
    ASSUME given \in Nat, NEW n \in Nat \ {0}, NEW part \in Parts(n)
    PROVE  part \in Seq(Int)
  <1>1. PICK k \in 0..(n - 1), rest \in {<<>>, <<Torn>>} : part = Frames(k) \o rest
    BY DEF Parts
  <1>2. rest \in Seq(Int)
    <2>1. Torn \in Int
      BY DEF Torn
    <2>2. <<>> \in Seq(Int) /\ <<Torn>> \in Seq(Int)
      BY <2>1
    <2> QED BY <2>2
  <1> QED BY <1>1, <1>2, FramesType

LEMMA AppendWhole ==
    ASSUME NEW s \in Seq(Int), NEW t \in Seq(Int),
           \A k \in 1..Len(s) : s[k] # Torn, \A k \in 1..Len(t) : t[k] # Torn
    PROVE  \A k \in 1..Len(s \o t) : (s \o t)[k] # Torn
  OBVIOUS

-----------------------------------------------------------------------------
(* finish_chunk closes the current chunk and leaves its blocks and number.
   Finished says this of the files a next chunk is added to. *)
Finished(fs) ==
    /\ fs \in Seq(ChunkType) /\ Len(fs) = current
    /\ \A i \in 1..current :
          /\ ~fs[i].open /\ fs[i].num = files[i].num
          /\ "cardfull" \notin failed => Whole(fs[i])

(* Files that differ from the ones on the card in what the last one holds *)
Grown(fs) ==
    /\ fs \in Seq(ChunkType) /\ Len(fs) = current
    /\ \A i \in 1..current :
          /\ fs[i].num = files[i].num
          /\ fs[i].open => files[i].open
          /\ "cardfull" \notin failed => Whole(fs[i])

LEMMA FilesGrown == IInv => Grown(files)
  BY DEF IInv, TypeOK, CurrentIsLast, AllWhole, Grown, ChunkType

LEMMA FinishFinishes ==
    ASSUME IInv, NEW fs, Grown(fs), current > 0
    PROVE  Finished(Finish(fs))
  <1>1. current \in 1..Len(fs) /\ frameCount \in Nat /\ current = Len(files)
    BY DEF IInv, TypeOK, CurrentIsLast, Grown
  <1>2. \A i \in 1..current : fs[i].open => i = current
    BY <1>1 DEF IInv, NoneLeftOpen, Grown
  <1>3. CASE ~fs[current].open
    BY <1>1, <1>2, <1>3 DEF Finish, Finished, Grown
  <1>4. CASE fs[current].open
    <2> DEFINE gs == [fs EXCEPT ![current].open = FALSE, ![current].count = frameCount]
    <2>1. Finish(fs) = gs
      BY <1>4 DEF Finish
    <2>2. fs[current] \in ChunkType
      BY <1>1 DEF Grown
    <2> DEFINE e == [fs[current] EXCEPT !.open = FALSE, !.count = frameCount]
    <2>3. e \in ChunkType /\ e.num = fs[current].num /\ e.blocks = fs[current].blocks /\ ~e.open
      BY <1>1, <2>2 DEF ChunkType
    <2>4. gs = [fs EXCEPT ![current] = e]
      OBVIOUS
    <2> HIDE DEF e, gs
    <2>5. /\ gs \in Seq(ChunkType) /\ Len(gs) = current
          /\ \A i \in 1..current : gs[i] = IF i = current THEN e ELSE fs[i]
      BY <1>1, <2>3, <2>4, ExceptSeq DEF Grown
    <2>6. \A i \in 1..current :
            gs[i].num = fs[i].num /\ gs[i].blocks = fs[i].blocks /\ ~gs[i].open
      BY <1>1, <1>2, <2>3, <2>5
    <2> QED BY <2>1, <2>5, <2>6 DEF Finished, Grown, Whole
  <1> QED BY <1>3, <1>4

(* Blocks that are appended to the current chunk *)
LEMMA Appending ==
    ASSUME IInv, phase # "idle", NEW b \in Seq(Int)
    PROVE  LET gs == [files EXCEPT ![current].blocks = @ \o b]
           IN  /\ gs \in Seq(ChunkType) /\ Len(gs) = current
               /\ \A i \in 1..current :
                     /\ gs[i].num = files[i].num /\ gs[i].open = files[i].open
                     /\ gs[i].count = files[i].count
                     /\ gs[i].blocks = IF i = current THEN files[i].blocks \o b
                                       ELSE files[i].blocks
  <1> DEFINE gs == [files EXCEPT ![current].blocks = @ \o b]
             e == [files[current] EXCEPT !.blocks = @ \o b]
  <1>1. files \in Seq(ChunkType) /\ current = Len(files) /\ current \in 1..Len(files)
    BY DEF IInv, TypeOK, CurrentIsLast, ChunkType
  <1>2. files[current] \in ChunkType
    BY <1>1
  <1>3. /\ e \in ChunkType /\ e.num = files[current].num /\ e.open = files[current].open
        /\ e.count = files[current].count
        /\ e.blocks = files[current].blocks \o b
    <2>1. files[current].blocks \o b \in Seq(Int)
      BY <1>2 DEF ChunkType
    <2> QED BY <1>2, <2>1 DEF ChunkType
  <1>4. gs = [files EXCEPT ![current] = e]
    OBVIOUS
  <1> HIDE DEF e, gs
  <1>5. /\ gs \in Seq(ChunkType) /\ Len(gs) = current
        /\ \A i \in 1..current : gs[i] = IF i = current THEN e ELSE files[i]
    BY <1>1, <1>3, <1>4, ExceptSeq
  <1>6. \A i \in 1..current :
           /\ gs[i].num = files[i].num /\ gs[i].open = files[i].open
           /\ gs[i].count = files[i].count
           /\ gs[i].blocks = IF i = current THEN files[i].blocks \o b ELSE files[i].blocks
    BY <1>1, <1>3, <1>5
  <1> QED BY <1>5, <1>6 DEF gs

-----------------------------------------------------------------------------
(* The part of the invariant that the files decide                         *)
FilesSound == /\ files \in Seq(ChunkType) /\ CurrentIsLast /\ NoneLeftOpen
              /\ ChunksNumbered /\ Numbers /\ AllWhole

(* A step that adds a chunk after the others were closed *)
LEMMA ChunkAdded ==
    ASSUME IInv, phase # "idle", phase' # "idle", NEW fs, Finished(fs),
           NEW c \in ChunkType, c.open, c.num = mlvChunk + 1,
           "cardfull" \notin failed' => Whole(c), failed \subseteq failed',
           files' = Append(fs, c), current' = Len(fs) + 1, mlvChunk' = mlvChunk + 1
    PROVE  FilesSound'
  <1>1. /\ fs \in Seq(ChunkType) /\ current \in Nat \ {0} /\ Len(fs) = current
        /\ current = Len(files) /\ mlvChunk \in Nat
    BY DEF IInv, TypeOK, CurrentIsLast, Finished, FilesSound
  <1>2. /\ files' \in Seq(ChunkType) /\ Len(files') = current + 1
        /\ DOMAIN files' = 1..(current + 1)
        /\ \A i \in 1..current : files'[i] = fs[i]
        /\ files'[current + 1] = c
    BY <1>1
  <1>3. CurrentIsLast'
    BY <1>1, <1>2 DEF CurrentIsLast
  <1>4. NoneLeftOpen'
    BY <1>1, <1>2 DEF NoneLeftOpen, Finished
  <1>5. "create" \notin failed' => mlvChunk = current - 1 /\ \A i \in 1..current : fs[i].num = i - 1
    BY <1>1 DEF IInv, Numbers, ChunksNumbered, Finished
  <1>6. ChunksNumbered' /\ Numbers'
    BY <1>1, <1>2, <1>5 DEF ChunksNumbered, Numbers
  <1>7. AllWhole'
    BY <1>1, <1>2 DEF AllWhole, Finished
  <1> QED BY <1>2, <1>3, <1>4, <1>6, <1>7 DEF FilesSound

(* A step that closes the current chunk and cannot start the next one *)
LEMMA ChunkNotAdded ==
    ASSUME IInv, phase # "idle", phase' # "idle", NEW fs, Finished(fs),
           failed \subseteq failed', failed' \cap {"create", "headers"} # {},
           files' = fs, current' = current,
           mlvChunk' = mlvChunk \/ "create" \in failed'
    PROVE  FilesSound'
  <1>1. /\ fs \in Seq(ChunkType) /\ current \in Nat \ {0} /\ Len(fs) = current
        /\ current = Len(files) /\ mlvChunk \in Nat
    BY DEF IInv, TypeOK, CurrentIsLast, Finished
  <1>2. CurrentIsLast' /\ NoneLeftOpen' /\ AllWhole'
    BY <1>1 DEF CurrentIsLast, NoneLeftOpen, AllWhole, Finished
  <1>3. "create" \notin failed' => mlvChunk' = current - 1 /\ \A i \in 1..current : fs[i].num = i - 1
    BY <1>1 DEF IInv, Numbers, ChunksNumbered, Finished
  <1>4. ChunksNumbered' /\ Numbers'
    BY <1>1, <1>3 DEF ChunksNumbered, Numbers
  <1> QED BY <1>1, <1>2, <1>4 DEF FilesSound

(* A step that writes to the current chunk *)
LEMMA ChunkGrows ==
    ASSUME IInv, phase # "idle", phase' # "idle", NEW b \in Seq(Int),
           files' = [files EXCEPT ![current].blocks = @ \o b],
           failed \subseteq failed', UNCHANGED <<current, mlvChunk>>,
           "cardfull" \notin failed' => \A k \in 1..Len(b) : b[k] # Torn
    PROVE  FilesSound'
  <1>1. /\ current \in Nat \ {0} /\ current = Len(files) /\ mlvChunk \in Nat
        /\ files \in Seq(ChunkType)
    BY DEF IInv, TypeOK, CurrentIsLast, ChunkType
  <1>2. /\ files' \in Seq(ChunkType) /\ Len(files') = current
        /\ \A i \in 1..current :
              /\ files'[i].num = files[i].num /\ files'[i].open = files[i].open
              /\ files'[i].blocks = IF i = current THEN files[i].blocks \o b
                                    ELSE files[i].blocks
    BY Appending
  <1>3. CurrentIsLast' /\ NoneLeftOpen'
    BY <1>1, <1>2 DEF IInv, CurrentIsLast, NoneLeftOpen
  <1>4. ChunksNumbered' /\ Numbers'
    BY <1>1, <1>2 DEF IInv, ChunksNumbered, Numbers
  <1>5. AllWhole'
    <2> SUFFICES ASSUME "cardfull" \notin failed', NEW i \in 1..current
                 PROVE  Whole(files'[i])
      BY <1>2 DEF AllWhole, Whole
    <2>1. files[i].blocks \in Seq(Int)
      <3>1. files[i] \in ChunkType
        BY <1>1
      <3> QED BY <3>1 DEF ChunkType
    <2>2. \A k \in 1..Len(files[i].blocks) : files[i].blocks[k] # Torn
      BY <1>1 DEF IInv, AllWhole, Whole
    <2>3. CASE i = current
      <3>1. files'[i].blocks = files[i].blocks \o b
        BY <1>2, <2>3
      <3>2. \A k \in 1..Len(files[i].blocks \o b) : (files[i].blocks \o b)[k] # Torn
        BY <2>1, <2>2, AppendWhole
      <3> QED BY <3>1, <3>2 DEF Whole
    <2>4. CASE i # current
      BY <1>2, <2>2, <2>4 DEF Whole
    <2> QED BY <2>3, <2>4
  <1> QED BY <1>2, <1>3, <1>4, <1>5 DEF FilesSound

-----------------------------------------------------------------------------
(* The part of the invariant that does not look into the files             *)
CountsSound ==
    /\ phase \in {"idle", "recording", "flushing", "closing"}
    /\ {mlvChunk, frameCount, given, runs} \subseteq Nat
    /\ written \in 0..Limit
    /\ {sizeLimit, onClosed} \subseteq BOOLEAN
    /\ failed \subseteq FailureKinds
    /\ ClosedIsClosed

LEMMA InParts == IInv <=> FilesSound /\ CountsSound
  <1>1. IInv => FilesSound /\ CountsSound
    BY DEF IInv, FilesSound, CountsSound, TypeOK, ChunkType
  <1>2. FilesSound /\ CountsSound => IInv
    <2> SUFFICES ASSUME FilesSound, CountsSound
                 PROVE  current \in 0..Len(files)
      BY DEF IInv, FilesSound, CountsSound, TypeOK, ChunkType
    <2> QED BY DEF FilesSound, CurrentIsLast
  <1> QED BY <1>1, <1>2

LEMMA FromParts ==
    ASSUME FilesSound', CountsSound'
    PROVE  IInv'
  <1>1. current' \in 0..Len(files')
    BY DEF FilesSound, CurrentIsLast
  <1> QED BY <1>1 DEF IInv, FilesSound, CountsSound, TypeOK, ChunkType

Busy(n) == phase \in {"recording", "flushing"} /\ n \in 1..MaxGroup

LEMMA Sizes ==
    ASSUME IInv, NEW n, Busy(n)
    PROVE  /\ n \in Nat \ {0} /\ Size(n) \in Nat /\ HeaderSize + Size(n) \in 0..Limit
           /\ HeaderSize \in 0..Limit /\ Limit \in Nat
           /\ given \in Nat /\ written \in Nat /\ frameCount \in Nat /\ mlvChunk \in Nat
           /\ current > 0 /\ phase # "idle"
  BY LimitAssumption DEF IInv, TypeOK, CurrentIsLast, Size, FrameSize, Busy

LEMMA OutcomeOfWrite ==
    ASSUME NEW n, Busy(n), NEW why, Succeeds(n) \/ Fails(n, why)
    PROVE  /\ failed \subseteq failed' /\ phase' # "idle" /\ given' = given + n
           /\ phase' \in {"idle", "recording", "flushing", "closing"}
  BY DEF Succeeds, Fails, Busy

LEMMA WriteAllStep ==
    ASSUME IInv, NEW n, Busy(n), WriteAll(n), UNCHANGED runs
    PROVE  IInv'
  <1>1. failed' = failed /\ phase' = phase /\ given' = given + n
    BY DEF WriteAll, Succeeds
  <1>2. FilesSound'
    <2>1. Frames(n) \in Seq(Int) /\ \A k \in 1..Len(Frames(n)) : Frames(n)[k] # Torn
      BY Sizes, FramesType
    <2> QED BY <1>1, <2>1, Sizes, ChunkGrows DEF WriteAll
  <1>3. CountsSound'
    BY <1>1, Sizes, InParts DEF WriteAll, ExceedsLimit, CountsSound, ClosedIsClosed
  <1> QED BY <1>2, <1>3, FromParts

LEMMA WriteCardFullStep ==
    ASSUME IInv, NEW n, Busy(n), WriteCardFull(n), UNCHANGED runs
    PROVE  IInv'
  <1>1. Fails(n, "cardfull")
    BY DEF WriteCardFull
  <1>2. FilesSound'
    <2>1. PICK part \in Parts(n) : files' = [files EXCEPT ![current].blocks = @ \o part]
      BY DEF WriteCardFull
    <2>2. part \in Seq(Int)
      BY Sizes, PartsType
    <2>3. failed \subseteq failed' /\ "cardfull" \in failed' /\ phase' # "idle"
      BY <1>1, OutcomeOfWrite DEF Fails
    <2> QED BY <2>1, <2>2, <2>3, Sizes, ChunkGrows DEF WriteCardFull
  <1>3. CountsSound'
    BY <1>1, Sizes, InParts
       DEF WriteCardFull, Fails, CountsSound, ClosedIsClosed, FailureKinds, Busy
  <1> QED BY <1>2, <1>3, FromParts

LEMMA WriteClosedStep ==
    ASSUME IInv, NEW n, Busy(n), WriteClosed(n), UNCHANGED runs
    PROVE  IInv'
  <1>1. Fails(n, "cardfull") /\ UNCHANGED <<files, current, mlvChunk>>
    BY DEF WriteClosed
  <1>2. failed \subseteq failed' /\ failed' \subseteq FailureKinds /\ phase' # "idle"
    BY <1>1 DEF Fails, IInv, TypeOK, FailureKinds, Busy
  <1>3. failed \cap {"create", "headers"} # {}
    BY Sizes DEF IInv, CurrentIsLast, WriteClosed
  <1>4. FilesSound'
    BY <1>1, <1>2, <1>3, Sizes DEF IInv, TypeOK, FilesSound, CurrentIsLast, NoneLeftOpen,
       ChunksNumbered, Numbers, AllWhole, ChunkType, Whole
  <1>5. CountsSound'
    BY <1>1, <1>2, <1>3, Sizes, InParts
       DEF WriteClosed, Fails, CountsSound, ClosedIsClosed, Busy
  <1> QED BY <1>4, <1>5, FromParts

-----------------------------------------------------------------------------
(* A write that starts the next chunk, or fails to                         *)
StartsNext(n, fs) == \/ NewChunk(n, fs) \/ CreateFails(n, fs) \/ NewChunkFull(n, fs)
                     \/ \E size \in {0, HeaderSize} : NewChunkRemoved(n, fs, size)

LEMMA ChunkWith ==
    ASSUME mlvChunk \in Nat, NEW b \in Seq(Int)
    PROVE  LET c == [Chunk(NextNumber) EXCEPT !.blocks = b]
           IN  c \in ChunkType /\ c.open /\ c.num = mlvChunk + 1 /\ c.blocks = b
  <1> DEFINE d == Chunk(NextNumber)
  <1>1. d \in ChunkType /\ d.open /\ d.num = mlvChunk + 1
    BY DEF Chunk, NextNumber, ChunkType
  <1> HIDE DEF d
  <1>2. LET c == [d EXCEPT !.blocks = b]
        IN  c \in ChunkType /\ c.open /\ c.num = mlvChunk + 1 /\ c.blocks = b
    BY <1>1 DEF ChunkType
  <1> QED BY <1>2 DEF d

LEMMA NextChunkFiles ==
    ASSUME IInv, NEW n, Busy(n), NEW fs, Finished(fs), StartsNext(n, fs)
    PROVE  FilesSound'
  <1>1. CASE NewChunk(n, fs)
    <2> DEFINE c == [Chunk(NextNumber) EXCEPT !.blocks = FirstBlocks(n)]
    <2>1. /\ Frames(n) \in Seq(Int)
          /\ \A k \in 1..Len(Frames(n)) : Frames(n)[k] # Torn
      BY Sizes, FramesType
    <2>2. /\ c \in ChunkType /\ c.open /\ c.num = mlvChunk + 1
          /\ c.blocks = Frames(n)
      BY <2>1, Sizes, ChunkWith DEF FirstBlocks
    <2>3. Whole(c)
      BY <2>1, <2>2 DEF Whole
    <2>4. files' = Append(fs, c) /\ failed' = failed /\ phase' = phase
      BY <1>1 DEF NewChunk, Succeeds
    <2> HIDE DEF c
    <2> QED BY <1>1, <2>2, <2>3, <2>4, Sizes, ChunkAdded DEF NewChunk, NextNumber
  <1>2. CASE CreateFails(n, fs)
    <2>1. /\ failed \subseteq failed' /\ "create" \in failed' /\ phase' # "idle"
      BY <1>2 DEF CreateFails, Fails
    <2> QED BY <1>2, <2>1, Sizes, ChunkNotAdded DEF CreateFails
  <1>3. CASE NewChunkFull(n, fs)
    <2>1. PICK part \in Parts(n) :
            files' = Append(fs, [Chunk(NextNumber) EXCEPT !.blocks = part])
      BY <1>3 DEF NewChunkFull
    <2> DEFINE c == [Chunk(NextNumber) EXCEPT !.blocks = part]
    <2>2. c \in ChunkType /\ c.open /\ c.num = mlvChunk + 1
      BY Sizes, PartsType, ChunkWith
    <2>3. failed \subseteq failed' /\ "cardfull" \in failed' /\ phase' # "idle"
      BY <1>3 DEF NewChunkFull, Fails
    <2> HIDE DEF c
    <2> QED BY <1>3, <2>1, <2>2, <2>3, Sizes, ChunkAdded DEF NewChunkFull, NextNumber, c
  <1>4. CASE \E size \in {0, HeaderSize} : NewChunkRemoved(n, fs, size)
    <2>1. /\ failed \subseteq failed' /\ "headers" \in failed' /\ phase' # "idle"
          /\ files' = fs /\ UNCHANGED <<current, mlvChunk>>
      BY <1>4 DEF NewChunkRemoved, Fails
    <2> QED BY <2>1, Sizes, ChunkNotAdded
  <1> QED BY <1>1, <1>2, <1>3, <1>4 DEF StartsNext

LEMMA NextChunkCounts ==
    ASSUME IInv, NEW n, Busy(n), NEW fs, StartsNext(n, fs), UNCHANGED runs,
           sizeLimit' \in BOOLEAN, onClosed' \in BOOLEAN,
           onClosed' => failed \cap {"create", "headers"} # {}
    PROVE  CountsSound'
  <1>1. \E why \in FailureKinds : Succeeds(n) \/ Fails(n, why)
    BY DEF StartsNext, NewChunk, CreateFails, NewChunkFull, NewChunkRemoved, FailureKinds
  <1>2. /\ failed \subseteq failed' /\ failed' \subseteq FailureKinds
        /\ phase' \in {"idle", "recording", "flushing", "closing"} /\ given' = given + n
    BY <1>1 DEF Succeeds, Fails, IInv, TypeOK, Busy
  <1>3. mlvChunk' \in Nat /\ frameCount' \in Nat /\ written' \in 0..Limit
    BY Sizes, InParts DEF CountsSound, StartsNext, NewChunk, CreateFails, NewChunkFull,
       NewChunkRemoved, NextNumber
  <1> QED BY <1>2, <1>3, Sizes, InParts DEF CountsSound, ClosedIsClosed

LEMMA WriteBeforeLimitStep ==
    ASSUME IInv, NEW n, Busy(n), WriteBeforeLimit(n), UNCHANGED runs
    PROVE  IInv'
  <1>1. Finished(Finish(files))
    BY FilesGrown, FinishFinishes, Sizes
  <1>2. StartsNext(n, Finish(files))
    BY DEF WriteBeforeLimit, StartsNext
  <1>3. /\ sizeLimit' \in BOOLEAN /\ onClosed' \in BOOLEAN
        /\ onClosed' => failed \cap {"create", "headers"} # {}
    BY Sizes DEF WriteBeforeLimit, IInv, TypeOK, CurrentIsLast, ClosedIsClosed
  <1> QED BY <1>1, <1>2, <1>3, NextChunkFiles, NextChunkCounts, FromParts

LEMMA WriteAtLimitStep ==
    ASSUME IInv, NEW n, Busy(n), WriteAtLimit(n), UNCHANGED runs
    PROVE  IInv'
  <1>1. PICK part \in CoveredParts(n) :
          StartsNext(n, Finish([files EXCEPT ![current].blocks = @ \o part]))
    BY DEF WriteAtLimit, StartsNext
  <1> DEFINE gs == [files EXCEPT ![current].blocks = @ \o part]
  <1>2. part \in Seq(Int) /\ \A k \in 1..Len(part) : part[k] # Torn
    <2>1. part = <<>> \/ part = <<Null>>
      BY DEF CoveredParts
    <2>2. CASE part = <<>>
      BY <2>2
    <2>3. CASE part = <<Null>>
      <3>1. Null \in Int /\ Null # Torn
        BY DEF Null, Torn
      <3> QED BY <2>3, <3>1
    <2> QED BY <2>1, <2>2, <2>3
  <1>3. /\ gs \in Seq(ChunkType) /\ Len(gs) = current
        /\ \A i \in 1..current :
              /\ gs[i].num = files[i].num /\ gs[i].open = files[i].open
              /\ gs[i].blocks = IF i = current THEN files[i].blocks \o part
                                ELSE files[i].blocks
    BY <1>2, Sizes, Appending
  <1> HIDE DEF gs
  <1>4. Grown(gs)
    <2> SUFFICES ASSUME NEW i \in 1..current, "cardfull" \notin failed
                 PROVE  Whole(gs[i])
      BY <1>3 DEF Grown
    <2>1. files[i] \in ChunkType /\ Whole(files[i])
      <3>1. files \in Seq(ChunkType) /\ current = Len(files)
        BY DEF IInv, TypeOK, CurrentIsLast, ChunkType
      <3>2. files[i] \in ChunkType
        BY <3>1
      <3> QED BY <3>1, <3>2 DEF IInv, AllWhole
    <2>2. \A k \in 1..Len(files[i].blocks \o part) : (files[i].blocks \o part)[k] # Torn
      BY <1>2, <2>1, AppendWhole DEF Whole, ChunkType
    <2> QED BY <1>3, <2>1, <2>2 DEF Whole
  <1>5. Finished(Finish(gs))
    BY <1>4, FinishFinishes, Sizes
  <1>6. /\ sizeLimit' \in BOOLEAN /\ onClosed' \in BOOLEAN
        /\ onClosed' => failed \cap {"create", "headers"} # {}
    BY DEF WriteAtLimit, IInv, TypeOK, ClosedIsClosed
  <1> QED BY <1>1, <1>5, <1>6, NextChunkFiles, NextChunkCounts, FromParts DEF gs

LEMMA WriteStep ==
    ASSUME IInv, NEW n, Busy(n), write_frames(n), UNCHANGED runs
    PROVE  IInv'
  BY WriteAllStep, WriteCardFullStep, WriteClosedStep, WriteBeforeLimitStep,
     WriteAtLimitStep DEF write_frames

-----------------------------------------------------------------------------
(* raw_video_rec_task                                                      *)
LEMMA LimitFacts == Limit \in Nat /\ HeaderSize \in 0..Limit
  BY LimitAssumption DEF FrameSize

LEMMA InitInv == Init => IInv
  <1> SUFFICES ASSUME Init
               PROVE  IInv
    OBVIOUS
  <1>1. files = <<>> /\ files \in Seq(ChunkType) /\ Len(files) = 0 /\ DOMAIN files = {}
    BY DEF Init
  <1>2. FilesSound
    BY <1>1 DEF Init, FilesSound, CurrentIsLast, NoneLeftOpen, ChunksNumbered, Numbers,
       AllWhole
  <1>3. CountsSound
    <2>1. ClosedIsClosed /\ {sizeLimit, onClosed} \subseteq BOOLEAN
      BY DEF Init, ClosedIsClosed
    <2>2. written \in 0..Limit
      BY LimitFacts DEF Init
    <2> QED BY <2>1, <2>2 DEF Init, CountsSound
  <1> QED BY <1>2, <1>3, InParts

LEMMA StartStep == IInv /\ Start => IInv'
  <1> SUFFICES ASSUME IInv, Start
               PROVE  IInv'
    OBVIOUS
  <1>1. Chunk(0) \in ChunkType /\ Chunk(0).num = 0 /\ Chunk(0).blocks = <<>>
    BY DEF Chunk, ChunkType
  <1>2. /\ files' \in Seq(ChunkType) /\ Len(files') = 1 /\ DOMAIN files' = 1..1
        /\ files'[1] = Chunk(0)
    BY <1>1 DEF Start
  <1>3. FilesSound'
    BY <1>1, <1>2 DEF Start, FilesSound, CurrentIsLast, NoneLeftOpen, ChunksNumbered,
       Numbers, AllWhole, Whole, Chunk
  <1>4. CountsSound'
    <2>1. (ClosedIsClosed)' /\ {sizeLimit', onClosed'} \subseteq BOOLEAN
      BY DEF Start, ClosedIsClosed, IInv, TypeOK
    <2>2. written' \in 0..Limit
      BY LimitFacts DEF Start
    <2> QED BY <2>1, <2>2 DEF Start, IInv, TypeOK, CountsSound
  <1> QED BY <1>3, <1>4, FromParts

LEMMA CloseStep == IInv /\ Close => IInv'
  <1> SUFFICES ASSUME IInv, Close
               PROVE  IInv'
    OBVIOUS
  <1>1. Finished(Finish(files))
    BY FilesGrown, FinishFinishes DEF Close, IInv, CurrentIsLast
  <1>2. /\ files' \in Seq(ChunkType) /\ Len(files') = current
        /\ current = Len(files) /\ DOMAIN files' = 1..current /\ DOMAIN files = 1..current
    BY <1>1 DEF Close, Finished, IInv, TypeOK, CurrentIsLast, ChunkType
  <1>3. FilesSound'
    BY <1>1, <1>2 DEF Close, IInv, Finished, FilesSound, CurrentIsLast, NoneLeftOpen,
       ChunksNumbered, Numbers, AllWhole
  <1>4. CountsSound'
    BY DEF Close, IInv, TypeOK, CurrentIsLast, CountsSound, ClosedIsClosed
  <1> QED BY <1>3, <1>4, FromParts

LEMMA PhaseStep ==
    ASSUME IInv, phase # "idle", phase' \in {"flushing", "closing"},
           UNCHANGED <<files, current, mlvChunk, sizeLimit, written, frameCount, given,
                       failed, onClosed, runs>>
    PROVE  IInv'
  BY DEF IInv, TypeOK, CurrentIsLast, NoneLeftOpen, ChunksNumbered, Numbers, AllWhole,
     Whole, ClosedIsClosed

LEMMA StutterStep == IInv /\ UNCHANGED vars => IInv'
  BY DEF IInv, TypeOK, CurrentIsLast, NoneLeftOpen, ChunksNumbered, Numbers, AllWhole,
     Whole, ClosedIsClosed, vars

LEMMA NextStep == IInv /\ [Next]_vars => IInv'
  <1> SUFFICES ASSUME IInv, [Next]_vars
               PROVE  IInv'
    OBVIOUS
  <1>1. CASE Start
    BY <1>1, StartStep
  <1>2. CASE SaveGroup
    BY <1>2, WriteStep DEF SaveGroup, Busy
  <1>3. CASE StopRecording
    BY <1>3, PhaseStep DEF StopRecording
  <1>4. CASE FlushFrame
    BY <1>4, WriteStep, LimitAssumption DEF FlushFrame, Busy
  <1>5. CASE FlushEnds
    BY <1>5, PhaseStep DEF FlushEnds
  <1>6. CASE Close
    BY <1>6, CloseStep
  <1>7. CASE UNCHANGED vars
    BY <1>7, StutterStep
  <1> QED BY <1>1, <1>2, <1>3, <1>4, <1>5, <1>6, <1>7 DEF Next

THEOREM Inductive == Spec => []IInv
  BY InitInv, NextStep, PTL DEF Spec

(* Chunks are numbered as a reader looks for them, all but the last are
   closed, the last one too when the task ends, and no closed file is used,
   unless the next one could not be started. *)
THEOREM ChunksAreInSequence == Spec => []ChunksInSequence
  <1>1. IInv => ChunksInSequence
    BY DEF IInv, ChunksInSequence
  <1> QED BY <1>1, Inductive, PTL

(* A file ends in the middle of a block only when the card is full. *)
THEOREM BlocksAreWhole == Spec => []BlocksWhole
  <1>1. IInv => BlocksWhole
    <2> SUFFICES ASSUME IInv, "cardfull" \notin failed, NEW i \in DOMAIN files
                 PROVE  ~Contains(files[i].blocks, Torn)
      BY DEF BlocksWhole
    <2>1. Whole(files[i])
      <3>1. DOMAIN files = 1..Len(files)
        BY DEF IInv, TypeOK
      <3> QED BY <3>1 DEF IInv, AllWhole
    <2> QED BY <2>1 DEF Whole, Contains
  <1> QED BY <1>1, Inductive, PTL


-----------------------------------------------------------------------------
(* The order of the frames, in any sequence of chunks fs of a clip of n
   frames; what a write adds to it; and that it stays.                      *)
Below(fs, n)    == \A i \in 1..Len(fs) : \A k \in 1..Len(fs[i].blocks) : fs[i].blocks[k] <= n
Complete(fs, n) == \A m \in 1..n : Holds(fs, m)
Good(fs, n)     == fs \in Seq(ChunkType) /\ InOrder(fs) /\ Below(fs, n)

Fresh(b, n, m) ==
    /\ b \in Seq(Int) /\ n \in Nat /\ m \in Nat /\ n <= m
    /\ \A k \in 1..Len(b) : b[k] <= m /\ (b[k] \in Video => b[k] > n)
    /\ \A k, l \in 1..Len(b) : k < l /\ b[k] \in Video /\ b[l] \in Video => b[k] < b[l]

Every(b, n, m) == \A x \in (n + 1)..m : \E k \in 1..Len(b) : b[k] = x

LEMMA ChunkParts ==
    ASSUME NEW fs \in Seq(ChunkType)
    PROVE  /\ Len(fs) \in Nat /\ DOMAIN fs = 1..Len(fs)
           /\ \A i \in 1..Len(fs) : /\ fs[i].blocks \in Seq(Int) /\ Len(fs[i].blocks) \in Nat
                                    /\ DOMAIN fs[i].blocks = 1..Len(fs[i].blocks)
                                    /\ \A k \in 1..Len(fs[i].blocks) : fs[i].blocks[k] \in Int
                                    /\ fs[i].count \in Nat /\ fs[i].open \in BOOLEAN
  <1>1. \A i \in 1..Len(fs) : fs[i] \in ChunkType
    OBVIOUS
  <1>2. \A c \in ChunkType : /\ c.blocks \in Seq(Int) /\ c.count \in Nat /\ c.open \in BOOLEAN
    BY DEF ChunkType
  <1>3. \A b \in Seq(Int) : Len(b) \in Nat /\ DOMAIN b = 1..Len(b) /\ \A k \in 1..Len(b) : b[k] \in Int
    OBVIOUS
  <1> QED BY <1>1, <1>2, <1>3

(* InOrder and Holds with the domains as intervals *)
LEMMA OrderMeans ==
    ASSUME NEW fs \in Seq(ChunkType)
    PROVE  /\ InOrder(fs) <=>
                \A i, j \in 1..Len(fs) :
                    \A k \in 1..Len(fs[i].blocks), l \in 1..Len(fs[j].blocks) :
                        /\ i < j \/ (i = j /\ k < l)
                        /\ fs[i].blocks[k] \in Video /\ fs[j].blocks[l] \in Video
                        => fs[i].blocks[k] < fs[j].blocks[l]
           /\ \A n : Holds(fs, n) <=> \E i \in 1..Len(fs) : \E k \in 1..Len(fs[i].blocks) : fs[i].blocks[k] = n
  <1>1. DOMAIN fs = 1..Len(fs) /\ \A i \in 1..Len(fs) : DOMAIN fs[i].blocks = 1..Len(fs[i].blocks)
    BY ChunkParts
  <1> QED BY <1>1 DEF InOrder, Holds

(* The same blocks *)
LEMMA GoodSame ==
    ASSUME NEW fs, NEW n \in Nat, NEW m \in Nat, Good(fs, n), n <= m, NEW gs \in Seq(ChunkType),
           Len(gs) = Len(fs), \A i \in 1..Len(fs) : gs[i].blocks = fs[i].blocks
    PROVE  Good(gs, m) /\ \A x : Holds(fs, x) => Holds(gs, x)
  <1>1. fs \in Seq(ChunkType)
    BY DEF Good
  <1>2. InOrder(gs)
    BY <1>1, OrderMeans DEF Good
  <1>3. Below(gs, m)
    <2> SUFFICES ASSUME NEW i \in 1..Len(gs), NEW k \in 1..Len(gs[i].blocks) PROVE gs[i].blocks[k] <= m
      BY DEF Below
    <2>1. i \in 1..Len(fs) /\ k \in 1..Len(fs[i].blocks) /\ gs[i].blocks[k] = fs[i].blocks[k]
      OBVIOUS
    <2>2. fs[i].blocks[k] <= n /\ fs[i].blocks[k] \in Int
      BY <1>1, <2>1, ChunkParts DEF Good, Below
    <2> QED BY <2>1, <2>2
  <1>4. \A x : Holds(fs, x) => Holds(gs, x)
    BY <1>1, OrderMeans
  <1> QED BY <1>2, <1>3, <1>4 DEF Good

(* The blocks of p and of b are those of q, each at its place *)
Joined(q, p, b) ==
    /\ \A k \in 1..Len(p) : k \in 1..Len(q) /\ q[k] = p[k]
    /\ \A j \in 1..Len(b) : Len(p) + j \in 1..Len(q) /\ q[Len(p) + j] = b[j]
    /\ \A k \in 1..Len(q) : \/ k \in 1..Len(p) /\ q[k] = p[k]
                            \/ \E j \in 1..Len(b) : k = Len(p) + j /\ q[k] = b[j]

LEMMA ConcatParts ==
    ASSUME NEW p \in Seq(Int), NEW b \in Seq(Int)
    PROVE  Joined(p \o b, p, b)
  <1> PICK q : q = p \o b
    OBVIOUS
  <1>1. /\ Len(p) \in Nat /\ Len(b) \in Nat /\ Len(q) = Len(p) + Len(b)
        /\ \A k \in 1..Len(p) : q[k] = p[k]
        /\ \A j \in 1..Len(b) : q[Len(p) + j] = b[j]
    OBVIOUS
  <1>2. ASSUME NEW k \in 1..Len(q), k \notin 1..Len(p)
        PROVE  \E j \in 1..Len(b) : k = Len(p) + j /\ q[k] = b[j]
    <2>1. PICK j \in 1..Len(b) : k = Len(p) + j
      <3>1. k - Len(p) \in 1..Len(b) /\ k = Len(p) + (k - Len(p))
        BY <1>1, <1>2
      <3> QED BY <3>1
    <2> QED BY <1>1, <2>1
  <1>3. \A k \in 1..Len(p) : k \in 1..Len(q)
    BY <1>1
  <1>4. \A j \in 1..Len(b) : Len(p) + j \in 1..Len(q)
    BY <1>1
  <1>5. Joined(q, p, b)
    BY <1>1, <1>2, <1>3, <1>4 DEF Joined
  <1> QED BY <1>5

(* Blocks added to the last chunk *)
LEMMA GoodGrows ==
    ASSUME NEW fs, NEW n, NEW m, Good(fs, n), NEW b, Fresh(b, n, m), NEW gs \in Seq(ChunkType),
           Len(fs) > 0, Len(gs) = Len(fs),
           \A i \in 1..Len(fs) : gs[i].blocks = IF i = Len(fs) THEN fs[i].blocks \o b ELSE fs[i].blocks
    PROVE  /\ Good(gs, m)
           /\ \A x : Holds(fs, x) => Holds(gs, x)
           /\ \A k \in 1..Len(b) : Holds(gs, b[k])
  <1> PICK e : e = Len(fs)
    OBVIOUS
  <1> PICK p : p = fs[e].blocks
    OBVIOUS
  <1> PICK le : le = Len(p)
    OBVIOUS
  <1> PICK ge : ge = gs[e].blocks
    OBVIOUS
  <1>1. /\ fs \in Seq(ChunkType) /\ e \in Nat \ {0} /\ e \in 1..e /\ n \in Nat /\ m \in Nat /\ n <= m
        /\ b \in Seq(Int) /\ Len(b) \in Nat
    BY ChunkParts DEF Good, Fresh
  <1>2. p \in Seq(Int) /\ le \in Nat
    BY <1>1, ChunkParts
  <1>3. /\ \A k \in 1..le : k \in 1..Len(ge) /\ ge[k] = p[k]
        /\ \A k \in 1..Len(b) : le + k \in 1..Len(ge) /\ ge[le + k] = b[k]
        /\ \A k \in 1..Len(ge) : \/ k \in 1..le /\ ge[k] = p[k]
                                 \/ \E j \in 1..Len(b) : k = le + j /\ ge[k] = b[j]
    <2>1. ge = p \o b
      BY <1>1
    <2>2. Joined(p \o b, p, b)
      BY <1>1, <1>2, ConcatParts
    <2>3. Joined(ge, p, b)
      BY <2>1, <2>2
    <2> QED BY <2>3 DEF Joined
  <1>4. \A i \in 1..e : i # e => gs[i].blocks = fs[i].blocks
    BY <1>1
  <1>6. Below(gs, m)
    <2> SUFFICES ASSUME NEW i \in 1..e, NEW k \in 1..Len(gs[i].blocks) PROVE gs[i].blocks[k] <= m
      BY DEF Below
    <2>1. \A x \in Int : x <= n => x <= m
      BY <1>1
    <2>2. \A j \in 1..e : \A l \in 1..Len(fs[j].blocks) : fs[j].blocks[l] <= n /\ fs[j].blocks[l] \in Int
      BY <1>1, ChunkParts DEF Good, Below
    <2>3. CASE i # e
      BY <1>4, <2>1, <2>2, <2>3
    <2>4. CASE i = e
      <3>1. k \in 1..Len(ge) /\ gs[i].blocks[k] = ge[k]
        BY <2>4
      <3>2. CASE k \in 1..le /\ ge[k] = p[k]
        BY <1>1, <2>1, <2>2, <3>1, <3>2
      <3>3. CASE \E j \in 1..Len(b) : k = le + j /\ ge[k] = b[j]
        BY <3>1, <3>3 DEF Fresh
      <3> QED BY <1>3, <3>1, <3>2, <3>3
    <2> QED BY <2>3, <2>4
  <1>7. InOrder(gs)
    <2> SUFFICES ASSUME NEW i \in 1..e, NEW j \in 1..e,
                        NEW k \in 1..Len(gs[i].blocks), NEW l \in 1..Len(gs[j].blocks),
                        i < j \/ (i = j /\ k < l),
                        gs[i].blocks[k] \in Video, gs[j].blocks[l] \in Video
                 PROVE  gs[i].blocks[k] < gs[j].blocks[l]
      BY OrderMeans
    <2>1. i # e \/ i = j
      BY <1>1
    <2>2. \A x, y \in 1..e : \A u \in 1..Len(fs[x].blocks), v \in 1..Len(fs[y].blocks) :
              /\ x < y \/ (x = y /\ u < v)
              /\ fs[x].blocks[u] \in Video /\ fs[y].blocks[v] \in Video
              => fs[x].blocks[u] < fs[y].blocks[v]
      BY <1>1, OrderMeans DEF Good
    <2>3. \A x \in 1..e : \A u \in 1..Len(fs[x].blocks) : fs[x].blocks[u] <= n
      BY DEF Good, Below
    <2>4. CASE j # e
      <3>1. i # e
        BY <2>1, <2>4
      <3> QED BY <1>4, <2>2, <2>4, <3>1
    <2>5. CASE j = e /\ l \in 1..le
      <3>1. gs[j].blocks[l] = fs[j].blocks[l] /\ l \in 1..Len(fs[j].blocks)
        BY <1>3, <2>5
      <3>2. gs[i].blocks[k] = fs[i].blocks[k] /\ k \in 1..Len(fs[i].blocks)
        <4>1. CASE i # e
          BY <1>4, <4>1
        <4>2. CASE i = e
          <5>1. k \in 1..le
            BY <1>2, <2>5, <4>2
          <5> QED BY <1>3, <4>2, <5>1
        <4> QED BY <4>1, <4>2
      <3> QED BY <2>2, <3>1, <3>2
    <2>6. CASE j = e /\ l \notin 1..le
      <3>0. l \in 1..Len(ge) /\ gs[j].blocks = ge
        BY <2>6
      <3>1. PICK q \in 1..Len(b) : l = le + q /\ ge[l] = b[q]
        BY <1>3, <2>6, <3>0
      <3>2. b[q] > n /\ b[q] \in Video
        BY <3>0, <3>1 DEF Fresh
      <3>3. CASE i # e
        <4>1. gs[i].blocks = fs[i].blocks /\ fs[i].blocks[k] \in Int
          BY <1>1, <1>4, <3>3, ChunkParts
        <4>2. fs[i].blocks[k] <= n
          BY <2>3, <4>1
        <4>3. \A x, y \in Int : x <= n /\ y > n => x < y
          BY <1>1
        <4>4. b[q] \in Int
          BY <3>2 DEF Video
        <4>5. fs[i].blocks[k] < b[q]
          BY ONLY <3>2, <4>1, <4>2, <4>3, <4>4
        <4>6. gs[i].blocks[k] = fs[i].blocks[k] /\ gs[j].blocks[l] = b[q]
          BY <3>0, <3>1, <4>1
        <4> QED BY ONLY <4>5, <4>6
      <3>4. CASE i = e
        <4>0. k \in 1..Len(ge) /\ gs[i].blocks = ge
          BY <3>4
        <4>1. CASE k \in 1..le /\ ge[k] = p[k]
          <5>1. ge[k] <= n /\ ge[k] \in Int
            <6>1. ge[k] <= n
              BY <1>1, <2>3, <4>1
            <6>2. ge[k] \in Int
              BY <1>2, <4>1
            <6> QED BY <6>1, <6>2
          <5>2. \A x, y \in Int : x <= n /\ y > n => x < y
            BY <1>1
          <5>3. ge[k] < b[q]
            BY <3>2, <5>1, <5>2 DEF Video
          <5>4. gs[i].blocks[k] = ge[k] /\ gs[j].blocks[l] = b[q]
            BY <3>0, <3>1, <4>0
          <5> QED BY ONLY <5>3, <5>4
        <4>2. CASE \E j1 \in 1..Len(b) : k = le + j1 /\ ge[k] = b[j1]
          <5>1. PICK r \in 1..Len(b) : k = le + r /\ ge[k] = b[r]
            BY <4>2
          <5>2. r < q
            <6>1. k < l
              BY <1>1, <2>6, <3>4
            <6>2. le \in Int /\ r \in Int /\ q \in Int
              BY <1>1, <1>2
            <6> QED BY <3>1, <5>1, <6>1, <6>2
          <5>3. b[r] \in Video /\ b[q] \in Video /\ gs[i].blocks[k] = b[r] /\ gs[j].blocks[l] = b[q]
            BY <3>0, <3>1, <4>0, <5>1
          <5>4. b[r] < b[q]
            BY <5>2, <5>3 DEF Fresh
          <5> QED BY <5>3, <5>4
        <4>3. (k \in 1..le /\ ge[k] = p[k]) \/ \E j1 \in 1..Len(b) : k = le + j1 /\ ge[k] = b[j1]
          BY ONLY <1>3, <4>0
        <4> QED BY ONLY <4>1, <4>2, <4>3
      <3> QED BY <3>3, <3>4
    <2> QED BY <2>4, <2>5, <2>6
  <1>8. \A x : Holds(fs, x) => Holds(gs, x)
    <2>0. \A x : Holds(fs, x) => \E i \in 1..e : \E k \in 1..Len(fs[i].blocks) : fs[i].blocks[k] = x
      BY <1>1, OrderMeans
    <2> SUFFICES ASSUME NEW x, Holds(fs, x)
                 PROVE  Holds(gs, x)
      OBVIOUS
    <2> PICK i \in 1..e : \E k \in 1..Len(fs[i].blocks) : fs[i].blocks[k] = x
      BY <2>0
    <2> PICK k \in 1..Len(fs[i].blocks) : fs[i].blocks[k] = x
      OBVIOUS
    <2>1. k \in 1..Len(gs[i].blocks) /\ gs[i].blocks[k] = fs[i].blocks[k]
      <3>1. CASE i # e
        BY <1>4, <3>1
      <3>2. CASE i = e
        BY <1>1, <1>2, <1>3, <3>2
      <3> QED BY <3>1, <3>2
    <2> QED BY <2>1, OrderMeans
  <1>9. \A k \in 1..Len(b) : Holds(gs, b[k])
    <2> SUFFICES ASSUME NEW k \in 1..Len(b) PROVE Holds(gs, b[k])
      OBVIOUS
    <2>1. le + k \in 1..Len(ge) /\ ge[le + k] = b[k]
      BY <1>3
    <2> QED BY <1>1, <2>1, OrderMeans
  <1> QED BY <1>6, <1>7, <1>8, <1>9 DEF Good

(* A chunk added after the others *)
LEMMA GoodAdds ==
    ASSUME NEW fs, NEW n, NEW m, Good(fs, n), NEW b, Fresh(b, n, m), NEW gs \in Seq(ChunkType),
           Len(gs) = Len(fs) + 1,
           \A i \in 1..Len(fs) : gs[i].blocks = fs[i].blocks, gs[Len(fs) + 1].blocks = b
    PROVE  /\ Good(gs, m)
           /\ \A x : Holds(fs, x) => Holds(gs, x)
           /\ \A k \in 1..Len(b) : Holds(gs, b[k])
  <1> PICK e : e = Len(fs)
    OBVIOUS
  <1>1. /\ fs \in Seq(ChunkType) /\ e \in Nat /\ e + 1 \in 1..Len(gs) /\ n \in Nat /\ m \in Nat /\ n <= m
        /\ b \in Seq(Int) /\ Len(b) \in Nat /\ \A i \in 1..Len(gs) : i \in 1..e \/ i = e + 1
        /\ \A i \in 1..e : i < e + 1 /\ i \in 1..Len(gs)
    BY ChunkParts DEF Good, Fresh
  <1>2. \A i \in 1..e : \A k \in 1..Len(fs[i].blocks) : fs[i].blocks[k] <= n /\ fs[i].blocks[k] \in Int
    BY <1>1, ChunkParts DEF Good, Below
  <1>3. Below(gs, m)
    <2> SUFFICES ASSUME NEW i \in 1..Len(gs), NEW k \in 1..Len(gs[i].blocks) PROVE gs[i].blocks[k] <= m
      BY DEF Below
    <2>1. CASE i \in 1..e
      <3>1. gs[i].blocks[k] = fs[i].blocks[k] /\ k \in 1..Len(fs[i].blocks)
        BY <2>1
      <3>2. fs[i].blocks[k] <= n /\ fs[i].blocks[k] \in Int
        BY <1>2, <2>1, <3>1
      <3> QED BY <1>1, <3>1, <3>2
    <2>2. CASE i = e + 1
      BY <2>2 DEF Fresh
    <2> QED BY <1>1, <2>1, <2>2
  <1>4. InOrder(gs)
    <2> SUFFICES ASSUME NEW i \in 1..Len(gs), NEW j \in 1..Len(gs),
                        NEW k \in 1..Len(gs[i].blocks), NEW l \in 1..Len(gs[j].blocks),
                        i < j \/ (i = j /\ k < l),
                        gs[i].blocks[k] \in Video, gs[j].blocks[l] \in Video
                 PROVE  gs[i].blocks[k] < gs[j].blocks[l]
      BY OrderMeans
    <2>1. CASE j \in 1..e
      <3>1. i \in 1..e
        BY <1>1, <2>1
      <3>2. \A x, y \in 1..e : \A u \in 1..Len(fs[x].blocks), v \in 1..Len(fs[y].blocks) :
              /\ x < y \/ (x = y /\ u < v)
              /\ fs[x].blocks[u] \in Video /\ fs[y].blocks[v] \in Video
              => fs[x].blocks[u] < fs[y].blocks[v]
        BY <1>1, OrderMeans DEF Good
      <3> QED BY <2>1, <3>1, <3>2
    <2>2. CASE j = e + 1
      <3>1. gs[j].blocks = b /\ l \in 1..Len(b) /\ b[l] > n /\ b[l] \in Int
        BY <2>2 DEF Fresh, Video
      <3>2. CASE i \in 1..e
        <4>1. gs[i].blocks[k] = fs[i].blocks[k] /\ k \in 1..Len(fs[i].blocks)
          BY <3>2
        <4>2. fs[i].blocks[k] <= n /\ fs[i].blocks[k] \in Int
          BY <1>2, <3>2, <4>1
        <4>3. \A x, y \in Int : x <= n /\ y > n => x < y
          BY <1>1
        <4>4. gs[j].blocks[l] = b[l]
          BY <3>1
        <4>5. fs[i].blocks[k] < b[l]
          BY ONLY <3>1, <4>2, <4>3
        <4> QED BY ONLY <4>1, <4>4, <4>5
      <3>3. CASE i = e + 1
        <4>1. k < l /\ gs[i].blocks = b
          BY <1>1, <2>2, <3>3
        <4>2. k \in 1..Len(b) /\ b[k] \in Video /\ b[l] \in Video /\ gs[i].blocks[k] = b[k]
          BY <3>1, <4>1
        <4>3. b[k] < b[l]
          BY <3>1, <4>1, <4>2 DEF Fresh
        <4>4. gs[j].blocks[l] = b[l]
          BY <3>1
        <4> QED BY ONLY <4>2, <4>3, <4>4
      <3> QED BY <1>1, <3>2, <3>3
    <2> QED BY <1>1, <2>1, <2>2
  <1>5. \A x : Holds(fs, x) => Holds(gs, x)
    <2>0. \A x : Holds(fs, x) => \E i \in 1..e : \E k \in 1..Len(fs[i].blocks) : fs[i].blocks[k] = x
      BY <1>1, OrderMeans
    <2> SUFFICES ASSUME NEW x, Holds(fs, x)
                 PROVE  Holds(gs, x)
      OBVIOUS
    <2> PICK i \in 1..e : \E k \in 1..Len(fs[i].blocks) : fs[i].blocks[k] = x
      BY <2>0
    <2> PICK k \in 1..Len(fs[i].blocks) : fs[i].blocks[k] = x
      OBVIOUS
    <2>1. i \in 1..Len(gs) /\ gs[i].blocks = fs[i].blocks
      BY <1>1
    <2> QED BY <2>1, OrderMeans
  <1>6. \A k \in 1..Len(b) : Holds(gs, b[k])
    BY <1>1, OrderMeans
  <1> QED BY <1>3, <1>4, <1>5, <1>6 DEF Good


-----------------------------------------------------------------------------
(* The frames of a group, and what a failed write leaves of it             *)
LEMMA FramesFresh ==
    ASSUME given \in Nat, NEW n \in Nat
    PROVE  /\ Fresh(Frames(n), given, given + n) /\ Every(Frames(n), given, given + n)
           /\ Len(Keeping(Frames(n), Video)) = n
  <1> PICK b : b = Frames(n)
    OBVIOUS
  <1>1. b \in Seq(Int) /\ Len(b) = n
    BY FramesType
  <1>2. \A k \in 1..n : b[k] = given + k /\ b[k] \in Video /\ b[k] <= given + n /\ b[k] > given
    BY DEF Frames, Video, Null
  <1>3. Fresh(b, given, given + n)
    <2>1. given + n \in Nat /\ given <= given + n
      OBVIOUS
    <2>2. \A k, l \in 1..n : k < l => b[k] < b[l]
      BY <1>2
    <2> QED BY <1>1, <1>2, <2>1, <2>2 DEF Fresh
  <1>4. Every(b, given, given + n)
    <2> SUFFICES ASSUME NEW x \in (given + 1)..(given + n)
                 PROVE  \E k \in 1..Len(b) : b[k] = x
      BY DEF Every
    <2>1. PICK k \in 1..n : x = given + k
      <3>1. x - given \in 1..n /\ x = given + (x - given)
        OBVIOUS
      <3> QED BY <3>1
    <2> QED BY <1>1, <1>2, <2>1
  <1>5. Len(Keeping(b, Video)) = n
    <2>1. Where(b, Video) = 1..n
      BY <1>1, <1>2 DEF Where
    <2>2. Cardinality(1..n) = n
      BY FS_Interval
    <2>3. Len(Keeping(b, Video)) = Cardinality(Where(b, Video))
      BY <1>1, KeepingType
    <2> QED BY <2>1, <2>2, <2>3
  <1> QED BY <1>3, <1>4, <1>5

LEMMA PartsFresh ==
    ASSUME given \in Nat, NEW n \in Nat \ {0}, NEW part \in Parts(n)
    PROVE  Fresh(part, given, given + n)
  <1>1. PICK k \in 0..(n - 1), rest \in {<<>>, <<Torn>>} : part = Frames(k) \o rest
    BY DEF Parts
  <1>2. /\ rest \in Seq(Int) /\ \A j \in 1..Len(rest) : rest[j] = Torn
        /\ Torn \in Int /\ Torn \notin Video /\ Torn <= 0
    <2>1. Torn \in Int /\ Torn \notin Video /\ Torn <= 0
      BY DEF Torn, Video
    <2>2. CASE rest = <<>>
      BY <2>1, <2>2
    <2>3. CASE rest = <<Torn>>
      <3>1. rest \in Seq(Int) /\ Len(rest) = 1 /\ rest[1] = Torn
        BY <2>1, <2>3
      <3> QED BY <2>1, <3>1
    <2> QED BY <2>2, <2>3
  <1> PICK b : b = Frames(k)
    OBVIOUS
  <1>3. k \in Nat /\ k <= n /\ n \in Nat
    OBVIOUS
  <1>4. b \in Seq(Int) /\ Len(b) = k
    BY <1>3, FramesType
  <1>5. \A j \in 1..k : b[j] = given + j
    BY DEF Frames
  <1>6. part \in Seq(Int)
    BY PartsType
  <1>7. Joined(part, b, rest)
    <2>1. Joined(b \o rest, b, rest)
      BY <1>2, <1>4, ConcatParts
    <2> QED BY <1>1, <2>1
  <1>8. \A j \in 1..Len(part) : (j \in 1..k /\ part[j] = given + j) \/ part[j] = Torn
    BY <1>2, <1>4, <1>5, <1>7 DEF Joined
  <1>9. given + n \in Nat /\ given <= given + n
    BY <1>3
  <1>10. \A j \in 1..Len(part) : part[j] <= given + n /\ (part[j] \in Video => part[j] > given)
    <2> SUFFICES ASSUME NEW j \in 1..Len(part)
                 PROVE  part[j] <= given + n /\ (part[j] \in Video => part[j] > given)
      OBVIOUS
    <2>1. CASE j \in 1..k /\ part[j] = given + j
      BY <1>3, <2>1
    <2>2. CASE part[j] = Torn
      <3>1. Torn <= given + n
        BY <1>2, <1>9
      <3> QED BY <1>2, <2>2, <3>1
    <2> QED BY <1>8, <2>1, <2>2
  <1>11. \A j, l \in 1..Len(part) :
            j < l /\ part[j] \in Video /\ part[l] \in Video => part[j] < part[l]
    <2> SUFFICES ASSUME NEW j \in 1..Len(part), NEW l \in 1..Len(part),
                        j < l, part[j] \in Video, part[l] \in Video
                 PROVE  part[j] < part[l]
      OBVIOUS
    <2>1. part[j] = given + j /\ part[l] = given + l
      BY <1>2, <1>8
    <2>2. j \in Nat /\ l \in Nat
      BY <1>6
    <2> QED BY <2>1, <2>2
  <1> QED BY <1>6, <1>9, <1>10, <1>11 DEF Fresh

LEMMA CoveredFresh ==
    ASSUME given \in Nat, NEW n, NEW part \in CoveredParts(n)
    PROVE  /\ part \in Seq(Int) /\ Fresh(part, given, given) /\ Len(Keeping(part, Video)) = 0
           /\ \A k \in 1..Len(part) : part[k] # Torn
  <1>1. Null \in Int /\ Null \notin Video /\ Null <= given /\ Null # Torn
    BY DEF Null, Video, Torn
  <1>2. CASE part = <<>>
    <2>1. part \in Seq(Int) /\ Len(part) = 0 /\ 1..Len(part) = {}
      BY <1>2
    <2>2. Keeping(part, Video) = <<>>
      <3>1. Keeping(<<>>, Video) = <<>>
        BY <1>1, KeepingOne
      <3> QED BY <1>2, <3>1
    <2> QED BY <2>1, <2>2 DEF Fresh
  <1>3. CASE part = <<Null>>
    <2>1. part \in Seq(Int) /\ Len(part) = 1 /\ \A k \in 1..Len(part) : part[k] = Null
      BY <1>1, <1>3
    <2>2. Keeping(part, Video) = <<>>
      <3>1. Keeping(<<Null>>, Video) = IF Null \in Video THEN <<Null>> ELSE <<>>
        BY <1>1, KeepingOne
      <3> QED BY <1>1, <1>3, <3>1
    <2> QED BY <1>1, <2>1, <2>2 DEF Fresh
  <1> QED BY <1>2, <1>3 DEF CoveredParts

(* A group of m frames after n, when those and all before are there *)
LEMMA CompleteGrows ==
    ASSUME NEW fs, NEW gs, NEW n \in Nat, NEW m \in Nat, NEW b,
           Complete(fs, n), Every(b, n, m),
           \A x : Holds(fs, x) => Holds(gs, x),
           \A k \in 1..Len(b) : Holds(gs, b[k])
    PROVE  Complete(gs, m)
  <1> SUFFICES ASSUME NEW x \in 1..m
               PROVE  Holds(gs, x)
    BY DEF Complete
  <1>1. CASE x \in 1..n
    BY <1>1 DEF Complete
  <1>2. CASE x \notin 1..n
    <2>1. x \in (n + 1)..m
      BY <1>2
    <2> QED BY <2>1 DEF Every
  <1> QED BY <1>1, <1>2


-----------------------------------------------------------------------------
(* The clip in the files, and the counts of their headers; Counted of
   sequences of chunks whose last is the current one, c frames into it      *)
Counted(fs) == \A i \in 1..Len(fs) : ~fs[i].open => fs[i].count = Len(FramesIn(fs[i]))
CountIs(fs, c) == fs[Len(fs)].open => c = Len(FramesIn(fs[Len(fs)]))

ClipInv  == Good(files, given) /\ (failed = {} => Complete(files, given))
CountInv == "cardfull" \notin failed =>
                Counted(files) /\ (phase # "idle" => CountIs(files, frameCount))

(* gs is fs with its last chunk closed *)
ClosedFrom(fs, gs) ==
    /\ gs \in Seq(ChunkType) /\ Len(gs) = Len(fs)
    /\ \A i \in 1..Len(fs) :
          /\ gs[i].blocks = fs[i].blocks
          /\ i # Len(fs) => gs[i] = fs[i]
    /\ ~gs[Len(fs)].open
    /\ fs[Len(fs)].open => gs[Len(fs)].count = frameCount
    /\ ~fs[Len(fs)].open => gs = fs

LEMMA FinishCloses ==
    ASSUME IInv, current > 0, NEW fs \in Seq(ChunkType), Len(fs) = current
    PROVE  ClosedFrom(fs, Finish(fs))
  <1>1. current \in 1..Len(fs) /\ frameCount \in Nat
    BY DEF IInv, TypeOK
  <1>2. CASE ~fs[current].open
    BY <1>1, <1>2 DEF Finish, ClosedFrom
  <1>3. CASE fs[current].open
    <2> DEFINE gs == [fs EXCEPT ![current].open = FALSE, ![current].count = frameCount]
               e  == [fs[current] EXCEPT !.open = FALSE, !.count = frameCount]
    <2>1. Finish(fs) = gs
      BY <1>3 DEF Finish
    <2>2. fs[current] \in ChunkType
      BY <1>1
    <2>3. e \in ChunkType /\ e.blocks = fs[current].blocks /\ ~e.open /\ e.count = frameCount
      BY <1>1, <2>2 DEF ChunkType
    <2>4. gs = [fs EXCEPT ![current] = e]
      OBVIOUS
    <2> HIDE DEF e, gs
    <2>5. /\ gs \in Seq(ChunkType) /\ Len(gs) = current
          /\ \A i \in 1..current : gs[i] = IF i = current THEN e ELSE fs[i]
      BY <1>1, <2>3, <2>4, ExceptSeq
    <2>6. ClosedFrom(fs, gs)
      BY <1>1, <1>3, <2>3, <2>5 DEF ClosedFrom
    <2> QED BY <2>1, <2>6
  <1> QED BY <1>2, <1>3

LEMMA ClosingCounts ==
    ASSUME NEW fs \in Seq(ChunkType), Len(fs) > 0, NEW gs, ClosedFrom(fs, gs),
           Counted(fs), CountIs(fs, frameCount)
    PROVE  Counted(gs)
  <1> SUFFICES ASSUME NEW i \in 1..Len(fs), ~gs[i].open
               PROVE  gs[i].count = Len(FramesIn(gs[i]))
    BY DEF Counted, ClosedFrom
  <1>1. FramesIn(gs[i]) = FramesIn(fs[i])
    BY DEF FramesIn, ClosedFrom
  <1>2. CASE i # Len(fs) \/ ~fs[Len(fs)].open
    <2>1. gs[i] = fs[i]
      BY <1>2 DEF ClosedFrom
    <2> QED BY <2>1 DEF Counted
  <1>3. CASE i = Len(fs) /\ fs[Len(fs)].open
    BY <1>1, <1>3 DEF ClosedFrom, CountIs
  <1> QED BY <1>2, <1>3

(* Blocks added to the current chunk, q frames among them *)
LEMMA FramesAdded ==
    ASSUME NEW c, NEW d, c.blocks \in Seq(Int), NEW b \in Seq(Int), d.blocks = c.blocks \o b
    PROVE  Len(FramesIn(d)) = Len(FramesIn(c)) + Len(Keeping(b, Video))
  <1>1. Keeping(c.blocks \o b, Video) = Keeping(c.blocks, Video) \o Keeping(b, Video)
    BY KeepingConcat
  <1>2. Keeping(c.blocks, Video) \in Seq(Int \cap Video) /\ Keeping(b, Video) \in Seq(Int \cap Video)
    BY KeepingType
  <1>3. Len(Keeping(c.blocks, Video) \o Keeping(b, Video))
            = Len(Keeping(c.blocks, Video)) + Len(Keeping(b, Video))
    BY <1>2
  <1> QED BY <1>1, <1>3 DEF FramesIn

(* What appending to the current chunk does to the clip, and to the counts *)
LEMMA AppendedClip ==
    ASSUME IInv, ClipInv, phase # "idle", NEW m, NEW b \in Seq(Int), Fresh(b, given, m),
           NEW gs, gs = [files EXCEPT ![current].blocks = @ \o b]
    PROVE  /\ gs \in Seq(ChunkType) /\ Len(gs) = current /\ Good(gs, m)
           /\ \A x : Holds(files, x) => Holds(gs, x)
           /\ \A k \in 1..Len(b) : Holds(gs, b[k])
  <1>1. /\ gs \in Seq(ChunkType) /\ Len(gs) = current
        /\ \A i \in 1..current :
               gs[i].blocks = IF i = current THEN files[i].blocks \o b ELSE files[i].blocks
    BY Appending
  <1>2. current = Len(files) /\ Len(files) > 0 /\ Len(gs) = Len(files)
    BY <1>1 DEF IInv, CurrentIsLast
  <1>3. \A i \in 1..Len(files) :
            gs[i].blocks = IF i = Len(files) THEN files[i].blocks \o b ELSE files[i].blocks
    BY <1>1, <1>2
  <1>4. Good(files, given)
    BY DEF ClipInv
  <1> HIDE DEF ClipInv
  <1>5. /\ Good(gs, m) /\ \A x : Holds(files, x) => Holds(gs, x)
        /\ \A k \in 1..Len(b) : Holds(gs, b[k])
    BY ONLY <1>1, <1>2, <1>3, <1>4, Fresh(b, given, m), GoodGrows
  <1> QED BY <1>1, <1>5

LEMMA AppendedCounts ==
    ASSUME IInv, phase # "idle", Counted(files), CountIs(files, frameCount),
           NEW b \in Seq(Int), NEW q \in Nat, Len(Keeping(b, Video)) = q,
           files[current].open \/ q = 0,
           NEW gs, gs = [files EXCEPT ![current].blocks = @ \o b]
    PROVE  Counted(gs) /\ CountIs(gs, frameCount + q)
  <1>1. /\ gs \in Seq(ChunkType) /\ Len(gs) = current
        /\ \A i \in 1..current :
              /\ gs[i].open = files[i].open /\ gs[i].count = files[i].count
              /\ gs[i].blocks = IF i = current THEN files[i].blocks \o b ELSE files[i].blocks
    BY Appending
  <1>2. /\ current = Len(files) /\ current \in 1..current /\ files \in Seq(ChunkType)
        /\ frameCount \in Nat
    BY DEF IInv, TypeOK, CurrentIsLast, ChunkType
  <1>3. Len(FramesIn(gs[current])) = Len(FramesIn(files[current])) + q
    <2>1. files[current].blocks \in Seq(Int)
      BY <1>2, ChunkParts
    <2>2. gs[current].blocks = files[current].blocks \o b
      BY <1>1, <1>2
    <2> QED BY <2>1, <2>2, FramesAdded
  <1>4. Len(FramesIn(files[current])) \in Nat
    <2>1. files[current].blocks \in Seq(Int)
      BY <1>2, ChunkParts
    <2> QED BY <2>1, KeepingType DEF FramesIn
  <1>5. Counted(gs)
    <2> SUFFICES ASSUME NEW i \in 1..current, ~gs[i].open
                 PROVE  gs[i].count = Len(FramesIn(gs[i]))
      BY <1>1 DEF Counted
    <2>1. gs[i].count = files[i].count /\ ~files[i].open
      BY <1>1
    <2>2. files[i].count = Len(FramesIn(files[i]))
      BY <1>2, <2>1 DEF Counted
    <2>3. CASE i # current
      BY <1>1, <2>1, <2>2, <2>3 DEF FramesIn
    <2>4. CASE i = current
      <3>1. q = 0
        BY <2>1, <2>4
      <3> QED BY <1>3, <1>4, <2>1, <2>2, <2>4, <3>1
    <2> QED BY <2>3, <2>4
  <1>6. CountIs(gs, frameCount + q)
    <2> SUFFICES ASSUME gs[current].open
                 PROVE  frameCount + q = Len(FramesIn(gs[current]))
      BY <1>1 DEF CountIs
    <2>1. files[current].open
      BY <1>1, <1>2
    <2>2. frameCount = Len(FramesIn(files[current]))
      BY <1>2, <2>1 DEF CountIs
    <2> QED BY <1>3, <2>2
  <1> QED BY <1>5, <1>6


-----------------------------------------------------------------------------
(* The steps of the clip                                                   *)
LEMMA ClipGrows ==
    ASSUME IInv, ClipInv, phase # "idle", NEW n \in Nat, given' = given + n,
           NEW b \in Seq(Int), Fresh(b, given, given + n),
           files' = [files EXCEPT ![current].blocks = @ \o b],
           failed' = {} => failed = {} /\ Every(b, given, given + n)
    PROVE  ClipInv'
  <1> PICK gs : gs = files'
    OBVIOUS
  <1>1. gs = [files EXCEPT ![current].blocks = @ \o b]
    OBVIOUS
  <1>2. /\ Good(gs, given + n) /\ \A x : Holds(files, x) => Holds(gs, x)
        /\ \A k \in 1..Len(b) : Holds(gs, b[k])
    BY <1>1, AppendedClip
  <1>3. failed' = {} => Complete(gs, given + n)
    <2> SUFFICES ASSUME failed' = {}
                 PROVE  Complete(gs, given + n)
      OBVIOUS
    <2>1. Complete(files, given) /\ Every(b, given, given + n)
      BY DEF ClipInv
    <2>2. given \in Nat /\ given + n \in Nat
      BY DEF IInv, TypeOK
    <2> QED BY ONLY <1>2, <2>1, <2>2, CompleteGrows
  <1> QED BY <1>2, <1>3 DEF ClipInv

(* The files a next chunk is added to *)
LEMMA ClosedClip ==
    ASSUME given \in Nat, NEW fs, Good(fs, given), NEW gs, ClosedFrom(fs, gs)
    PROVE  Good(gs, given) /\ \A x : Holds(fs, x) => Holds(gs, x)
  <1>1. /\ gs \in Seq(ChunkType) /\ Len(gs) = Len(fs)
        /\ \A i \in 1..Len(fs) : gs[i].blocks = fs[i].blocks
    BY DEF ClosedFrom
  <1>2. given <= given
    OBVIOUS
  <1> QED BY <1>1, <1>2, GoodSame

LEMMA ClipAdds ==
    ASSUME IInv, NEW n \in Nat, given' = given + n, NEW fs, Good(fs, given),
           NEW b, Fresh(b, given, given + n),
           NEW c \in ChunkType, c.blocks = b, files' = Append(fs, c),
           failed' = {} => Complete(fs, given) /\ Every(b, given, given + n)
    PROVE  ClipInv'
  <1> PICK gs : gs = Append(fs, c)
    OBVIOUS
  <1>1. fs \in Seq(ChunkType)
    BY DEF Good
  <1>2. /\ gs \in Seq(ChunkType) /\ Len(gs) = Len(fs) + 1
        /\ \A i \in 1..Len(fs) : gs[i] = fs[i]
        /\ gs[Len(fs) + 1] = c
    BY <1>1
  <1>3. /\ gs \in Seq(ChunkType) /\ Len(gs) = Len(fs) + 1
        /\ \A i \in 1..Len(fs) : gs[i].blocks = fs[i].blocks
        /\ gs[Len(fs) + 1].blocks = b
    BY <1>2
  <1>4. /\ Good(gs, given + n) /\ \A x : Holds(fs, x) => Holds(gs, x)
        /\ \A k \in 1..Len(b) : Holds(gs, b[k])
    <2>1. Len(gs) = Len(fs) + 1 /\ gs \in Seq(ChunkType)
      BY <1>3
    <2>2. \A i \in 1..Len(fs) : gs[i].blocks = fs[i].blocks
      BY <1>3
    <2>3. gs[Len(fs) + 1].blocks = b
      BY <1>3
    <2> PICK m : m = given + n
      OBVIOUS
    <2>4. Good(fs, given) /\ Fresh(b, given, m)
      OBVIOUS
    <2>5. /\ Good(gs, m) /\ \A x : Holds(fs, x) => Holds(gs, x)
          /\ \A k \in 1..Len(b) : Holds(gs, b[k])
      BY ONLY <2>1, <2>2, <2>3, <2>4, GoodAdds
    <2> QED BY <2>5
  <1>5. failed' = {} => Complete(gs, given + n)
    <2>1. given \in Nat /\ given + n \in Nat
      BY DEF IInv, TypeOK
    <2> SUFFICES ASSUME failed' = {}
                 PROVE  Complete(gs, given + n)
      OBVIOUS
    <2>2. Complete(fs, given) /\ Every(b, given, given + n)
      OBVIOUS
    <2> QED BY ONLY <1>4, <2>1, <2>2, CompleteGrows
  <1> QED BY <1>4, <1>5 DEF ClipInv

LEMMA ClipStays ==
    ASSUME IInv, NEW n \in Nat, given' = given + n, NEW fs, Good(fs, given),
           files' = fs, failed' # {} \/ (n = 0 /\ Complete(fs, given))
    PROVE  ClipInv'
  <1>1. given \in Nat /\ given + n \in Nat /\ given <= given + n /\ fs \in Seq(ChunkType)
    BY DEF IInv, TypeOK, Good
  <1>2. Good(fs, given + n)
    <2>1. Len(fs) = Len(fs) /\ \A i \in 1..Len(fs) : fs[i].blocks = fs[i].blocks
      OBVIOUS
    <2> QED BY <1>1, <2>1, GoodSame
  <1>3. failed' = {} => Complete(fs, given + n)
    BY <1>1
  <1> QED BY <1>2, <1>3 DEF ClipInv

(* Starting the next chunk, or failing to, after the files became fs *)
LEMMA ClipNextChunk ==
    ASSUME IInv, NEW n, Busy(n), NEW fs, Good(fs, given), failed = {} => Complete(fs, given),
           StartsNext(n, fs)
    PROVE  ClipInv'
  <1>1. n \in Nat /\ n \in Nat \ {0} /\ given \in Nat /\ mlvChunk \in Nat
    BY Sizes
  <1>2. CASE NewChunk(n, fs)
    <2>1. /\ Frames(n) \in Seq(Int)
          /\ Fresh(Frames(n), given, given + n) /\ Every(Frames(n), given, given + n)
      BY <1>1, FramesType, FramesFresh
    <2> PICK c : c = [Chunk(NextNumber) EXCEPT !.blocks = FirstBlocks(n)]
      OBVIOUS
    <2>2. c \in ChunkType /\ c.blocks = Frames(n)
      BY <1>1, <2>1, ChunkWith DEF FirstBlocks
    <2>3. files' = Append(fs, c) /\ given' = given + n /\ failed' = failed
      BY <1>2 DEF NewChunk, Succeeds
    <2> QED BY <1>1, <2>1, <2>2, <2>3, ClipAdds
  <1>3. CASE NewChunkFull(n, fs)
    <2>1. PICK part \in Parts(n) :
            files' = Append(fs, [Chunk(NextNumber) EXCEPT !.blocks = part])
      BY <1>3 DEF NewChunkFull
    <2> PICK c : c = [Chunk(NextNumber) EXCEPT !.blocks = part]
      OBVIOUS
    <2>2. c \in ChunkType /\ c.blocks = part
      BY <1>1, PartsType, ChunkWith
    <2>3. files' = Append(fs, c) /\ given' = given + n /\ failed' # {}
      BY <1>3, <2>1 DEF NewChunkFull, Fails
    <2>4. Fresh(part, given, given + n)
      BY <1>1, PartsFresh
    <2> QED BY <1>1, <2>2, <2>3, <2>4, ClipAdds
  <1>4. CASE CreateFails(n, fs) \/ \E size \in {0, HeaderSize} : NewChunkRemoved(n, fs, size)
    <2>1. files' = fs /\ given' = given + n /\ failed' # {}
      BY <1>4 DEF CreateFails, NewChunkRemoved, Fails
    <2> QED BY <1>1, <2>1, ClipStays
  <1> QED BY <1>2, <1>3, <1>4 DEF StartsNext

LEMMA ClipWrite ==
    ASSUME IInv, ClipInv, NEW n, Busy(n), write_frames(n)
    PROVE  ClipInv'
  <1>1. /\ n \in Nat /\ n \in Nat \ {0} /\ given \in Nat /\ current > 0 /\ phase # "idle"
        /\ current = Len(files) /\ files \in Seq(ChunkType)
    BY Sizes DEF IInv, TypeOK, CurrentIsLast, ChunkType
  <1>2. Good(files, given) /\ (failed = {} => Complete(files, given))
    BY DEF ClipInv
  <1>3. CASE WriteAll(n)
    <2>1. /\ Frames(n) \in Seq(Int)
          /\ Fresh(Frames(n), given, given + n) /\ Every(Frames(n), given, given + n)
      BY <1>1, FramesType, FramesFresh
    <2>2. /\ files' = [files EXCEPT ![current].blocks = @ \o Frames(n)]
          /\ given' = given + n /\ failed' = failed
      BY <1>3 DEF WriteAll, Succeeds
    <2> QED BY <1>1, <2>1, <2>2, ClipGrows
  <1>4. CASE WriteCardFull(n)
    <2>1. PICK part \in Parts(n) : files' = [files EXCEPT ![current].blocks = @ \o part]
      BY <1>4 DEF WriteCardFull
    <2>2. given' = given + n /\ failed' # {}
      BY <1>4 DEF WriteCardFull, Fails
    <2>3. part \in Seq(Int) /\ Fresh(part, given, given + n)
      BY <1>1, PartsType, PartsFresh
    <2> QED BY <1>1, <2>1, <2>2, <2>3, ClipGrows
  <1>5. CASE WriteClosed(n)
    <2>1. files' = files /\ given' = given + n /\ failed' # {}
      BY <1>5 DEF WriteClosed, Fails
    <2> QED BY <1>1, <1>2, <2>1, ClipStays
  <1>6. CASE WriteBeforeLimit(n)
    <2>1. StartsNext(n, Finish(files))
      BY <1>6 DEF WriteBeforeLimit, StartsNext
    <2>2. Good(Finish(files), given) /\ (failed = {} => Complete(Finish(files), given))
      <3>1. ClosedFrom(files, Finish(files))
        BY <1>1, FinishCloses
      <3>2. Good(Finish(files), given) /\ \A x : Holds(files, x) => Holds(Finish(files), x)
        BY <1>1, <1>2, <3>1, ClosedClip
      <3> QED BY <1>2, <3>2 DEF Complete
    <2> QED BY <2>1, <2>2, ClipNextChunk
  <1>7. CASE WriteAtLimit(n)
    <2>1. PICK part \in CoveredParts(n) :
            StartsNext(n, Finish([files EXCEPT ![current].blocks = @ \o part]))
      BY <1>7 DEF WriteAtLimit, StartsNext
    <2> PICK gs : gs = [files EXCEPT ![current].blocks = @ \o part]
      OBVIOUS
    <2>2. part \in Seq(Int) /\ Fresh(part, given, given)
      BY <1>1, CoveredFresh
    <2>3. /\ gs \in Seq(ChunkType) /\ Len(gs) = current /\ Good(gs, given)
          /\ \A x : Holds(files, x) => Holds(gs, x)
      BY <1>1, <2>2, AppendedClip
    <2>4. ClosedFrom(gs, Finish(gs))
      BY <1>1, <2>3, FinishCloses
    <2>5. Good(Finish(gs), given) /\ \A x : Holds(gs, x) => Holds(Finish(gs), x)
      BY <1>1, <2>3, <2>4, ClosedClip
    <2>6. failed = {} => Complete(Finish(gs), given)
      BY <1>2, <2>3, <2>5 DEF Complete
    <2>7. StartsNext(n, Finish(gs))
      BY <2>1
    <2> QED BY <2>5, <2>6, <2>7, ClipNextChunk
  <1> QED BY <1>3, <1>4, <1>5, <1>6, <1>7 DEF write_frames

LEMMA ClipStep == IInv /\ ClipInv /\ [Next]_vars => ClipInv'
  <1> SUFFICES ASSUME IInv, ClipInv, [Next]_vars
               PROVE  ClipInv'
    OBVIOUS
  <1>0. /\ given \in Nat /\ files \in Seq(ChunkType) /\ current = Len(files)
        /\ Good(files, given) /\ (failed = {} => Complete(files, given))
    BY DEF IInv, TypeOK, CurrentIsLast, ChunkType, ClipInv
  <1>1. CASE Start
    <2> PICK fs : fs = <<Chunk(0)>>
      OBVIOUS
    <2>1. Chunk(0) \in ChunkType /\ Chunk(0).blocks = <<>>
      BY DEF Chunk, ChunkType
    <2>2. fs \in Seq(ChunkType) /\ Len(fs) = 1 /\ \A i \in 1..Len(fs) : 1..Len(fs[i].blocks) = {}
      BY <2>1
    <2>3. Good(fs, 0)
      <3>1. InOrder(fs)
        BY <2>2, OrderMeans
      <3> QED BY <2>2, <3>1 DEF Good, Below
    <2>4. Complete(fs, 0)
      BY DEF Complete
    <2> QED BY <1>1, <2>3, <2>4 DEF ClipInv, Start
  <1>2. CASE SaveGroup \/ FlushFrame
    <2>1. PICK n : Busy(n) /\ write_frames(n)
      BY <1>2, LimitAssumption DEF SaveGroup, FlushFrame, Busy
    <2> QED BY <2>1, ClipWrite
  <1>3. CASE StopRecording \/ FlushEnds \/ UNCHANGED vars
    BY <1>3 DEF StopRecording, FlushEnds, vars, ClipInv
  <1>4. CASE Close
    <2>1. current > 0 /\ files' = Finish(files) /\ given' = given /\ failed' = failed
      BY <1>4 DEF Close, IInv, CurrentIsLast
    <2>2. ClosedFrom(files, Finish(files))
      BY <1>0, <2>1, FinishCloses
    <2>3. Good(Finish(files), given) /\ \A x : Holds(files, x) => Holds(Finish(files), x)
      BY <1>0, <2>2, ClosedClip
    <2>4. failed = {} => Complete(Finish(files), given)
      BY <1>0, <2>3 DEF Complete
    <2> QED BY <2>1, <2>3, <2>4 DEF ClipInv
  <1> QED BY <1>1, <1>2, <1>3, <1>4 DEF Next

LEMMA ClipInit == Init => ClipInv
  <1> SUFFICES ASSUME Init
               PROVE  ClipInv
    OBVIOUS
  <1>1. files \in Seq(ChunkType) /\ Len(files) = 0 /\ given = 0
    BY DEF Init
  <1>2. DOMAIN files = {}
    BY <1>1
  <1>3. InOrder(files)
    BY <1>2 DEF InOrder
  <1> QED BY <1>1, <1>3 DEF ClipInv, Good, Below, Complete

(* The chunks of a clip, read one after the other, hold its frames in order
   and none twice, wherever the card or the limit cut it; and every frame
   given to write_frames, if no call failed. *)
THEOREM ClipIsInOrder == Spec => []ClipInOrder
  <1>1. Spec => []ClipInv
    BY Inductive, ClipInit, ClipStep, PTL DEF Spec
  <1>2. ClipInv => ClipInOrder
    BY DEF ClipInv, Good, Complete, ClipInOrder
  <1> QED BY <1>1, <1>2, PTL


-----------------------------------------------------------------------------
(* The steps of the counts                                                 *)
LEMMA CountsNextChunk ==
    ASSUME IInv, NEW n, Busy(n), NEW fs \in Seq(ChunkType), Len(fs) > 0, ~fs[Len(fs)].open,
           "cardfull" \notin failed => Counted(fs), StartsNext(n, fs)
    PROVE  CountInv'
  <1> SUFFICES ASSUME "cardfull" \notin failed'
               PROVE  Counted(files') /\ CountIs(files', frameCount')
    BY DEF CountInv
  <1>1. n \in Nat /\ given \in Nat /\ mlvChunk \in Nat
    BY Sizes
  <1>2. CASE NewChunk(n, fs)
    <2>1. Frames(n) \in Seq(Int) /\ Len(Keeping(Frames(n), Video)) = n
      BY <1>1, FramesType, FramesFresh
    <2> PICK c : c = [Chunk(NextNumber) EXCEPT !.blocks = FirstBlocks(n)]
      OBVIOUS
    <2>2. c \in ChunkType /\ c.open /\ c.blocks = Frames(n)
      BY <1>1, <2>1, ChunkWith DEF FirstBlocks
    <2> PICK gs : gs = files'
      OBVIOUS
    <2>3. gs = Append(fs, c) /\ frameCount' = n /\ failed' = failed
      BY <1>2 DEF NewChunk, Succeeds
    <2>4. /\ Len(fs) \in Nat /\ Len(gs) = Len(fs) + 1
          /\ \A i \in 1..Len(fs) : gs[i] = fs[i]
          /\ gs[Len(gs)] = c
      BY <2>2, <2>3
    <2>5. Counted(gs)
      BY <2>2, <2>3, <2>4 DEF Counted
    <2>6. CountIs(gs, n)
      BY <2>1, <2>2, <2>4 DEF CountIs, FramesIn
    <2> QED BY <2>3, <2>5, <2>6
  <1>3. CASE NewChunkFull(n, fs)
    BY <1>3 DEF NewChunkFull, Fails
  <1>4. CASE CreateFails(n, fs) \/ \E size \in {0, HeaderSize} : NewChunkRemoved(n, fs, size)
    <2>1. files' = fs /\ "cardfull" \notin failed
      BY <1>4 DEF CreateFails, NewChunkRemoved, Fails
    <2>2. CountIs(fs, frameCount')
      BY DEF CountIs
    <2> QED BY <2>1, <2>2
  <1> QED BY <1>2, <1>3, <1>4 DEF StartsNext

LEMMA CountsWrite ==
    ASSUME IInv, CountInv, NEW n, Busy(n), write_frames(n)
    PROVE  CountInv'
  <1>1. /\ n \in Nat /\ given \in Nat /\ current > 0 /\ phase # "idle" /\ frameCount \in Nat
        /\ current = Len(files) /\ files \in Seq(ChunkType)
    BY Sizes DEF IInv, TypeOK, CurrentIsLast, ChunkType
  <1>2. "cardfull" \notin failed => Counted(files) /\ CountIs(files, frameCount)
    BY <1>1 DEF CountInv
  <1>3. CASE WriteAll(n)
    <2> SUFFICES ASSUME "cardfull" \notin failed'
                 PROVE  Counted(files') /\ CountIs(files', frameCount')
      BY DEF CountInv
    <2>1. Frames(n) \in Seq(Int) /\ Len(Keeping(Frames(n), Video)) = n
      BY <1>1, FramesType, FramesFresh
    <2> PICK gs : gs = files'
      OBVIOUS
    <2>2. /\ gs = [files EXCEPT ![current].blocks = @ \o Frames(n)]
          /\ frameCount' = frameCount + n /\ failed' = failed
      BY <1>3 DEF WriteAll, Succeeds
    <2>3. files[current].open
      BY <1>3 DEF WriteAll
    <2>4. Counted(gs) /\ CountIs(gs, frameCount + n)
      BY <1>1, <1>2, <2>1, <2>2, <2>3, AppendedCounts
    <2> QED BY <2>2, <2>4
  <1>4. CASE WriteCardFull(n) \/ WriteClosed(n)
    BY <1>4 DEF WriteCardFull, WriteClosed, Fails, CountInv
  <1>5. CASE WriteBeforeLimit(n)
    <2>1. StartsNext(n, Finish(files))
      BY <1>5 DEF WriteBeforeLimit, StartsNext
    <2>2. ClosedFrom(files, Finish(files))
      BY <1>1, FinishCloses
    <2>3. "cardfull" \notin failed => Counted(Finish(files))
      BY <1>1, <1>2, <2>2, ClosingCounts
    <2>4. /\ Finish(files) \in Seq(ChunkType) /\ Len(Finish(files)) > 0
          /\ ~Finish(files)[Len(Finish(files))].open
      BY <1>1, <2>2 DEF ClosedFrom
    <2> QED BY <2>1, <2>3, <2>4, CountsNextChunk
  <1>6. CASE WriteAtLimit(n)
    <2>1. PICK part \in CoveredParts(n) :
            StartsNext(n, Finish([files EXCEPT ![current].blocks = @ \o part]))
      BY <1>6 DEF WriteAtLimit, StartsNext
    <2> PICK gs : gs = [files EXCEPT ![current].blocks = @ \o part]
      OBVIOUS
    <2>2. part \in Seq(Int) /\ Len(Keeping(part, Video)) = 0
      BY <1>1, CoveredFresh
    <2>3. gs \in Seq(ChunkType) /\ Len(gs) = current
      BY <1>1, <2>2, Appending
    <2>4. ClosedFrom(gs, Finish(gs))
      BY <1>1, <2>3, FinishCloses
    <2>5. "cardfull" \notin failed => Counted(gs) /\ CountIs(gs, frameCount)
      <3> SUFFICES ASSUME "cardfull" \notin failed
                   PROVE  Counted(gs) /\ CountIs(gs, frameCount)
        OBVIOUS
      <3> PICK q \in Nat : q = 0
        OBVIOUS
      <3>1. Counted(gs) /\ CountIs(gs, frameCount + q)
        BY <1>1, <1>2, <2>2, AppendedCounts
      <3>2. frameCount + q = frameCount
        BY <1>1
      <3> QED BY <3>1, <3>2
    <2>6. "cardfull" \notin failed => Counted(Finish(gs))
      BY <1>1, <2>3, <2>4, <2>5, ClosingCounts
    <2>7. /\ Finish(gs) \in Seq(ChunkType) /\ Len(Finish(gs)) > 0
          /\ ~Finish(gs)[Len(Finish(gs))].open
      BY <1>1, <2>3, <2>4 DEF ClosedFrom
    <2>8. StartsNext(n, Finish(gs))
      BY <2>1
    <2> QED BY <2>6, <2>7, <2>8, CountsNextChunk
  <1> QED BY <1>3, <1>4, <1>5, <1>6 DEF write_frames

LEMMA CountsStep == IInv /\ CountInv /\ [Next]_vars => CountInv'
  <1> SUFFICES ASSUME IInv, CountInv, [Next]_vars
               PROVE  CountInv'
    OBVIOUS
  <1>0. files \in Seq(ChunkType) /\ current = Len(files)
    BY DEF IInv, TypeOK, CurrentIsLast, ChunkType
  <1>1. CASE Start
    <2> PICK fs : fs = <<Chunk(0)>>
      OBVIOUS
    <2>1. Chunk(0).blocks = <<>> /\ Chunk(0).open
      BY DEF Chunk
    <2>2. Len(fs) = 1 /\ fs[1] = Chunk(0)
      OBVIOUS
    <2>3. Len(FramesIn(fs[1])) = 0
      <3>1. Keeping(<<>>, Video) = <<>>
        <4>1. Null \in Int
          BY DEF Null
        <4> QED BY <4>1, KeepingOne
      <3> QED BY <2>1, <2>2, <3>1 DEF FramesIn
    <2>4. Counted(fs) /\ CountIs(fs, 0)
      BY <2>1, <2>2, <2>3 DEF Counted, CountIs
    <2> QED BY <1>1, <2>4 DEF CountInv, Start
  <1>2. CASE SaveGroup \/ FlushFrame
    <2>1. PICK n : Busy(n) /\ write_frames(n)
      BY <1>2, LimitAssumption DEF SaveGroup, FlushFrame, Busy
    <2> QED BY <2>1, CountsWrite
  <1>3. CASE StopRecording \/ FlushEnds \/ UNCHANGED vars
    BY <1>3 DEF StopRecording, FlushEnds, vars, CountInv
  <1>4. CASE Close
    <2>1. current > 0 /\ files' = Finish(files) /\ failed' = failed /\ phase' = "idle"
          /\ phase # "idle"
      BY <1>4 DEF Close, IInv, CurrentIsLast
    <2>2. ClosedFrom(files, Finish(files))
      BY <1>0, <2>1, FinishCloses
    <2>3. "cardfull" \notin failed => Counted(Finish(files))
      BY <1>0, <2>1, <2>2, ClosingCounts DEF CountInv
    <2> QED BY <2>1, <2>3 DEF CountInv
  <1> QED BY <1>1, <1>2, <1>3, <1>4 DEF Next

LEMMA CountsInit == Init => CountInv
  <1> SUFFICES ASSUME Init
               PROVE  CountInv
    OBVIOUS
  <1>1. Len(files) = 0 /\ phase = "idle"
    BY DEF Init
  <1> QED BY <1>1 DEF CountInv, Counted

(* A chunk that is closed says in its header how many frames it holds, unless
   the card was full: a chunk that could not be started takes none from it. *)
THEOREM HeadersAreRight == Spec => []HeadersCount
  <1>1. Spec => []CountInv
    BY Inductive, CountsInit, CountsStep, PTL DEF Spec
  <1>2. IInv /\ CountInv => HeadersCount
    <2> SUFFICES ASSUME IInv, CountInv
                 PROVE  HeadersCount
      OBVIOUS
    <2>1. DOMAIN files = 1..Len(files)
      BY DEF IInv, TypeOK
    <2> QED BY <2>1 DEF CountInv, Counted, HeadersCount
  <1> QED BY <1>1, <1>2, Inductive, PTL
=============================================================================
