------------------------- MODULE RawRecorderProofs -------------------------
(* Theorems about RawRecorder: types in every mode; in lossless recording   *)
(* without pre-recording, the safety of the slots (part one), and that the  *)
(* frames are saved in the order of their capture, so that the recorder     *)
(* implements FramePipeline (part two); and what FramePipeline promises     *)
(* (part three).                                                            *)
EXTENDS RawRecorder, SubsequencesProofs, FiniteSetTheorems, SequenceTheorems, TLAPS

-----------------------------------------------------------------------------
(* Part one: types, and the slots                                          *)

-----------------------------------------------------------------------------
(* Sets of slots and of positions are finite.                              *)
LEMMA CardNat == \A a, b \in Int : \A S \in SUBSET (a..b) : Cardinality(S) \in Nat
  BY FS_Interval, FS_Subset, FS_CardinalityType

LEMMA SlotsFacts ==
    /\ Slots \subseteq Nat \ {0} /\ None \notin Slots
    /\ \A S \in SUBSET Slots : Cardinality(S) \in Nat
  <1>1. \A S \in SUBSET Slots : Cardinality(S) \in Nat
    BY CardNat, SlotsAssumption DEF Slots
  <1> QED BY <1>1, SlotsAssumption DEF Slots, None

(* What TypeOK says of the variables that the vsync handler passes on in a
   snapshot, and of the snapshot itself. *)
Snapshots ==
    [status : [Slots -> SlotStates], number : [Slots -> Int], count : Int,
     queue : Seq(Slots), capture : Slots \cup {None}, force : BOOLEAN]

LEMMA SnapshotType == TypeOK => Snapshot \in Snapshots
  BY DEF TypeOK, Snapshot, Snapshots

LEMMA DiscardType ==
    ASSUME NEW m \in Snapshots, NEW first \in Int
    PROVE  Discard(m, first) \in Snapshots
  <1> DEFINE st == [s \in Slots |-> IF s \in FullAt(m, first) THEN "FREE" ELSE m.status[s]]
             nu == [s \in Slots |-> IF m.status[s] = "FULL" /\ m.number[s] > first
                                    THEN m.number[s] - 1 ELSE m.number[s]]
             co == m.count - Cardinality(FullAt(m, first))
  <1>1. Cardinality(FullAt(m, first)) \in Nat
    BY SlotsFacts DEF FullAt
  <1>2. st \in [Slots -> SlotStates]
    BY DEF SlotStates, Snapshots
  <1>3. nu \in [Slots -> Int]
    BY DEF Snapshots
  <1>4. co \in Int
    BY <1>1 DEF Snapshots
  <1>5. Discard(m, first) = [m EXCEPT !.status = st, !.number = nu, !.count = co]
    BY DEF Discard
  <1> HIDE DEF st, nu, co
  <1> QED BY <1>2, <1>3, <1>4, <1>5 DEF Snapshots

LEMMA CommitType ==
    ASSUME NEW m \in Snapshots, Commit(m)
    PROVE  /\ status' \in [Slots -> SlotStates] /\ number' \in [Slots -> Int]
           /\ frameCount' \in Int /\ queue' \in Seq(Slots)
           /\ captureSlot' \in Slots \cup {None} /\ forceNew' \in BOOLEAN
  BY DEF Commit, Snapshots

LEMMA FunctionIsSeq ==
    ASSUME NEW S, NEW n \in Nat, NEW f \in [1..n -> S]
    PROVE  f \in Seq(S) /\ Len(f) = n
  <1>1. f \in UNION {[1..k -> S] : k \in Nat}
    OBVIOUS
  <1>2. f \in Seq(S)
    BY <1>1, SeqDef
  <1> QED BY <1>2

MessageType == [slot : Slots, age : Nat]

LEMMA TickType ==
    TypeOK => /\ Tick \in Seq(MessageType) /\ Messages \in Seq(MessageType)
              /\ DOMAIN Tick = DOMAIN mq
              /\ \A k \in DOMAIN mq : Tick[k] = [slot |-> mq[k].slot, age |-> mq[k].age + 1]
  <1> SUFFICES ASSUME TypeOK
               PROVE  /\ Tick \in Seq(MessageType) /\ DOMAIN Tick = DOMAIN mq
                      /\ \A k \in DOMAIN mq : Tick[k] = [slot |-> mq[k].slot, age |-> mq[k].age + 1]
    BY DEF Messages, TypeOK, MessageType
  <1>1. mq \in Seq(MessageType) /\ Len(mq) \in Nat /\ DOMAIN mq = 1..Len(mq)
    BY DEF TypeOK, MessageType
  <1>2. \A k \in 1..Len(mq) : mq[k] \in MessageType
    BY <1>1
  <1>3. \A r \in MessageType : [r EXCEPT !.age = @ + 1] = [slot |-> r.slot, age |-> r.age + 1]
    BY DEF MessageType
  <1>4. Tick = [k \in 1..Len(mq) |-> [slot |-> mq[k].slot, age |-> mq[k].age + 1]]
    BY <1>1, <1>2, <1>3 DEF Tick
  <1>5. Tick \in [1..Len(mq) -> MessageType]
    BY <1>2, <1>4 DEF MessageType
  <1> QED BY <1>1, <1>4, <1>5, FunctionIsSeq

-----------------------------------------------------------------------------
(* TypeOK in two parts: what process_frame assigns, and the rest.          *)
LiveType ==
    /\ live \in LiveStates /\ bufferFull \in BOOLEAN /\ forceNew \in BOOLEAN
    /\ frameCount \in Int /\ stamp \in Nat /\ captureSlot \in Slots \cup {None}
    /\ status \in [Slots -> SlotStates] /\ number \in [Slots -> Int]
    /\ content \in [Slots -> Nat]
    /\ queue \in Seq(Slots) /\ mq \in Seq(MessageType)

StateType ==
    /\ rstate \in RecStates /\ triggered \in BOOLEAN /\ firstFrame \in Int
    /\ scan \in [frame : Int, slot : Slots \cup {None}]

BlockType == [what : Nat, number : Int, meta : BOOLEAN, whole : BOOLEAN]

TaskType ==
    /\ rec \in RecPoints /\ buffers \in BOOLEAN /\ failed \in BOOLEAN
    /\ counted \in Int /\ declared \in Int
    /\ skipFrames \in Nat /\ metas \in Nat /\ runs \in Nat /\ settings \in Settings
    /\ dma \in Slots \cup {None} /\ isMeta \in [Slots -> BOOLEAN] /\ held \subseteq Slots
    /\ group \in Seq(Slots) /\ file \in Seq(BlockType)

LEMMA TypeParts == TypeOK <=> LiveType /\ StateType /\ TaskType
  BY DEF TypeOK, LiveType, StateType, TaskType, MessageType, BlockType

LEMMA TypePartsNext == TypeOK' <=> LiveType' /\ StateType' /\ TaskType'
  BY DEF TypeOK, LiveType, StateType, TaskType, MessageType, BlockType

LEMMA AppendType ==
    ASSUME NEW S, NEW q \in Seq(S), NEW e \in S
    PROVE  Append(q, e) \in Seq(S)
  OBVIOUS

LEMMA PlaceType ==
    ASSUME TypeOK, NEW m \in Snapshots, NEW state, NEW s \in Slots, Place(m, state, s)
    PROVE  LiveType'
  <1> DEFINE n == [m EXCEPT !.status[s] = "CAPTURING",
                        !.number[s] = m.count,
                        !.count = @ + 1,
                        !.queue = IF state = "PRE_RECORDING" THEN @ ELSE Append(@, s),
                        !.capture = s,
                        !.force = @ /\ Rolls(m)]
  <1>1. Commit(n) /\ UNCHANGED bufferFull /\ live' = "idle"
    BY DEF Place
  <1>2. n \in Snapshots
    <2>1. Append(m.queue, s) \in Seq(Slots)
      BY AppendType DEF Snapshots
    <2>2. (m.force /\ Rolls(m)) \in BOOLEAN
      BY DEF Snapshots
    <2> HIDE DEF n
    <2> DEFINE st == [m.status EXCEPT ![s] = "CAPTURING"]
               nu == [m.number EXCEPT ![s] = m.count]
               qu == IF state = "PRE_RECORDING" THEN m.queue ELSE Append(m.queue, s)
               fo == m.force /\ Rolls(m)
    <2>3. n = [m EXCEPT !.status = st, !.number = nu, !.count = m.count + 1,
                        !.queue = qu, !.capture = s, !.force = fo]
      BY DEF n
    <2>4. /\ st \in [Slots -> SlotStates] /\ nu \in [Slots -> Int] /\ m.count + 1 \in Int
          /\ qu \in Seq(Slots) /\ fo \in BOOLEAN
      BY <2>1, <2>2 DEF Snapshots, SlotStates
    <2> HIDE DEF st, nu, qu, fo
    <2> QED BY <2>3, <2>4 DEF Snapshots
  <1> HIDE DEF n
  <1>3. mq' \in Seq(MessageType)
    <2>1. mq' = Append(Messages, [slot |-> s, age |-> 0])
      BY DEF Place
    <2>2. [slot |-> s, age |-> 0] \in MessageType
      BY DEF MessageType
    <2> QED BY <2>1, <2>2, TickType, AppendType
  <1>4. content' \in [Slots -> Nat] /\ stamp' \in Nat
    BY TypeParts DEF Place, LiveType
  <1> QED BY <1>1, <1>2, <1>3, <1>4, CommitType, TypeParts DEF LiveType, LiveStates

LEMMA CaptureType ==
    ASSUME TypeOK, NEW m \in Snapshots, NEW state, NEW first \in Int,
           Capture(m, state, first)
    PROVE  LiveType'
  <1> DEFINE e == [m EXCEPT !.capture = None, !.force = FALSE]
             d == Discard(e, first)
  <1>1. e \in Snapshots
    BY DEF Snapshots
  <1>2. d \in Snapshots
    BY <1>1, DiscardType
  <1> HIDE DEF d, e
  <1>3. CASE \E s \in Slots : Place(m, state, s)
    BY <1>3, PlaceType
  <1>4. CASE \E s \in Slots : Place(d, state, s)
    BY <1>2, <1>4, PlaceType
  <1>5. CASE Commit(d) /\ live' = "discarding" /\ mq' = Messages
             /\ UNCHANGED <<content, stamp, bufferFull>>
    BY <1>2, <1>5, CommitType, TickType, TypeParts DEF LiveType, LiveStates
  <1>6. CASE bufferFull' = TRUE /\ Commit(e) /\ live' = "idle" /\ mq' = Messages
             /\ UNCHANGED <<content, stamp>>
    BY <1>1, <1>6, CommitType, TickType, TypeParts DEF LiveType, LiveStates
  <1> QED BY <1>3, <1>4, <1>5, <1>6 DEF Capture, DiscardAndPlace, CardTooSlow, d, e

LEMMA QueueAndCaptureType ==
    ASSUME TypeOK, NEW m \in Snapshots, NEW first \in Int,
           NEW at \in [frame : Int, slot : Slots \cup {None}],
           QueueAndCapture(m, at, first)
    PROVE  LiveType' /\ StateType'
  <1> DEFINE n == Cardinality(Found(m, at.frame))
  <1>1. n \in Nat
    <2>1. Found(m, at.frame) \subseteq at.frame..(m.count - 1)
      BY DEF Found
    <2>2. at.frame \in Int /\ m.count - 1 \in Int
      BY DEF Snapshots
    <2> QED BY <2>1, <2>2, CardNat
  <1>2. PICK f \in [1..n -> Slots] :
           LET q == [m EXCEPT !.queue = @ \o f] IN
           \/ scan' = NoScan /\ StartsAgain(q, first)
           \/ /\ Commit(q) /\ firstFrame' = first /\ live' = "queueing" /\ mq' = Messages
              /\ scan' = [frame |-> at.frame + n, slot |-> IF n = 0 THEN at.slot ELSE f[n]]
              /\ UNCHANGED <<rstate, triggered, content, stamp, bufferFull>>
    BY Zenon DEF QueueAndCapture
  <1> DEFINE q == [m EXCEPT !.queue = @ \o f]
  <1>3. q \in Snapshots
    <2>1. f \in Seq(Slots)
      BY <1>1, FunctionIsSeq
    <2>2. m.queue \o f \in Seq(Slots)
      BY <2>1, ConcatProperties DEF Snapshots
    <2> QED BY <2>2 DEF Snapshots
  <1>4. CASE scan' = NoScan /\ StartsAgain(q, first)
    <2>1. q.count \in Int
      BY <1>3 DEF Snapshots
    <2>2. LiveType'
      BY <1>3, <1>4, <2>1, CaptureType DEF StartsAgain
    <2> HIDE DEF q
    <2>3. scan' \in [frame : Int, slot : Slots \cup {None}]
      BY <1>4 DEF NoScan
    <2> QED BY <1>4, <2>1, <2>2, <2>3, TypeParts DEF StartsAgain, StateType, RecStates
  <1>5. CASE /\ Commit(q) /\ firstFrame' = first /\ live' = "queueing" /\ mq' = Messages
             /\ scan' = [frame |-> at.frame + n, slot |-> IF n = 0 THEN at.slot ELSE f[n]]
             /\ UNCHANGED <<rstate, triggered, content, stamp, bufferFull>>
    <2>1. scan' \in [frame : Int, slot : Slots \cup {None}]
      BY <1>1, <1>5
    <2> HIDE DEF q
    <2>2. LiveType'
      BY <1>3, <1>5, CommitType, TickType, TypeParts DEF LiveType, LiveStates
    <2> QED BY <1>5, <2>1, <2>2, TypeParts DEF StateType
  <1> QED BY <1>2, <1>4, <1>5

LEMMA PreFirstType == TypeOK => PreFirst \in Int
  BY DEF TypeOK, PreFirst

-----------------------------------------------------------------------------
(* The vsync handler keeps TypeOK.                                         *)
LEMMA LiveViewType == TypeOK /\ LiveView => TypeOK'
  <1> SUFFICES ASSUME TypeOK, LiveView PROVE LiveType' /\ StateType' /\ TaskType'
    BY TypePartsNext
  <1>0. LiveType /\ StateType /\ TaskType /\ Snapshot \in Snapshots /\ Tick \in Seq(MessageType)
    BY TypeParts, SnapshotType, TickType
  <1>1. UNCHANGED untouched => TaskType'
    BY <1>0 DEF untouched, TaskType, recVars, fileVars, envVars
  <1>2. CASE VsyncIdle
    BY <1>0, <1>2 DEF VsyncIdle, LiveType, StateType, TaskType, RecPoints, liveVars, preVars,
          slotVars, fileVars, envVars
  <1>3. CASE VsyncSettingsChanged
    BY <1>0, <1>3 DEF VsyncSettingsChanged, LiveType, StateType, TaskType, RecStates, liveVars,
          preVars, slotVars, recVars, fileVars, envVars
  <1>4. CASE VsyncSkips
    <2>1. frameCount' \in Int /\ skipFrames' \in Nat
      BY <1>0, <1>4 DEF VsyncSkips, MustSkip, LiveType, TaskType
    <2>2. LiveType' /\ StateType'
      BY <1>0, <1>4, <2>1 DEF VsyncSkips, LiveType, StateType, slotVars
    <2>3. TaskType'
      BY <1>0, <1>4, <2>1 DEF VsyncSkips, TaskType, slotVars, recVars, fileVars, envVars
    <2> QED BY <2>2, <2>3
  <1>5. CASE VsyncEdmacBusy
    BY <1>0, <1>5 DEF VsyncEdmacBusy, LiveType, StateType, TaskType, liveVars, preVars,
          slotVars, recVars, fileVars, envVars
  <1>6. CASE VsyncRecord
    <2>1. LiveType'
      BY <1>0, <1>6, CaptureType DEF VsyncRecord, StateType
    <2> QED BY <1>0, <1>1, <1>6, <2>1 DEF VsyncRecord, StateType
  <1>7. CASE VsyncPreRecord
    <2> DEFINE m == IF frameCount - PreFirst >= PreFrames
                    THEN Discard(Snapshot, PreFirst) ELSE Snapshot
    <2>1. m \in Snapshots
      BY <1>0, DiscardType, PreFirstType
    <2>2. Capture(m, "PRE_RECORDING", PreFirst)
      BY <1>7 DEF VsyncPreRecord
    <2> HIDE DEF m
    <2>3. LiveType'
      BY <2>1, <2>2, CaptureType, PreFirstType
    <2> QED BY <1>0, <1>1, <1>7, <2>3, PreFirstType DEF VsyncPreRecord, StateType, RecStates
  <1>8. CASE VsyncTrigger
    <2> DEFINE m == IF FreeSlots(Snapshot) = {}
                    THEN Discard(Snapshot, PreFirst) ELSE Snapshot
               at == [frame |-> PreFirst, slot |-> NSlots]
    <2>1. m \in Snapshots
      BY <1>0, DiscardType, PreFirstType
    <2>2. at \in [frame : Int, slot : Slots \cup {None}]
      BY PreFirstType, SlotsAssumption DEF Slots
    <2>3. QueueAndCapture(m, at, PreFirst) /\ UNCHANGED untouched
      BY <1>8 DEF VsyncTrigger
    <2> HIDE DEF m, at
    <2> QED BY <1>1, <2>1, <2>2, <2>3, PreFirstType, QueueAndCaptureType
  <1>9. CASE VsyncQueueing
    BY <1>0, <1>1, <1>9, QueueAndCaptureType DEF VsyncQueueing, StateType
  <1>10. CASE VsyncDiscarding
    <2>1. firstFrame \in Int
      BY <1>0 DEF StateType
    <2>2. Discard([Snapshot EXCEPT !.capture = None, !.force = FALSE], firstFrame) \in Snapshots
      <3>1. [Snapshot EXCEPT !.capture = None, !.force = FALSE] \in Snapshots
        BY <1>0 DEF Snapshots
      <3> QED BY <2>1, <3>1, DiscardType
    <2>3. LiveType'
      BY <1>0, <1>10, <2>2, PlaceType, CommitType, TickType
         DEF VsyncDiscarding, DiscardAndPlace, LiveType, LiveStates
    <2> QED BY <1>0, <1>1, <1>10, <2>3 DEF VsyncDiscarding, StateType
  <1> QED BY <1>2, <1>3, <1>4, <1>5, <1>6, <1>7, <1>8, <1>9, <1>10 DEF LiveView

-----------------------------------------------------------------------------
(* The keys and the tasks keep TypeOK.                                     *)
(* A prefix of a sequence, and what is left of it. *)
LEMMA PrefixType ==
    ASSUME NEW S, NEW q \in Seq(S), NEW n \in 0..Len(q)
    PROVE  SubSeq(q, 1, n) \in Seq(S) /\ SubSeq(q, n + 1, Len(q)) \in Seq(S)
  OBVIOUS

LEMMA HeadTailType ==
    ASSUME NEW S, NEW q \in Seq(S), q # <<>>
    PROVE  Head(q) \in S /\ Tail(q) \in Seq(S)
  OBVIOUS

LEMMA GuiType == TypeOK /\ Gui => TypeOK'
  <1> SUFFICES ASSUME TypeOK, Gui PROVE LiveType' /\ StateType' /\ TaskType'
    BY TypePartsNext
  <1>0. LiveType /\ StateType /\ TaskType
    BY TypeParts
  <1>1. CASE PressRecStart
    <2>1. LiveType'
      BY <1>0, <1>1 DEF PressRecStart, LiveType, liveVars, preVars, slotVars
    <2>2. StateType'
      BY <1>0, <1>1 DEF PressRecStart, StateType, RecStates, liveVars, preVars
    <2>3. TaskType'
      BY <1>0, <1>1 DEF PressRecStart, TaskType, RecPoints, liveVars, slotVars, recVars,
         fileVars, envVars
    <2> QED BY <2>1, <2>2, <2>3
  <1>2. CASE PressRecStop
    <2>1. LiveType'
      BY <1>0, <1>2 DEF PressRecStop, LiveType, liveVars, preVars, slotVars
    <2>2. StateType'
      BY <1>0, <1>2 DEF PressRecStop, StateType, RecStates, liveVars, preVars
    <2>3. TaskType'
      BY <1>0, <1>2 DEF PressRecStop, TaskType, liveVars, slotVars, recVars,
         fileVars, envVars
    <2> QED BY <2>1, <2>2, <2>3
  <1>3. CASE PressRecTrigger
    <2>1. LiveType'
      BY <1>0, <1>3 DEF PressRecTrigger, LiveType, liveVars, preVars, slotVars
    <2>2. StateType'
      BY <1>0, <1>3 DEF PressRecTrigger, StateType, RecStates, liveVars, preVars
    <2>3. TaskType'
      BY <1>0, <1>3 DEF PressRecTrigger, TaskType, liveVars, slotVars, recVars,
         fileVars, envVars
    <2> QED BY <2>1, <2>2, <2>3
  <1>4. CASE HalfshutterPress
    <2>1. LiveType'
      BY <1>0, <1>4 DEF HalfshutterPress, LiveType, liveVars, preVars, slotVars
    <2>2. StateType'
      BY <1>0, <1>4 DEF HalfshutterPress, StateType, RecStates, liveVars, preVars
    <2>3. TaskType'
      BY <1>0, <1>4 DEF HalfshutterPress, TaskType, liveVars, slotVars, recVars,
         fileVars, envVars
    <2> QED BY <2>1, <2>2, <2>3
  <1>5. CASE HalfshutterRelease
    <2>1. LiveType'
      BY <1>0, <1>5 DEF HalfshutterRelease, LiveType, liveVars, preVars, slotVars
    <2>2. StateType'
      BY <1>0, <1>5 DEF HalfshutterRelease, StateType, RecStates, liveVars, preVars
    <2>3. TaskType'
      BY <1>0, <1>5 DEF HalfshutterRelease, TaskType, liveVars, slotVars, recVars,
         fileVars, envVars
    <2> QED BY <2>1, <2>2, <2>3
  <1> QED BY <1>1, <1>2, <1>3, <1>4, <1>5 DEF Gui

LEMMA CompressType == TypeOK /\ (Compress \/ EdmacDone) => TypeOK'
  <1> SUFFICES ASSUME TypeOK, (Compress \/ EdmacDone) PROVE LiveType' /\ StateType' /\ TaskType'
    BY TypePartsNext
  <1>0. LiveType /\ StateType /\ TaskType
    BY TypeParts
  <1>1. CASE Compress
    <2>1. Head(mq).slot \in Slots /\ Tail(mq) \in Seq(MessageType)
      <3>1. Head(mq) \in MessageType /\ Tail(mq) \in Seq(MessageType)
        BY <1>0, <1>1, HeadTailType DEF Compress, LiveType
      <3> QED BY <3>1 DEF MessageType
    <2>2. LiveType'
      BY <1>0, <1>1, <2>1 DEF Compress, LiveType, SlotStates, liveVars, preVars
    <2>3. StateType'
      BY <1>0, <1>1 DEF Compress, StateType, liveVars, preVars
    <2>4. TaskType'
      BY <1>0, <1>1, <2>1 DEF Compress, TaskType, liveVars, recVars, fileVars, envVars
    <2> QED BY <2>2, <2>3, <2>4
  <1>2. CASE EdmacDone
    <2>1. LiveType'
      BY <1>0, <1>2 DEF EdmacDone, LiveType, liveVars, preVars, slotVars
    <2>2. StateType'
      BY <1>0, <1>2 DEF EdmacDone, StateType, RecStates, liveVars, preVars
    <2>3. TaskType'
      BY <1>0, <1>2 DEF EdmacDone, TaskType, liveVars, slotVars, recVars,
         fileVars, envVars
    <2> QED BY <2>1, <2>2, <2>3
  <1> QED BY <1>1, <1>2

LEMMA ModuleType == TypeOK /\ Module => TypeOK'
  <1> SUFFICES ASSUME TypeOK, Module PROVE LiveType' /\ StateType' /\ TaskType'
    BY TypePartsNext
  <1>0. LiveType /\ StateType /\ TaskType
    BY TypeParts
  <1>1. CASE ModuleLocksSlot
    <2>1. LiveType'
      BY <1>0, <1>1 DEF ModuleLocksSlot, LiveType, SlotStates, liveVars, preVars, slotVars
    <2>2. StateType'
      BY <1>0, <1>1 DEF ModuleLocksSlot, StateType, RecStates, liveVars, preVars
    <2>3. TaskType'
      BY <1>0, <1>1 DEF ModuleLocksSlot, TaskType, liveVars, slotVars, recVars,
         fileVars, envVars
    <2> QED BY <2>1, <2>2, <2>3
  <1>2. CASE ModuleReleasesSlot
    <2>1. PICK s \in Slots :
            /\ \/ /\ status' = [status EXCEPT ![s] = "FULL"]
                  /\ isMeta' = [isMeta EXCEPT ![s] = TRUE]
                  /\ content' = [content EXCEPT ![s] = Audio]
                  /\ queue' = Append(queue, s)
               \/ /\ status' = [status EXCEPT ![s] = "FREE"]
                  /\ UNCHANGED <<isMeta, content, queue>>
               \/ UNCHANGED <<status, isMeta, content, queue>>
            /\ held' = held \ {s}
            /\ UNCHANGED <<rstate, liveVars, preVars, bufferFull, buffers, number, mq, dma,
                           recVars, fileVars, stamp, metas, runs, settings>>
      BY <1>0, <1>2 DEF ModuleReleasesSlot, TaskType
    <2>2. queue' \in Seq(Slots)
      <3>1. queue' = Append(queue, s) \/ queue' = queue
        BY <2>1
      <3> QED BY <1>0, <3>1, AppendType, ZenonT(60) DEF LiveType
    <2>3. status' \in [Slots -> SlotStates]
      <3>1. \/ status' = [status EXCEPT ![s] = "FULL"]
            \/ status' = [status EXCEPT ![s] = "FREE"]
            \/ status' = status
        BY <2>1
      <3> QED BY <1>0, <3>1 DEF LiveType, SlotStates
    <2>8. content' \in [Slots -> Nat]
      <3>1. content' = [content EXCEPT ![s] = Audio] \/ content' = content
        BY <2>1
      <3>2. content \in [Slots -> Nat] /\ Audio \in Nat
        BY <1>0 DEF LiveType, Audio
      <3> QED BY <3>1, <3>2
    <2>4. isMeta' \in [Slots -> BOOLEAN]
      BY <1>0, <2>1 DEF TaskType
    <2>5. LiveType'
      BY <1>0, <2>1, <2>2, <2>3, <2>8 DEF LiveType, liveVars, preVars
    <2>6. StateType'
      BY <1>0, <2>1 DEF StateType, liveVars, preVars
    <2>7. TaskType'
      BY <1>0, <2>1, <2>4 DEF TaskType, liveVars, recVars, fileVars, envVars
    <2> QED BY <2>5, <2>6, <2>7
  <1> QED BY <1>1, <1>2 DEF Module

LEMMA BlockTyped == TypeOK => \A s \in Slots : Block(s) \in BlockType
  BY DEF TypeOK, Block, BlockType

LEMMA RecTaskType == TypeOK /\ RecTask => TypeOK'
  <1> SUFFICES ASSUME TypeOK, RecTask PROVE LiveType' /\ StateType' /\ TaskType'
    BY TypePartsNext
  <1>0. LiveType /\ StateType /\ TaskType
    BY TypeParts
  <1>1. CASE RecStart
    <2>1. LiveType'
      <3>1. captureSlot' \in Slots \cup {None} /\ frameCount' \in Int
        BY <1>1 DEF RecStart
      <3>2. bufferFull' \in BOOLEAN
        BY <1>1, Zenon DEF RecStart
      <3>3. UNCHANGED <<live, forceNew, stamp, status, number, content, queue, mq>>
        BY <1>1 DEF RecStart, slotVars
      <3> QED BY <1>0, <3>1, <3>2, <3>3 DEF LiveType
    <2>2. StateType'
      BY <1>0, <1>1, ModeAssumption DEF RecStart, StateType, RecStates, liveVars, preVars
    <2>3. TaskType'
      BY <1>0, <1>1, ModeAssumption DEF RecStart, TaskType, RecPoints, None, liveVars, slotVars, recVars,
         fileVars, envVars
    <2> QED BY <2>1, <2>2, <2>3
  <1>2. CASE RecSetup
    <2>1. LiveType'
      BY <1>0, <1>2 DEF RecSetup, LiveType, SlotStates, liveVars, preVars, slotVars
    <2>2. StateType'
      BY <1>0, <1>2 DEF RecSetup, StateType, RecStates, liveVars, preVars
    <2>3. TaskType'
      <3>1. file' \in Seq(BlockType) /\ declared' \in Int
        BY <1>2, EmptySeq DEF RecSetup
      <3>2. failed' \in BOOLEAN /\ buffers' \in BOOLEAN
        BY <1>2, Zenon DEF RecSetup
      <3>3. rec' \in RecPoints
        BY <1>2 DEF RecSetup, RecPoints
      <3>4. UNCHANGED <<counted, skipFrames, metas, runs, held, settings, dma, isMeta, group>>
        BY <1>2 DEF RecSetup, liveVars, envVars
      <3> QED BY <1>0, <3>1, <3>2, <3>3, <3>4 DEF TaskType
    <2> QED BY <2>1, <2>2, <2>3
  <1>3. CASE RecSetupFails
    <2>1. LiveType'
      BY <1>0, <1>3 DEF RecSetupFails, LiveType, liveVars, preVars, slotVars
    <2>2. StateType'
      BY <1>0, <1>3 DEF RecSetupFails, StateType, RecStates, liveVars, preVars
    <2>3. TaskType'
      BY <1>0, <1>3 DEF RecSetupFails, TaskType, RecPoints, liveVars, slotVars, recVars,
         fileVars, envVars
    <2> QED BY <2>1, <2>2, <2>3
  <1>4. CASE RecEnable
    <2>1. LiveType'
      BY <1>0, <1>4, BoundAssumption DEF RecEnable, LiveType, liveVars, preVars, slotVars
    <2>2. StateType'
      BY <1>0, <1>4, BoundAssumption DEF RecEnable, StateType, RecStates, liveVars, preVars
    <2>3. TaskType'
      BY <1>0, <1>4, BoundAssumption DEF RecEnable, TaskType, RecPoints, liveVars, slotVars, recVars,
         fileVars, envVars
    <2> QED BY <2>1, <2>2, <2>3
  <1>5. CASE RecTakesGroup
    <2>1. PICK n \in 1..Len(queue) :
             /\ group' = SubSeq(queue, 1, n)
             /\ queue' = Rest(n)
             /\ status' = [s \in Slots |-> IF \E k \in 1..n : queue[k] = s
                                           THEN "WRITING" ELSE status[s]]
             /\ counted' = n - Cardinality(MetaSlotsSeen)
      BY <1>5 DEF RecTakesGroup
    <2>2. queue \in Seq(Slots) /\ status \in [Slots -> SlotStates]
      BY <1>0 DEF LiveType
    <2>3. group' \in Seq(Slots) /\ queue' \in Seq(Slots)
      BY <2>1, <2>2, PrefixType DEF Rest
    <2>4. counted' \in Int
      <3>1. MetaSlotsSeen \in SUBSET (1..Len(queue)) /\ 1 \in Int /\ Len(queue) \in Int
        BY <2>2 DEF MetaSlotsSeen
      <3>2. Cardinality(MetaSlotsSeen) \in Nat
        BY <3>1, CardNat
      <3> QED BY <2>1, <3>2
    <2>5. status' \in [Slots -> SlotStates]
      BY <2>1, <2>2 DEF SlotStates
    <2>6. forceNew' \in BOOLEAN
      BY <1>0, <1>5 DEF RecTakesGroup, LiveType
    <2>7. LiveType'
      BY <1>0, <1>5, <2>3, <2>5, <2>6 DEF RecTakesGroup, LiveType, preVars
    <2>8. StateType'
      BY <1>0, <1>5 DEF RecTakesGroup, StateType, preVars
    <2>9. TaskType'
      BY <1>0, <1>5, <2>3, <2>4 DEF RecTakesGroup, TaskType, RecPoints, fileVars, envVars
    <2> QED BY <2>7, <2>8, <2>9
  <1>6. CASE RecWrites
    <2> DEFINE b == [k \in 1..Len(group) |-> Block(group[k])]
    <2>0. group \in Seq(Slots) /\ Len(group) \in Nat /\ DOMAIN group = 1..Len(group)
      BY <1>0 DEF TaskType
    <2>1. \A k \in 1..Len(group) : group[k] \in Slots
      BY <2>0
    <2>2. b \in [1..Len(group) -> BlockType]
      BY <2>1, BlockTyped
    <2>3. b \in Seq(BlockType)
      BY <2>0, <2>2, FunctionIsSeq
    <2>4. file' = file \o b
      BY <1>6, <2>0 DEF RecWrites
    <2> HIDE DEF b
    <2>5. file' \in Seq(BlockType)
      BY <1>0, <2>3, <2>4, ConcatProperties DEF TaskType
    <2>6. LiveType'
      BY <1>0, <1>6 DEF RecWrites, LiveType, liveVars, preVars, slotVars
    <2>7. StateType'
      BY <1>0, <1>6 DEF RecWrites, StateType, liveVars, preVars
    <2>8. TaskType'
      BY <1>0, <1>6, <2>5 DEF RecWrites, TaskType, RecPoints, liveVars, slotVars, envVars
    <2> QED BY <2>6, <2>7, <2>8
  <1>7. CASE RecFreesSlot
    <2>1. Head(group) \in Slots /\ Tail(group) \in Seq(Slots)
      BY <1>0, <1>7, HeadTailType DEF RecFreesSlot, TaskType
    <2>2. LiveType'
      BY <1>0, <1>7, <2>1 DEF RecFreesSlot, LiveType, SlotStates, liveVars, preVars
    <2>3. StateType'
      BY <1>0, <1>7 DEF RecFreesSlot, StateType, liveVars, preVars
    <2>4. TaskType'
      BY <1>0, <1>7, <2>1 DEF RecFreesSlot, TaskType, RecPoints, liveVars, fileVars, envVars
    <2> QED BY <2>2, <2>3, <2>4
  <1>8. CASE RecWriteFails
    <2>1. LiveType'
      BY <1>0, <1>8, EmptySeq DEF RecWriteFails, LiveType, QueueAfterFailure, liveVars, preVars, slotVars
    <2>2. StateType'
      BY <1>0, <1>8 DEF RecWriteFails, StateType, RecStates, liveVars, preVars
    <2>3. TaskType'
      BY <1>0, <1>8, EmptySeq DEF RecWriteFails, TaskType, RecPoints, liveVars, slotVars, recVars,
         fileVars, envVars
    <2> QED BY <2>1, <2>2, <2>3
  <1>9. CASE RecLeavesLoop
    <2>1. LiveType'
      BY <1>0, <1>9 DEF RecLeavesLoop, LiveType, liveVars, preVars, slotVars
    <2>2. StateType'
      BY <1>0, <1>9 DEF RecLeavesLoop, StateType, RecStates, liveVars, preVars
    <2>3. TaskType'
      BY <1>0, <1>9 DEF RecLeavesLoop, TaskType, RecPoints, liveVars, slotVars, recVars,
         fileVars, envVars
    <2> QED BY <2>1, <2>2, <2>3
  <1>10. CASE RecStopped
    <2>1. LiveType'
      BY <1>0, <1>10 DEF RecStopped, LiveType, liveVars, preVars, slotVars
    <2>2. StateType'
      BY <1>0, <1>10 DEF RecStopped, StateType, RecStates, liveVars, preVars
    <2>3. TaskType'
      BY <1>0, <1>10 DEF RecStopped, TaskType, RecPoints, liveVars, slotVars, recVars,
         fileVars, envVars
    <2> QED BY <2>1, <2>2, <2>3
  <1>11. CASE RecStopsWaiting
    <2>1. LiveType'
      BY <1>0, <1>11 DEF RecStopsWaiting, LiveType, liveVars, preVars, slotVars
    <2>2. StateType'
      BY <1>0, <1>11 DEF RecStopsWaiting, StateType, RecStates, liveVars, preVars
    <2>3. TaskType'
      BY <1>0, <1>11 DEF RecStopsWaiting, TaskType, RecPoints, liveVars, slotVars, recVars,
         fileVars, envVars
    <2> QED BY <2>1, <2>2, <2>3
  <1>12. CASE RecFlushes
    <2>1. Head(queue) \in Slots /\ Tail(queue) \in Seq(Slots)
      BY <1>0, <1>12, HeadTailType DEF RecFlushes, LiveType
    <2>2. file' \in Seq(BlockType)
      BY <1>0, <1>12, <2>1, BlockTyped, AppendType DEF RecFlushes, TaskType
    <2>3. LiveType'
      BY <1>0, <1>12, <2>1 DEF RecFlushes, LiveType, SlotStates, liveVars, preVars
    <2>4. StateType'
      BY <1>0, <1>12 DEF RecFlushes, StateType, liveVars, preVars
    <2>5. TaskType'
      BY <1>0, <1>12, <2>2 DEF RecFlushes, TaskType, recVars, liveVars, envVars
    <2> QED BY <2>3, <2>4, <2>5
  <1>13. CASE RecFlushFails
    <2>1. LiveType'
      BY <1>0, <1>13, EmptySeq DEF RecFlushFails, LiveType, QueueAfterFailure, SlotStates, liveVars, preVars, slotVars
    <2>2. StateType'
      BY <1>0, <1>13 DEF RecFlushFails, StateType, RecStates, liveVars, preVars
    <2>3. TaskType'
      BY <1>0, <1>13 DEF RecFlushFails, TaskType, RecPoints, liveVars, slotVars, recVars,
         fileVars, envVars
    <2> QED BY <2>1, <2>2, <2>3
  <1>14. CASE RecFlushed
    <2>1. LiveType'
      BY <1>0, <1>14 DEF RecFlushed, LiveType, liveVars, preVars, slotVars
    <2>2. StateType'
      BY <1>0, <1>14 DEF RecFlushed, StateType, RecStates, liveVars, preVars
    <2>3. TaskType'
      BY <1>0, <1>14 DEF RecFlushed, TaskType, RecPoints, liveVars, slotVars, recVars,
         fileVars, envVars
    <2> QED BY <2>1, <2>2, <2>3
  <1>15. CASE RecFreesBuffers
    <2>1. LiveType'
      BY <1>0, <1>15 DEF RecFreesBuffers, LiveType, liveVars, preVars, slotVars
    <2>2. StateType'
      BY <1>0, <1>15 DEF RecFreesBuffers, StateType, RecStates, liveVars, preVars
    <2>3. TaskType'
      BY <1>0, <1>15 DEF RecFreesBuffers, TaskType, RecPoints, liveVars, slotVars, recVars,
         fileVars, envVars
    <2> QED BY <2>1, <2>2, <2>3
  <1>16. CASE RecEnds
    <2>1. LiveType'
      BY <1>0, <1>16 DEF RecEnds, LiveType, liveVars, preVars, slotVars
    <2>2. StateType'
      BY <1>0, <1>16 DEF RecEnds, StateType, RecStates, liveVars, preVars
    <2>3. TaskType'
      BY <1>0, <1>16 DEF RecEnds, TaskType, RecPoints, liveVars, slotVars, recVars,
         fileVars, envVars
    <2> QED BY <2>1, <2>2, <2>3
  <1> QED BY <1>1, <1>2, <1>3, <1>4, <1>5, <1>6, <1>7, <1>8, <1>9, <1>10, <1>11, <1>12,
             <1>13, <1>14, <1>15, <1>16 DEF RecTask

LEMMA InitType == Init => TypeOK
  <1> SUFFICES ASSUME Init PROVE TypeOK
    OBVIOUS
  <1>1. /\ rstate \in RecStates /\ rec \in RecPoints /\ live \in LiveStates
        /\ firstFrame \in Int /\ frameCount \in Int /\ counted \in Int /\ declared \in Int
        /\ skipFrames \in Nat /\ stamp \in Nat /\ metas \in Nat /\ runs \in Nat
        /\ captureSlot \in Slots \cup {None} /\ dma \in Slots \cup {None}
        /\ held \subseteq Slots /\ settings \in Settings
    BY DEF Init, RecStates, RecPoints, LiveStates
  <1>2. /\ triggered \in BOOLEAN /\ bufferFull \in BOOLEAN /\ forceNew \in BOOLEAN
        /\ buffers \in BOOLEAN /\ failed \in BOOLEAN
    BY Zenon DEF Init
  <1>3. /\ status \in [Slots -> SlotStates] /\ number \in [Slots -> Int]
        /\ isMeta \in [Slots -> BOOLEAN] /\ content \in [Slots -> Nat]
    BY DEF Init, SlotStates, Audio
  <1>4. /\ queue \in Seq(Slots) /\ group \in Seq(Slots) /\ mq \in Seq(MessageType)
        /\ file \in Seq(BlockType)
    BY EmptySeq DEF Init
  <1>5. scan \in [frame : Int, slot : Slots \cup {None}]
    BY DEF Init, NoScan
  <1> QED BY <1>1, <1>2, <1>3, <1>4, <1>5, TypeParts DEF LiveType, StateType, TaskType

LEMMA NextType == TypeOK /\ [Next]_vars => TypeOK'
  <1>1. TypeOK /\ UNCHANGED vars => TypeOK'
    BY DEF TypeOK, vars, liveVars, preVars, slotVars, recVars, fileVars, envVars
  <1> QED BY <1>1, GuiType, LiveViewType, CompressType, ModuleType, RecTaskType DEF Next

(* Every variable keeps its type in every mode of the recorder: slot states,
   queue, compression messages and counters stay within what the code's types
   and loops expect, whatever fails. *)
THEOREM TypeCorrect == Spec => []TypeOK
  BY InitType, NextType, PTL DEF Spec

-----------------------------------------------------------------------------
(* Safety of the frame slots in lossless recording without pre-recording,   *)
(* with every failure of the card and of the setup, with or without a       *)
(* module, and with LiveView closed at any time.                            *)

(* The modes the theorems are about.  Each conjunct is needed: the README says
   which theorem fails without it. *)
PlainModes ==
    /\ FALSE \notin Outputs /\ TRUE \notin PreRecords /\ RecTriggers \subseteq {0}
    /\ MaxLag <= 1

(* What the code takes for granted and does not see to: no recording starts
   with slots which one that failed has left in the queue; wait_lv_frames does
   not give up while a frame is being compressed; the setup does not fail
   while a module holds a slot.  Each theorem holds up to the first step that
   is otherwise, and the README says what goes wrong from there. *)
NothingLeft ==
    /\ RecStart => queue = <<>>
    /\ RecStopsWaiting => mq = <<>>
    /\ RecSetupFails => held = {}

(* write_frames has emptied the queue when it fails: it does when the card is
   full, not when a chunk could not be created. *)
Emptied == RecWriteFails \/ RecFlushFails => queue' = <<>>

LEMMA NothingLeftNow ==
    ASSUME [NothingLeft]_vars
    PROVE  /\ RecStart => queue = <<>>
           /\ RecStopsWaiting => mq = <<>>
           /\ RecSetupFails => held = {}
  <1>1. RecStart \/ RecStopsWaiting \/ RecSetupFails => rec' # rec
    BY DEF RecStart, RecStopsWaiting, RecSetupFails
  <1>2. UNCHANGED vars => rec' = rec
    BY DEF vars, recVars
  <1> QED BY <1>1, <1>2 DEF NothingLeft

LEMMA EmptiedNow ==
    ASSUME [Emptied]_vars, RecWriteFails \/ RecFlushFails
    PROVE  queue' = <<>>
  <1>1. rec' # rec
    BY DEF RecWriteFails, RecFlushFails
  <1>2. UNCHANGED vars => rec' = rec
    BY DEF vars, recVars
  <1> QED BY <1>1, <1>2 DEF Emptied

(* The same, with what the settings then are in every state. *)
PlainMode == PlainModes /\ Lossless /\ ~PreRecord /\ RecTrigger = 0

LEMMA AlwaysPlain == PlainModes /\ TypeOK => PlainMode
  <1> SUFFICES ASSUME PlainModes, TypeOK PROVE PlainMode
    OBVIOUS
  <1>1. /\ settings.lossless \in Outputs /\ settings.preRecord \in PreRecords
        /\ settings.recTrigger \in RecTriggers
    BY DEF TypeOK, Settings
  <1>2. settings.lossless \in BOOLEAN /\ settings.preRecord \in BOOLEAN
    BY <1>1, ModeAssumption
  <1>3. settings.lossless = TRUE /\ settings.preRecord = FALSE /\ settings.recTrigger = 0
    BY <1>1, <1>2 DEF PlainModes
  <1> QED BY <1>3 DEF PlainMode, PlainModes, Lossless, PreRecord, RecTrigger

(* The inductive invariant.  First, what is known of the modes in each phase
   of the recording task. *)
Owned == {"starting", "loop", "writing", "freeing", "abort", "stopping",
          "wait2", "wait1", "drain"}

Phases ==
    /\ live = "idle" /\ rstate # "PRE_RECORDING" /\ dma = None
    /\ rec \in {"none", "created"} => rstate = "IDLE"
    /\ rec \in {"preparing", "starting"} => rstate = "PREPARING"
    /\ rec \in {"stopping", "wait2", "wait1", "drain"} => rstate = "FINISHING"
    /\ rec \in {"cleanup", "freed"} => rstate # "RECORDING"
    /\ rec \notin {"none", "created"} => triggered
    /\ rec \in Owned => buffers

(* Modules hold slots only while a recording runs, and the slots they hold
   are the locked ones: nobody else uses them. *)
HeldInv ==
    /\ \A s \in held : status[s] = "LOCKED"
    /\ held # {} =>
          rec \in {"starting", "loop", "writing", "freeing", "abort", "stopping"}

(* Messages to compress_task name distinct slots that are being captured;
   after the second vsync of wait_lv_frames(2) there are none. *)
SlotsOf(q) == [k \in DOMAIN q |-> q[k].slot]

MessagesInv ==
    /\ IsInjective(SlotsOf(mq))
    /\ \A s \in Range(SlotsOf(mq)) : status[s] = "CAPTURING"
    /\ mq # <<>> => rec \in {"loop", "writing", "freeing", "abort", "stopping", "wait2", "wait1"}
    /\ rec = "wait1" => \A k \in DOMAIN mq : mq[k].age >= 1

(* The queue names distinct slots, filled or being filled; it is empty when
   a recording is about to set them up. *)
QueueInv ==
    /\ IsInjective(queue)
    /\ rec \in Owned => \A s \in Range(queue) : status[s] \in {"CAPTURING", "FULL"}
    /\ rec = "preparing" => queue = <<>>

(* write_frames holds distinct slots, marked as being written. *)
GroupInv ==
    /\ IsInjective(group)
    /\ \A s \in Range(group) : status[s] = "WRITING"
    /\ group # <<>> => rec \in {"writing", "freeing"}

(* NoSlotLost, from the moment the slots are set up. *)
SlotsInv ==
    rec \in {"starting", "loop", "writing", "freeing"} =>
        \A s \in Slots : /\ status[s] \in {"CAPTURING", "FULL"} => s \in Range(queue)
                         /\ status[s] = "WRITING" => s \in Range(group)

Safe == /\ Phases /\ HeldInv /\ MessagesInv /\ QueueInv /\ GroupInv
        /\ SlotsInv /\ SavedWhole

IInv == TypeOK /\ Safe

-----------------------------------------------------------------------------
(* The elements of a sequence without repetition, when it grows at the end,
   loses its head, or is cut in two.                                        *)
LEMMA AppendRange ==
    ASSUME NEW S, NEW q \in Seq(S), NEW e \in S
    PROVE  /\ Range(Append(q, e)) = Range(q) \cup {e}
           /\ IsInjective(q) /\ e \notin Range(q) => IsInjective(Append(q, e))
  <1> DEFINE a == Append(q, e)
  <1>1. /\ DOMAIN a = DOMAIN q \cup {Len(q) + 1} /\ a[Len(q) + 1] = e
        /\ \A k \in DOMAIN q : a[k] = q[k]
    OBVIOUS
  <1> HIDE DEF a
  <1>2. Range(a) = Range(q) \cup {e}
    BY <1>1 DEF Range
  <1>3. IsInjective(q) /\ e \notin Range(q) => IsInjective(a)
    BY <1>1 DEF Range, IsInjective
  <1> QED BY <1>2, <1>3 DEF a

LEMMA SplitRange ==
    ASSUME NEW S, NEW q \in Seq(S), NEW n \in 0..Len(q), IsInjective(q)
    PROVE  LET p == SubSeq(q, 1, n)
               r == SubSeq(q, n + 1, Len(q)) IN
           /\ IsInjective(p) /\ IsInjective(r)
           /\ Range(p) \cup Range(r) = Range(q) /\ Range(p) \cap Range(r) = {}
           /\ \A s : s \in Range(p) <=> \E k \in 1..n : q[k] = s
  <1> DEFINE p == SubSeq(q, 1, n)
             r == SubSeq(q, n + 1, Len(q))
  <1>1. DOMAIN p = 1..n /\ \A k \in 1..n : p[k] = q[k] /\ k \in DOMAIN q
    OBVIOUS
  <1>2. /\ DOMAIN r = 1..(Len(q) - n)
        /\ \A k \in 1..(Len(q) - n) : r[k] = q[k + n] /\ k + n \in DOMAIN q
    OBVIOUS
  <1>3. \A k \in DOMAIN q : k \in 1..n \/ (k - n \in 1..(Len(q) - n) /\ k = (k - n) + n)
    OBVIOUS
  <1> HIDE DEF p, r
  <1>4. \A s : s \in Range(p) <=> \E k \in 1..n : q[k] = s
    BY <1>1 DEF Range
  <1>5. IsInjective(p)
    BY <1>1 DEF IsInjective
  <1>6. IsInjective(r)
    <2> SUFFICES ASSUME NEW i \in 1..(Len(q) - n), NEW j \in 1..(Len(q) - n), r[i] = r[j]
                 PROVE  i = j
      BY <1>2 DEF IsInjective
    <2>1. i + n = j + n
      BY <1>2 DEF IsInjective
    <2> QED BY <2>1
  <1>7. Range(p) \cup Range(r) \subseteq Range(q)
    BY <1>1, <1>2 DEF Range
  <1>8. Range(q) \subseteq Range(p) \cup Range(r)
    <2> SUFFICES ASSUME NEW k \in DOMAIN q PROVE q[k] \in Range(p) \cup Range(r)
      BY DEF Range
    <2>1. CASE k \in 1..n
      BY <1>1, <2>1 DEF Range
    <2>2. CASE k - n \in 1..(Len(q) - n)
      <3>1. r[k - n] = q[k]
        BY <1>2, <1>3, <2>2
      <3> QED BY <1>2, <2>2, <3>1 DEF Range
    <2> QED BY <1>3, <2>1, <2>2
  <1>9. Range(p) \cap Range(r) = {}
    <2> SUFFICES ASSUME NEW i \in 1..n, NEW j \in 1..(Len(q) - n), p[i] = r[j] PROVE FALSE
      BY <1>1, <1>2 DEF Range
    <2>1. i = j + n
      BY <1>1, <1>2 DEF IsInjective
    <2> QED BY <2>1
  <1> QED BY <1>4, <1>5, <1>6, <1>7, <1>8, <1>9 DEF p, r

LEMMA TailRange ==
    ASSUME NEW S, NEW q \in Seq(S), q # <<>>, IsInjective(q)
    PROVE  /\ IsInjective(Tail(q)) /\ Head(q) \in Range(q)
           /\ Range(Tail(q)) = Range(q) \ {Head(q)}
  <1>1. /\ 1 \in 0..Len(q) /\ 1 \in DOMAIN q /\ Head(q) = q[1]
        /\ Tail(q) = SubSeq(q, 2, Len(q))
    BY TailIsSubSeq
  <1> DEFINE p == SubSeq(q, 1, 1)
             r == SubSeq(q, 1 + 1, Len(q))
  <1>2. /\ IsInjective(r) /\ Range(p) \cup Range(r) = Range(q) /\ Range(p) \cap Range(r) = {}
        /\ \A s : s \in Range(p) <=> \E k \in 1..1 : q[k] = s
    BY <1>1, SplitRange
  <1>3. Tail(q) = r
    BY <1>1
  <1> HIDE DEF p, r
  <1>4. Range(p) = {q[1]}
    BY <1>2
  <1>5. Range(r) = Range(q) \ {Head(q)} /\ Head(q) \in Range(q)
    BY <1>1, <1>2, <1>4
  <1> QED BY <1>2, <1>3, <1>5

LEMMA ConcatElements ==
    ASSUME NEW S, NEW p \in Seq(S), NEW q \in Seq(S), NEW k \in DOMAIN (p \o q)
    PROVE  \/ \E i \in DOMAIN p : (p \o q)[k] = p[i]
           \/ \E i \in DOMAIN q : (p \o q)[k] = q[i]
  <1>1. k \in 1..(Len(p) + Len(q)) /\ Len(p) \in Nat /\ Len(q) \in Nat
    OBVIOUS
  <1>2. CASE k <= Len(p)
    <2>1. k \in DOMAIN p /\ (p \o q)[k] = p[k]
      BY <1>1, <1>2
    <2> QED BY <2>1
  <1>3. CASE k > Len(p)
    <2>1. k - Len(p) \in DOMAIN q /\ (p \o q)[k] = q[k - Len(p)]
      BY <1>1, <1>3
    <2> QED BY <2>1
  <1> QED BY <1>1, <1>2, <1>3

LEMMA NoneInRange == Range(<<>>) = {} /\ IsInjective(<<>>)
  BY DEF Range, IsInjective

LEMMA RangeType ==
    ASSUME NEW S, NEW q \in Seq(S)
    PROVE  Range(q) \subseteq S
  BY DEF Range

-----------------------------------------------------------------------------
(* The slots of compress_mq: a vsync leaves them alone, a frame is added at
   the end, compress_task takes the first. *)
LEMMA InSlotsOf == \A q : \A s : s \in Range(SlotsOf(q)) <=> \E k \in DOMAIN q : q[k].slot = s
  BY DEF Range, SlotsOf

LEMMA RangesType == TypeOK => /\ Range(queue) \subseteq Slots /\ Range(group) \subseteq Slots
                              /\ Range(SlotsOf(mq)) \subseteq Slots
  <1> SUFFICES ASSUME TypeOK
               PROVE  /\ Range(queue) \subseteq Slots /\ Range(group) \subseteq Slots
                      /\ Range(SlotsOf(mq)) \subseteq Slots
    OBVIOUS
  <1>1. Range(queue) \subseteq Slots /\ Range(group) \subseteq Slots
    BY RangeType DEF TypeOK
  <1>2. \A k \in DOMAIN mq : mq[k] \in MessageType
    BY TypeParts DEF LiveType
  <1> QED BY <1>1, <1>2, InSlotsOf DEF MessageType

LEMMA TickSlots == TypeOK => SlotsOf(Tick) = SlotsOf(mq)
  BY TickType DEF SlotsOf

LEMMA AppendSlots ==
    ASSUME NEW q \in Seq(MessageType), NEW r \in MessageType
    PROVE  Range(SlotsOf(Append(q, r))) = Range(SlotsOf(q)) \cup {r.slot}
  <1> DEFINE a == Append(q, r)
  <1>1. /\ DOMAIN a = DOMAIN q \cup {Len(q) + 1} /\ a[Len(q) + 1] = r
        /\ \A k \in DOMAIN q : a[k] = q[k]
    OBVIOUS
  <1> HIDE DEF a
  <1>2. \A s : s \in Range(SlotsOf(a)) <=> s \in Range(SlotsOf(q)) \cup {r.slot}
    BY <1>1, InSlotsOf
  <1> QED BY <1>2 DEF a

LEMMA AppendSlotsOnce ==
    ASSUME NEW q \in Seq(MessageType), NEW r \in MessageType,
           IsInjective(SlotsOf(q)), r.slot \notin Range(SlotsOf(q))
    PROVE  IsInjective(SlotsOf(Append(q, r)))
  <1> DEFINE a == Append(q, r)
  <1>1. /\ DOMAIN a = DOMAIN q \cup {Len(q) + 1} /\ a[Len(q) + 1] = r
        /\ \A k \in DOMAIN q : a[k] = q[k]
    OBVIOUS
  <1> HIDE DEF a
  <1>2. IsInjective(SlotsOf(a))
    BY <1>1 DEF Range, SlotsOf, IsInjective
  <1> QED BY <1>2 DEF a

LEMMA TailSlots ==
    ASSUME NEW q \in Seq(MessageType), q # <<>>, IsInjective(SlotsOf(q))
    PROVE  /\ IsInjective(SlotsOf(Tail(q)))
           /\ Head(q).slot \in Range(SlotsOf(q))
           /\ Range(SlotsOf(Tail(q))) = Range(SlotsOf(q)) \ {Head(q).slot}
  <1> DEFINE t == Tail(q)
  <1>1. /\ Len(q) \in Nat \ {0} /\ DOMAIN q = 1..Len(q) /\ Head(q) = q[1]
        /\ DOMAIN t = 1..(Len(q) - 1) /\ \A k \in 1..(Len(q) - 1) : t[k] = q[k + 1]
    OBVIOUS
  <1> HIDE DEF t
  <1>2. \A i, j \in 1..Len(q) : q[i].slot = q[j].slot => i = j
    BY <1>1 DEF IsInjective, SlotsOf
  <1>3. \A i, j \in 1..(Len(q) - 1) : t[i].slot = t[j].slot => i = j
    <2> SUFFICES ASSUME NEW i \in 1..(Len(q) - 1), NEW j \in 1..(Len(q) - 1), t[i].slot = t[j].slot
                 PROVE  i = j
      OBVIOUS
    <2>1. i + 1 \in 1..Len(q) /\ j + 1 \in 1..Len(q) /\ q[i + 1].slot = q[j + 1].slot
      BY <1>1
    <2> QED BY <1>2, <2>1
  <1>4. IsInjective(SlotsOf(t))
    BY <1>1, <1>3 DEF IsInjective, SlotsOf
  <1>5. Head(q).slot \in Range(SlotsOf(q))
    BY <1>1 DEF Range, SlotsOf
  <1>6. \A s : s \in Range(SlotsOf(t)) => s \in Range(SlotsOf(q)) /\ s # Head(q).slot
    <2> SUFFICES ASSUME NEW k \in 1..(Len(q) - 1)
                 PROVE  t[k].slot \in Range(SlotsOf(q)) /\ t[k].slot # Head(q).slot
      BY <1>1 DEF Range, SlotsOf
    <2>1. k + 1 \in 1..Len(q) /\ t[k] = q[k + 1] /\ k + 1 # 1
      BY <1>1
    <2> QED BY <1>1, <1>2, <2>1 DEF Range, SlotsOf
  <1>7. \A s \in Range(SlotsOf(q)) : s # Head(q).slot => s \in Range(SlotsOf(t))
    <2> SUFFICES ASSUME NEW k \in 1..Len(q), q[k].slot # Head(q).slot
                 PROVE  q[k].slot \in Range(SlotsOf(t))
      BY <1>1 DEF Range, SlotsOf
    <2>1. k - 1 \in 1..(Len(q) - 1) /\ t[k - 1] = q[(k - 1) + 1] /\ (k - 1) + 1 = k
      BY <1>1
    <2> QED BY <1>1, <2>1 DEF Range, SlotsOf
  <1> QED BY <1>4, <1>5, <1>6, <1>7 DEF t

-----------------------------------------------------------------------------
(* Steps that leave the slots, the queue and the group alone: only the phase
   changes, or the frames waiting to be compressed grow older. *)
Quiet == UNCHANGED <<status, queue, group, file, live, dma>>

LEMMA PhaseStep ==
    ASSUME PlainMode, IInv, Quiet, UNCHANGED mq, [NothingLeft]_vars,
           \/ PressRecStart \/ PressRecStop \/ RecStart \/ RecEnable \/ RecStopped
           \/ RecFlushed \/ RecFreesBuffers \/ RecEnds \/ RecSetupFails \/ RecLeavesLoop
           \/ RecStopsWaiting
    PROVE  Safe'
  <1>0. /\ RecStart => queue = <<>>
        /\ RecStopsWaiting => mq = <<>>
        /\ RecSetupFails => held = {}
    BY NothingLeftNow
  <1> USE DEF PressRecStart, PressRecStop, RecStart, RecEnable, RecStopped, RecFlushed,
              RecFreesBuffers, RecEnds, RecSetupFails, RecLeavesLoop, RecStopsWaiting,
              liveVars, preVars, slotVars, recVars, fileVars, envVars, Recording
  <1>1. Phases'
    BY DEF PlainMode, PlainModes, IInv, Safe, Phases, HeldInv, MessagesInv, Owned, Quiet
  <1>2. HeldInv'
    BY <1>0 DEF PlainMode, PlainModes, IInv, Safe, HeldInv, Quiet
  <1>3. MessagesInv'
    BY <1>0 DEF PlainMode, PlainModes, IInv, Safe, MessagesInv, Quiet
  <1>4. QueueInv'
    BY <1>0 DEF PlainMode, PlainModes, IInv, Safe, QueueInv, Quiet, Owned
  <1>5. GroupInv'
    BY DEF PlainMode, PlainModes, IInv, Safe, GroupInv, Quiet
  <1>6. SlotsInv'
    BY DEF PlainMode, PlainModes, IInv, Safe, SlotsInv, Quiet
  <1>7. SavedWhole'
    BY DEF IInv, Safe, SavedWhole, Quiet
  <1> QED BY <1>1, <1>2, <1>3, <1>4, <1>5, <1>6, <1>7 DEF Safe

LEMMA VsyncStep ==
    ASSUME PlainMode, IInv, Quiet, mq' = Tick,
           VsyncIdle \/ VsyncSettingsChanged \/ VsyncSkips
    PROVE  Safe'
  <1> USE DEF VsyncIdle, VsyncSettingsChanged, VsyncSkips, liveVars, preVars, slotVars,
              recVars, fileVars, envVars, Recording, Processing
  <1>1. Phases'
    BY DEF PlainMode, PlainModes, IInv, Safe, Phases, HeldInv, MessagesInv, Owned, Quiet
  <1>2. HeldInv'
    BY DEF PlainMode, PlainModes, IInv, Safe, HeldInv, Quiet
  <1>3. MessagesInv'
    <2>1. /\ mq \in Seq(MessageType) /\ DOMAIN Tick = DOMAIN mq
          /\ \A k \in DOMAIN mq : mq[k].age \in Nat /\ Tick[k].age = mq[k].age + 1
      <3>1. mq \in Seq(MessageType) /\ \A k \in DOMAIN mq : mq[k] \in MessageType
        BY TypeParts DEF IInv, LiveType
      <3>2. /\ DOMAIN Tick = DOMAIN mq
            /\ \A k \in DOMAIN mq : Tick[k] = [slot |-> mq[k].slot, age |-> mq[k].age + 1]
        BY TickType DEF IInv
      <3> QED BY <3>1, <3>2 DEF MessageType
    <2>2. SlotsOf(Tick) = SlotsOf(mq)
      BY TickSlots DEF IInv
    <2>3. IsInjective(SlotsOf(mq))' /\ \A s \in Range(SlotsOf(mq))' : status'[s] = "CAPTURING"
      BY <2>2 DEF IInv, Safe, MessagesInv, Quiet
    <2>4. rec' = "wait1" => \A k \in DOMAIN mq' : mq'[k].age >= 1
      BY <2>1 DEF IInv, Safe, MessagesInv
    <2>5. CASE rec = "wait1"
      <3>1. \A k \in DOMAIN mq : FALSE
        BY <2>1, <2>5, EnvAssumption DEF CanTick, PlainMode, PlainModes, IInv, Safe, MessagesInv
      <3>2. Tick = <<>>
        BY <2>1, <3>1
      <3> QED BY <2>3, <2>4, <3>2 DEF MessagesInv
    <2>6. CASE rec # "wait1"
      <3>1. mq' # <<>> => mq # <<>>
        BY <2>1
      <3>2. mq' # <<>> => rec' \in {"loop", "writing", "freeing", "abort", "stopping", "wait2", "wait1"}
        BY <2>6, <3>1 DEF IInv, Safe, MessagesInv
      <3> QED BY <2>3, <2>4, <3>2 DEF MessagesInv
    <2> QED BY <2>5, <2>6
  <1>4. QueueInv'
    BY DEF PlainMode, PlainModes, IInv, Safe, QueueInv, Quiet, Owned
  <1>5. GroupInv'
    BY DEF PlainMode, PlainModes, IInv, Safe, GroupInv, Quiet
  <1>6. SlotsInv'
    BY DEF PlainMode, PlainModes, IInv, Safe, SlotsInv, Quiet
  <1>7. SavedWhole'
    BY DEF IInv, Safe, SavedWhole, Quiet
  <1> QED BY <1>1, <1>2, <1>3, <1>4, <1>5, <1>6, <1>7 DEF Safe

-----------------------------------------------------------------------------
(* The recording task sets up the slots: none is used by anyone. *)
LEMMA RecSetupStep ==
    ASSUME PlainMode, IInv, RecSetup
    PROVE  Safe'
  <1>1. mq = <<>> /\ queue = <<>> /\ group = <<>> /\ rec' = "starting"
    BY DEF IInv, Safe, MessagesInv, QueueInv, GroupInv, RecSetup
  <1>2. mq' = <<>> /\ queue' = <<>> /\ group' = <<>> /\ file' = <<>>
    BY <1>1 DEF RecSetup
  <1>3. \A s \in Slots : status'[s] = "FREE"
    BY DEF RecSetup
  <1>4. Phases' /\ SlotsInv'
    BY <1>1, <1>3 DEF IInv, Safe, Phases, SlotsInv, RecSetup, liveVars, preVars, Owned
  <1>8. HeldInv'
    BY DEF IInv, Safe, HeldInv, RecSetup, envVars
  <1>5. SlotsOf(<<>>) = <<>>
    BY DEF SlotsOf
  <1>6. MessagesInv' /\ QueueInv' /\ GroupInv'
    BY <1>1, <1>2, <1>5, NoneInRange DEF MessagesInv, QueueInv, GroupInv
  <1>7. SavedWhole'
    BY <1>2 DEF SavedWhole
  <1> QED BY <1>4, <1>6, <1>7, <1>8 DEF Safe

(* A module takes a free slot, and gives it back free or to be written. *)
LEMMA ModuleLocksStep ==
    ASSUME PlainMode, IInv, ModuleLocksSlot
    PROVE  Safe'
  <1> PICK s \in Slots : status[s] = "FREE" /\ status' = [status EXCEPT ![s] = "LOCKED"]
                     /\ held' = held \cup {s}
    BY DEF ModuleLocksSlot
  <1>1. /\ UNCHANGED <<rstate, live, triggered, dma, rec, mq, queue, group, file, buffers>>
        /\ rec \in {"starting", "loop", "writing", "freeing"}
    BY DEF ModuleLocksSlot, liveVars, preVars, recVars, fileVars
  <1>3. /\ s \notin Range(queue) /\ s \notin Range(group) /\ s \notin Range(SlotsOf(mq))
    BY <1>1 DEF IInv, Safe, QueueInv, GroupInv, MessagesInv, Owned
  <1>4. (\A t \in Slots : t # s => status'[t] = status[t]) /\ status'[s] = "LOCKED"
    BY DEF IInv, TypeOK
  <1>5. Phases'
    BY <1>1 DEF IInv, Safe, Phases, Owned
  <1>8. HeldInv'
    BY <1>1, <1>4 DEF IInv, TypeOK, Safe, HeldInv
  <1>6. MessagesInv' /\ QueueInv' /\ GroupInv'
    BY <1>1, <1>3, <1>4, RangesType DEF IInv, Safe, MessagesInv, QueueInv, GroupInv
  <1>7. SlotsInv' /\ SavedWhole'
    BY <1>1, <1>4 DEF IInv, Safe, SlotsInv, SavedWhole
  <1> QED BY <1>5, <1>6, <1>7, <1>8 DEF Safe

LEMMA ModuleReleasesStep ==
    ASSUME PlainMode, IInv, ModuleReleasesSlot
    PROVE  Safe'
  <1>0. /\ held # {} => buffers
        /\ held \subseteq Slots /\ \A s \in held : status[s] = "LOCKED"
    BY DEF IInv, TypeOK, Safe, Phases, HeldInv, Owned
  <1> PICK s \in Slots :
           /\ s \in held /\ status[s] = "LOCKED" /\ held' = held \ {s}
           /\ \/ status' = [status EXCEPT ![s] = "FULL"] /\ queue' = Append(queue, s)
              \/ status' = [status EXCEPT ![s] = "FREE"] /\ queue' = queue
    BY <1>0 DEF ModuleReleasesSlot
  <1>1. /\ UNCHANGED <<rstate, live, triggered, dma, rec, mq, group, file, buffers>>
        /\ rec \in {"starting", "loop", "writing", "freeing", "abort", "stopping"}
    BY DEF ModuleReleasesSlot, liveVars, preVars, recVars, fileVars, IInv, Safe, HeldInv
  <1>2. /\ s \notin Range(queue) /\ s \notin Range(group) /\ s \notin Range(SlotsOf(mq))
    BY <1>1 DEF IInv, Safe, QueueInv, GroupInv, MessagesInv, Owned
  <1>3. /\ \A t \in Slots : t # s => status'[t] = status[t]
        /\ \/ status'[s] = "FULL" /\ Range(queue') = Range(queue) \cup {s}
           \/ status'[s] = "FREE" /\ Range(queue') = Range(queue)
        /\ IsInjective(queue')
    <2>1. queue \in Seq(Slots) /\ IsInjective(queue) /\ status \in [Slots -> SlotStates]
      BY DEF IInv, TypeOK, Safe, QueueInv
    <2>2. /\ Range(Append(queue, s)) = Range(queue) \cup {s}
          /\ IsInjective(Append(queue, s))
      BY <1>2, <2>1, AppendRange
    <2> QED BY <2>1, <2>2
  <1>4. Phases' /\ HeldInv'
    BY <1>1, <1>3 DEF IInv, TypeOK, Safe, Phases, HeldInv, Owned
  <1>5. /\ Range(queue) \subseteq Slots /\ Range(group) \subseteq Slots
        /\ Range(SlotsOf(mq)) \subseteq Slots
    BY RangesType DEF IInv
  <1>6. MessagesInv' /\ GroupInv'
    <2>1. MessagesInv'
      BY <1>1, <1>2, <1>3, <1>5 DEF IInv, Safe, MessagesInv
    <2>2. GroupInv'
      BY <1>1, <1>2, <1>3, <1>5 DEF IInv, Safe, GroupInv
    <2> QED BY <2>1, <2>2
  <1>7. QueueInv'
    BY <1>1, <1>2, <1>3, <1>5 DEF IInv, Safe, QueueInv, Owned
  <1>8. SlotsInv' /\ SavedWhole'
    BY <1>1, <1>3 DEF IInv, Safe, SlotsInv, SavedWhole
  <1> QED BY <1>4, <1>6, <1>7, <1>8 DEF Safe

(* compress_task completes the first frame waiting. *)
LEMMA CompressStep ==
    ASSUME PlainMode, IInv, Compress
    PROVE  Safe'
  <1> DEFINE s == Head(mq).slot
  <1>1. /\ UNCHANGED <<rstate, live, triggered, dma, rec, queue, group, file, buffers, held>>
        /\ mq # <<>> /\ mq' = Tail(mq) /\ status' = [status EXCEPT ![s] = "FULL"]
    BY DEF Compress, PlainMode, liveVars, envVars, preVars, recVars, fileVars
  <1>2. mq \in Seq(MessageType) /\ IsInjective(SlotsOf(mq))
    BY TypeParts DEF IInv, LiveType, Safe, MessagesInv
  <1>3. /\ IsInjective(SlotsOf(mq')) /\ s \in Range(SlotsOf(mq))
        /\ Range(SlotsOf(mq')) = Range(SlotsOf(mq)) \ {s}
    BY <1>1, <1>2, TailSlots
  <1>4. status[s] = "CAPTURING" /\ s \in Slots
    <2>1. Head(mq) \in MessageType
      BY <1>1, <1>2
    <2> QED BY <1>3, <2>1 DEF IInv, Safe, MessagesInv, MessageType
  <1> HIDE DEF s
  <1>5. /\ \A t \in Slots : t # s => status'[t] = status[t]
        /\ status'[s] = "FULL"
        /\ Range(queue) \subseteq Slots /\ Range(group) \subseteq Slots
        /\ Range(SlotsOf(mq)) \subseteq Slots
    BY <1>1, <1>4, RangesType DEF IInv, TypeOK
  <1>6. Phases' /\ HeldInv'
    BY <1>1, <1>4, <1>5 DEF IInv, TypeOK, Safe, Phases, HeldInv, Owned
  <1>7. MessagesInv'
    <2>1. rec = "wait1" => \A k \in DOMAIN mq' : mq'[k].age >= 1
      <3> SUFFICES ASSUME rec = "wait1", NEW k \in DOMAIN mq' PROVE mq'[k].age >= 1
        OBVIOUS
      <3>1. k + 1 \in DOMAIN mq /\ mq'[k] = mq[k + 1]
        BY <1>1, <1>2
      <3> QED BY <3>1 DEF IInv, Safe, MessagesInv
    <2>2. \A t \in Range(SlotsOf(mq')) : status'[t] = "CAPTURING"
      BY <1>3, <1>5 DEF IInv, Safe, MessagesInv
    <2>3. rec \in {"loop", "writing", "freeing", "abort", "stopping", "wait2", "wait1"}
      BY <1>1 DEF IInv, Safe, MessagesInv
    <2> QED BY <1>1, <1>3, <2>1, <2>2, <2>3 DEF MessagesInv
  <1>8. QueueInv'
    BY <1>1, <1>5 DEF IInv, Safe, QueueInv
  <1>9. GroupInv'
    BY <1>1, <1>4, <1>5 DEF IInv, Safe, GroupInv
  <1>10. SlotsInv' /\ SavedWhole'
    BY <1>1, <1>4, <1>5 DEF IInv, Safe, SlotsInv, SavedWhole
  <1> QED BY <1>6, <1>7, <1>8, <1>9, <1>10 DEF Safe

(* The recording task takes a group of full slots from the queue. *)
LEMMA RecTakesGroupStep ==
    ASSUME PlainMode, IInv, RecTakesGroup
    PROVE  Safe'
  <1> PICK n \in 1..Len(queue) :
           /\ Groupable(n)
           /\ group' = SubSeq(queue, 1, n)
           /\ queue' = Rest(n)
           /\ status' = [s \in Slots |-> IF \E k \in 1..n : queue[k] = s
                                         THEN "WRITING" ELSE status[s]]
    BY DEF RecTakesGroup
  <1>1. /\ UNCHANGED <<rstate, live, triggered, dma, mq, file, buffers, held>>
        /\ rec = "loop" /\ rec' = "writing"
    BY DEF RecTakesGroup, preVars, fileVars, envVars
  <1>2. /\ queue \in Seq(Slots) /\ IsInjective(queue) /\ n \in 0..Len(queue)
        /\ group = <<>> /\ status \in [Slots -> SlotStates]
    <2>1. queue \in Seq(Slots) /\ status \in [Slots -> SlotStates]
      BY DEF IInv, TypeOK
    <2>2. IsInjective(queue) /\ group = <<>>
      BY <1>1 DEF IInv, Safe, QueueInv, GroupInv
    <2> QED BY <2>1, <2>2
  <1>3. /\ IsInjective(group') /\ IsInjective(queue')
        /\ Range(group') \cup Range(queue') = Range(queue)
        /\ Range(group') \cap Range(queue') = {}
        /\ \A s : s \in Range(group') <=> \E k \in 1..n : queue[k] = s
    BY <1>2, SplitRange DEF Rest
  <1>4. \A s \in Slots : status'[s] = IF s \in Range(group') THEN "WRITING" ELSE status[s]
    BY <1>3
  <1>5. \A s \in Range(group') : status[s] = "FULL"
    BY <1>3 DEF Groupable
  <1>6. /\ Range(queue) \subseteq Slots /\ Range(SlotsOf(mq)) \subseteq Slots
        /\ Range(group) = {}
    BY <1>2, RangesType, NoneInRange DEF IInv
  <1>7. Phases'
    BY <1>1 DEF IInv, Safe, Phases, Owned
  <1>8. HeldInv'
    BY <1>1, <1>4, <1>5 DEF IInv, TypeOK, Safe, HeldInv
  <1>9. MessagesInv'
    BY <1>1, <1>4, <1>5, <1>6 DEF IInv, Safe, MessagesInv
  <1>10. QueueInv'
    BY <1>1, <1>3, <1>4, <1>6 DEF IInv, Safe, QueueInv, Owned
  <1>11. GroupInv'
    BY <1>1, <1>3, <1>4, <1>6 DEF IInv, Safe, GroupInv
  <1>12. SlotsInv' /\ SavedWhole'
    BY <1>1, <1>3, <1>4, <1>6 DEF IInv, Safe, SlotsInv, SavedWhole
  <1> QED BY <1>7, <1>8, <1>9, <1>10, <1>11, <1>12 DEF Safe

(* It saves the group: none of its slots is still being filled. *)
LEMMA RecWritesStep ==
    ASSUME PlainMode, IInv, RecWrites
    PROVE  Safe'
  <1>1. /\ UNCHANGED <<rstate, live, triggered, dma, mq, queue, group, status, buffers, held>>
        /\ rec = "writing" /\ rec' = "freeing"
        /\ file' = file \o [k \in DOMAIN group |-> Block(group[k])]
    BY DEF RecWrites, liveVars, envVars, preVars, slotVars
  <1>2. \A k \in DOMAIN group : Block(group[k]).whole
    <2> SUFFICES ASSUME NEW k \in DOMAIN group, group[k] \in InProgress PROVE FALSE
      BY DEF Block
    <2>1. dma = None
      BY DEF IInv, Safe, Phases
    <2>2. PICK j \in DOMAIN mq : group[k] = mq[j].slot
      BY <2>1 DEF InProgress
    <2>3. status[group[k]] = "CAPTURING"
      BY <2>2, InSlotsOf DEF IInv, Safe, MessagesInv
    <2>4. status[group[k]] = "WRITING"
      BY DEF IInv, Safe, GroupInv, Range
    <2> QED BY <2>3, <2>4
  <1>3. SavedWhole'
    <2> DEFINE g == [k \in DOMAIN group |-> Block(group[k])]
    <2>1. /\ file \in Seq(BlockType) /\ group \in Seq(Slots)
          /\ \A k \in DOMAIN file : file[k].what # Audio => file[k].whole
      BY TypeParts DEF IInv, TaskType, Safe, SavedWhole
    <2>2. g \in Seq(BlockType)
      <3>1. \A k \in 1..Len(group) : Block(group[k]) \in BlockType
        BY <2>1, BlockTyped DEF IInv
      <3>2. g \in [1..Len(group) -> BlockType] /\ Len(group) \in Nat
        BY <2>1, <3>1
      <3> QED BY <3>2, FunctionIsSeq
    <2>3. \A k \in DOMAIN g : g[k].whole
      BY <1>2
    <2> HIDE DEF g
    <2>4. \A k \in DOMAIN (file \o g) : \/ \E i \in DOMAIN file : (file \o g)[k] = file[i]
                                       \/ \E i \in DOMAIN g : (file \o g)[k] = g[i]
      BY <2>1, <2>2, ConcatElements, SMTT(30)
    <2>5. file' = file \o g
      BY <1>1 DEF g
    <2> QED BY <2>1, <2>3, <2>4, <2>5 DEF SavedWhole
  <1>4. Phases' /\ HeldInv'
    BY <1>1 DEF IInv, TypeOK, Safe, Phases, HeldInv, Owned
  <1>5. MessagesInv' /\ QueueInv' /\ GroupInv'
    BY <1>1 DEF IInv, Safe, MessagesInv, QueueInv, GroupInv, Owned
  <1>6. SlotsInv'
    BY <1>1 DEF IInv, Safe, SlotsInv
  <1> QED BY <1>3, <1>4, <1>5, <1>6 DEF Safe

(* It frees a saved slot. *)
LEMMA RecFreesSlotStep ==
    ASSUME PlainMode, IInv, RecFreesSlot
    PROVE  Safe'
  <1> DEFINE s == Head(group)
  <1>1. /\ UNCHANGED <<rstate, live, triggered, dma, mq, queue, file, buffers, held>>
        /\ group # <<>> /\ group' = Tail(group) /\ status' = [status EXCEPT ![s] = "FREE"]
        /\ rec = "freeing" /\ rec' = IF Len(group) = 1 THEN "loop" ELSE "freeing"
    BY DEF RecFreesSlot, liveVars, envVars, preVars, fileVars
  <1>2. /\ group \in Seq(Slots) /\ IsInjective(group) /\ status \in [Slots -> SlotStates]
        /\ Range(queue) \subseteq Slots /\ Range(group) \subseteq Slots
        /\ Range(SlotsOf(mq)) \subseteq Slots
    BY RangesType DEF IInv, TypeOK, Safe, GroupInv
  <1>3. /\ IsInjective(group') /\ s \in Range(group)
        /\ Range(group') = Range(group) \ {s}
    BY <1>1, <1>2, TailRange
  <1>4. Len(group) = 1 => group' = <<>>
    BY <1>1, <1>2
  <1> HIDE DEF s
  <1>5. /\ \A t \in Slots : t # s => status'[t] = status[t]
        /\ status'[s] = "FREE" /\ status[s] = "WRITING" /\ s \in Slots
    BY <1>1, <1>2, <1>3 DEF IInv, Safe, GroupInv
  <1>6. Phases' /\ HeldInv'
    BY <1>1, <1>5 DEF IInv, TypeOK, Safe, Phases, HeldInv, Owned
  <1>7. MessagesInv'
    BY <1>1, <1>2, <1>5 DEF IInv, Safe, MessagesInv
  <1>8. QueueInv'
    BY <1>1, <1>2, <1>5 DEF IInv, Safe, QueueInv, Owned
  <1>9. GroupInv'
    <2>1. \A t \in Range(group') : status'[t] = "WRITING"
      BY <1>2, <1>3, <1>5 DEF IInv, Safe, GroupInv
    <2> QED BY <1>1, <1>3, <1>4, <2>1 DEF GroupInv
  <1>10. SlotsInv' /\ SavedWhole'
    BY <1>1, <1>3, <1>5 DEF IInv, Safe, SlotsInv, SavedWhole
  <1> QED BY <1>6, <1>7, <1>8, <1>9, <1>10 DEF Safe

(* A write fails: the card is full, and nothing else will be saved. *)
LEMMA RecWriteFailsStep ==
    ASSUME PlainMode, IInv, RecWriteFails
    PROVE  Safe'
  <1>1. /\ UNCHANGED <<rstate, live, triggered, dma, mq, status, file, buffers, held>>
        /\ group' = <<>> /\ queue' \in {queue, <<>>} /\ rec = "writing" /\ rec' = "abort"
    BY DEF RecWriteFails, QueueAfterFailure, liveVars, envVars, preVars, slotVars, PlainMode, PlainModes
  <1>2. Phases' /\ HeldInv'
    BY <1>1 DEF IInv, TypeOK, Safe, Phases, HeldInv, Owned
  <1>3. MessagesInv' /\ QueueInv' /\ GroupInv'
    BY <1>1, NoneInRange DEF IInv, Safe, MessagesInv, QueueInv, GroupInv, Owned
  <1>4. SlotsInv' /\ SavedWhole'
    BY <1>1 DEF IInv, Safe, SlotsInv, SavedWhole
  <1> QED BY <1>2, <1>3, <1>4 DEF Safe

(* The flush saves the head of the queue, full or not; compress_task has
   nothing left to do by then. *)
LEMMA RecFlushesStep ==
    ASSUME PlainMode, IInv, RecFlushes
    PROVE  Safe'
  <1> DEFINE s == Head(queue)
  <1>1. /\ UNCHANGED <<rstate, live, triggered, dma, mq, group, rec, buffers, held>>
        /\ queue # <<>> /\ queue' = Tail(queue) /\ status' = [status EXCEPT ![s] = "FREE"]
        /\ rec = "drain" /\ file' = Append(file, Block(s))
    BY DEF RecFlushes, liveVars, envVars, preVars, recVars
  <1>2. /\ queue \in Seq(Slots) /\ IsInjective(queue) /\ status \in [Slots -> SlotStates]
        /\ Range(queue) \subseteq Slots /\ mq = <<>> /\ group = <<>> /\ dma = None
    BY <1>1, RangesType DEF IInv, TypeOK, Safe, QueueInv, MessagesInv, GroupInv, Phases
  <1>3. /\ IsInjective(queue') /\ s \in Range(queue)
        /\ Range(queue') = Range(queue) \ {s}
    BY <1>1, <1>2, TailRange
  <1> HIDE DEF s
  <1>4. /\ \A t \in Slots : t # s => status'[t] = status[t]
        /\ status'[s] = "FREE" /\ s \in Slots
    BY <1>1, <1>2, <1>3
  <1>5. Phases' /\ HeldInv'
    BY <1>1, <1>4 DEF IInv, TypeOK, Safe, Phases, HeldInv, Owned
  <1>6. MessagesInv' /\ GroupInv'
    BY <1>1, <1>2, NoneInRange DEF IInv, Safe, MessagesInv, GroupInv, SlotsOf
  <1>7. QueueInv'
    BY <1>1, <1>2, <1>3, <1>4 DEF IInv, Safe, QueueInv
  <1>8. SlotsInv'
    BY <1>1 DEF SlotsInv
  <1>9. SavedWhole'
    <2>1. Block(s).whole /\ Block(s) \in BlockType
      <3>1. InProgress = {}
        BY <1>2 DEF InProgress
      <3> QED BY <1>4, <3>1, BlockTyped DEF Block, IInv
    <2>2. /\ file \in Seq(BlockType)
          /\ \A k \in DOMAIN file : file[k].what # Audio => file[k].whole
      BY TypeParts DEF IInv, TaskType, Safe, SavedWhole
    <2> DEFINE b == Block(s)
    <2>3. file' = Append(file, b) /\ b.whole /\ b \in BlockType
      BY <1>1, <2>1
    <2> HIDE DEF b
    <2>4. \A k \in DOMAIN file' : \/ k \in DOMAIN file /\ file'[k] = file[k]
                                 \/ file'[k] = b
      BY <2>2, <2>3
    <2> QED BY <2>2, <2>3, <2>4 DEF SavedWhole
  <1> QED BY <1>5, <1>6, <1>7, <1>8, <1>9 DEF Safe

LEMMA RecFlushFailsStep ==
    ASSUME PlainMode, IInv, RecFlushFails
    PROVE  Safe'
  <1>1. /\ UNCHANGED <<rstate, live, triggered, dma, mq, group, file, buffers, held>>
        /\ queue # <<>> /\ queue' \in {queue, <<>>}
        /\ status' = [status EXCEPT ![Head(queue)] = "WRITING"]
        /\ rec = "drain" /\ rec' = "cleanup"
    BY DEF RecFlushFails, QueueAfterFailure, liveVars, envVars, preVars, PlainMode, PlainModes
  <1>2. mq = <<>> /\ group = <<>>
    BY <1>1 DEF IInv, Safe, MessagesInv, GroupInv
  <1>3. \A t \in Slots : status'[t] \in {"WRITING", status[t]}
    BY <1>1 DEF IInv, TypeOK
  <1>4. Phases' /\ HeldInv'
    BY <1>1, <1>3 DEF IInv, TypeOK, Safe, Phases, HeldInv, Owned
  <1>5. MessagesInv' /\ QueueInv' /\ GroupInv'
    BY <1>1, <1>2, NoneInRange DEF IInv, Safe, MessagesInv, QueueInv, GroupInv, SlotsOf, Owned
  <1>6. SlotsInv' /\ SavedWhole'
    BY <1>1 DEF IInv, Safe, SlotsInv, SavedWhole
  <1> QED BY <1>4, <1>5, <1>6 DEF Safe

-----------------------------------------------------------------------------
(* The vsync handler captures a frame, or finds that the card is too slow. *)
LEMMA PlaceStep ==
    ASSUME PlainMode, IInv, rstate = "RECORDING", UNCHANGED <<rec, rstate, triggered, dma, group, file, buffers, held>>,
           NEW s \in Slots, Place(Snapshot, rstate, s)
    PROVE  Safe'
  <1> DEFINE r == [slot |-> s, age |-> 0]
  <1>1. /\ status' = [status EXCEPT ![s] = "CAPTURING"] /\ status[s] = "FREE"
        /\ queue' = Append(queue, s) /\ mq' = Append(Tick, r) /\ live' = "idle"
    BY DEF Place, Commit, Snapshot, Messages, Chooses, FreeSlots, IInv, Safe, Phases
  <1>2. rec \in {"loop", "writing", "freeing", "abort"}
    BY DEF IInv, Safe, Phases, TypeOK, RecPoints
  <1>3. /\ Range(queue) \subseteq Slots /\ Range(group) \subseteq Slots
        /\ Range(SlotsOf(mq)) \subseteq Slots
        /\ queue \in Seq(Slots) /\ IsInjective(queue) /\ status \in [Slots -> SlotStates]
    BY RangesType DEF IInv, TypeOK, Safe, QueueInv
  <1>4. s \notin Range(queue) /\ s \notin Range(group) /\ s \notin Range(SlotsOf(mq))
    BY <1>1, <1>2 DEF IInv, Safe, QueueInv, GroupInv, MessagesInv, Owned
  <1>5. Range(queue') = Range(queue) \cup {s} /\ IsInjective(queue')
    BY <1>1, <1>3, <1>4, AppendRange
  <1>6. /\ Range(SlotsOf(mq')) = Range(SlotsOf(mq)) \cup {s}
        /\ IsInjective(SlotsOf(mq'))
    <2>1. /\ Tick \in Seq(MessageType) /\ r \in MessageType /\ r.slot = s
          /\ SlotsOf(Tick) = SlotsOf(mq) /\ IsInjective(SlotsOf(mq))
      BY TickType, TickSlots DEF IInv, MessageType, Safe, MessagesInv
    <2> HIDE DEF r
    <2>2. Range(SlotsOf(Append(Tick, r))) = Range(SlotsOf(Tick)) \cup {r.slot}
      BY <2>1, AppendSlots
    <2>3. IsInjective(SlotsOf(Append(Tick, r)))
      BY <1>4, <2>1, AppendSlotsOnce
    <2> QED BY <1>1, <2>1, <2>2, <2>3
  <1>7. /\ \A t \in Slots : t # s => status'[t] = status[t]
        /\ status'[s] = "CAPTURING"
    BY <1>1, <1>3
  <1>8. Phases'
    BY <1>1, <1>2 DEF IInv, Safe, Phases, Owned
  <1>9. HeldInv'
    BY <1>1, <1>2, <1>7 DEF IInv, TypeOK, Safe, HeldInv
  <1>10. MessagesInv'
    <2>1. \A t \in Range(SlotsOf(mq')) : status'[t] = "CAPTURING"
      BY <1>3, <1>6, <1>7 DEF IInv, Safe, MessagesInv
    <2> QED BY <1>2, <1>6, <2>1 DEF MessagesInv
  <1>11. QueueInv'
    <2>1. \A t \in Range(queue') : status'[t] \in {"CAPTURING", "FULL"}
      BY <1>2, <1>3, <1>5, <1>7 DEF IInv, Safe, QueueInv, Owned
    <2> QED BY <1>2, <1>5, <2>1 DEF QueueInv
  <1>12. GroupInv'
    BY <1>1, <1>3, <1>4, <1>7 DEF IInv, Safe, GroupInv
  <1>13. SlotsInv' /\ SavedWhole'
    BY <1>5, <1>7 DEF IInv, Safe, SlotsInv, SavedWhole
  <1> QED BY <1>8, <1>9, <1>10, <1>11, <1>12, <1>13 DEF Safe

LEMMA CardTooSlowStep ==
    ASSUME PlainMode, IInv, rstate = "RECORDING", UNCHANGED <<rec, rstate, triggered, dma, group, file, buffers, held>>,
           CardTooSlow(Snapshot)
    PROVE  Safe'
  <1>1. /\ UNCHANGED <<status, queue, live>> /\ mq' = Tick
        /\ rec \in {"loop", "writing", "freeing", "abort"}
    BY DEF CardTooSlow, Commit, Snapshot, Messages, IInv, Safe, Phases, TypeOK, RecPoints
  <1>2. SlotsOf(Tick) = SlotsOf(mq)
    BY TickSlots DEF IInv
  <1>3. Phases' /\ HeldInv'
    BY <1>1 DEF IInv, TypeOK, Safe, Phases, HeldInv, Owned
  <1>4. MessagesInv'
    BY <1>1, <1>2 DEF IInv, Safe, MessagesInv
  <1>5. QueueInv' /\ GroupInv'
    BY <1>1 DEF IInv, Safe, QueueInv, GroupInv
  <1>6. SlotsInv' /\ SavedWhole'
    BY <1>1 DEF IInv, Safe, SlotsInv, SavedWhole
  <1> QED BY <1>3, <1>4, <1>5, <1>6 DEF Safe

LEMMA VsyncRecordStep ==
    ASSUME PlainMode, IInv, VsyncRecord
    PROVE  Safe'
  <1>1. /\ UNCHANGED <<rec, rstate, triggered, dma, group, file, buffers, held>>
        /\ rstate = "RECORDING" /\ Capture(Snapshot, rstate, firstFrame)
    BY DEF VsyncRecord, untouched, recVars, fileVars, envVars
  <1>2. \/ \E s \in Slots : Place(Snapshot, rstate, s)
        \/ CardTooSlow(Snapshot)
    BY <1>1 DEF Capture
  <1> QED BY <1>1, <1>2, PlaceStep, CardTooSlowStep

-----------------------------------------------------------------------------
(* In this mode the handler never loops, and no one presses half-shutter.   *)
LEMMA NeverInPlainMode ==
    ASSUME PlainMode, IInv
    PROVE  /\ ~PressRecTrigger /\ ~HalfshutterPress /\ ~HalfshutterRelease
           /\ ~VsyncEdmacBusy /\ ~VsyncPreRecord /\ ~VsyncTrigger
           /\ ~VsyncQueueing /\ ~VsyncDiscarding
           /\ ~EdmacDone
  <1>1. live = "idle" /\ rstate # "PRE_RECORDING" /\ dma = None
    BY DEF IInv, Safe, Phases
  <1>2. ~PressRecTrigger /\ ~HalfshutterPress /\ ~HalfshutterRelease
    BY <1>1 DEF PlainMode, PlainModes, PressRecTrigger, HalfshutterPress, HalfshutterRelease, HalfshutterHold
  <1>3. ~VsyncEdmacBusy /\ ~VsyncTrigger /\ ~VsyncQueueing /\ ~VsyncDiscarding /\ ~EdmacDone
    BY <1>1 DEF VsyncEdmacBusy, VsyncTrigger, VsyncQueueing, VsyncDiscarding, EdmacDone
  <1>4. ~VsyncPreRecord
    <2>1. rstate \in Recording => triggered
      BY DEF IInv, Safe, Phases, Recording
    <2> QED BY <2>1 DEF VsyncPreRecord
  <1> QED BY <1>2, <1>3, <1>4

LEMMA SafeInit == PlainModes /\ Init => Safe
  <1> SUFFICES ASSUME PlainModes, Init PROVE Safe
    OBVIOUS
  <1>1. /\ mq = <<>> /\ queue = <<>> /\ group = <<>> /\ file = <<>> /\ rec = "none"
        /\ \A s \in Slots : status[s] = "FREE"
    BY DEF Init
  <1>2. Phases /\ HeldInv /\ SlotsInv /\ SavedWhole
    BY <1>1 DEF Init, Phases, HeldInv, SlotsInv, SavedWhole, Owned
  <1>3. MessagesInv /\ QueueInv /\ GroupInv
    BY <1>1, NoneInRange DEF MessagesInv, QueueInv, GroupInv, SlotsOf
  <1> QED BY <1>2, <1>3 DEF Safe

LEMMA SafeStutter == IInv /\ UNCHANGED vars => Safe'
  <1> SUFFICES ASSUME IInv, UNCHANGED vars PROVE Safe'
    OBVIOUS
  <1>1. UNCHANGED <<rec, rstate, triggered, dma, group, file, buffers, live, mq, queue, status, held>>
    BY DEF vars, liveVars, preVars, slotVars, recVars, fileVars, envVars
  <1>2. Phases' /\ HeldInv' /\ SlotsInv' /\ SavedWhole'
    BY <1>1 DEF IInv, TypeOK, Safe, Phases, HeldInv, SlotsInv, SavedWhole
  <1>3. MessagesInv' /\ QueueInv' /\ GroupInv'
    BY <1>1 DEF IInv, Safe, MessagesInv, QueueInv, GroupInv
  <1> QED BY <1>2, <1>3 DEF Safe

LEMMA SafeNext == PlainMode /\ IInv /\ [Next]_vars /\ [NothingLeft]_vars => Safe'
  <1> SUFFICES ASSUME PlainMode, IInv, [Next]_vars, [NothingLeft]_vars PROVE Safe'
    OBVIOUS
  <1>1. \/ PressRecStart \/ PressRecStop \/ VsyncIdle \/ VsyncSettingsChanged \/ VsyncSkips
        \/ VsyncRecord \/ Compress \/ ModuleLocksSlot \/ ModuleReleasesSlot \/ RecTask
        \/ UNCHANGED vars
    BY NeverInPlainMode DEF Next, Gui, LiveView, Module
  <1>2. CASE PressRecStart \/ PressRecStop
    <2>1. Quiet /\ UNCHANGED mq
      BY <1>2 DEF PressRecStart, PressRecStop, Quiet, liveVars, slotVars, recVars, fileVars
    <2> QED BY <1>2, <2>1, PhaseStep
  <1>3. CASE VsyncIdle \/ VsyncSettingsChanged \/ VsyncSkips
    <2>1. Quiet /\ mq' = Tick
      BY <1>3 DEF VsyncIdle, VsyncSettingsChanged, VsyncSkips, Quiet, liveVars, slotVars,
                  recVars, fileVars
    <2> QED BY <1>3, <2>1, VsyncStep
  <1>4. CASE RecTask
    <2>1. CASE \/ RecStart \/ RecEnable \/ RecStopped \/ RecFlushed \/ RecFreesBuffers
               \/ RecEnds \/ RecSetupFails \/ RecLeavesLoop \/ RecStopsWaiting
      <3>1. dma = None
        BY DEF IInv, Safe, Phases
      <3>2. Quiet /\ UNCHANGED mq
        BY <2>1, <3>1 DEF RecStart, RecEnable, RecStopped, RecFlushed, RecFreesBuffers, RecEnds,
                   RecSetupFails, RecLeavesLoop, RecStopsWaiting, Quiet, liveVars, slotVars, recVars, fileVars
      <3> QED BY <2>1, <3>2, PhaseStep
    <2> QED BY <1>4, <2>1, RecSetupStep, RecTakesGroupStep, RecWritesStep,
               RecFreesSlotStep, RecWriteFailsStep, RecFlushesStep, RecFlushFailsStep DEF RecTask
  <1> QED BY <1>1, <1>2, <1>3, <1>4, VsyncRecordStep, CompressStep, ModuleLocksStep,
             ModuleReleasesStep, SafeStutter

LEMMA SafeInvariant ==
    ASSUME PlainModes
    PROVE  Spec /\ [][NothingLeft]_vars => []IInv
  <1>1. Init => IInv
    BY InitType, SafeInit DEF IInv
  <1>2. IInv /\ [Next]_vars /\ [NothingLeft]_vars => IInv'
    BY NextType, SafeNext, AlwaysPlain DEF IInv
  <1> QED BY <1>1, <1>2, PTL DEF Spec

-----------------------------------------------------------------------------
(* In lossless recording a slot is queued at most once, and never while it is
   being written: writing_queue cannot overflow. *)
THEOREM QueuedOnceHolds ==
    ASSUME PlainModes
    PROVE  Spec /\ [][NothingLeft]_vars => []QueuedOnce
  <1>1. IInv => QueuedOnce
    <2> SUFFICES ASSUME IInv PROVE QueuedOnce
      OBVIOUS
    <2>1. \A j, k \in DOMAIN queue : queue[j] = queue[k] => j = k
      BY DEF IInv, Safe, QueueInv, IsInjective
    <2>2. \A s \in Slots : ~(Queued(s) /\ Grouped(s))
      BY DEF IInv, Safe, QueueInv, GroupInv, Queued, Grouped, Range, Owned
    <2> QED BY <2>1, <2>2 DEF QueuedOnce
  <1> QED BY <1>1, SafeInvariant, PTL

(* In lossless recording a queued slot always holds a frame, done or on its
   way: write_frames is never given a slot that is free, locked or being
   written. *)
THEOREM QueueHoldsFramesHolds ==
    ASSUME PlainModes
    PROVE  Spec /\ [][NothingLeft]_vars => []QueueHoldsFrames
  <1>1. IInv => QueueHoldsFrames
    <2> SUFFICES ASSUME IInv, rec \notin {"none", "created", "cleanup", "freed"},
                        NEW k \in DOMAIN queue
                 PROVE  status[queue[k]] \in {"CAPTURING", "FULL"}
      BY DEF QueueHoldsFrames
    <2>1. queue[k] \in Range(queue) /\ queue # <<>>
      BY DEF Range
    <2>2. rec \in RecPoints /\ QueueInv
      BY DEF IInv, TypeOK, Safe
    <2>3. rec \in Owned
      BY <2>1, <2>2 DEF QueueInv, RecPoints, Owned
    <2> QED BY <2>1, <2>2, <2>3 DEF QueueInv
  <1> QED BY <1>1, SafeInvariant, PTL

(* In lossless recording no slot is lost while the recorder runs: every slot
   in use is queued, or in the group being written. *)
THEOREM NoSlotLostHolds ==
    ASSUME PlainModes
    PROVE  Spec /\ [][NothingLeft]_vars => []NoSlotLost
  <1>1. IInv => NoSlotLost
    BY DEF IInv, Safe, SlotsInv, NoSlotLost, Queued, Grouped, Range
  <1> QED BY <1>1, SafeInvariant, PTL

(* In lossless recording the ASSERT of compress_task holds: the slot of every
   message is being captured, in memory that is still allocated. *)
THEOREM CompressTargetHolds ==
    ASSUME PlainModes
    PROVE  Spec /\ [][NothingLeft]_vars => []CompressTargetValid
  <1>1. IInv => CompressTargetValid
    <2> SUFFICES ASSUME IInv, NEW k \in DOMAIN mq
                 PROVE  buffers /\ status[mq[k].slot] = "CAPTURING"
      BY DEF CompressTargetValid
    <2>1. mq[k].slot \in Range(SlotsOf(mq)) /\ mq # <<>>
      BY InSlotsOf
    <2> QED BY <2>1 DEF IInv, Safe, MessagesInv, Phases, Owned
  <1> QED BY <1>1, SafeInvariant, PTL

(* In lossless recording no frame is saved before its compression is done. *)
THEOREM SavedWholeHolds ==
    ASSUME PlainModes
    PROVE  Spec /\ [][NothingLeft]_vars => []SavedWhole
  <1>1. IInv => SavedWhole
    BY DEF IInv, Safe
  <1> QED BY <1>1, SafeInvariant, PTL

-----------------------------------------------------------------------------
(* Part two: the order of the frames                                       *)

(* The slots with frames that have not reached the file, in the order in
   which they will *)
Unsaved == IF rec = "writing" THEN group \o queue ELSE queue

UpTo(n) == [k \in 1..n |-> k]

(* frame_count numbers the captured frames from 1; the frame the vsync handler
   leaves out at the start makes it start counting. *)
CountInv ==
    /\ rec = "preparing" => frameCount = 0
    /\ rec \in Owned => \/ frameCount = 0 /\ stamp = 0
                        \/ frameCount = stamp + 1

(* A frame carries the number it was captured with, in its slot and saved. *)
NumberInv ==
    /\ \A k \in DOMAIN file : file[k].what # Audio => file[k].number = file[k].what
    /\ \A s \in Range(Unsaved) : content[s] # Audio => number[s] = content[s]

(* Until a write fails, the frames saved and those not saved yet are, one after
   the other, all frames captured. *)
LineInv == ~failed => SavedFrames \o FramesOf(Unsaved) = UpTo(stamp)

OrderInv == CountInv /\ NumberInv /\ LineInv

-----------------------------------------------------------------------------
(* The frames in a sequence of slots, and in a sequence of saved blocks      *)
Contents(c, q) == [k \in DOMAIN q |-> c[q[k]]]
Frames(c, q)   == Keeping(Contents(c, q), Nat \ {Audio})
Whats(f)       == [k \in DOMAIN f |-> f[k].what]
FramesIn(f)    == Keeping(Whats(f), Nat \ {Audio})

LEMMA ContentsType ==
    ASSUME NEW c \in [Slots -> Nat], NEW q \in Seq(Slots)
    PROVE  /\ Contents(c, q) \in Seq(Nat) /\ Len(Contents(c, q)) = Len(q)
           /\ \A k \in 1..Len(q) : Contents(c, q)[k] = c[q[k]]
  BY DEF Contents

LEMMA FramesType ==
    ASSUME NEW c \in [Slots -> Nat], NEW q \in Seq(Slots)
    PROVE  Frames(c, q) \in Seq(Nat) /\ Frames(c, <<>>) = <<>>
  <1>1. Contents(c, q) \in Seq(Nat)
    BY ContentsType
  <1>2. Frames(c, q) \in Seq(Nat \cap (Nat \ {Audio}))
    BY <1>1, KeepingType DEF Frames
  <1>3. Frames(c, q) \in Seq(Nat)
    BY <1>2
  <1>4. Contents(c, <<>>) = <<>>
    BY DEF Contents
  <1>5. Keeping(<<>>, Nat \ {Audio}) = <<>>
    BY KeepingOne
  <1> QED BY <1>3, <1>4, <1>5 DEF Frames

Joins(p, q, r) == /\ Len(r) = Len(p) + Len(q)
                  /\ \A k \in 1..Len(p) : r[k] = p[k]
                  /\ \A k \in 1..Len(q) : r[Len(p) + k] = q[k]

LEMMA NatConcat ==
    \A p, q, r \in Seq(Nat) : Joins(p, q, r) => r = p \o q
  BY IsConcat DEF Joins

LEMMA FramesConcat ==
    ASSUME NEW c \in [Slots -> Nat], NEW p \in Seq(Slots), NEW q \in Seq(Slots)
    PROVE  Frames(c, p \o q) = Frames(c, p) \o Frames(c, q)
  <1> DEFINE cp == Contents(c, p)
             cq == Contents(c, q)
             cc == Contents(c, p \o q)
  <1>1. /\ p \o q \in Seq(Slots) /\ Len(p \o q) = Len(p) + Len(q)
        /\ \A k \in 1..Len(p) : (p \o q)[k] = p[k]
        /\ \A k \in 1..Len(q) : (p \o q)[Len(p) + k] = q[k]
        /\ Len(p) \in Nat /\ Len(q) \in Nat
    OBVIOUS
  <1>2. cp \in Seq(Nat) /\ Len(cp) = Len(p) /\ \A k \in 1..Len(p) : cp[k] = c[p[k]]
    BY ContentsType
  <1>3. cq \in Seq(Nat) /\ Len(cq) = Len(q) /\ \A k \in 1..Len(q) : cq[k] = c[q[k]]
    BY ContentsType
  <1> DEFINE pq == p \o q
  <1>4. cc \in Seq(Nat) /\ Len(cc) = Len(pq) /\ \A k \in 1..Len(pq) : cc[k] = c[pq[k]]
    <2> HIDE DEF pq
    <2>1. pq \in Seq(Slots)
      BY <1>1 DEF pq
    <2>2. /\ Contents(c, pq) \in Seq(Nat) /\ Len(Contents(c, pq)) = Len(pq)
          /\ \A k \in 1..Len(pq) : Contents(c, pq)[k] = c[pq[k]]
      BY <2>1, ContentsType
    <2> QED BY <2>2 DEF pq
  <1> HIDE DEF cp, cq, cc
  <1>6. cc = cp \o cq
    <2>1. \A k \in 1..Len(p) : k \in 1..Len(pq)
      BY <1>1
    <2>2. \A k \in 1..Len(q) : Len(p) + k \in 1..Len(pq)
      BY <1>1
    <2>3. Len(cc) = Len(cp) + Len(cq)
      BY <1>1, <1>2, <1>3, <1>4
    <2>4. ASSUME NEW k \in 1..Len(cp) PROVE cc[k] = cp[k]
      <3>1. cc[k] = c[pq[k]] /\ pq[k] = p[k] /\ cp[k] = c[p[k]]
        BY <1>1, <1>2, <1>4, <2>1
      <3> QED BY ONLY <3>1
    <2>5. ASSUME NEW k \in 1..Len(cq) PROVE cc[Len(cp) + k] = cq[k]
      <3>1. cc[Len(p) + k] = c[pq[Len(p) + k]] /\ pq[Len(p) + k] = q[k] /\ cq[k] = c[q[k]]
        BY <1>1, <1>3, <1>4, <2>2
      <3> QED BY <1>2, <3>1
    <2>6. \A k \in 1..Len(cp) : cc[k] = cp[k]
      BY ONLY <2>4
    <2>7. \A k \in 1..Len(cq) : cc[Len(cp) + k] = cq[k]
      BY ONLY <2>5
    <2>8. cp \in Seq(Nat) /\ cq \in Seq(Nat) /\ cc \in Seq(Nat)
      BY <1>2, <1>3, <1>4
    <2>9. Joins(cp, cq, cc)
      BY ONLY <2>3, <2>6, <2>7 DEF Joins
    <2> QED BY ONLY <2>8, <2>9, NatConcat
  <1>7. Keeping(cp \o cq, Nat \ {Audio}) = Keeping(cp, Nat \ {Audio}) \o Keeping(cq, Nat \ {Audio})
    <2>1. cp \in Seq(Nat) /\ cq \in Seq(Nat)
      BY <1>2, <1>3
    <2> QED BY ONLY <2>1, KeepingConcat, ZenonT(60)
  <1> QED BY <1>6, <1>7 DEF Frames, cp, cq, cc

LEMMA FramesOne ==
    ASSUME NEW c \in [Slots -> Nat], NEW s \in Slots
    PROVE  Frames(c, <<s>>) = IF c[s] = Audio THEN <<>> ELSE <<c[s]>>
  <1>1. Contents(c, <<s>>) = <<c[s]>> /\ c[s] \in Nat
    BY DEF Contents
  <1> DEFINE x == c[s]
  <1>2. x \in Nat
    BY <1>1
  <1> HIDE DEF x
  <1>3. Keeping(<<x>>, Nat \ {Audio}) = IF x \in Nat \ {Audio} THEN <<x>> ELSE <<>>
    BY <1>2, KeepingOne
  <1> QED BY <1>1, <1>2, <1>3 DEF Frames, x

LEMMA FramesAppend ==
    ASSUME NEW c \in [Slots -> Nat], NEW q \in Seq(Slots), NEW s \in Slots
    PROVE  Frames(c, Append(q, s)) =
               IF c[s] = Audio THEN Frames(c, q) ELSE Append(Frames(c, q), c[s])
  <1>1. Append(q, s) = q \o <<s>> /\ <<s>> \in Seq(Slots)
    OBVIOUS
  <1>2. Frames(c, Append(q, s)) = Frames(c, q) \o Frames(c, <<s>>)
    BY <1>1, FramesConcat
  <1>3. Frames(c, q) \in Seq(Nat) /\ c[s] \in Nat
    BY FramesType
  <1>4. /\ Frames(c, q) \o <<>> = Frames(c, q)
        /\ Frames(c, q) \o <<c[s]>> = Append(Frames(c, q), c[s])
    BY <1>3
  <1> QED BY <1>2, <1>4, FramesOne

LEMMA FramesSame ==
    ASSUME NEW c \in [Slots -> Nat], NEW d \in [Slots -> Nat], NEW q \in Seq(Slots),
           \A s \in Range(q) : c[s] = d[s]
    PROVE  Frames(c, q) = Frames(d, q)
  <1>1. \A k \in DOMAIN q : c[q[k]] = d[q[k]]
    BY DEF Range
  <1>2. Contents(c, q) = Contents(d, q)
    BY <1>1 DEF Contents
  <1> QED BY <1>2 DEF Frames

LEMMA WhatsType ==
    ASSUME NEW f \in Seq(BlockType)
    PROVE  /\ Whats(f) \in Seq(Nat) /\ Len(Whats(f)) = Len(f)
           /\ \A k \in 1..Len(f) : Whats(f)[k] = f[k].what /\ f[k] \in BlockType
  <1>1. \A k \in 1..Len(f) : f[k] \in BlockType
    OBVIOUS
  <1>2. \A k \in 1..Len(f) : f[k].what \in Nat
    BY <1>1 DEF BlockType
  <1> HIDE DEF BlockType
  <1>3. Len(f) \in Nat /\ DOMAIN f = 1..Len(f)
    OBVIOUS
  <1> QED BY <1>1, <1>2, <1>3 DEF Whats

LEMMA FramesInType ==
    ASSUME NEW f \in Seq(BlockType)
    PROVE  FramesIn(f) \in Seq(Nat) /\ FramesIn(<<>>) = <<>>
  <1>1. Whats(f) \in Seq(Nat)
    BY WhatsType
  <1>2. FramesIn(f) \in Seq(Nat \cap (Nat \ {Audio}))
    BY <1>1, KeepingType DEF FramesIn
  <1>3. FramesIn(f) \in Seq(Nat)
    BY <1>2
  <1>4. Whats(<<>>) = <<>>
    BY DEF Whats
  <1>5. Keeping(<<>>, Nat \ {Audio}) = <<>>
    BY KeepingOne
  <1> QED BY <1>3, <1>4, <1>5 DEF FramesIn

(* Saving a sequence of slots appends their frames to the file. *)
LEMMA SavedConcat ==
    ASSUME NEW c \in [Slots -> Nat], NEW q \in Seq(Slots),
           NEW f \in Seq(BlockType), NEW g \in Seq(BlockType),
           Len(g) = Len(q), \A k \in 1..Len(q) : g[k].what = c[q[k]]
    PROVE  FramesIn(f \o g) = FramesIn(f) \o Frames(c, q)
  <1> DEFINE wf == Whats(f)
             cq == Contents(c, q)
             wc == Whats(f \o g)
             fg == f \o g
  <1>1. /\ Len(f) \in Nat /\ Len(q) \in Nat
        /\ fg \in Seq(BlockType) /\ Len(fg) = Len(f) + Len(q)
        /\ \A k \in 1..Len(f) : fg[k] = f[k]
        /\ \A k \in 1..Len(q) : fg[Len(f) + k] = g[k]
    <2>1. /\ f \o g \in Seq(BlockType) /\ Len(f \o g) = Len(f) + Len(g)
          /\ \A k \in 1..Len(f) : (f \o g)[k] = f[k]
          /\ \A k \in 1..Len(g) : (f \o g)[Len(f) + k] = g[k]
      BY ONLY f \in Seq(BlockType), g \in Seq(BlockType), JoinedElements
    <2> QED BY <2>1
  <1>2. wf \in Seq(Nat) /\ Len(wf) = Len(f) /\ \A k \in 1..Len(f) : wf[k] = f[k].what
    BY WhatsType
  <1>3. cq \in Seq(Nat) /\ Len(cq) = Len(q) /\ \A k \in 1..Len(q) : cq[k] = c[q[k]]
    BY ContentsType
  <1>4. wc \in Seq(Nat) /\ Len(wc) = Len(fg) /\ \A k \in 1..Len(fg) : wc[k] = fg[k].what
    <2> HIDE DEF fg
    <2>1. /\ Whats(fg) \in Seq(Nat) /\ Len(Whats(fg)) = Len(fg)
          /\ \A k \in 1..Len(fg) : Whats(fg)[k] = fg[k].what
      BY <1>1, WhatsType
    <2> QED BY <2>1 DEF fg
  <1> HIDE DEF wf, cq, wc
  <1>6. wc = wf \o cq
    <2>1. \A k \in 1..Len(f) : k \in 1..Len(fg)
      BY <1>1
    <2>2. \A k \in 1..Len(q) : Len(f) + k \in 1..Len(fg)
      BY <1>1
    <2> HIDE DEF fg
    <2>3. Len(wc) = Len(wf) + Len(cq)
      BY <1>1, <1>2, <1>3, <1>4
    <2>4. ASSUME NEW k \in 1..Len(wf) PROVE wc[k] = wf[k]
      <3>1. wc[k] = fg[k].what /\ fg[k] = f[k] /\ wf[k] = f[k].what
        BY <1>1, <1>2, <1>4, <2>1
      <3> QED BY ONLY <3>1
    <2>5. ASSUME NEW k \in 1..Len(cq) PROVE wc[Len(wf) + k] = cq[k]
      <3>1. /\ wc[Len(f) + k] = fg[Len(f) + k].what /\ fg[Len(f) + k] = g[k]
            /\ cq[k] = c[q[k]] /\ g[k].what = c[q[k]]
        BY <1>1, <1>3, <1>4, <2>2
      <3> QED BY <1>2, <3>1
    <2>6. \A k \in 1..Len(wf) : wc[k] = wf[k]
      BY ONLY <2>4
    <2>7. \A k \in 1..Len(cq) : wc[Len(wf) + k] = cq[k]
      BY ONLY <2>5
    <2>8. wf \in Seq(Nat) /\ cq \in Seq(Nat) /\ wc \in Seq(Nat)
      BY <1>2, <1>3, <1>4
    <2>9. Joins(wf, cq, wc)
      BY ONLY <2>3, <2>6, <2>7 DEF Joins
    <2> QED BY ONLY <2>8, <2>9, NatConcat
  <1>7. Keeping(wf \o cq, Nat \ {Audio}) = Keeping(wf, Nat \ {Audio}) \o Keeping(cq, Nat \ {Audio})
    BY <1>2, <1>3, KeepingConcat
  <1> QED BY <1>6, <1>7 DEF Frames, FramesIn, wf, cq, wc


-----------------------------------------------------------------------------
(* What a step does to the frames saved, those not saved yet and the stamp:
   nothing; a recording begins; a frame is captured; some are saved; a write
   fails and the others are given up, or left in the queue.                 *)
Pending == FramesOf(Unsaved)

Begins   == SavedFrames' = <<>> /\ Pending' = <<>> /\ stamp' = 0 /\ ~failed'
Captured == /\ Pending' = Append(Pending, stamp + 1) /\ stamp' = stamp + 1
            /\ UNCHANGED <<SavedFrames, failed>>
Saves    == \E m \in Seq(Nat) : /\ SavedFrames' = SavedFrames \o m
                                /\ Pending = m \o Pending'
                                /\ UNCHANGED <<stamp, failed>>
GivesUp  == Pending' = <<>> /\ failed' /\ UNCHANGED <<SavedFrames, stamp>>
Leaves   == /\ RecWriteFails \/ RecFlushFails
            /\ queue' # <<>> /\ failed' /\ UNCHANGED <<SavedFrames, stamp>>
Rests    == UNCHANGED <<SavedFrames, Pending, stamp, failed>>

Moves == Rests \/ Begins \/ Captured \/ Saves \/ GivesUp \/ Leaves

StreamType ==
    /\ content \in [Slots -> Nat] /\ number \in [Slots -> Int]
    /\ queue \in Seq(Slots) /\ group \in Seq(Slots) /\ Unsaved \in Seq(Slots)
    /\ file \in Seq(BlockType) /\ stamp \in Nat /\ failed \in BOOLEAN

LEMMA StreamTyped == TypeOK => StreamType
  <1>1. TypeOK => /\ content \in [Slots -> Nat] /\ number \in [Slots -> Int]
                  /\ queue \in Seq(Slots) /\ group \in Seq(Slots)
                  /\ file \in Seq(BlockType) /\ stamp \in Nat
    BY DEF TypeOK, BlockType
  <1>2. TypeOK => failed \in BOOLEAN
    BY TypeParts DEF TaskType
  <1>3. queue \in Seq(Slots) /\ group \in Seq(Slots) => Unsaved \in Seq(Slots)
    BY DEF Unsaved
  <1> QED BY <1>1, <1>2, <1>3, Zenon DEF StreamType

LEMMA StreamTypedNext == TypeOK' => StreamType'
  BY StreamTyped, PTL

LEMMA StreamsType == StreamType => Pending \in Seq(Nat) /\ SavedFrames \in Seq(Nat)
  <1> SUFFICES ASSUME StreamType PROVE Pending \in Seq(Nat) /\ SavedFrames \in Seq(Nat)
    OBVIOUS
  <1>1. Frames(content, Unsaved) \in Seq(Nat)
    BY FramesType DEF StreamType
  <1>2. FramesIn(file) \in Seq(Nat)
    BY FramesInType DEF StreamType
  <1> QED BY <1>1, <1>2 DEF Pending, FramesOf, SavedFrames, Frames, FramesIn, Contents, Whats

LEMMA StreamsNow == Pending = Frames(content, Unsaved) /\ SavedFrames = FramesIn(file)
  BY DEF Pending, FramesOf, SavedFrames, Frames, FramesIn, Contents, Whats

LEMMA StreamsNext == Pending' = Frames(content', Unsaved') /\ SavedFrames' = FramesIn(file')
  BY DEF Pending, FramesOf, SavedFrames, Frames, FramesIn, Contents, Whats

(* Steps that touch neither the file nor the queue, the group or what the
   slots hold *)
LEMMA RestStep ==
    ASSUME UNCHANGED <<file, stamp, failed, content, queue, group>>,
           rec = "writing" <=> rec' = "writing"
    PROVE  Rests /\ Unsaved' = Unsaved
  <1>1. Unsaved' = Unsaved
    BY DEF Unsaved
  <1> QED BY <1>1, StreamsNow, StreamsNext DEF Rests

(* Slots at the front of the line are saved. *)
LEMMA SaveStep ==
    ASSUME StreamType, UNCHANGED <<content, stamp, failed>>,
           NEW p \in Seq(Slots), NEW g \in Seq(BlockType), Unsaved' \in Seq(Slots),
           Unsaved = p \o Unsaved', file' = file \o g,
           Len(g) = Len(p), \A k \in 1..Len(p) : g[k].what = content[p[k]]
    PROVE  Saves
  <1>1. content \in [Slots -> Nat] /\ file \in Seq(BlockType)
    BY DEF StreamType
  <1>2. Pending = Frames(content, p) \o Pending'
    BY <1>1, FramesConcat, StreamsNow, StreamsNext
  <1>3. SavedFrames' = SavedFrames \o Frames(content, p)
    BY <1>1, SavedConcat, StreamsNow, StreamsNext
  <1>4. Frames(content, p) \in Seq(Nat)
    BY <1>1, FramesType
  <1> QED BY <1>2, <1>3, <1>4 DEF Saves

(* The order survives each of these. *)
LEMMA LineStep ==
    ASSUME StreamType, StreamType', LineInv, Moves
    PROVE  LineInv'
  <1> DEFINE S == SavedFrames
             P == Pending
  <1>1. S \in Seq(Nat) /\ P \in Seq(Nat) /\ stamp \in Nat
    BY StreamsType DEF StreamType
  <1>2. ~failed => S \o P = UpTo(stamp)
    BY DEF LineInv, Pending
  <1>3. SUFFICES ASSUME ~failed' PROVE S' \o P' = UpTo(stamp')
    BY DEF LineInv, Pending
  <1>4. P' \in Seq(Nat)
    <2>1. Frames(content', Unsaved') \in Seq(Nat)
      BY FramesType DEF StreamType
    <2> QED BY <2>1, StreamsNext
  <1> HIDE DEF S, P
  <1>5. CASE Rests
    BY <1>2, <1>3, <1>5 DEF Rests, S, P
  <1>6. CASE Begins
    <2>1. S' = <<>> /\ P' = <<>> /\ stamp' = 0
      BY <1>6 DEF Begins, S, P
    <2>2. UpTo(0) = <<>>
      BY DEF UpTo
    <2> QED BY <2>1, <2>2
  <1>7. CASE Captured
    <2>1. S' = S /\ P' = Append(P, stamp + 1) /\ stamp' = stamp + 1 /\ ~failed
      BY <1>3, <1>7 DEF Captured, S, P
    <2>2. S' \o P' = Append(S \o P, stamp + 1)
      BY <1>1, <2>1
    <2>3. Append(UpTo(stamp), stamp + 1) = UpTo(stamp + 1)
      BY <1>1, SMTT(60) DEF UpTo
    <2>4. S' \o P' = UpTo(stamp')
      BY <1>2, <2>1, <2>2, <2>3
    <2> QED BY <2>1, <2>4
  <1>8. CASE Saves
    <2>1. PICK m \in Seq(Nat) : S' = S \o m /\ P = m \o P' /\ stamp' = stamp /\ failed' = failed
      BY <1>8 DEF Saves, S, P
    <2>3. ~failed
      BY <1>3, <2>1, Zenon
    <2>2. (S \o m) \o P' = S \o (m \o P')
      BY <1>1, <1>4, ConcatAssociative, SMTT(30)
    <2> QED BY <1>2, <2>1, <2>2, <2>3
  <1>9. CASE GivesUp
    BY <1>3, <1>9 DEF GivesUp
  <1>10. CASE Leaves
    BY <1>3, <1>10 DEF Leaves
  <1> QED BY <1>5, <1>6, <1>7, <1>8, <1>9, <1>10 DEF Moves


-----------------------------------------------------------------------------
(* The numbers of the frames: nothing new in the line, or part of it saved    *)
LEMMA NumbersKept ==
    ASSUME NumberInv, UNCHANGED <<content, number, file>>, Range(Unsaved') \subseteq Range(Unsaved)
    PROVE  NumberInv'
  BY DEF NumberInv

LEMMA NumbersSaved ==
    ASSUME StreamType, NumberInv, UNCHANGED <<content, number>>, Range(Unsaved') \subseteq Range(Unsaved),
           NEW p \in Seq(Slots), NEW g \in Seq(BlockType), Range(p) \subseteq Range(Unsaved),
           file' = file \o g, Len(g) = Len(p), \A k \in 1..Len(p) : g[k] = Block(p[k])
    PROVE  NumberInv'
  <1>1. \A k \in 1..Len(g) : g[k].what # Audio => g[k].number = g[k].what
    <2> SUFFICES ASSUME NEW k \in 1..Len(g), g[k].what # Audio PROVE g[k].number = g[k].what
      OBVIOUS
    <2>0. k \in 1..Len(p) /\ DOMAIN p = 1..Len(p)
      OBVIOUS
    <2>1. g[k].what = content[p[k]] /\ g[k].number = number[p[k]]
      <3>1. g[k] = Block(p[k])
        BY <2>0
      <3> QED BY ONLY <3>1 DEF Block
    <2>2. p[k] \in Range(Unsaved)
      <3>1. p[k] \in Range(p)
        BY <2>0 DEF Range
      <3> QED BY <3>1
    <2> QED BY <2>1, <2>2 DEF NumberInv
  <1>2. \A k \in DOMAIN (file \o g) : \/ \E i \in DOMAIN file : (file \o g)[k] = file[i]
                                      \/ \E i \in DOMAIN g : (file \o g)[k] = g[i]
    <2>1. file \in Seq(BlockType)
      BY DEF StreamType
    <2> SUFFICES ASSUME NEW k \in DOMAIN (file \o g)
                 PROVE  \/ \E i \in DOMAIN file : (file \o g)[k] = file[i]
                        \/ \E i \in DOMAIN g : (file \o g)[k] = g[i]
      OBVIOUS
    <2> QED BY ONLY <2>1, g \in Seq(BlockType), k \in DOMAIN (file \o g), ConcatElements
  <1>3. DOMAIN g = 1..Len(g)
    OBVIOUS
  <1>4. \A k \in DOMAIN file' : file'[k].what # Audio => file'[k].number = file'[k].what
    BY <1>1, <1>2, <1>3 DEF NumberInv
  <1> QED BY <1>4 DEF NumberInv

(* Steps that leave what the slots hold, the queue and the file alone *)
LEMMA QuietOrder ==
    ASSUME PlainMode, IInv, IInv', OrderInv,
           \/ PressRecStart \/ PressRecStop \/ VsyncIdle \/ VsyncSettingsChanged \/ VsyncSkips
           \/ Compress \/ ModuleLocksSlot
           \/ RecStart \/ RecEnable \/ RecStopped \/ RecFlushed \/ RecFreesBuffers
           \/ RecEnds \/ RecSetupFails \/ RecLeavesLoop \/ RecStopsWaiting \/ RecFreesSlot
           \/ UNCHANGED vars
    PROVE  Moves /\ NumberInv' /\ CountInv'
  <1>1. UNCHANGED <<file, stamp, failed, content, number, queue>>
    BY DEF PressRecStart, PressRecStop, VsyncIdle, VsyncSettingsChanged, VsyncSkips, Compress, ModuleLocksSlot,
           RecStart, RecEnable, RecStopped, RecFlushed, RecFreesBuffers, RecEnds, RecSetupFails, RecLeavesLoop, RecStopsWaiting,
           RecFreesSlot, vars, liveVars, preVars, slotVars, recVars, fileVars, envVars
  <1>2. (rec = "writing" => UNCHANGED <<group, rec>>) /\ (rec # "writing" => rec' # "writing")
    BY DEF PressRecStart, PressRecStop, VsyncIdle, VsyncSettingsChanged, VsyncSkips, Compress, ModuleLocksSlot,
           RecStart, RecEnable, RecStopped, RecFlushed, RecFreesBuffers, RecEnds, RecSetupFails, RecLeavesLoop, RecStopsWaiting,
           RecFreesSlot, vars, liveVars, preVars, slotVars, recVars, fileVars, envVars
  <1>3. Unsaved' = Unsaved
    BY <1>1, <1>2 DEF Unsaved
  <1>4. Rests
    BY <1>1, <1>3, StreamsNow, StreamsNext DEF Rests
  <1>5. NumberInv'
    BY <1>1, <1>3, NumbersKept DEF OrderInv
  <1>6. CountInv'
    <2>1. frameCount \in Int /\ stamp \in Nat
      BY DEF IInv, TypeOK
    <2>2. CASE VsyncSkips
      <3>1. rec' = rec /\ ((frameCount' = frameCount + 1 /\ frameCount <= 0) \/ frameCount' = frameCount)
        BY <2>2 DEF VsyncSkips, recVars
      <3>2. rec # "preparing"
        BY <2>2 DEF VsyncSkips, Processing, ReturnsEarly, Recording, IInv, Safe, Phases
      <3> QED BY <1>1, <2>1, <3>1, <3>2 DEF CountInv, OrderInv
    <2>3. CASE RecStart
      BY <2>3 DEF RecStart, CountInv, Owned
    <2>4. CASE ~VsyncSkips /\ ~RecStart
      <3>1. frameCount' = frameCount /\ (rec' = "preparing" => rec = "preparing") /\ (rec' \in Owned => rec \in Owned)
        BY <2>4 DEF PressRecStart, PressRecStop, VsyncIdle, VsyncSettingsChanged, Compress, ModuleLocksSlot,
           RecEnable, RecStopped, RecFlushed, RecFreesBuffers, RecEnds, RecSetupFails, RecLeavesLoop, RecStopsWaiting,
           RecFreesSlot, vars, liveVars, preVars, slotVars, recVars, fileVars, envVars, Owned
      <3> QED BY <1>1, <3>1 DEF CountInv, OrderInv
    <2> QED BY <2>2, <2>3, <2>4
  <1> QED BY <1>4, <1>5, <1>6 DEF Moves

(* A new recording begins with an empty line. *)
LEMMA SetupOrder ==
    ASSUME PlainMode, IInv, OrderInv, RecSetup
    PROVE  Begins /\ NumberInv' /\ CountInv'
  <1>1. /\ queue' = <<>> /\ rec' = "starting" /\ file' = <<>> /\ stamp' = 0 /\ failed' = FALSE
        /\ content' = content /\ number' = number /\ frameCount' = frameCount /\ rec = "preparing"
    BY DEF RecSetup, IInv, Safe, QueueInv, slotVars, preVars
  <1>2. Unsaved' = <<>>
    BY <1>1 DEF Unsaved
  <1>3. content' \in [Slots -> Nat] /\ <<>> \in Seq(Slots) /\ <<>> \in Seq(BlockType)
    BY <1>1 DEF IInv, TypeOK
  <1>4. Pending' = <<>>
    BY <1>2, <1>3, FramesType, StreamsNext
  <1>5. SavedFrames' = <<>>
    BY <1>1, <1>3, FramesInType, StreamsNext
  <1>6. NumberInv'
    BY <1>1, <1>2, NoneInRange DEF NumberInv
  <1>7. CountInv'
    BY <1>1 DEF CountInv, OrderInv
  <1> QED BY <1>1, <1>4, <1>5, <1>6, <1>7 DEF Begins


(* A slot that joins the queue is the last of the line. *)
LEMMA LineGrows ==
    ASSUME NEW g \in Seq(Slots), NEW q \in Seq(Slots), NEW s \in Slots
    PROVE  g \o Append(q, s) = Append(g \o q, s)
  <1>1. Append(q, s) = q \o <<s>> /\ <<s>> \in Seq(Slots) /\ g \o q \in Seq(Slots)
    OBVIOUS
  <1>2. Append(g \o q, s) = (g \o q) \o <<s>>
    BY <1>1, AppendIsConcat
  <1>3. (g \o q) \o <<s>> = g \o (q \o <<s>>)
    BY <1>1, ConcatAssociative
  <1> QED BY <1>1, <1>2, <1>3

LEMMA UnsavedGrows ==
    ASSUME StreamType, UNCHANGED <<rec, group>>, NEW s \in Slots, queue' = Append(queue, s)
    PROVE  Unsaved' = Append(Unsaved, s)
  <1>1. group \o Append(queue, s) = Append(group \o queue, s)
    BY LineGrows DEF StreamType
  <1> QED BY <1>1 DEF Unsaved

(* A module gives back a slot with sound, which is no frame, or a free one. *)
LEMMA ReleaseOrder ==
    ASSUME PlainMode, IInv, OrderInv, ModuleReleasesSlot
    PROVE  Rests /\ NumberInv' /\ CountInv'
  <1>1. PICK s \in held :
            \/ content' = [content EXCEPT ![s] = Audio] /\ queue' = Append(queue, s)
            \/ UNCHANGED <<content, queue>>
    BY DEF ModuleReleasesSlot
  <1>2. UNCHANGED <<file, stamp, failed, number, group, rec, frameCount>>
    BY DEF ModuleReleasesSlot, recVars, fileVars, preVars
  <1>3. StreamType /\ s \in Slots /\ status[s] = "LOCKED"
    BY StreamTyped DEF IInv, TypeOK, Safe, HeldInv
  <1>4. CountInv'
    BY <1>2 DEF CountInv, OrderInv
  <1>5. CASE UNCHANGED <<content, queue>>
    <2>1. Rests /\ Unsaved' = Unsaved
      BY <1>2, <1>5, RestStep
    <2>2. NumberInv'
      BY <1>2, <1>5, <2>1, NumbersKept DEF OrderInv
    <2> QED BY <1>4, <2>1, <2>2
  <1>6. CASE content' = [content EXCEPT ![s] = Audio] /\ queue' = Append(queue, s)
    <2>1. s \notin Range(Unsaved)
      <3>1. s \notin Range(queue) /\ s \notin Range(group)
        BY <1>3 DEF IInv, Safe, QueueInv, GroupInv, HeldInv, Owned
      <3>2. group \in Seq(Slots) /\ queue \in Seq(Slots)
        BY <1>3 DEF StreamType
      <3>3. Range(group \o queue) = Range(group) \cup Range(queue)
        BY ONLY <3>2, RangeConcatenation
      <3> QED BY <3>1, <3>3 DEF Unsaved
    <2>2. Unsaved' = Append(Unsaved, s)
      BY <1>2, <1>3, <1>6, UnsavedGrows
    <2>3. /\ content' \in [Slots -> Nat] /\ content'[s] = Audio
          /\ \A t \in Slots : t # s => content'[t] = content[t]
      BY <1>3, <1>6 DEF StreamType, Audio
    <2>4. content \in [Slots -> Nat] /\ Unsaved \in Seq(Slots)
      BY <1>3 DEF StreamType
    <2>5. \A t \in Range(Unsaved) : t \in Slots /\ content[t] = content'[t]
      BY <2>1, <2>3, <2>4, RangeType
    <2>6. Frames(content', Append(Unsaved, s)) = Frames(content', Unsaved)
      BY <1>3, <2>3, <2>4, FramesAppend
    <2>7. Frames(content, Unsaved) = Frames(content', Unsaved)
      BY ONLY <2>3, <2>4, <2>5, FramesSame
    <2>8. Rests
      BY <1>2, <2>2, <2>6, <2>7, StreamsNow, StreamsNext DEF Rests
    <2>9. NumberInv'
      <3>1. Range(Unsaved') = Range(Unsaved) \cup {s}
        BY <1>3, <2>2, <2>4, AppendRange
      <3> QED BY <1>2, <2>3, <2>5, <3>1 DEF NumberInv, OrderInv
    <2> QED BY <1>4, <2>8, <2>9
  <1> QED BY <1>1, <1>5, <1>6

(* The vsync handler captures a frame: it is the last of the line. *)
LEMMA PlaceOrder ==
    ASSUME PlainMode, IInv, OrderInv, VsyncRecord,
           NEW s \in Slots, Place(Snapshot, rstate, s)
    PROVE  Captured /\ NumberInv' /\ CountInv'
  <1>1. /\ UNCHANGED <<rec, group, file, failed>> /\ rstate = "RECORDING" /\ frameCount > 0
        /\ queue' = Append(queue, s) /\ status[s] = "FREE"
        /\ content' = [content EXCEPT ![s] = stamp + 1] /\ stamp' = stamp + 1
        /\ number' = [number EXCEPT ![s] = frameCount] /\ frameCount' = frameCount + 1
    <2>1. UNCHANGED <<rec, group, file, failed>> /\ rstate = "RECORDING" /\ frameCount > 0
      BY DEF VsyncRecord, Captures, Processes, untouched, recVars, fileVars
    <2> QED BY <2>1 DEF Place, Commit, Snapshot, Chooses, FreeSlots
  <1>2. StreamType /\ frameCount \in Int
    BY StreamTyped DEF IInv, TypeOK
  <1>3. rec \in Owned /\ rec # "preparing"
    BY <1>1 DEF IInv, Safe, Phases, TypeOK, RecPoints, Owned
  <1>4. frameCount = stamp + 1
    BY <1>1, <1>2, <1>3 DEF OrderInv, CountInv
  <1>5. CountInv'
    BY <1>1, <1>2, <1>3, <1>4 DEF CountInv
  <1>6. s \notin Range(Unsaved)
    <2>1. s \notin Range(queue) /\ s \notin Range(group)
      BY <1>1, <1>3 DEF IInv, Safe, QueueInv, GroupInv
    <2>2. group \in Seq(Slots) /\ queue \in Seq(Slots)
      BY <1>2 DEF StreamType
    <2>3. Range(group \o queue) = Range(group) \cup Range(queue)
      BY ONLY <2>2, RangeConcatenation
    <2> QED BY <2>1, <2>3 DEF Unsaved
  <1>7. Unsaved' = Append(Unsaved, s)
    BY <1>1, <1>2, UnsavedGrows
  <1>8. /\ content' \in [Slots -> Nat] /\ content'[s] = stamp + 1 /\ stamp + 1 # Audio
        /\ \A t \in Slots : t # s => content'[t] = content[t]
    BY <1>1, <1>2 DEF StreamType, Audio
  <1>9. content \in [Slots -> Nat] /\ Unsaved \in Seq(Slots) /\ number \in [Slots -> Int]
    BY <1>2 DEF StreamType
  <1>10. \A t \in Range(Unsaved) : t \in Slots /\ content[t] = content'[t]
    BY <1>6, <1>8, <1>9, RangeType
  <1>11. Frames(content', Append(Unsaved, s)) = Append(Frames(content', Unsaved), stamp + 1)
    BY <1>8, <1>9, FramesAppend
  <1>12. Frames(content, Unsaved) = Frames(content', Unsaved)
    BY ONLY <1>8, <1>9, <1>10, FramesSame
  <1>13. Captured
    BY <1>1, <1>7, <1>11, <1>12, StreamsNow, StreamsNext DEF Captured
  <1>14. NumberInv'
    <2>1. Range(Unsaved') = Range(Unsaved) \cup {s}
      BY <1>7, <1>9, AppendRange
    <2>2. \A t \in Range(Unsaved) : number'[t] = number[t]
      BY <1>1, <1>6, <1>9, <1>10
    <2>3. number'[s] = content'[s]
      BY <1>1, <1>4, <1>8, <1>9
    <2> QED BY <1>1, <1>10, <2>1, <2>2, <2>3 DEF NumberInv, OrderInv
  <1> QED BY <1>5, <1>13, <1>14

LEMMA VsyncOrder ==
    ASSUME PlainMode, IInv, OrderInv, VsyncRecord
    PROVE  Moves /\ NumberInv' /\ CountInv'
  <1>1. UNCHANGED <<rec, group, file, failed>> /\ Capture(Snapshot, rstate, firstFrame) /\ rstate = "RECORDING"
    BY DEF VsyncRecord, untouched, recVars, fileVars
  <1>2. CASE \E s \in Slots : Place(Snapshot, rstate, s)
    BY <1>2, PlaceOrder DEF Moves
  <1>3. CASE CardTooSlow(Snapshot)
    <2>1. UNCHANGED <<content, stamp, number, queue, frameCount>>
      BY <1>3 DEF CardTooSlow, Commit, Snapshot
    <2>2. Rests /\ Unsaved' = Unsaved
      BY <1>1, <2>1, RestStep
    <2>3. NumberInv'
      BY <1>1, <2>1, <2>2, NumbersKept DEF OrderInv
    <2>4. CountInv'
      BY <1>1, <2>1 DEF CountInv, OrderInv
    <2> QED BY <2>2, <2>3, <2>4 DEF Moves
  <1> QED BY <1>1, <1>2, <1>3 DEF Capture


(* The recording task takes a group from the front of the queue. *)
LEMMA TakesGroupOrder ==
    ASSUME PlainMode, IInv, OrderInv, RecTakesGroup
    PROVE  Rests /\ NumberInv' /\ CountInv'
  <1> PICK n \in 1..Len(queue) : group' = SubSeq(queue, 1, n) /\ queue' = Rest(n)
    BY DEF RecTakesGroup
  <1>1. /\ UNCHANGED <<content, number, file, failed, stamp, frameCount>>
        /\ rec = "loop" /\ rec' = "writing"
    BY DEF RecTakesGroup, preVars, fileVars
  <1>2. queue \in Seq(Slots)
    BY DEF IInv, TypeOK
  <1>3. SubSeq(queue, 1, n) \o SubSeq(queue, n + 1, Len(queue)) = queue
    <2>1. SubSeq(queue, 1, Len(queue)) = queue 
          /\ 1 \in 1..(Len(queue) + 1) /\ n \in (1 - 1)..Len(queue) /\ Len(queue) \in n..Len(queue)
      BY <1>2
    <2>2. SubSeq(queue, 1, n) \o SubSeq(queue, n + 1, Len(queue)) = SubSeq(queue, 1, Len(queue))
      BY <1>2, <2>1, ConcatAdjacentSubSeq
    <2> QED BY <2>1, <2>2
  <1>4. Unsaved' = Unsaved
    BY <1>1, <1>3 DEF Unsaved, Rest
  <1>5. Rests
    BY <1>1, <1>4, StreamsNow, StreamsNext DEF Rests
  <1>6. NumberInv'
    BY <1>1, <1>4, NumbersKept DEF OrderInv
  <1>7. CountInv'
    BY <1>1 DEF CountInv, OrderInv, Owned
  <1> QED BY <1>5, <1>6, <1>7

(* It saves the group. *)
LEMMA WritesOrder ==
    ASSUME PlainMode, IInv, OrderInv, RecWrites
    PROVE  Saves /\ NumberInv' /\ CountInv'
  <1> DEFINE g == [k \in DOMAIN group |-> Block(group[k])]
  <1>1. /\ UNCHANGED <<content, number, stamp, frameCount, group, queue>>
        /\ rec = "writing" /\ rec' = "freeing" /\ file' = file \o g
    BY DEF RecWrites, preVars, slotVars
  <1>0. failed' = failed
    BY DEF RecWrites
  <1>2. StreamType /\ group \in Seq(Slots) /\ queue \in Seq(Slots)
    BY StreamTyped DEF IInv, StreamType
  <1>3. g \in Seq(BlockType) /\ Len(g) = Len(group)
    <2>1. \A k \in 1..Len(group) : Block(group[k]) \in BlockType
      BY <1>2, BlockTyped DEF IInv
    <2>2. g \in [1..Len(group) -> BlockType] /\ Len(group) \in Nat
      BY <1>2, <2>1
    <2> QED BY <2>2, FunctionIsSeq
  <1>4. \A k \in 1..Len(group) : g[k] = Block(group[k])
    BY <1>2
  <1>5. \A k \in 1..Len(group) : g[k].what = content[group[k]]
    BY <1>4 DEF Block
  <1> HIDE DEF g
  <1>6. Unsaved = group \o queue /\ Unsaved' = queue
    BY <1>1 DEF Unsaved
  <1>7. Saves
    <2>1. Unsaved = group \o Unsaved' /\ Unsaved' \in Seq(Slots)
      BY <1>2, <1>6
    <2> QED BY <1>0, <1>1, <1>2, <1>3, <1>5, <2>1, SaveStep
  <1>8. Range(group \o queue) = Range(group) \cup Range(queue)
    BY ONLY <1>2, RangeConcatenation
  <1>9. NumberInv'
    <2>1. Range(Unsaved') \subseteq Range(Unsaved) /\ Range(group) \subseteq Range(Unsaved)
      BY <1>6, <1>8
    <2>2. NumberInv
      BY DEF OrderInv
    <2> QED BY <1>1, <1>2, <1>3, <1>4, <2>1, <2>2, NumbersSaved
  <1>10. CountInv'
    BY <1>1 DEF CountInv, OrderInv, Owned
  <1> QED BY <1>7, <1>9, <1>10

(* A write fails: with the card full nothing stays in the line; if a chunk could
   not be created the rest of it does. *)
LEMMA WriteFailsOrder ==
    ASSUME PlainMode, IInv, OrderInv, RecWriteFails \/ RecFlushFails
    PROVE  Moves /\ NumberInv' /\ CountInv'
  <1>1. /\ UNCHANGED <<content, number, stamp, frameCount, file>>
        /\ queue' \in {queue, <<>>} /\ failed' = TRUE
        /\ rec' \in {"abort", "cleanup"} /\ rec \in {"writing", "drain"}
    BY DEF RecWriteFails, RecFlushFails, QueueAfterFailure, preVars, slotVars
  <1>2. Unsaved' = queue'
    BY <1>1 DEF Unsaved
  <1>3. content' \in [Slots -> Nat] /\ <<>> \in Seq(Slots)
    BY <1>1 DEF IInv, TypeOK
  <1>5. SavedFrames' = SavedFrames
    BY <1>1, StreamsNow, StreamsNext
  <1>4. Moves
    <2>1. CASE queue' = <<>>
      <3>1. Pending' = <<>>
        BY <1>2, <1>3, <2>1, FramesType, StreamsNext
      <3> QED BY <1>1, <1>5, <3>1 DEF GivesUp, Moves
    <2>2. CASE queue' # <<>>
      BY <1>1, <1>5, <2>2 DEF Leaves, Moves
    <2> QED BY <2>1, <2>2
  <1>6. NumberInv'
    <2>1. group \in Seq(Slots) /\ queue \in Seq(Slots)
      BY DEF IInv, TypeOK
    <2>2. Range(group \o queue) = Range(group) \cup Range(queue)
      BY ONLY <2>1, RangeConcatenation
    <2>3. Range(queue) \subseteq Range(Unsaved)
      BY <2>2 DEF Unsaved
    <2>4. Range(Unsaved') \subseteq Range(Unsaved)
      BY <1>1, <1>2, <2>3, NoneInRange
    <2> QED BY <1>1, <2>4, NumbersKept DEF OrderInv
  <1>7. CountInv'
    BY <1>1 DEF CountInv, OrderInv, Owned
  <1> QED BY <1>4, <1>6, <1>7

(* At the end the recording task saves the head of the queue. *)
LEMMA FlushesOrder ==
    ASSUME PlainMode, IInv, OrderInv, RecFlushes
    PROVE  Saves /\ NumberInv' /\ CountInv'
  <1> DEFINE s == Head(queue)
             g == <<Block(s)>>
             p == <<s>>
  <1>1. /\ UNCHANGED <<content, number, stamp, frameCount, rec>>
        /\ rec = "drain" /\ queue # <<>> /\ queue' = Tail(queue) /\ file' = Append(file, Block(s))
    BY DEF RecFlushes, preVars, recVars
  <1>0. failed' = failed
    BY DEF RecFlushes
  <1>2. StreamType /\ queue \in Seq(Slots) /\ file \in Seq(BlockType)
    BY StreamTyped DEF IInv, StreamType
  <1>3. s \in Slots /\ Tail(queue) \in Seq(Slots) /\ queue = <<s>> \o Tail(queue)
    BY <1>1, <1>2
  <1>4. Block(s) \in BlockType
    BY <1>3, BlockTyped DEF IInv
  <1>5. file' = file \o g
    <2> DEFINE b == Block(s)
    <2>1. b \in BlockType /\ file' = Append(file, b)
      BY <1>1, <1>4
    <2> HIDE DEF b
    <2>2. file' = file \o <<b>>
      BY <1>2, <2>1, AppendIsConcat
    <2> QED BY <2>2 DEF b
  <1> HIDE DEF s
  <1>6. g \in Seq(BlockType) /\ p \in Seq(Slots) /\ Len(g) = Len(p) /\ Len(p) = 1
    BY <1>3, <1>4
  <1>7. \A k \in 1..Len(p) : g[k] = Block(p[k])
    BY <1>6
  <1>8. \A k \in 1..Len(p) : g[k].what = content[p[k]]
    BY <1>7 DEF Block
  <1>9. Unsaved = p \o Unsaved' /\ Unsaved' \in Seq(Slots) /\ Unsaved = queue /\ Unsaved' = Tail(queue)
    BY <1>1, <1>3 DEF Unsaved
  <1>10. Range(p) \subseteq Range(Unsaved) /\ Range(Unsaved') \subseteq Range(Unsaved)
    <2>1. p \in Seq(Slots) /\ Tail(queue) \in Seq(Slots) /\ queue = p \o Tail(queue)
      BY <1>3, <1>6, <1>9
    <2>2. Range(p \o Tail(queue)) = Range(p) \cup Range(Tail(queue))
      BY ONLY <2>1, RangeConcatenation, ZenonT(60)
    <2> QED BY <1>9, <2>1, <2>2
  <1> HIDE DEF g, p
  <1>11. Saves
    BY <1>0, <1>1, <1>2, <1>5, <1>6, <1>8, <1>9, SaveStep
  <1>12. NumberInv'
    <2>1. NumberInv
      BY DEF OrderInv
    <2> QED BY <1>1, <1>2, <1>5, <1>6, <1>7, <1>10, <2>1, NumbersSaved
  <1>13. CountInv'
    BY <1>1 DEF CountInv, OrderInv
  <1> QED BY <1>11, <1>12, <1>13


-----------------------------------------------------------------------------
(* The order is an invariant, and every step is one of Moves.               *)
LEMMA StepOrder ==
    ASSUME PlainMode, IInv, IInv', OrderInv, [Next]_vars
    PROVE  Moves /\ NumberInv' /\ CountInv'
  <1>1. \/ PressRecStart \/ PressRecStop \/ VsyncIdle \/ VsyncSettingsChanged \/ VsyncSkips
        \/ VsyncRecord \/ Compress \/ ModuleLocksSlot \/ ModuleReleasesSlot \/ RecTask
        \/ UNCHANGED vars
    BY NeverInPlainMode DEF Next, Gui, LiveView, Module
  <1>2. CASE RecTask
    <2>1. CASE RecSetup
      BY <2>1, SetupOrder DEF Moves
    <2>2. CASE RecTakesGroup
      BY <2>2, TakesGroupOrder DEF Moves
    <2>3. CASE RecWrites
      BY <2>3, WritesOrder DEF Moves
    <2>4. CASE RecWriteFails \/ RecFlushFails
      BY <2>4, WriteFailsOrder
    <2>5. CASE RecFlushes
      BY <2>5, FlushesOrder DEF Moves
    <2> QED BY <1>2, <2>1, <2>2, <2>3, <2>4, <2>5, QuietOrder DEF RecTask
  <1>3. CASE ModuleReleasesSlot
    BY <1>3, ReleaseOrder DEF Moves
  <1>4. CASE VsyncRecord
    BY <1>4, VsyncOrder
  <1> QED BY <1>1, <1>2, <1>3, <1>4, QuietOrder

LEMMA OrderInit == Init => OrderInv
  <1> SUFFICES ASSUME Init PROVE OrderInv
    OBVIOUS
  <1>1. rec = "none" /\ queue = <<>> /\ file = <<>> /\ stamp = 0 /\ content = [s \in Slots |-> Audio]
    BY DEF Init
  <1>2. Unsaved = <<>> /\ content \in [Slots -> Nat] /\ <<>> \in Seq(Slots) /\ <<>> \in Seq(BlockType)
    BY <1>1 DEF Unsaved, Audio
  <1>3. Pending = <<>> /\ SavedFrames = <<>>
    BY <1>1, <1>2, FramesType, FramesInType, StreamsNow
  <1>4. LineInv
    <2>1. UpTo(0) = <<>>
      BY DEF UpTo
    <2> QED BY <1>1, <1>3, <2>1 DEF LineInv, Pending
  <1>5. CountInv /\ NumberInv
    BY <1>1, <1>2, NoneInRange DEF CountInv, NumberInv, Owned
  <1> QED BY <1>4, <1>5 DEF OrderInv

LEMMA OrderNext == PlainMode /\ IInv /\ IInv' /\ OrderInv /\ [Next]_vars => OrderInv' /\ Moves
  <1> SUFFICES ASSUME PlainMode, IInv, IInv', OrderInv, [Next]_vars PROVE OrderInv' /\ Moves
    OBVIOUS
  <1>1. Moves /\ NumberInv' /\ CountInv'
    BY StepOrder
  <1>2. StreamType /\ StreamType' /\ LineInv
    BY StreamTyped, StreamTypedNext DEF IInv, OrderInv
  <1>3. LineInv'
    BY <1>1, <1>2, LineStep
  <1> QED BY <1>1, <1>3 DEF OrderInv

LEMMA OrderInvariant ==
    ASSUME PlainModes
    PROVE  Spec /\ [][NothingLeft]_vars => [](IInv /\ OrderInv)
  <1>1. Init => IInv /\ OrderInv
    BY InitType, SafeInit, OrderInit DEF IInv
  <1>2. IInv /\ OrderInv /\ [Next]_vars /\ [NothingLeft]_vars => (IInv /\ OrderInv)'
    BY NextType, SafeNext, AlwaysPlain, OrderNext DEF IInv
  <1> QED BY <1>1, <1>2, PTL DEF Spec

-----------------------------------------------------------------------------
(* A slot in use is in one place, and in only one: queued, or with the group
   being written. *)
THEOREM SlotsKeptHolds ==
    ASSUME PlainModes
    PROVE  Spec /\ [][NothingLeft]_vars => []SlotsKept
  <1>1. QueuedOnce /\ NoSlotLost => SlotsKept
    BY DEF SlotsKept
  <1> QED BY <1>1, QueuedOnceHolds, NoSlotLostHolds, PTL


(* The file holds the frames in the order of their capture, each with its
   number and none missing, until a write fails. *)
LEMMA OrderGivesSavedInOrder == IInv /\ OrderInv => SavedInOrder
  <1> SUFFICES ASSUME IInv, OrderInv, ~failed, NEW k \in DOMAIN Saved
               PROVE  /\ Saved[k].number = k
                      /\ k > 1 => Saved[k].what > Saved[k - 1].what
    BY DEF SavedInOrder
  <1> DEFINE ps == Where(file, VideoFrames)
             c  == Cardinality(ps)
  <1>1. StreamType /\ file \in Seq(BlockType) /\ Len(file) \in Nat /\ DOMAIN file = 1..Len(file)
    BY StreamTyped DEF IInv, StreamType
  <1>2. \A i \in 1..Len(file) : file[i] \in BlockType /\ Whats(file)[i] = file[i].what
    BY <1>1, WhatsType
  <1>3. Where(Whats(file), Nat \ {Audio}) = ps
    <2>1. DOMAIN Whats(file) = DOMAIN file
      BY DEF Whats
    <2>2. \A r \in BlockType : r \in VideoFrames <=> r.what \in Nat \ {Audio}
      BY DEF BlockType, VideoFrames
    <2> QED BY <1>1, <1>2, <2>1, <2>2 DEF Where
  <1>4. ps \in SUBSET (1..Len(file))
    BY <1>1 DEF Where
  <1>5. /\ c \in Nat
        /\ \A n \in 1..c : Nth(ps, n) \in ps
    BY <1>1, <1>4, RankFacts, NthFacts
  <1>6. Saved = [n \in 1..c |-> file[Nth(ps, n)]] /\ SavedFrames = [n \in 1..c |-> Whats(file)[Nth(ps, n)]]
    BY <1>3, StreamsNow DEF Saved, FramesIn, Keeping, Chosen
  <1>7. \A i \in ps : i \in DOMAIN file /\ file[i] \in VideoFrames
    BY DEF Where
  <1> HIDE DEF ps, c
  <1>8. \A n \in 1..c : Saved[n].what = n
    <2> SUFFICES ASSUME NEW n \in 1..c PROVE Saved[n].what = n
      OBVIOUS
    <2>1. SavedFrames \in Seq(Nat) /\ Pending \in Seq(Nat) /\ stamp \in Nat
      BY <1>1, StreamsType DEF StreamType
    <2>2. SavedFrames \o Pending = UpTo(stamp)
      BY DEF OrderInv, LineInv, Pending
    <2>3. Len(SavedFrames) = c
      BY <1>5, <1>6
    <2>4. (SavedFrames \o Pending)[n] = SavedFrames[n] /\ n \in 1..(Len(SavedFrames) + Len(Pending))
      BY <2>1, <2>3
    <2>5. Len(SavedFrames \o Pending) = Len(SavedFrames) + Len(Pending) /\ Len(UpTo(stamp)) = stamp
      BY <2>1 DEF UpTo
    <2>6. UpTo(stamp)[n] = n
      BY <2>2, <2>4, <2>5 DEF UpTo
    <2>7. SavedFrames[n] = Saved[n].what
      BY <1>1, <1>2, <1>4, <1>5, <1>6
    <2> QED BY <2>2, <2>4, <2>6, <2>7
  <1>9. \A n \in 1..c : Saved[n].number = n
    <2> SUFFICES ASSUME NEW n \in 1..c PROVE Saved[n].number = n
      OBVIOUS
    <2>1. PICK i \in DOMAIN file : Saved[n] = file[i] /\ file[i] \in VideoFrames
      BY <1>5, <1>6, <1>7
    <2>2. file[i].what # Audio
      BY <2>1 DEF VideoFrames
    <2>3. file[i].number = file[i].what
      BY <2>2 DEF OrderInv, NumberInv
    <2> QED BY <1>8, <2>1, <2>3
  <1>10. k \in 1..c
    BY <1>6
  <1>11. k > 1 => k - 1 \in 1..c
    BY <1>5, <1>10
  <1> QED BY <1>5, <1>8, <1>9, <1>10, <1>11

THEOREM SavedInOrderHolds ==
    ASSUME PlainModes
    PROVE  Spec /\ [][NothingLeft]_vars => []SavedInOrder
  BY OrderGivesSavedInOrder, OrderInvariant, PTL

-----------------------------------------------------------------------------
(* The recorder implements FramePipeline: nothing is kept for pre-recording,
   and each of Moves is an action of it.                                    *)
LEMMA NothingKept == IInv => KeptFrames = <<>>
  BY DEF IInv, Safe, Phases, KeptFrames

LEMMA NothingKeptNext == IInv' => KeptFrames' = <<>>
  BY DEF IInv, Safe, Phases, KeptFrames

LEMMA PipelineState ==
    /\ Pipeline!Init <=> KeptFrames = <<>> /\ Pending = <<>> /\ SavedFrames = <<>> /\ stamp = 0
    /\ UNCHANGED Pipeline!vars <=> UNCHANGED <<KeptFrames, Pending, SavedFrames, stamp>>
    /\ Pipeline!Begin <=> KeptFrames' = <<>> /\ Pending' = <<>> /\ SavedFrames' = <<>> /\ stamp' = 0
    /\ Pipeline!Take <=> /\ KeptFrames = <<>> /\ Pending' = Append(Pending, stamp + 1)
                         /\ stamp' = stamp + 1 /\ UNCHANGED <<KeptFrames, SavedFrames>>
    /\ Pipeline!GiveUp <=> Pending' = <<>> /\ UNCHANGED <<KeptFrames, SavedFrames, stamp>>
    /\ Pipeline!Save <=> \E n \in 0..Len(Pending) :
                            /\ SavedFrames' = SavedFrames \o SubSeq(Pending, 1, n)
                            /\ Pending' = SubSeq(Pending, n + 1, Len(Pending))
                            /\ UNCHANGED <<KeptFrames, stamp>>
  BY DEF Pipeline!Init, Pipeline!vars, Pipeline!Begin, Pipeline!Take, Pipeline!GiveUp, Pipeline!Save,
         Pipeline!From, Pending, Unsaved

LEMMA PrefixOf ==
    ASSUME NEW m \in Seq(Nat), NEW r \in Seq(Nat)
    PROVE  /\ Len(m) \in 0..Len(m \o r)
           /\ m = SubSeq(m \o r, 1, Len(m))
           /\ r = SubSeq(m \o r, Len(m) + 1, Len(m \o r))
  <1> DEFINE w == m \o r
  <1>1. /\ w \in Seq(Nat) /\ Len(w) = Len(m) + Len(r) /\ Len(m) \in Nat /\ Len(r) \in Nat
        /\ \A i \in 1..Len(m) : w[i] = m[i]
        /\ \A i \in 1..Len(r) : w[Len(m) + i] = r[i]
    OBVIOUS
  <1> HIDE DEF w
  <1> DEFINE p == SubSeq(w, 1, Len(m))
             z == SubSeq(w, Len(m) + 1, Len(w))
  <1>2. p \in Seq(Nat) /\ Len(p) = Len(m) /\ \A i \in 1..Len(m) : p[i] = w[i]
    BY <1>1
  <1>3. z \in Seq(Nat) /\ Len(z) = Len(r) /\ \A i \in 1..Len(r) : z[i] = w[Len(m) + i]
    <2>1. Len(m) + 1 \in 1..(Len(w) + 1) /\ Len(w) \in 0..Len(w) /\ Len(w) - (Len(m) + 1) + 1 = Len(r)
      BY <1>1
    <2>2. z \in Seq(Nat) /\ Len(z) = Len(w) - (Len(m) + 1) + 1
      BY <1>1, <2>1
    <2> PICK from : from = Len(m) + 1
      OBVIOUS
    <2> PICK to : to = Len(w)
      OBVIOUS
    <2>5. from \in 1..(Len(w) + 1) /\ to \in (from - 1)..Len(w) /\ to - from + 1 = Len(r)
      BY <1>1
    <2>3. \A i \in 1..Len(r) : z[i] = w[(Len(m) + 1) + i - 1]
      <3>1. \A i \in 1..(to - from + 1) : SubSeq(w, from, to)[i] = w[from + i - 1]
        <4>1. from \in Int /\ to \in Int
          BY <1>1, <2>5
        <4>2. \A i \in from..to : w[i] \in Nat
          BY <1>1, <2>5
        <4> QED BY ONLY <4>1, <4>2, SubSeqProperties
      <3>2. z = SubSeq(w, from, to)
        OBVIOUS
      <3> QED BY <2>5, <3>1, <3>2
    <2>4. \A i \in 1..Len(r) : (Len(m) + 1) + i - 1 = Len(m) + i
      BY <1>1
    <2> QED BY <2>1, <2>2, <2>3, <2>4
  <1> HIDE DEF p, z
  <1>4. p = m
    <2>1. \A i \in 1..Len(m) : m[i] = p[i]
      BY <1>1, <1>2
    <2> QED BY <1>2, <2>1, SameElements
  <1>5. z = r
    <2>1. \A i \in 1..Len(r) : r[i] = z[i]
      BY <1>1, <1>3
    <2> QED BY <1>3, <2>1, SameElements
  <1>6. Len(m) \in 0..Len(w)
    BY <1>1
  <1> QED BY <1>4, <1>5, <1>6 DEF p, z, w

LEMMA PipelineStep ==
    ASSUME IInv, IInv', Moves, [Emptied]_vars
    PROVE  [Pipeline!Next]_(Pipeline!vars)
  <1>1. KeptFrames = <<>> /\ KeptFrames' = <<>>
    BY NothingKept, NothingKeptNext
  <1>2. CASE Rests
    <2>1. UNCHANGED Pipeline!vars
      BY <1>1, <1>2, PipelineState DEF Rests
    <2> QED BY <2>1
  <1>3. CASE Begins
    <2>1. Pipeline!Begin
      BY <1>1, <1>3, PipelineState DEF Begins
    <2> QED BY <2>1 DEF Pipeline!Next
  <1>4. CASE Captured
    <2>1. Pipeline!Take
      BY <1>1, <1>4, PipelineState DEF Captured
    <2> QED BY <2>1 DEF Pipeline!Next
  <1>5. CASE GivesUp
    <2>1. Pipeline!GiveUp
      BY <1>1, <1>5, PipelineState DEF GivesUp
    <2> QED BY <2>1 DEF Pipeline!Next
  <1>6. CASE Saves
    <2>1. PICK m \in Seq(Nat) : /\ SavedFrames' = SavedFrames \o m /\ Pending = m \o Pending'
                                /\ stamp' = stamp
      BY <1>6 DEF Saves
    <2>2. Pending' \in Seq(Nat)
      <3>1. StreamType'
        BY StreamTypedNext DEF IInv
      <3>2. Frames(content', Unsaved') \in Seq(Nat)
        BY <3>1, FramesType DEF StreamType
      <3> QED BY <3>2, StreamsNext
    <2> DEFINE r == Pending'
               n == Len(m)
    <2>3. r \in Seq(Nat) /\ Pending = m \o r
      BY <2>1, <2>2
    <2>4. /\ n \in 0..Len(Pending) /\ m = SubSeq(Pending, 1, n)
          /\ r = SubSeq(Pending, n + 1, Len(Pending))
      <3> HIDE DEF r
      <3>1. /\ Len(m) \in 0..Len(m \o r) /\ m = SubSeq(m \o r, 1, Len(m))
            /\ r = SubSeq(m \o r, Len(m) + 1, Len(m \o r))
        BY <2>3, PrefixOf
      <3> QED BY <2>3, <3>1
    <2>5. Pipeline!Save
      <3>1. /\ SavedFrames' = SavedFrames \o SubSeq(Pending, 1, n)
            /\ Pending' = SubSeq(Pending, n + 1, Len(Pending))
            /\ KeptFrames' = KeptFrames /\ stamp' = stamp /\ n \in 0..Len(Pending)
        BY <1>1, <2>1, <2>4
      <3> HIDE DEF n
      <3> QED BY <3>1, PipelineState
    <2> QED BY <2>5 DEF Pipeline!Next
  <1>7. CASE Leaves
    BY <1>7, EmptiedNow DEF Leaves
  <1> QED BY <1>2, <1>3, <1>4, <1>5, <1>6, <1>7 DEF Moves

(* In lossless recording without pre-recording the recorder implements
   FramePipeline, with what that module proves of it: frames are neither lost,
   repeated nor reordered between the sensor and the file.  That is so while
   nothing is left over and a write that fails empties the queue: with slots
   left in it, frames of which no one knows would still be waiting. *)
THEOREM RefinesPipeline ==
    ASSUME PlainModes
    PROVE  Spec /\ [][NothingLeft]_vars /\ [][Emptied]_vars => ImplementsPipeline
  <1>1. Init => Pipeline!Init
    <2> SUFFICES ASSUME Init PROVE Pipeline!Init
      OBVIOUS
    <2>1. rec = "none" /\ queue = <<>> /\ file = <<>> /\ stamp = 0 /\ rstate = "IDLE"
          /\ content = [s \in Slots |-> Audio]
      BY DEF Init
    <2>2. Unsaved = <<>> /\ content \in [Slots -> Nat] /\ <<>> \in Seq(Slots) /\ <<>> \in Seq(BlockType)
      BY <2>1 DEF Unsaved, Audio
    <2>3. Pending = <<>> /\ SavedFrames = <<>>
      BY <2>1, <2>2, FramesType, FramesInType, StreamsNow
    <2> QED BY <2>1, <2>3, PipelineState DEF KeptFrames
  <1>2. IInv /\ OrderInv /\ (IInv /\ OrderInv)' /\ [Next]_vars /\ [Emptied]_vars
            => [Pipeline!Next]_(Pipeline!vars)
    <2>1. IInv /\ OrderInv /\ IInv' /\ [Next]_vars => Moves
      BY AlwaysPlain, OrderNext DEF IInv
    <2> QED BY <2>1, PipelineStep
  <1>3. Spec /\ [][NothingLeft]_vars => [](IInv /\ OrderInv)
    BY OrderInvariant
  <1> QED BY <1>1, <1>2, <1>3, PTL DEF Spec, ImplementsPipeline, Pipeline!Spec

-----------------------------------------------------------------------------
(* Part three: FramePipeline, over variables of its own, keeps the frames in
   capture order.                                                           *)
VARIABLES kept, pending, saved, last

Pipe == INSTANCE FramePipeline

(* What suffix, append and concatenation do to the elements of a sequence. *)
LEMMA FromFacts ==
    ASSUME NEW q \in Seq(Nat), NEW n \in 1..(Len(q) + 1)
    PROVE  /\ Pipe!From(q, n) \in Seq(Nat)
           /\ Len(Pipe!From(q, n)) = Len(q) - n + 1
           /\ \A i \in 1..Len(Pipe!From(q, n)) :
                 i + n - 1 \in 1..Len(q) /\ Pipe!From(q, n)[i] = q[i + n - 1]
  <1>1. Pipe!From(q, n) \in Seq(Nat) /\ Len(Pipe!From(q, n)) = Len(q) - n + 1
    BY DEF Pipe!From
  <1>2. \A i \in 1..Len(Pipe!From(q, n)) :
           i + n - 1 \in 1..Len(q) /\ Pipe!From(q, n)[i] = q[i + n - 1]
    BY <1>1 DEF Pipe!From
  <1> QED BY <1>1, <1>2

LEMMA PrefixFacts ==
    ASSUME NEW q \in Seq(Nat), NEW n \in 0..Len(q)
    PROVE  /\ SubSeq(q, 1, n) \in Seq(Nat)
           /\ Len(SubSeq(q, 1, n)) = n
           /\ \A i \in 1..n : SubSeq(q, 1, n)[i] = q[i]
  OBVIOUS

LEMMA ConcatFacts ==
    ASSUME NEW p \in Seq(Nat), NEW q \in Seq(Nat)
    PROVE  /\ p \o q \in Seq(Nat)
           /\ Len(p \o q) = Len(p) + Len(q)
           /\ \A i \in 1..Len(p \o q) :
                 (p \o q)[i] = IF i <= Len(p) THEN p[i] ELSE q[i - Len(p)]
  OBVIOUS

LEMMA AppendFacts ==
    ASSUME NEW p \in Seq(Nat), NEW e \in Nat
    PROVE  /\ Append(p, e) \in Seq(Nat)
           /\ Len(Append(p, e)) = Len(p) + 1
           /\ \A i \in 1..Len(p) : Append(p, e)[i] = p[i]
           /\ Append(p, e)[Len(p) + 1] = e
  OBVIOUS

(* Order is inherited by suffixes, and by joining two ordered sequences. *)
LEMMA FromIncreasing ==
    ASSUME NEW q \in Seq(Nat), NEW n \in 1..(Len(q) + 1), Pipe!Increasing(q)
    PROVE  Pipe!Increasing(Pipe!From(q, n))
  <1> DEFINE f == Pipe!From(q, n)
  <1> SUFFICES ASSUME NEW i \in 1..Len(f), NEW j \in 1..Len(f), i < j
               PROVE  f[i] < f[j]
    BY DEF Pipe!Increasing
  <1>1. /\ i + n - 1 \in 1..Len(q) /\ f[i] = q[i + n - 1]
        /\ j + n - 1 \in 1..Len(q) /\ f[j] = q[j + n - 1]
    BY FromFacts
  <1>2. i + n - 1 < j + n - 1
    OBVIOUS
  <1> HIDE DEF f
  <1> QED BY <1>1, <1>2 DEF Pipe!Increasing

LEMMA FromBefore ==
    ASSUME NEW p \in Seq(Nat), NEW q \in Seq(Nat), NEW n \in 1..(Len(q) + 1),
           Pipe!Before(p, q)
    PROVE  Pipe!Before(p, Pipe!From(q, n))
  <1> DEFINE f == Pipe!From(q, n)
  <1> SUFFICES ASSUME NEW i \in 1..Len(p), NEW j \in 1..Len(f)
               PROVE  p[i] < f[j]
    BY DEF Pipe!Before
  <1>1. j + n - 1 \in 1..Len(q) /\ f[j] = q[j + n - 1]
    BY FromFacts
  <1> HIDE DEF f
  <1> QED BY <1>1 DEF Pipe!Before

LEMMA ConcatIncreasing ==
    ASSUME NEW p \in Seq(Nat), NEW q \in Seq(Nat),
           Pipe!Increasing(p), Pipe!Increasing(q), Pipe!Before(p, q)
    PROVE  Pipe!Increasing(p \o q)
  <1> DEFINE c == p \o q
  <1> SUFFICES ASSUME NEW i \in 1..Len(c), NEW j \in 1..Len(c), i < j
               PROVE  c[i] < c[j]
    BY DEF Pipe!Increasing
  <1>1. /\ Len(c) = Len(p) + Len(q)
        /\ c[i] = IF i <= Len(p) THEN p[i] ELSE q[i - Len(p)]
        /\ c[j] = IF j <= Len(p) THEN p[j] ELSE q[j - Len(p)]
    BY ConcatFacts
  <1> HIDE DEF c
  <1>2. CASE j <= Len(p)
    BY <1>1, <1>2 DEF Pipe!Increasing
  <1>3. CASE i <= Len(p) /\ j > Len(p)
    BY <1>1, <1>3 DEF Pipe!Before
  <1>4. CASE i > Len(p)
    <2>1. /\ i - Len(p) \in 1..Len(q) /\ j - Len(p) \in 1..Len(q)
          /\ i - Len(p) < j - Len(p)
      BY <1>1, <1>4
    <2>2. q[i - Len(p)] < q[j - Len(p)]
      BY <2>1 DEF Pipe!Increasing
    <2> QED BY <1>1, <1>4, <2>2
  <1> QED BY <1>2, <1>3, <1>4

LEMMA ConcatBefore ==
    ASSUME NEW p \in Seq(Nat), NEW q \in Seq(Nat), NEW r \in Seq(Nat)
    PROVE  /\ Pipe!Before(p, r) /\ Pipe!Before(q, r) => Pipe!Before(p \o q, r)
           /\ Pipe!Before(r, p) /\ Pipe!Before(r, q) => Pipe!Before(r, p \o q)
  <1> DEFINE c == p \o q
  <1>1. \A i \in 1..Len(c) : \/ i \in 1..Len(p) /\ c[i] = p[i]
                             \/ i - Len(p) \in 1..Len(q) /\ c[i] = q[i - Len(p)]
    BY ConcatFacts
  <1> HIDE DEF c
  <1>2. Pipe!Before(p, r) /\ Pipe!Before(q, r) => Pipe!Before(c, r)
    BY <1>1 DEF Pipe!Before
  <1>3. Pipe!Before(r, p) /\ Pipe!Before(r, q) => Pipe!Before(r, c)
    BY <1>1 DEF Pipe!Before
  <1> QED BY <1>2, <1>3 DEF c

-----------------------------------------------------------------------------
(* No frame that was captured has a number above last. *)
Below(q, n) == \A i \in 1..Len(q) : q[i] <= n

PipeInv == /\ Pipe!TypeOK /\ Pipe!InOrder
        /\ Below(saved, last) /\ Below(pending, last) /\ Below(kept, last)

(* The next frame, last + 1, extends any of the sequences in order. *)
LEMMA AppendNext ==
    ASSUME NEW p \in Seq(Nat), NEW n \in Nat, Pipe!Increasing(p), Below(p, n)
    PROVE  /\ Append(p, n + 1) \in Seq(Nat)
           /\ Pipe!Increasing(Append(p, n + 1))
           /\ Below(Append(p, n + 1), n + 1)
           /\ \A r \in Seq(Nat) : Pipe!Before(r, p) /\ Below(r, n) => Pipe!Before(r, Append(p, n + 1))
  <1> DEFINE a == Append(p, n + 1)
  <1>1. /\ a \in Seq(Nat) /\ Len(a) = Len(p) + 1
        /\ \A i \in 1..Len(p) : a[i] = p[i]
        /\ a[Len(p) + 1] = n + 1
    BY AppendFacts
  <1>2. \A i \in 1..Len(a) : i \in 1..Len(p) \/ i = Len(p) + 1
    BY <1>1
  <1>3. \A i \in 1..Len(p) : p[i] \in Nat
    OBVIOUS
  <1> HIDE DEF a
  <1>4. Pipe!Increasing(a)
    <2> SUFFICES ASSUME NEW i \in 1..Len(a), NEW j \in 1..Len(a), i < j
                 PROVE  a[i] < a[j]
      BY DEF Pipe!Increasing
    <2>1. i \in 1..Len(p)
      BY <1>1, <1>2
    <2>2. CASE j \in 1..Len(p)
      BY <1>1, <2>1, <2>2 DEF Pipe!Increasing
    <2>3. CASE j = Len(p) + 1
      BY <1>1, <1>3, <2>1, <2>3 DEF Below
    <2> QED BY <1>2, <2>2, <2>3
  <1>5. Below(a, n + 1)
    BY <1>1, <1>2, <1>3 DEF Below
  <1>6. ASSUME NEW r \in Seq(Nat), Pipe!Before(r, p), Below(r, n)
        PROVE  Pipe!Before(r, a)
    <2>1. \A i \in 1..Len(r) : r[i] \in Nat
      OBVIOUS
    <2> SUFFICES ASSUME NEW i \in 1..Len(r), NEW j \in 1..Len(a)
                 PROVE  r[i] < a[j]
      BY DEF Pipe!Before
    <2>2. CASE j \in 1..Len(p)
      BY <1>1, <1>6, <2>2 DEF Pipe!Before
    <2>3. CASE j = Len(p) + 1
      BY <1>1, <1>6, <2>1, <2>3 DEF Below
    <2> QED BY <1>2, <2>2, <2>3
  <1> QED BY <1>1, <1>4, <1>5, <1>6 DEF a

LEMMA BelowFacts ==
    ASSUME NEW p \in Seq(Nat), NEW q \in Seq(Nat), NEW n \in Nat
    PROVE  /\ Below(p, n) => Below(p, n + 1)
           /\ Below(p, n) /\ Below(q, n) => Below(p \o q, n)
           /\ \A k \in 1..(Len(p) + 1) : Below(p, n) => Below(Pipe!From(p, k), n)
  <1>1. Below(p, n) => Below(p, n + 1)
    <2>1. \A i \in 1..Len(p) : p[i] \in Nat
      OBVIOUS
    <2> QED BY <2>1 DEF Below
  <1>2. Below(p, n) /\ Below(q, n) => Below(p \o q, n)
    <2> DEFINE c == p \o q
    <2>1. \A i \in 1..Len(c) : \/ i \in 1..Len(p) /\ c[i] = p[i]
                               \/ i - Len(p) \in 1..Len(q) /\ c[i] = q[i - Len(p)]
      BY ConcatFacts
    <2> HIDE DEF c
    <2>2. Below(p, n) /\ Below(q, n) => Below(c, n)
      BY <2>1 DEF Below
    <2> QED BY <2>2 DEF c
  <1>3. ASSUME NEW k \in 1..(Len(p) + 1), Below(p, n)
        PROVE  Below(Pipe!From(p, k), n)
    <2> DEFINE f == Pipe!From(p, k)
    <2>1. \A i \in 1..Len(f) : i + k - 1 \in 1..Len(p) /\ f[i] = p[i + k - 1]
      BY FromFacts
    <2> HIDE DEF f
    <2>2. Below(f, n)
      BY <1>3, <2>1 DEF Below
    <2> QED BY <2>2 DEF f
  <1> QED BY <1>1, <1>2, <1>3

LEMMA EmptyFacts ==
    /\ <<>> \in Seq(Nat) /\ Pipe!Increasing(<<>>)
    /\ \A p : Pipe!Before(<<>>, p) /\ Pipe!Before(p, <<>>)
    /\ \A n : Below(<<>>, n)
  BY DEF Pipe!Increasing, Pipe!Before, Below

LEMMA SingleFacts ==
    ASSUME NEW n \in Nat
    PROVE  /\ <<n + 1>> \in Seq(Nat) /\ Pipe!Increasing(<<n + 1>>)
           /\ Below(<<n + 1>>, n + 1)
           /\ \A p \in Seq(Nat) : Below(p, n) => Pipe!Before(p, <<n + 1>>)
  <1>1. \A p \in Seq(Nat) : \A i \in 1..Len(p) : p[i] \in Nat
    OBVIOUS
  <1> QED BY <1>1 DEF Pipe!Increasing, Pipe!Before, Below

(* What a prefix and the suffix after it have in common with the whole. *)
LEMMA SplitFacts ==
    ASSUME NEW q \in Seq(Nat), NEW n \in 0..Len(q), Pipe!Increasing(q)
    PROVE  LET p == SubSeq(q, 1, n) IN
           /\ p \in Seq(Nat) /\ Pipe!Increasing(p) /\ Pipe!Before(p, Pipe!From(q, n + 1))
           /\ \A r \in Seq(Nat) : /\ Pipe!Before(r, q) => Pipe!Before(r, p)
                                  /\ Pipe!Before(q, r) => Pipe!Before(p, r)
                                  /\ Pipe!Before(q, r) => Pipe!Before(Pipe!From(q, n + 1), r)
           /\ \A m \in Nat : Below(q, m) => Below(p, m)
  <1> DEFINE p == SubSeq(q, 1, n)
             f == Pipe!From(q, n + 1)
  <1>1. /\ p \in Seq(Nat) /\ Len(p) = n
        /\ \A i \in 1..n : p[i] = q[i] /\ i \in 1..Len(q)
    BY PrefixFacts
  <1>2. \A i \in 1..Len(f) : i + n \in 1..Len(q) /\ f[i] = q[i + n]
    <2> DEFINE m == n + 1
    <2>1. m \in 1..(Len(q) + 1)
      OBVIOUS
    <2> HIDE DEF m
    <2>2. \A i \in 1..Len(Pipe!From(q, m)) :
             i + m - 1 \in 1..Len(q) /\ Pipe!From(q, m)[i] = q[i + m - 1]
      BY <2>1, FromFacts
    <2>3. \A i \in 1..Len(Pipe!From(q, m)) : i \in Int
      OBVIOUS
    <2>4. Len(q) \in Nat /\ m = n + 1 /\ \A i \in Int : i + m - 1 = i + n
      BY DEF m
    <2> QED BY <2>2, <2>3, <2>4
  <1> HIDE DEF p, f
  <1>3. Pipe!Increasing(p)
    BY <1>1 DEF Pipe!Increasing
  <1>4. Pipe!Before(p, f)
    <2> SUFFICES ASSUME NEW i \in 1..Len(p), NEW j \in 1..Len(f)
                 PROVE  p[i] < f[j]
      BY DEF Pipe!Before
    <2>1. i \in 1..Len(q) /\ j + n \in 1..Len(q) /\ i < j + n
      <3>1. i \in 1..n
        BY <1>1
      <3>2. i \in 1..Len(q)
        BY <1>1, <3>1
      <3>3. j + n \in 1..Len(q)
        BY <1>2
      <3>4. j \in Nat /\ j >= 1 /\ n \in Nat /\ i <= n
        BY <3>1
      <3> QED BY ONLY <3>1, <3>2, <3>3, <3>4
    <2> QED BY <1>1, <1>2, <2>1 DEF Pipe!Increasing
  <1>5. \A r \in Seq(Nat) : /\ Pipe!Before(r, q) => Pipe!Before(r, p)
                            /\ Pipe!Before(q, r) => Pipe!Before(p, r)
    BY <1>1 DEF Pipe!Before
  <1>6. \A r \in Seq(Nat) : Pipe!Before(q, r) => Pipe!Before(f, r)
    BY <1>2 DEF Pipe!Before
  <1>7. \A m \in Nat : Below(q, m) => Below(p, m)
    BY <1>1 DEF Below
  <1> QED BY <1>1, <1>3, <1>4, <1>5, <1>6, <1>7 DEF p, f

-----------------------------------------------------------------------------
(* PipeInv is inductive.                                                   *)
LEMMA PipeInitInv == Pipe!Init => PipeInv
  BY EmptyFacts DEF Pipe!Init, PipeInv, Pipe!TypeOK, Pipe!InOrder

LEMMA PipeNextInv == PipeInv /\ [Pipe!Next]_(Pipe!vars) => PipeInv'
  <1> USE DEF PipeInv, Pipe!TypeOK, Pipe!InOrder
  <1> SUFFICES ASSUME PipeInv, [Pipe!Next]_(Pipe!vars) PROVE PipeInv'
    OBVIOUS
  <1>1. CASE Pipe!Begin
    BY <1>1, EmptyFacts DEF Pipe!Begin
  <1>2. CASE Pipe!Take
    <2>1. Below(saved, last + 1)
      BY BelowFacts
    <2> QED BY <1>2, <2>1, AppendNext, EmptyFacts DEF Pipe!Take
  <1>3. CASE Pipe!Keep
    <2>1. PICK n \in 1..(Len(kept) + 1) :
             /\ kept' = Append(Pipe!From(kept, n), last + 1)
             /\ last' = last + 1
             /\ UNCHANGED <<pending, saved>>
      BY <1>3 DEF Pipe!Keep
    <2> DEFINE k == Pipe!From(kept, n)
    <2>2. k \in Seq(Nat) /\ Pipe!Increasing(k) /\ Below(k, last)
          /\ Pipe!Before(saved, k) /\ Pipe!Before(pending, k)
      BY FromFacts, FromIncreasing, FromBefore, BelowFacts
    <2> HIDE DEF k
    <2>3. Below(saved, last + 1) /\ Below(pending, last + 1)
      BY BelowFacts
    <2>4. kept' = Append(k, last + 1)
      BY <2>1 DEF k
    <2>5. /\ kept' \in Seq(Nat) /\ Pipe!Increasing(kept') /\ Below(kept', last + 1)
          /\ Pipe!Before(saved, kept') /\ Pipe!Before(pending, kept')
      BY <2>2, <2>4, AppendNext
    <2> QED BY <2>1, <2>3, <2>5
  <1>4. CASE Pipe!Commit
    <2>1. PICK n \in 1..(Len(kept) + 1) :
      \/ /\ pending' = Append(pending \o Pipe!From(kept, n), last + 1)
         /\ kept' = <<>> /\ last' = last + 1 /\ UNCHANGED saved
      \/ /\ pending' = pending \o Pipe!From(kept, n)
         /\ kept' = <<last + 1>> /\ last' = last + 1 /\ UNCHANGED saved
      \/ /\ pending' = pending \o Pipe!From(kept, n)
         /\ kept' = <<>> /\ UNCHANGED <<saved, last>>
      BY <1>4 DEF Pipe!Commit
    <2> DEFINE k == Pipe!From(kept, n)
               c == pending \o k
    <2>2. k \in Seq(Nat) /\ Pipe!Increasing(k) /\ Below(k, last)
          /\ Pipe!Before(saved, k) /\ Pipe!Before(pending, k)
      BY FromFacts, FromIncreasing, FromBefore, BelowFacts
    <2> HIDE DEF k
    <2>3. c \in Seq(Nat) /\ Pipe!Increasing(c) /\ Below(c, last) /\ Pipe!Before(saved, c)
      BY <2>2, ConcatFacts, ConcatIncreasing, ConcatBefore, BelowFacts
    <2>4. \/ /\ pending' = Append(c, last + 1)
             /\ kept' = <<>> /\ last' = last + 1 /\ UNCHANGED saved
          \/ /\ pending' = c
             /\ kept' = <<last + 1>> /\ last' = last + 1 /\ UNCHANGED saved
          \/ /\ pending' = c
             /\ kept' = <<>> /\ UNCHANGED <<saved, last>>
      BY <2>1 DEF k
    <2> HIDE DEF c
    <2>5. Below(saved, last + 1) /\ Below(c, last + 1)
      BY <2>3, BelowFacts
    <2>6. CASE /\ pending' = Append(c, last + 1)
               /\ kept' = <<>> /\ last' = last + 1 /\ UNCHANGED saved
      BY <2>3, <2>5, <2>6, AppendNext, EmptyFacts
    <2>7. CASE /\ pending' = c
               /\ kept' = <<last + 1>> /\ last' = last + 1 /\ UNCHANGED saved
      BY <2>3, <2>5, <2>7, SingleFacts
    <2>8. CASE /\ pending' = c
               /\ kept' = <<>> /\ UNCHANGED <<saved, last>>
      BY <2>3, <2>8, EmptyFacts
    <2> QED BY <2>4, <2>6, <2>7, <2>8
  <1>5. CASE Pipe!Drop
    <2>1. PICK n \in 1..(Len(kept) + 1) :
             kept' = Pipe!From(kept, n) /\ UNCHANGED <<pending, saved, last>>
      BY <1>5 DEF Pipe!Drop
    <2> QED BY <2>1, FromFacts, FromIncreasing, FromBefore, BelowFacts
  <1>6. CASE Pipe!Save
    <2>1. PICK n \in 0..Len(pending) :
             /\ saved' = saved \o SubSeq(pending, 1, n)
             /\ pending' = Pipe!From(pending, n + 1)
             /\ UNCHANGED <<kept, last>>
      BY <1>6 DEF Pipe!Save
    <2> DEFINE p == SubSeq(pending, 1, n)
               f == Pipe!From(pending, n + 1)
    <2>2. /\ p \in Seq(Nat) /\ Pipe!Increasing(p) /\ Pipe!Before(p, f)
          /\ Pipe!Before(saved, p) /\ Pipe!Before(p, kept) /\ Pipe!Before(f, kept) /\ Below(p, last)
      BY SplitFacts
    <2>3. n + 1 \in 1..(Len(pending) + 1)
      OBVIOUS
    <2>4. /\ f \in Seq(Nat) /\ Pipe!Increasing(f) /\ Pipe!Before(saved, f) /\ Below(f, last)
      BY <2>3, FromFacts, FromIncreasing, FromBefore, BelowFacts
    <2>5. saved' = saved \o p /\ pending' = f /\ UNCHANGED <<kept, last>>
      BY <2>1
    <2> HIDE DEF p, f
    <2> QED BY <2>2, <2>4, <2>5, ConcatFacts, ConcatIncreasing, ConcatBefore, BelowFacts
  <1>7. CASE Pipe!GiveUp
    BY <1>7, EmptyFacts DEF Pipe!GiveUp
  <1>8. CASE UNCHANGED Pipe!vars
    BY <1>8 DEF Pipe!vars
  <1> QED BY <1>1, <1>2, <1>3, <1>4, <1>5, <1>6, <1>7, <1>8 DEF Pipe!Next

(* FramePipeline keeps saved, pending and kept frames in capture order,
   however many frames are captured, kept and dropped. *)
THEOREM PipelineInOrder == Pipe!Spec => []Pipe!InOrder
  <1>1. PipeInv => Pipe!InOrder
    BY DEF PipeInv
  <1> QED BY PipeInitInv, PipeNextInv, <1>1, PTL DEF Pipe!Spec
=============================================================================
