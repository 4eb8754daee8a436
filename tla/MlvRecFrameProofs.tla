------------------------- MODULE MlvRecFrameProofs --------------------------
(***************************************************************************)
(* Proofs about the frames and the files of the older recorder (MlvRec):   *)
(* each frame is in a file once or waits in one slot, and none is missing  *)
(* between two others; every file is closed, the next one is there when it *)
(* is needed, and nothing is left in the queues; for any groups of slots,  *)
(* block and file sizes, modules and failures.                             *)
(***************************************************************************)
EXTENDS MlvRecProofs

-----------------------------------------------------------------------------
(* Frames: where each one is, in a slot or in a file.                      *)

Saved(f) == \E i \in DOMAIN files : \E k \in DOMAIN files[i].data : files[i].data[k] = f
Used(s)  == slots[s].st \in {"full", "writing"} /\ slots[s].frame # None
Has(s, f) == Used(s) /\ slots[s].frame = f

\* a slot on its way to a writer, in the hands of one, and on its way back
InQueue(s) == \E q \in Queues : \E k \in DOMAIN writer_queues[q] :
                 s \in JobSlots(writer_queues[q][k])
InHand(w, s) == s \in JobSlots(writers[w].job)
Returns(s) == \/ s \in JobSlots(mgr.job)
              \/ \E k \in DOMAIN mgr_queue : s \in JobSlots(mgr_queue[k])
\* where the card was full the block may be in the file, or a part of it
ToWrite(s) == \/ slots[s].st = "full"
              \/ InQueue(s)
              \/ \E w \in Writers : InHand(w, s) /\ writers[w].error # "card"

Numbered    == /\ \A s \in Slots : Used(s) => slots[s].frame < frame_count
               /\ \A f \in Nat \ {None} : Saved(f) => f < frame_count
WrittenOnce == \A i, j \in DOMAIN files :
                  \A k \in DOMAIN files[i].data, l \in DOMAIN files[j].data :
                     files[i].data[k] = files[j].data[l] /\ files[i].data[k] # None
                        => i = j /\ k = l
HeldOnce    == \A s, t \in Slots :
                  Used(s) /\ Used(t) /\ slots[s].frame = slots[t].frame => s = t
NoneMissing == \A f \in 1..frame_count - 1 :
                  Saved(f) \/ \E s \in Slots : Used(s) /\ slots[s].frame = f
NotYet      == \A s \in Slots : \A f : Has(s, f) /\ ToWrite(s) => ~Saved(f)
Already     == \A s \in Slots : \A f : Has(s, f) /\ Returns(s) => Saved(f)
Frames      == Numbered /\ WrittenOnce /\ HeldOnce /\ NoneMissing /\ NotYet /\ Already
FrameInv    == mgr.pc \notin {"open", "dead"} => Frames

\* A step that writes nothing: slots are given up only when they come back.
SameData == /\ DOMAIN files \subseteq DOMAIN files'
            /\ \A i \in DOMAIN files : files'[i].data = files[i].data
            /\ \A i \in DOMAIN files' : i \notin DOMAIN files => files'[i].data = <<>>
\* the slots after a step, as they were before it
Follow == \A s \in Slots : Used(s)' =>
             /\ Used(s) /\ slots'[s].frame = slots[s].frame
             /\ ToWrite(s)' => ToWrite(s)
             /\ Returns(s)' => Returns(s)
Release == \A s \in Slots : Used(s) =>
             (Used(s)' /\ slots'[s].frame = slots[s].frame) \/ Returns(s)

LEMMA SavedSame ==
    ASSUME SameData
    PROVE  /\ \A f : Saved(f)' <=> Saved(f)
           /\ WrittenOnce => WrittenOnce'
  <1>1. \A i \in DOMAIN files' : i \notin DOMAIN files => DOMAIN files'[i].data = {}
    BY DEF SameData
  <1>2. \A f : Saved(f)' <=> Saved(f)  BY <1>1 DEF SameData, Saved
  <1>3. WrittenOnce => WrittenOnce'  BY <1>1 DEF SameData, WrittenOnce
  <1> QED BY <1>2, <1>3

LEMMA FramesStay ==
    ASSUME Frames, SameData, Follow, Release, frame_count' = frame_count
    PROVE  Frames'
  <1>1. /\ \A f : Saved(f)' <=> Saved(f)
        /\ WrittenOnce'
    BY SavedSame DEF Frames
  <1>2. Numbered'  BY <1>1 DEF Frames, Numbered, Follow
  <1>3. HeldOnce'  BY DEF Frames, HeldOnce, Follow
  <1>4. NoneMissing'
    <2> SUFFICES ASSUME NEW f \in 1..frame_count - 1
                 PROVE  Saved(f)' \/ \E s \in Slots : Used(s)' /\ slots'[s].frame = f
      BY DEF NoneMissing
    <2>1. CASE Saved(f)  BY <1>1, <2>1
    <2>2. CASE ~Saved(f)
      <3>1. PICK s \in Slots : Used(s) /\ slots[s].frame = f
        BY <2>2 DEF Frames, NoneMissing
      <3>2. ~Returns(s)  BY <2>2, <3>1 DEF Frames, Already, Has
      <3> QED BY <3>1, <3>2 DEF Release
    <2> QED BY <2>1, <2>2
  <1>5. NotYet' /\ Already'  BY <1>1 DEF Frames, NotYet, Already, Follow, Has
  <1> QED BY <1>1, <1>2, <1>3, <1>4, <1>5 DEF Frames

-----------------------------------------------------------------------------
LEMMA PlacesOf ==
    ASSUME NEW f
    PROVE  \A p : p \in {x \in Places : files[x[1]].data[x[2]] = f} <=>
              \E i \in DOMAIN files : \E k \in DOMAIN files[i].data :
                 p = <<i, k>> /\ files[i].data[k] = f
  BY DEF Places

\* a frame of a recording is in the files once, or not at all
LEMMA CopiesIs ==
    ASSUME WrittenOnce, NEW f, f # None
    PROVE  /\ Saved(f) => Copies(f) = 1
           /\ ~Saved(f) => Copies(f) = 0
  <1> DEFINE P == {p \in Places : files[p[1]].data[p[2]] = f}
  <1>1. \A p : p \in P <=> \E i \in DOMAIN files : \E k \in DOMAIN files[i].data :
                 p = <<i, k>> /\ files[i].data[k] = f
    BY PlacesOf
  <1>2. Copies(f) = Cardinality(P)  BY DEF Copies
  <1> HIDE DEF P
  <1>3. ASSUME Saved(f) PROVE Copies(f) = 1
    <2>1. PICK i \in DOMAIN files : \E k \in DOMAIN files[i].data : files[i].data[k] = f
      BY <1>3 DEF Saved
    <2>2. PICK k \in DOMAIN files[i].data : files[i].data[k] = f  BY <2>1
    <2>3. \A p : p \in P <=> p = <<i, k>>
      <3>1. <<i, k>> \in P  BY <1>1, <2>2
      <3>2. ASSUME NEW p \in P PROVE p = <<i, k>>
        <4>1. PICK j \in DOMAIN files : \E l \in DOMAIN files[j].data :
                  p = <<j, l>> /\ files[j].data[l] = f
          BY <1>1
        <4>2. PICK l \in DOMAIN files[j].data : p = <<j, l>> /\ files[j].data[l] = f  BY <4>1
        <4>3. i = j /\ k = l  BY <2>2, <4>2 DEF WrittenOnce
        <4> QED BY <4>2, <4>3
      <3> QED BY <3>1, <3>2
    <2>4. P = {<<i, k>>}  BY <2>3
    <2> QED BY <1>2, <2>4, FS_Singleton
  <1>4. ASSUME ~Saved(f) PROVE Copies(f) = 0
    <2>1. P = {}  BY <1>1, <1>4 DEF Saved
    <2> QED BY <1>2, <2>1, FS_EmptySet
  <1> QED BY <1>3, <1>4

LEMMA FrameHolds == IInv /\ FrameInv => FrameOnce
  <1> SUFFICES ASSUME IInv, FrameInv, Recording, NEW f \in 1..frame_count - 1
               PROVE  \/ Copies(f) = 0 /\ Cardinality(Holding(f, {"full", "writing"})) = 1
                      \/ Copies(f) = 1 /\ Holding(f, {"full"}) = {}
    BY DEF FrameOnce
  <1>1. Frames  BY DEF Recording, FrameInv
  <1>2. f # None
    <2>1. frame_count \in Int  BY BoundsNat DEF IInv, TypeInv
    <2> QED BY <2>1 DEF None
  <1>3. WrittenOnce  BY <1>1 DEF Frames
  <1>4. CASE Saved(f)
    <2>1. Copies(f) = 1  BY <1>2, <1>3, <1>4, CopiesIs
    <2>2. ASSUME NEW s \in Slots, slots[s].frame = f, slots[s].st = "full" PROVE FALSE
      <3>1. Used(s) /\ ToWrite(s)  BY <1>2, <2>2 DEF Used, ToWrite
      <3> QED BY <1>1, <1>4, <2>2, <3>1 DEF Frames, NotYet, Has
    <2> QED BY <2>1, <2>2 DEF Holding
  <1>5. CASE ~Saved(f)
    <2>1. Copies(f) = 0  BY <1>2, <1>3, <1>5, CopiesIs
    <2>2. PICK s \in Slots : Used(s) /\ slots[s].frame = f
      BY <1>1, <1>5 DEF Frames, NoneMissing
    <2>3. Holding(f, {"full", "writing"}) = {s}
      BY <1>1, <1>2, <2>2 DEF Holding, Frames, HeldOnce, Used
    <2>4. Cardinality(Holding(f, {"full", "writing"})) = 1  BY <2>3, FS_Singleton
    <2> QED BY <2>1, <2>4
  <1> QED BY <1>4, <1>5

\* SlotInv in these terms
LEMMA WhereIs ==
    ASSUME IInv, mgr.pc \notin {"open", "dead"}
    PROVE  /\ \A s : InQueue(s) \/ Returns(s) \/ (\E w \in Writers : InHand(w, s)) =>
                 s \in Slots /\ slots[s].st = "writing"
           /\ \A s : \A w \in Writers : InHand(w, s) =>
                 /\ ~InQueue(s) /\ ~Returns(s)
                 /\ \A v \in Writers : InHand(v, s) => v = w
           /\ \A s \in Slots : slots[s].st = "writing" =>
                 InQueue(s) \/ Returns(s) \/ (\E w \in Writers : InHand(w, s))
  <1>1. /\ \A c \in 0..4 : \A k, s : Holder(c, k, s) => s \in Slots /\ slots[s].st = "writing"
        /\ \A s \in Slots : slots[s].st = "writing" => \E c \in 0..4 : \E k : Holder(c, k, s)
        /\ \A s \in Slots : \A c, e \in 0..4 : \A k, l :
              Holder(c, k, s) /\ Holder(e, l, s) => c = e /\ k = l
    BY DEF IInv, SlotInv, Holder
  <1>2. \A s : /\ InQueue(s) => \E q \in Queues : \E k : Holder(q, k, s)
               /\ Returns(s) => (\E k : Holder(3, k, s)) \/ (\E k : Holder(2, k, s))
               /\ \A w \in Writers : InHand(w, s) => Holder(4, w, s)
    BY HolderIs DEF InQueue, Returns, InHand
  <1>3. Queues \subseteq 0..4 /\ 2 \in 0..4 /\ 3 \in 0..4 /\ 4 \in 0..4
        /\ 2 \notin Queues /\ 3 \notin Queues /\ 4 \notin Queues
    BY DEF Queues
  <1>4. \A s : InQueue(s) \/ Returns(s) \/ (\E w \in Writers : InHand(w, s)) =>
            s \in Slots /\ slots[s].st = "writing"
    <2> TAKE s
    <2>1. ASSUME InQueue(s) PROVE s \in Slots /\ slots[s].st = "writing"
      <3>1. PICK q \in Queues : \E k : Holder(q, k, s)  BY <1>2, <2>1
      <3> QED BY <1>1, <1>3, <3>1
    <2>2. ASSUME Returns(s) PROVE s \in Slots /\ slots[s].st = "writing"
      BY <1>1, <1>2, <1>3, <2>2
    <2>3. ASSUME NEW w \in Writers, InHand(w, s) PROVE s \in Slots /\ slots[s].st = "writing"
      <3>1. Holder(4, w, s)  BY <1>2, <2>3
      <3> QED BY <1>1, <1>3, <3>1
    <2> QED BY <2>1, <2>2, <2>3
  <1>5. ASSUME NEW s, NEW w \in Writers, InHand(w, s)
        PROVE  ~InQueue(s) /\ ~Returns(s) /\ \A v \in Writers : InHand(v, s) => v = w
    <2>1. Holder(4, w, s) /\ s \in Slots  BY <1>1, <1>2, <1>3, <1>5
    <2>2. \A e \in 0..4 : \A l : Holder(e, l, s) => e = 4 /\ l = w  BY <1>1, <1>3, <2>1
    <2>3. ~InQueue(s)
      <3>1. SUFFICES ASSUME InQueue(s) PROVE FALSE  OBVIOUS
      <3>2. PICK q \in Queues : \E k : Holder(q, k, s)  BY <1>2, <3>1
      <3> QED BY <1>3, <2>2, <3>2
    <2>4. ~Returns(s)  BY <1>2, <1>3, <2>2
    <2>5. \A v \in Writers : InHand(v, s) => v = w  BY <1>2, <1>3, <2>2
    <2> QED BY <2>3, <2>4, <2>5
  <1>6. ASSUME NEW s \in Slots, slots[s].st = "writing"
        PROVE  InQueue(s) \/ Returns(s) \/ (\E w \in Writers : InHand(w, s))
    <2>1. PICK c \in 0..4 : \E k : Holder(c, k, s)  BY <1>1, <1>6
    <2>2. PICK k : Holder(c, k, s)  BY <2>1
    <2>3. CASE c \in Queues
      <3>1. k \in DOMAIN writer_queues[c] /\ s \in JobSlots(writer_queues[c][k])
        BY <2>2, <2>3, HolderIs
      <3> QED BY <2>3, <3>1 DEF InQueue
    <2>4. CASE c = 2  BY <2>2, <2>4, HolderIs DEF Returns
    <2>5. CASE c = 3  BY <2>2, <2>5, HolderIs DEF Returns
    <2>6. CASE c = 4  BY <2>2, <2>6, HolderIs DEF InHand
    <2> QED BY <2>3, <2>4, <2>5, <2>6 DEF Queues
  <1> QED BY <1>4, <1>5, <1>6

\* no slot with a frame moves back on its way
LEMMA RoutesStay ==
    ASSUME UNCHANGED writers,
           \A s : InQueue(s)' => InQueue(s), \A s : Returns(s)' => Returns(s),
           \A s \in Slots : slots'[s] = slots[s] \/ (~Used(s) /\ ~Used(s)')
    PROVE  Follow /\ Release
  <1>1. \A s : \A w \in Writers : InHand(w, s)' <=> InHand(w, s)  BY DEF InHand
  <1>2. ASSUME NEW s \in Slots, Used(s)'
        PROVE  /\ Used(s) /\ slots'[s].frame = slots[s].frame
               /\ ToWrite(s)' => ToWrite(s)
               /\ Returns(s)' => Returns(s)
    <2>1. slots'[s] = slots[s]  BY <1>2
    <2>2. Used(s)  BY <1>2, <2>1 DEF Used
    <2>3. ToWrite(s)' => ToWrite(s)  BY <1>1, <2>1 DEF ToWrite
    <2> QED BY <2>1, <2>2, <2>3
  <1>3. ASSUME NEW s \in Slots, Used(s) PROVE Used(s)' /\ slots'[s].frame = slots[s].frame
    BY <1>3 DEF Used
  <1> QED BY <1>2, <1>3 DEF Follow, Release

\* a slot without a frame stays without
LEMMA UnusedStay ==
    ASSUME UNCHANGED <<mgr, mgr_queue, writer_queues, writers, files>>,
           \A s \in Slots : slots'[s] = slots[s] \/ (~Used(s) /\ ~Used(s)')
    PROVE  SameData /\ Follow /\ Release
  <1>1. \A s : (InQueue(s)' <=> InQueue(s)) /\ (Returns(s)' <=> Returns(s))
    BY DEF InQueue, Returns
  <1>2. SameData  BY DEF SameData
  <1> QED BY <1>1, <1>2, RoutesStay

\* the vsync handler starts to copy a frame
LEMMA CaptureFrames ==
    ASSUME IInv, Frames, mgr.pc \notin {"open", "dead"}, NEW c \in Slots,
           slots[c].st = "free", frame_count # 0,
           slots' = [slots EXCEPT ![c] = [st |-> "full", frame |-> frame_count]],
           frame_count' = frame_count + 1,
           UNCHANGED <<mgr, mgr_queue, writer_queues, writers, files>>
    PROVE  Frames'
  <1>0. frame_count \in Nat /\ slots \in [Slots -> SlotStates]
    BY BoundsNat DEF IInv, TypeInv, SlotStates
  <1>1. /\ slots'[c].st = "full" /\ slots'[c].frame = frame_count
        /\ \A s \in Slots : s # c => slots'[s] = slots[s]
        /\ \A s \in Slots : slots[s].frame \in Int
    BY <1>0 DEF SlotStates
  <1>2. ~Used(c) /\ Used(c)' /\ (\A s \in Slots : s # c => (Used(s)' <=> Used(s)))
    BY <1>1 DEF Used, None
  <1>3. \A s : /\ InQueue(s)' <=> InQueue(s)
               /\ Returns(s)' <=> Returns(s)
               /\ \A w \in Writers : InHand(w, s)' <=> InHand(w, s)
    BY DEF InQueue, Returns, InHand
  <1>4. \A s \in Slots : s # c => (ToWrite(s)' <=> ToWrite(s))  BY <1>1, <1>3 DEF ToWrite
  <1>5. ~Returns(c)  BY WhereIs
  <1>6. (\A f : Saved(f)' <=> Saved(f)) /\ WrittenOnce'
    <2>1. SameData  BY DEF SameData
    <2> QED BY <2>1, SavedSame DEF Frames
  <1>7. Numbered'
    <2>1. \A s \in Slots : Used(s)' => slots'[s].frame < frame_count'
      BY <1>0, <1>1, <1>2 DEF Frames, Numbered
    <2>2. \A f \in Nat \ {None} : Saved(f)' => f < frame_count'
      BY <1>0, <1>6 DEF Frames, Numbered
    <2> QED BY <2>1, <2>2 DEF Numbered
  <1>8. HeldOnce'
    <2> SUFFICES ASSUME NEW s \in Slots, NEW t \in Slots, Used(s)', Used(t)',
                        slots'[s].frame = slots'[t].frame, s # t
                 PROVE  FALSE
      BY DEF HeldOnce
    <2>1. CASE s # c /\ t # c  BY <1>1, <1>2, <2>1 DEF Frames, HeldOnce
    <2>2. CASE s = c  BY <1>0, <1>1, <1>2, <2>2 DEF Frames, Numbered
    <2>3. CASE t = c  BY <1>0, <1>1, <1>2, <2>3 DEF Frames, Numbered
    <2> QED BY <2>1, <2>2, <2>3
  <1>9. NoneMissing'
    <2> SUFFICES ASSUME NEW f \in 1..frame_count' - 1
                 PROVE  Saved(f)' \/ \E s \in Slots : Used(s)' /\ slots'[s].frame = f
      BY DEF NoneMissing
    <2>1. CASE f = frame_count  BY <1>1, <1>2, <2>1
    <2>2. CASE f # frame_count
      <3>1. f \in 1..frame_count - 1  BY <1>0, <2>2
      <3>2. Saved(f) \/ \E s \in Slots : Used(s) /\ slots[s].frame = f
        BY <3>1 DEF Frames, NoneMissing
      <3> QED BY <1>1, <1>2, <1>6, <3>2
    <2> QED BY <2>1, <2>2
  <1>10. NotYet'
    <2> SUFFICES ASSUME NEW s \in Slots, NEW f, Has(s, f)', ToWrite(s)' PROVE ~Saved(f)'
      BY DEF NotYet
    <2>1. CASE s = c
      <3>1. ~Saved(frame_count)  BY <1>0 DEF Frames, Numbered, None
      <3>2. f = frame_count  BY <1>1, <2>1 DEF Has
      <3> QED BY <1>6, <3>1, <3>2
    <2>2. CASE s # c
      <3>1. Has(s, f) /\ ToWrite(s)  BY <1>1, <1>2, <1>4, <2>2 DEF Has
      <3> QED BY <1>6, <3>1 DEF Frames, NotYet
    <2> QED BY <2>1, <2>2
  <1>11. Already'
    <2> SUFFICES ASSUME NEW s \in Slots, NEW f, Has(s, f)', Returns(s)' PROVE Saved(f)'
      BY DEF Already
    <2>1. s # c  BY <1>3, <1>5
    <2>2. Has(s, f) /\ Returns(s)  BY <1>1, <1>2, <1>3, <2>1 DEF Has
    <2> QED BY <1>6, <2>2 DEF Frames, Already
  <1> QED BY <1>6, <1>7, <1>8, <1>9, <1>10, <1>11 DEF Frames

LEMMA FramesOfCamera ==
    ASSUME IInv, Frames, mgr.pc \notin {"open", "dead"},
           Camera \/ DmaDone \/ TakeSlot \/ ReleaseSlot
    PROVE  Frames'
  <1>0. /\ UNCHANGED <<mgr, mgr_queue, writer_queues, writers, files>>
        /\ slots \in [Slots -> SlotStates]
    BY CameraSlots DEF IInv, TypeInv, SlotStates
  <1>s. ASSUME UNCHANGED frame_count,
               \A s \in Slots : slots'[s] = slots[s] \/ (~Used(s) /\ ~Used(s)')
        PROVE  Frames'
    BY <1>0, <1>s, UnusedStay, FramesStay
  <1>m. ASSUME NEW c, c \in Slots => slots[c].st = "free", slots' = Mark({c}, "locked")
        PROVE  \A s \in Slots : slots'[s] = slots[s] \/ (~Used(s) /\ ~Used(s)')
    <2> TAKE s \in Slots
    <2>1. CASE s # c  BY <1>m, <2>1 DEF Mark
    <2>2. CASE s = c
      <3>1. "locked" \in Statuses  BY DEF Statuses
      <3>2. slots'[s].st = "locked"  BY <1>0, <1>m, <2>2, <3>1, MarkIs
      <3> QED BY <1>m, <2>2, <3>2 DEF Used
    <2> QED BY <2>1, <2>2
  <1>1. CASE VsyncBusy \/ SettingsChanged \/ DmaDone
    <2>1. UNCHANGED <<slots, frame_count>>
      BY <1>1 DEF VsyncBusy, SettingsChanged, DmaDone
    <2> QED BY <1>s, <2>1
  <1>2. CASE CaptureFrame
    <2>1. CASE frame_count = 0
      <3>1. frame_count' = 1 /\ UNCHANGED slots  BY <1>2, <2>1 DEF CaptureFrame
      <3>2. SameData /\ Follow /\ Release  BY <1>0, <3>1, UnusedStay
      <3>3. (\A f : Saved(f)' <=> Saved(f)) /\ WrittenOnce'  BY <3>2, SavedSame DEF Frames
      <3>4. \A s \in Slots : slots[s].frame \in Int  BY <1>0 DEF SlotStates
      <3>5. Numbered'
        <4>1. \A s \in Slots : Used(s)' => slots'[s].frame < frame_count'
          BY <2>1, <3>1, <3>2, <3>4 DEF Frames, Numbered, Follow
        <4>2. \A f \in Nat \ {None} : Saved(f)' => f < frame_count'
          BY <2>1, <3>1, <3>3 DEF Frames, Numbered
        <4> QED BY <4>1, <4>2 DEF Numbered
      <3>6. NoneMissing'  BY <3>1 DEF NoneMissing
      <3>7. HeldOnce'  BY <3>2 DEF Frames, HeldOnce, Follow
      <3>8. NotYet' /\ Already'  BY <3>2, <3>3 DEF Frames, NotYet, Already, Follow, Has
      <3> QED BY <3>3, <3>5, <3>6, <3>7, <3>8 DEF Frames
    <2>2. CASE frame_count # 0 /\ capture_slot' = None
      <3>1. UNCHANGED <<slots, frame_count>>  BY <1>2, <2>2 DEF CaptureFrame
      <3> QED BY <1>s, <3>1
    <2>3. CASE frame_count # 0 /\ capture_slot' # None
      <3>1. /\ capture_slot' = NextCaptureSlot /\ frame_count' = frame_count + 1
            /\ slots' = [slots EXCEPT ![capture_slot'] = [st |-> "full", frame |-> frame_count]]
        BY <1>2, <2>3 DEF CaptureFrame
      <3>2. NextCaptureSlot \in Slots /\ slots[NextCaptureSlot].st = "free"
        BY <2>3, <3>1, NextCaptureSlotIn DEF Free
      <3>3. PICK c \in Slots : c = NextCaptureSlot /\ c = capture_slot'  BY <3>1, <3>2
      <3>4. /\ slots[c].st = "free"
            /\ slots' = [slots EXCEPT ![c] = [st |-> "full", frame |-> frame_count]]
        BY <3>1, <3>2, <3>3
      <3> QED BY <1>0, <2>3, <3>1, <3>4, CaptureFrames
    <2> QED BY <2>1, <2>2, <2>3
  <1>3. CASE SkipFrame
    <2>1. UNCHANGED frame_count /\ capture_slot' = NextCaptureSlot /\ FreeGroups # {}
      BY <1>3 DEF SkipFrame
    <2>2. CASE UNCHANGED slots  BY <1>s, <2>1, <2>2
    <2>3. CASE slots' = Mark({capture_slot'}, "locked")
      <3>1. NextCaptureSlot \in Slots => slots[NextCaptureSlot].st = "free"
        BY NextCaptureSlotIn, SlotsFinite DEF Free, None
      <3>2. PICK c : c = NextCaptureSlot  OBVIOUS
      <3>3. \A s \in Slots : slots'[s] = slots[s] \/ (~Used(s) /\ ~Used(s)')
        BY <1>m, <2>1, <2>3, <3>1, <3>2
      <3> QED BY <1>s, <2>1, <3>3
    <2> QED BY <1>3, <2>2, <2>3 DEF SkipFrame
  <1>4. CASE TakeSlot
    <2>1. UNCHANGED frame_count  BY <1>4 DEF TakeSlot, recVars
    <2>2. CASE UNCHANGED slots  BY <1>s, <2>1, <2>2
    <2>3. CASE \E m \in Slots : Free(m) /\ slots' = Mark({m}, "locked")
      <3>1. PICK m \in Slots : slots[m].st = "free" /\ slots' = Mark({m}, "locked")
        BY <2>3 DEF Free
      <3>2. \A s \in Slots : slots'[s] = slots[s] \/ (~Used(s) /\ ~Used(s)')
        BY <1>m, <3>1
      <3> QED BY <1>s, <2>1, <3>2
    <2>4. TypeInv  BY DEF IInv
    <2> QED BY <1>4, <2>2, <2>3, <2>4, TakeIs
  <1>5. CASE ReleaseSlot
    <2>1. UNCHANGED frame_count  BY <1>5 DEF ReleaseSlot, recVars
    <2>2. PICK m \in meta : slots' = [slots EXCEPT ![m] = [st |-> "full", frame |-> None]]
      BY <1>5 DEF ReleaseSlot
    <2>3. m \in Slots /\ slots[m].st = "locked"  BY DEF IInv, TypeInv, SoundInv
    <2>4. slots'[m].frame = None /\ \A s \in Slots : s # m => slots'[s] = slots[s]
      BY <1>0, <2>2, <2>3
    <2>5. \A s \in Slots : slots'[s] = slots[s] \/ (~Used(s) /\ ~Used(s)')
      BY <2>3, <2>4 DEF Used
    <2> QED BY <1>s, <2>1, <2>5
  <1> QED BY <1>1, <1>2, <1>3, <1>4, <1>5 DEF Camera

-----------------------------------------------------------------------------
(* Frames: the steps of the manager.                                       *)

LEMMA ManagerReturns ==
    ASSUME IInv, Manager, ~OpenFiles
    PROVE  /\ UNCHANGED <<writers, frame_count>>
           /\ \A s : Returns(s)' => Returns(s)
  <1>0. /\ FlowInv /\ mgr \in Managers /\ mgr_queue \in Seq(ToManager)
        /\ JobSlots(NoJob) = {}
    BY DEF IInv, TypeInv, JobSlots, NoJob
  <1>1. UNCHANGED <<writers, frame_count>>
    BY DEF Manager, Prepare, Begin, MgrLoop, FillQueue, NothingReturned, WriteReturned,
           HandleWanted, CloseWanted, Stopping, Drain, AbortWriters, Flush, CleanUp, recVars
  <1>2. CASE MgrLoop
    <2>1. mgr.job = NoJob  BY <1>0, <1>2 DEF MgrLoop, FlowInv
    <2>2. \/ /\ UNCHANGED mgr_queue
             /\ \/ mgr' = [mgr EXCEPT !.pc = "stopping"]
                \/ mgr' = [mgr EXCEPT !.pc = "cleanup"]
          \/ UNCHANGED mgr_queue /\ mgr' = [mgr EXCEPT !.pc = "fill", !.at = 0, !.job = NoJob]
          \/ /\ mgr_queue # <<>> /\ mgr_queue' = Tail(mgr_queue)
             /\ mgr' = [mgr EXCEPT !.pc = "fill", !.at = 0, !.job = Head(mgr_queue)]
      BY <1>2, Zenon DEF MgrLoop
    <2>3. CASE /\ UNCHANGED mgr_queue
               /\ \/ mgr' = [mgr EXCEPT !.pc = "stopping"]
                  \/ mgr' = [mgr EXCEPT !.pc = "cleanup"]
      <3>1. mgr'.job = mgr.job  BY <1>0, <2>3, MgrSet, ZenonT(60)
      <3> QED BY <1>1, <2>3, <3>1 DEF Returns
    <2>4. CASE UNCHANGED mgr_queue /\ mgr' = [mgr EXCEPT !.pc = "fill", !.at = 0, !.job = NoJob]
      <3>1. mgr'.job = mgr.job  BY <1>0, <2>1, <2>4 DEF Managers
      <3> QED BY <1>1, <2>4, <3>1 DEF Returns
    <2>5. CASE /\ mgr_queue # <<>> /\ mgr_queue' = Tail(mgr_queue)
               /\ mgr' = [mgr EXCEPT !.pc = "fill", !.at = 0, !.job = Head(mgr_queue)]
      <3>1. mgr'.job = Head(mgr_queue)  BY <1>0, <2>5 DEF Managers
      <3>2. PICK q \in Seq(ToManager) : q = mgr_queue  BY <1>0
      <3>3. /\ Head(q) = q[1] /\ 1 \in DOMAIN q
            /\ \A k \in DOMAIN Tail(q) : k + 1 \in DOMAIN q /\ Tail(q)[k] = q[k + 1]
        BY <2>5, <3>2
      <3> QED BY <1>1, <2>5, <3>1, <3>2, <3>3 DEF Returns
    <2> QED BY <2>2, <2>3, <2>4, <2>5
  <1>3. CASE Flush
    <2>1. mgr'.job = mgr.job /\ DOMAIN mgr_queue' = {}  BY <1>0, <1>3, MgrSet DEF Flush
    <2> QED BY <1>1, <2>1 DEF Returns
  <1>4. CASE ~MgrLoop /\ ~Flush
    <2>1. UNCHANGED mgr_queue
      BY <1>4 DEF Manager, Prepare, Begin, FillQueue, NothingReturned, WriteReturned,
             HandleWanted, CloseWanted, Stopping, Drain, AbortWriters, CleanUp
    <2>2. mgr'.job = mgr.job \/ mgr'.job = NoJob
      <3>1. CASE NothingReturned \/ WriteReturned \/ HandleWanted \/ CloseWanted
        <4>1. EndLoop
          BY <3>1 DEF NothingReturned, WriteReturned, HandleWanted, CloseWanted
        <4> QED BY <1>0, <4>1, EndLoopIs
      <3>2. CASE Begin
        <4>1. mgr' = [mgr EXCEPT !.pc = "loop", !.used = FALSE, !.job = NoJob]
          BY <3>2 DEF Begin
        <4> QED BY <1>0, <4>1 DEF Managers
      <3>3. CASE Prepare \/ Stopping \/ Drain \/ CleanUp \/ FillQueue \/ AbortWriters
        <4>1. \/ \E pc : mgr' = [mgr EXCEPT !.pc = pc]
              \/ \E at : mgr' = [mgr EXCEPT !.at = at]
              \/ \E at, pc : mgr' = [mgr EXCEPT !.pc = pc, !.at = at]
              \/ \E u, pc : mgr' = [mgr EXCEPT !.pc = pc, !.used = u]
          BY <3>3, Zenon DEF Prepare, Stopping, Drain, CleanUp, FillQueue, FillNext, AbortWriters
        <4> QED BY <1>0, <4>1 DEF Managers
      <3> QED BY <1>4, <3>1, <3>2, <3>3 DEF Manager
    <2> QED BY <1>0, <1>1, <2>1, <2>2 DEF Returns
  <1> QED BY <1>2, <1>3, <1>4

LEMMA ManagerQueues ==
    ASSUME IInv, Manager, ~OpenFiles, ~FillQueue
    PROVE  \A s : InQueue(s)' => InQueue(s)
  <1>0. TypeInv /\ mgr \in Managers  BY DEF IInv, TypeInv
  <1>1. CASE HandleWanted
    <2>1. mgr.job \in HandleJobs  BY <1>0, <1>1, HandleSent
    <2>2. PICK q \in Queues : q = mgr.job.writer
      BY <2>1, QueueOne, WriterAssumption DEF HandleJobs
    <2>3. PICK j \in HandleJobs :
              writer_queues' = [writer_queues EXCEPT ![mgr.job.writer] = Append(@, j)]
      BY <1>0, <1>1, HandleSent
    <2>4. j \in ToWriter /\ writer_queues' = [writer_queues EXCEPT ![q] = Append(@, j)]
      BY <2>2, <2>3 DEF ToWriter
    <2>5. JobSlots(j) = {}  BY DEF JobSlots, HandleJobs
    <2>6. \A p \in Queues : \A k : \A s :
            (k \in DOMAIN writer_queues'[p] /\ s \in JobSlots(writer_queues'[p][k]))
              <=> (k \in DOMAIN writer_queues[p] /\ s \in JobSlots(writer_queues[p][k]))
      BY <1>0, <2>4, <2>5, SlotsQueued
    <2> QED BY <2>6 DEF InQueue
  <1>2. CASE AbortWriters
    <2>1. PICK q \in Queues, j \in ToWriter : q = mgr.at /\ j = AbortJob
      <3>1. mgr.at \in Queues  BY <1>0, MgrIs DEF Queues
      <3>2. AbortJob \in ToWriter
        BY SizeAssumption DEF AbortJob, WriteJob, ToWriter, WriteJobs, Queues, None
      <3> QED BY <3>1, <3>2
    <2>2. writer_queues' = [writer_queues EXCEPT ![q] = Append(@, j)]
      BY <1>2, <2>1 DEF AbortWriters
    <2>3. JobSlots(j) = {}  BY <2>1 DEF JobSlots, AbortJob, WriteJob, None
    <2>4. \A p \in Queues : \A k : \A s :
            (k \in DOMAIN writer_queues'[p] /\ s \in JobSlots(writer_queues'[p][k]))
              <=> (k \in DOMAIN writer_queues[p] /\ s \in JobSlots(writer_queues[p][k]))
      BY <1>0, <2>2, <2>3, SlotsQueued
    <2> QED BY <2>4 DEF InQueue
  <1>3. CASE Flush
    <2>1. \A q \in Queues : DOMAIN writer_queues'[q] = {}  BY <1>3 DEF Flush
    <2> QED BY <2>1 DEF InQueue
  <1>4. CASE ~HandleWanted /\ ~AbortWriters /\ ~Flush
    <2>1. UNCHANGED writer_queues
      BY <1>4 DEF Manager, Prepare, Begin, MgrLoop, NothingReturned, WriteReturned,
             CloseWanted, Stopping, Drain, CleanUp
    <2> QED BY <2>1 DEF InQueue
  <1> QED BY <1>1, <1>2, <1>3, <1>4

LEMMA ManagerData ==
    ASSUME IInv, Manager, ~OpenFiles
    PROVE  SameData
  <1>0. files \in Seq(Files) /\ mgr \in Managers  BY DEF IInv, TypeInv
  <1>1. CASE HandleWanted
    <2>1. PICK f : f.data = <<>> /\ files' = Append(files, f)
      <3>1. [NewFile EXCEPT !.num = Len(files)].data = <<>>
            /\ [NewFile EXCEPT !.gone = TRUE].data = <<>>
        BY DEF NewFile
      <3> QED BY <1>1, <3>1 DEF HandleWanted
    <2>2. /\ DOMAIN files \subseteq DOMAIN files'
          /\ \A i \in DOMAIN files : files'[i] = files[i]
          /\ \A i \in DOMAIN files' : i \notin DOMAIN files => files'[i] = f
      BY <1>0, <2>1
    <2> QED BY <2>1, <2>2 DEF SameData
  <1>2. CASE CloseWanted
    <2>1. mgr.job \in CloseJobs
      <3>1. mgr.job \in MgrJobs /\ mgr.job.type = "close"
        BY <1>0, <1>2, MgrIs DEF CloseWanted, Returned
      <3> QED BY <3>1 DEF MgrJobs, ToManager, WriteJobs, HandleJobs, NoJob
    <2>2. PICK i \in Nat, n \in Nat, c \in Nat :
              i = mgr.job.file /\ n = mgr.job.num /\ c = mgr.job.frames
      BY <2>1 DEF CloseJobs
    <2>3. files' = Closed(i, n, c)  BY <1>2, <2>2 DEF CloseWanted
    <2>5. PICK g : g = Closed(i, n, c)  OBVIOUS
    <2>6. ClosedAs(g, i, n, c)
      <3>1. files \in Seq(Files)  BY <1>0
      <3> QED BY ONLY <2>5, <3>1, i \in Nat, n \in Nat, c \in Nat, ClosedIs
    <2>4. /\ DOMAIN files' = DOMAIN files
          /\ \A k \in DOMAIN files : k # i => files'[k] = files[k]
          /\ i \in DOMAIN files => files'[i].data = files[i].data
      BY <2>3, <2>5, <2>6 DEF ClosedAs
    <2> QED BY <2>4 DEF SameData
  <1>3. CASE ~HandleWanted /\ ~CloseWanted
    <2>1. CASE Stopping
      <3>1. files' = [i \in DOMAIN files |->
                [files[i] EXCEPT !.gone = @ \/ (i > 1 /\ files[i].data = <<>>)]]
        BY <2>1 DEF Stopping
      <3>2. ASSUME NEW i \in DOMAIN files PROVE files'[i].data = files[i].data
        <4>1. files[i] \in Files  BY <1>0
        <4>2. PICK g : g = (files[i].gone \/ (i > 1 /\ files[i].data = <<>>))  OBVIOUS
        <4>3. files'[i] = [files[i] EXCEPT !.gone = g]  BY <3>1, <4>2
        <4> QED BY <4>1, <4>3 DEF Files
      <3> QED BY <3>1, <3>2 DEF SameData
    <2>2. CASE ~Stopping
      <3>1. UNCHANGED files
        BY <1>3, <2>2 DEF Manager, Prepare, Begin, MgrLoop, FillQueue, NothingReturned,
               WriteReturned, Drain, AbortWriters, Flush, CleanUp
      <3> QED BY <3>1 DEF SameData
    <2> QED BY <2>1, <2>2
  <1> QED BY <1>1, <1>2, <1>3

\* slots are handed to a writer
LEMMA FramesFilled ==
    ASSUME IInv, Frames, mgr.pc \notin {"open", "dead"}, FillQueue
    PROVE  Frames'
  <1>0. /\ TypeInv /\ slots \in [Slots -> SlotStates] /\ "writing" \in Statuses
        /\ Manager /\ ~OpenFiles
    BY DEF IInv, TypeInv, SlotStates, Statuses, Manager, FillQueue, OpenFiles
  <1>1. /\ SameData /\ UNCHANGED <<writers, frame_count>>
        /\ \A s : Returns(s)' => Returns(s)
    BY <1>0, ManagerReturns, ManagerData
  <1>2. CASE BlocksFor(mgr.at) = {}
    <2>1. UNCHANGED <<slots, writer_queues>>  BY <1>2 DEF FillQueue
    <2>2. \A s : InQueue(s)' => InQueue(s)  BY <2>1 DEF InQueue
    <2> QED BY <1>1, <2>1, <2>2, RoutesStay, FramesStay
  <1>3. CASE BlocksFor(mgr.at) # {}
    <2>1. PICK b \in BlocksFor(mgr.at) : \E n \in Shortened(b[2]) :
              Enqueue(mgr.at, <<b[1], n>>)
      BY <1>3 DEF FillQueue
    <2>2. PICK n \in Shortened(b[2]) : Enqueue(mgr.at, <<b[1], n>>)  BY <2>1
    <2>3. mgr.at \in Queues  BY <1>0, MgrIs DEF Queues, TypeInv
    <2>4. /\ b[1] \in Nat /\ n \in Nat \ {0} /\ n <= ChunkSize
          /\ \A s \in b[1] .. b[1] + n - 1 : s \in Slots /\ slots[s].st = "full"
      BY <2>3, BlockFound
    <2>5. PICK w \in Queues, a \in Nat : w = mgr.at /\ a = b[1]  BY <2>3, <2>4
    <2>6. PICK S : S = a .. a + n - 1  OBVIOUS
    <2>7. PICK jb \in ToWriter : jb = WriteJob(w, a, n) /\ JobSlots(jb) = S
      <3>1. n \in 0..ChunkSize  BY <2>4, SizeAssumption
      <3>2. WriteJob(w, a, n) \in ToWriter /\ JobSlots(WriteJob(w, a, n)) = S
        BY <2>6, <3>1 DEF WriteJob, ToWriter, WriteJobs, JobSlots
      <3> QED BY <3>2
    <2>8. /\ slots' = Mark(S, "writing")
          /\ writer_queues' = [writer_queues EXCEPT ![w] = Append(@, jb)]
      BY <2>2, <2>5, <2>6, <2>7 DEF Enqueue
    <2>9. \A s \in S : s \in Slots /\ slots[s].st = "full"  BY <2>4, <2>5, <2>6
    <2>10. \A s \in Slots : /\ slots'[s].st = IF s \in S THEN "writing" ELSE slots[s].st
                            /\ slots'[s].frame = slots[s].frame
      BY <1>0, <2>8, MarkIs
    <2>11. \A s : InQueue(s)' => InQueue(s) \/ s \in S
      <3>1. /\ \A p \in Queues : p # w => writer_queues'[p] = writer_queues[p]
            /\ Len(writer_queues[w]) \in Nat
            /\ DOMAIN writer_queues[w] = 1..Len(writer_queues[w])
            /\ DOMAIN writer_queues'[w] = 1..Len(writer_queues[w]) + 1
            /\ writer_queues'[w][Len(writer_queues[w]) + 1] = jb
            /\ \A k \in DOMAIN writer_queues[w] : writer_queues'[w][k] = writer_queues[w][k]
        BY <1>0, <2>8, GrownIs, ZenonT(60)
      <3>2. \A k \in DOMAIN writer_queues'[w] :
                k \in DOMAIN writer_queues[w] \/ writer_queues'[w][k] = jb
        BY <3>1
      <3> QED BY <2>7, <3>1, <3>2 DEF InQueue
    <2>12. \A s \in Slots : (Used(s)' <=> Used(s)) /\ (ToWrite(s)' => ToWrite(s))
      <3> TAKE s \in Slots
      <3>1. Used(s)' <=> Used(s)  BY <2>9, <2>10 DEF Used
      <3>2. ASSUME s \in S PROVE ToWrite(s)' => ToWrite(s)  BY <2>9, <3>2 DEF ToWrite
      <3>3. ASSUME s \notin S PROVE ToWrite(s)' => ToWrite(s)
        BY <1>1, <2>10, <2>11, <3>3 DEF ToWrite, InHand
      <3> QED BY <3>1, <3>2, <3>3
    <2>13. Follow /\ Release  BY <1>1, <2>10, <2>12 DEF Follow, Release
    <2> QED BY <1>1, <2>13, FramesStay
  <1> QED BY <1>2, <1>3

LEMMA FramesOfManager ==
    ASSUME IInv, Frames, mgr.pc \notin {"open", "dead"}, mgr'.pc # "open", Manager
    PROVE  Frames'
  <1>0. ~OpenFiles  BY DEF OpenFiles
  <1>1. /\ SameData /\ UNCHANGED <<writers, frame_count>>
        /\ \A s : Returns(s)' => Returns(s)
    BY <1>0, ManagerReturns, ManagerData
  <1>2. CASE FillQueue  BY <1>2, FramesFilled
  <1>3. CASE WriteReturned
    <2>1. \A s : InQueue(s)' => InQueue(s)
      <3>1. ~FillQueue  BY <1>3 DEF WriteReturned, FillQueue, Returned
      <3> QED BY <1>0, <3>1, ManagerQueues
    <2>2. \A s \in Slots : /\ slots'[s].st = IF s \in JobSlots(mgr.job) THEN "free"
                                             ELSE slots[s].st
                           /\ slots'[s].frame = slots[s].frame
      <3>1. slots \in [Slots -> SlotStates] /\ "free" \in Statuses
        BY DEF IInv, TypeInv, SlotStates, Statuses
      <3>2. slots' = Mark(JobSlots(mgr.job), "free")  BY <1>3 DEF WriteReturned
      <3>3. PICK S : S = JobSlots(mgr.job)  OBVIOUS
      <3> QED BY <3>1, <3>2, <3>3, MarkIs
    <2>3. ASSUME NEW s \in Slots, Used(s)'
          PROVE  /\ Used(s) /\ slots'[s].frame = slots[s].frame
                 /\ ToWrite(s)' => ToWrite(s)
                 /\ Returns(s)' => Returns(s)
      <3>1. s \notin JobSlots(mgr.job)  BY <2>2, <2>3 DEF Used
      <3>2. Used(s)  BY <2>2, <2>3, <3>1 DEF Used
      <3>3. ToWrite(s)' => ToWrite(s)  BY <1>1, <2>1, <2>2, <3>1 DEF ToWrite, InHand
      <3> QED BY <1>1, <2>2, <3>2, <3>3
    <2>4. ASSUME NEW s \in Slots, Used(s)
          PROVE  (Used(s)' /\ slots'[s].frame = slots[s].frame) \/ Returns(s)
      <3>1. CASE s \in JobSlots(mgr.job)  BY <3>1 DEF Returns
      <3>2. CASE s \notin JobSlots(mgr.job)  BY <2>2, <2>4, <3>2 DEF Used
      <3> QED BY <3>1, <3>2
    <2> QED BY <1>1, <2>3, <2>4, FramesStay DEF Follow, Release
  <1>4. CASE ~FillQueue /\ ~WriteReturned
    <2>1. \A s \in Slots : slots'[s] = slots[s] \/ (~Used(s) /\ ~Used(s)')
      <3>1. CASE Prepare
        <4>1. mgr' # [mgr EXCEPT !.pc = "open"]
          <5>1. mgr \in Managers  BY DEF IInv, TypeInv
          <5> QED BY <5>1, MgrSet
        <4> QED BY <3>1, <4>1 DEF Prepare
      <3>2. CASE Stopping \/ CleanUp
        <4>1. SoundStops /\ TypeInv /\ \A m \in meta : slots[m].st = "locked"
          BY <3>2 DEF Stopping, CleanUp, IInv, SoundInv
        <4> QED BY <4>1, SoundStopsIs DEF Used
      <3>3. CASE Begin \/ MgrLoop \/ NothingReturned \/ HandleWanted \/ CloseWanted
                   \/ Drain \/ AbortWriters \/ Flush
        BY <3>3 DEF Begin, MgrLoop, NothingReturned, HandleWanted, CloseWanted, Drain,
                    AbortWriters, Flush
      <3> QED BY <1>0, <1>4, <3>1, <3>2, <3>3 DEF Manager
    <2>2. \A s : InQueue(s)' => InQueue(s)  BY <1>0, <1>4, ManagerQueues
    <2> QED BY <1>1, <2>1, <2>2, RoutesStay, FramesStay
  <1> QED BY <1>2, <1>3, <1>4

-----------------------------------------------------------------------------
(* Frames: the steps of the writers.                                       *)

\* d is put at the end of file i, behind the m slots that are there
Put(i, d, m) ==
    /\ m \in Nat /\ Len(d) \in Nat /\ DOMAIN files' = DOMAIN files
    /\ \A j \in DOMAIN files : \A k \in DOMAIN files'[j].data : k \in Int /\
          \/ k \in DOMAIN files[j].data /\ files'[j].data[k] = files[j].data[k]
          \/ j = i /\ k - m \in 1..Len(d) /\ files'[j].data[k] = d[k - m]
    /\ \A j \in DOMAIN files : \A k \in DOMAIN files[j].data :
          k \in DOMAIN files'[j].data /\ files'[j].data[k] = files[j].data[k]
    /\ \A x \in 1..Len(d) :
          m + x \in DOMAIN files'[i].data /\ files'[i].data[m + x] = d[x]

LEMMA DataPut ==
    ASSUME files \in Seq(Files), NEW i \in DOMAIN files, NEW d \in Seq(0..MaxFrames),
           files' = [files EXCEPT ![i].data = @ \o d]
    PROVE  Put(i, d, Len(files[i].data))
  <1>0. i \in Nat /\ \A j \in DOMAIN files : files[j] \in Files  OBVIOUS
  <1>1. /\ DOMAIN files' = DOMAIN files
        /\ \A j \in DOMAIN files : j # i => files'[j] = files[j]
        /\ files'[i].data = files[i].data \o d
    BY <1>0, DataStep
  <1>2. \A j \in DOMAIN files : files[j].data \in Seq(0..MaxFrames)  BY <1>0 DEF Files
  <1>3. PICK b \in Seq(0..MaxFrames) : b = files[i].data  BY <1>2
  <1>4. PICK e, m : e = b \o d /\ m = Len(b)  OBVIOUS
  <1>5. /\ m \in Nat /\ Len(d) \in Nat /\ DOMAIN d = 1..Len(d) /\ DOMAIN b = 1..m
        /\ \A k \in DOMAIN b : k \in DOMAIN e /\ e[k] = b[k]
        /\ \A x \in 1..Len(d) : m + x \in DOMAIN e /\ e[m + x] = d[x]
    <2>1. PICK S : S = 0..MaxFrames  OBVIOUS
    <2>2. b \in Seq(S) /\ d \in Seq(S)  BY <2>1
    <2>3. /\ \A k \in DOMAIN b : k \in DOMAIN (b \o d) /\ (b \o d)[k] = b[k]
          /\ \A x \in DOMAIN d : /\ Len(b) + x \in DOMAIN (b \o d)
                                 /\ (b \o d)[Len(b) + x] = d[x]
      BY <2>2, JoinedAt
    <2>4. DOMAIN d = 1..Len(d) /\ Len(d) \in Nat /\ DOMAIN b = 1..Len(b) /\ Len(b) \in Nat
      OBVIOUS
    <2> QED BY <1>4, <2>3, <2>4
  <1>6. \A k \in DOMAIN e : k \in Int /\
              \/ k \in DOMAIN b /\ e[k] = b[k]
              \/ k - m \in 1..Len(d) /\ e[k] = d[k - m]
    BY <1>4, <1>5
  <1>7. ASSUME NEW j \in DOMAIN files, NEW k \in DOMAIN files'[j].data
        PROVE  k \in Int /\
                 \/ k \in DOMAIN files[j].data /\ files'[j].data[k] = files[j].data[k]
                 \/ j = i /\ k - m \in 1..Len(d) /\ files'[j].data[k] = d[k - m]
    <2>1. CASE j = i  BY <1>1, <1>3, <1>4, <1>6, <1>7, <2>1
    <2>2. CASE j # i
      <3>1. files'[j] = files[j]  BY <1>1, <2>2
      <3>2. DOMAIN files[j].data \subseteq Int  BY <1>2
      <3> QED BY <1>7, <3>1, <3>2
    <2> QED BY <2>1, <2>2
  <1>8. ASSUME NEW j \in DOMAIN files, NEW k \in DOMAIN files[j].data
        PROVE  k \in DOMAIN files'[j].data /\ files'[j].data[k] = files[j].data[k]
    <2>1. CASE j = i  BY <1>1, <1>3, <1>4, <1>5, <1>8, <2>1
    <2>2. CASE j # i  BY <1>1, <1>8, <2>2
    <2> QED BY <2>1, <2>2
  <1>9. \A x \in 1..Len(d) : m + x \in DOMAIN files'[i].data /\ files'[i].data[m + x] = d[x]
    BY <1>1, <1>3, <1>4, <1>5
  <1>10. Put(i, d, m)  BY <1>1, <1>5, <1>7, <1>8, <1>9 DEF Put
  <1> QED BY <1>3, <1>4, <1>10

LEMMA SlotAt ==
    ASSUME NEW a \in Nat, NEW n \in Nat, NEW s \in a .. a + n - 1
    PROVE  \E x \in 1..n : s = a + x - 1
  <1>1. s - a + 1 \in 1..n /\ s = a + (s - a + 1) - 1  OBVIOUS
  <1> QED BY <1>1

\* where slot k of file y, with frame f, comes from
From(i, d, m, y, k, f) ==
    \/ k \in DOMAIN files[y].data /\ files[y].data[k] = f
    \/ y = i /\ k - m \in 1..Len(d) /\ d[k - m] = f

\* if the frames of d differ, and none of them is in a file
LEMMA OnceAfter ==
    ASSUME NEW i, NEW d, NEW m, Put(i, d, m), WrittenOnce,
           \A x \in 1..Len(d) : d[x] # None => ~Saved(d[x]),
           \A x, u \in 1..Len(d) : d[x] = d[u] /\ d[x] # None => x = u
    PROVE  WrittenOnce'
  <1>1. ASSUME NEW y \in DOMAIN files, NEW k \in DOMAIN files'[y].data,
               NEW f, f = files'[y].data[k]
        PROVE  k \in Int /\ From(i, d, m, y, k, f)
    BY <1>1 DEF Put, From
  <1>2. ASSUME NEW y \in DOMAIN files, NEW z \in DOMAIN files,
               NEW k \in Int, NEW l \in Int, NEW f, f # None,
               From(i, d, m, y, k, f), From(i, d, m, z, l, f)
        PROVE  y = z /\ k = l
    <2>0. m \in Nat /\ Len(d) \in Nat  BY DEF Put
    <2>1. \A x \in 1..Len(d) : d[x] = f => ~Saved(f)  BY <1>2
    <2>2. CASE k \in DOMAIN files[y].data /\ files[y].data[k] = f
      <3>1. Saved(f)  BY <2>2 DEF Saved
      <3>2. l \in DOMAIN files[z].data /\ files[z].data[l] = f  BY <1>2, <2>1, <3>1 DEF From
      <3> QED BY <1>2, <2>2, <3>2 DEF WrittenOnce
    <2>3. CASE y = i /\ k - m \in 1..Len(d) /\ d[k - m] = f
      <3>1. ~Saved(f)  BY <2>1, <2>3
      <3>2. ~(l \in DOMAIN files[z].data /\ files[z].data[l] = f)  BY <3>1 DEF Saved
      <3>3. z = i /\ l - m \in 1..Len(d) /\ d[l - m] = f  BY <1>2, <3>2 DEF From
      <3>4. k - m = l - m  BY <1>2, <2>3, <3>3
      <3> QED BY <2>0, <2>3, <3>3, <3>4
    <2> QED BY <1>2, <2>2, <2>3 DEF From
  <1>3. DOMAIN files' = DOMAIN files  BY DEF Put
  <1>4. ASSUME NEW y \in DOMAIN files', NEW z \in DOMAIN files',
               NEW k \in DOMAIN files'[y].data, NEW l \in DOMAIN files'[z].data,
               files'[y].data[k] = files'[z].data[l] /\ files'[y].data[k] # None
        PROVE  y = z /\ k = l
    <2>1. PICK f : f = files'[y].data[k] /\ f = files'[z].data[l] /\ f # None  BY <1>4
    <2>2. k \in Int /\ From(i, d, m, y, k, f)  BY <1>1, <1>3, <2>1
    <2>3. l \in Int /\ From(i, d, m, z, l, f)  BY <1>1, <1>3, <2>1
    <2> QED BY <1>2, <1>3, <2>1, <2>2, <2>3
  <1> QED BY <1>4 DEF WrittenOnce

LEMMA InBlock ==
    ASSUME NEW a \in Nat, NEW n \in Nat, NEW k \in Nat, k <= n, NEW x \in 1..k
    PROVE  a + x - 1 \in a .. a + n - 1
  OBVIOUS

\* what is in a file now was in it before, or has been put there
LEMMA PutAdds ==
    ASSUME NEW i, NEW d, NEW m, Put(i, d, m), NEW f, Saved(f)'
    PROVE  Saved(f) \/ \E x \in 1..Len(d) : d[x] = f
  <1>1. PICK y \in DOMAIN files : \E k \in DOMAIN files'[y].data : files'[y].data[k] = f
    BY DEF Saved, Put
  <1>2. PICK k \in DOMAIN files'[y].data : files'[y].data[k] = f  BY <1>1
  <1>3. \/ k \in DOMAIN files[y].data /\ files[y].data[k] = f
        \/ k - m \in 1..Len(d) /\ d[k - m] = f
    BY <1>2 DEF Put
  <1> QED BY <1>3 DEF Saved

\* a writer puts its block, or the part of it that fits, in its file
LEMMA FramesPut ==
    ASSUME IInv, Frames, NEW w \in Writers, NEW j \in WriteJobs, j = writers[w].job,
           mgr.pc \notin {"open", "dead"},
           writers[w].error = "no", NEW i \in DOMAIN files, NEW d \in Seq(0..MaxFrames),
           Len(d) <= j.len, \A x \in 1..Len(d) : d[x] = slots[j.start + x - 1].frame,
           files' = [files EXCEPT ![i].data = @ \o d],
           UNCHANGED <<slots, frame_count>>,
           \A s \in Slots : ToWrite(s)' => ToWrite(s) /\ s \notin JobSlots(j),
           \A s \in Slots : Returns(s)' => \/ Returns(s)
                                           \/ s \in JobSlots(j) /\ Len(d) = j.len
    PROVE  Frames'
  <1>0. /\ files \in Seq(Files) /\ slots \in [Slots -> SlotStates]
        /\ MaxFrames \in Nat /\ frame_count \in Nat
    BY BoundsNat DEF IInv, TypeInv, SlotStates
  <1>1. PICK m : Put(i, d, m)  BY <1>0, DataPut
  <1>2. /\ m \in Nat /\ Len(d) \in Nat /\ DOMAIN files' = DOMAIN files
        /\ \A y \in DOMAIN files : \A k \in DOMAIN files'[y].data : k \in Int /\
              \/ k \in DOMAIN files[y].data /\ files'[y].data[k] = files[y].data[k]
              \/ y = i /\ k - m \in 1..Len(d) /\ files'[y].data[k] = d[k - m]
        /\ \A y \in DOMAIN files : \A k \in DOMAIN files[y].data :
              k \in DOMAIN files'[y].data /\ files'[y].data[k] = files[y].data[k]
        /\ \A x \in 1..Len(d) :
              m + x \in DOMAIN files'[i].data /\ files'[i].data[m + x] = d[x]
    BY <1>1 DEF Put
  \* what is in the block
  <1>3. /\ j.start \in Nat /\ j.len \in Nat
        /\ JobSlots(j) = j.start .. j.start + j.len - 1
    BY SizeAssumption DEF WriteJobs, JobSlots
  <1>4. \A s \in JobSlots(j) : s \in Slots /\ slots[s].st = "writing" /\ ToWrite(s)
    <2> TAKE s \in JobSlots(j)
    <2>1. InHand(w, s)  BY DEF InHand
    <2>2. s \in Slots /\ slots[s].st = "writing"  BY <2>1, WhereIs
    <2> QED BY <2>1, <2>2 DEF ToWrite
  <1>5. ASSUME NEW x \in 1..Len(d), d[x] # None
        PROVE  /\ j.start + x - 1 \in Slots /\ j.start + x - 1 \in JobSlots(j)
               /\ Has(j.start + x - 1, d[x]) /\ ToWrite(j.start + x - 1)
    <2>1. j.start + x - 1 \in j.start .. j.start + j.len - 1  BY <1>2, <1>3, InBlock
    <2>2. j.start + x - 1 \in JobSlots(j)  BY <1>3, <2>1
    <2> QED BY <1>4, <1>5, <2>2 DEF Has, Used
  <1>6. \A s : /\ Used(s)' <=> Used(s)
               /\ \A f : Has(s, f)' <=> Has(s, f)
    BY DEF Used, Has
  <1>7. \A f : Saved(f) => Saved(f)'
    BY <1>2 DEF Saved
  <1>8. ASSUME NEW f, Saved(f)', f # None
        PROVE  \/ Saved(f)
               \/ \E t \in JobSlots(j) : t \in Slots /\ Has(t, f) /\ ToWrite(t)
    <2>1. Saved(f) \/ \E x \in 1..Len(d) : d[x] = f  BY <1>1, <1>8, PutAdds
    <2>2. ASSUME NEW x \in 1..Len(d), d[x] = f
          PROVE  \E t \in JobSlots(j) : t \in Slots /\ Has(t, f) /\ ToWrite(t)
      BY <1>5, <1>8, <2>2
    <2> QED BY <2>1, <2>2
  <1>9. Numbered'
    <2>1. \A s \in Slots : Used(s)' => slots'[s].frame < frame_count'
      BY <1>6 DEF Frames, Numbered
    <2>2. ASSUME NEW f \in Nat \ {None}, Saved(f)' PROVE f < frame_count
      <3>1. CASE Saved(f)  BY <3>1 DEF Frames, Numbered
      <3>2. CASE ~Saved(f)
        <4>1. PICK t \in JobSlots(j) : t \in Slots /\ Has(t, f)  BY <1>8, <2>2, <3>2
        <4> QED BY <4>1 DEF Frames, Numbered, Has
      <3> QED BY <3>1, <3>2
    <2> QED BY <2>1, <2>2 DEF Numbered
  <1>10. WrittenOnce'
    <2>1. \A x \in 1..Len(d) : d[x] # None => ~Saved(d[x])
      BY <1>5 DEF Frames, NotYet
    <2>2. ASSUME NEW x \in 1..Len(d), NEW u \in 1..Len(d), d[x] = d[u], d[x] # None
          PROVE  x = u
      <3>1. /\ j.start + x - 1 \in Slots /\ Has(j.start + x - 1, d[x])
            /\ j.start + u - 1 \in Slots /\ Has(j.start + u - 1, d[x])
        BY <1>5, <2>2
      <3>2. j.start + x - 1 = j.start + u - 1  BY <3>1 DEF Frames, HeldOnce, Has
      <3> QED BY <1>2, <1>3, <3>2
    <2>3. WrittenOnce  BY DEF Frames
    <2> QED BY <1>1, <2>1, <2>2, <2>3, OnceAfter
  <1>11. HeldOnce'  BY <1>6 DEF Frames, HeldOnce
  <1>12. NoneMissing'  BY <1>6, <1>7 DEF Frames, NoneMissing
  <1>13. NotYet'
    <2> SUFFICES ASSUME NEW s \in Slots, NEW f, Has(s, f)', ToWrite(s)', Saved(f)' PROVE FALSE
      BY DEF NotYet
    <2>1. Has(s, f) /\ ToWrite(s) /\ s \notin JobSlots(j)  BY <1>6
    <2>2. ~Saved(f) /\ f # None  BY <2>1 DEF Frames, NotYet, Has, Used
    <2>3. PICK t \in JobSlots(j) : t \in Slots /\ Has(t, f)  BY <1>8, <2>2
    <2>4. s = t  BY <2>1, <2>3 DEF Frames, HeldOnce, Has
    <2> QED BY <2>1, <2>3, <2>4
  <1>14. Already'
    <2> SUFFICES ASSUME NEW s \in Slots, NEW f, Has(s, f)', Returns(s)' PROVE Saved(f)'
      BY DEF Already
    <2>1. Has(s, f)  BY <1>6
    <2>2. CASE Returns(s)  BY <1>7, <2>1, <2>2 DEF Frames, Already
    <2>3. CASE s \in JobSlots(j) /\ Len(d) = j.len
      <3>1. PICK x \in 1..Len(d) : s = j.start + x - 1
        <4>1. s \in j.start .. j.start + j.len - 1  BY <1>3, <2>3
        <4> QED BY <1>3, <2>3, <4>1, SlotAt
      <3>2. d[x] = f  BY <2>1, <3>1 DEF Has
      <3>3. m + x \in DOMAIN files'[i].data /\ files'[i].data[m + x] = f  BY <1>2, <3>2
      <3> QED BY <1>2, <3>3 DEF Saved
    <2> QED BY <2>2, <2>3
  <1> QED BY <1>9, <1>10, <1>11, <1>12, <1>13, <1>14 DEF Frames

\* a writer takes a job, gets a file or ends
LEMMA RoutesTaken ==
    ASSUME UNCHANGED slots,
           \A s : InQueue(s)' => InQueue(s), \A s : Returns(s)' => Returns(s),
           \A v \in Writers : \A s : InHand(v, s)' =>
              InQueue(s) \/ (InHand(v, s) /\ writers'[v].error = writers[v].error)
    PROVE  Follow /\ Release
  <1>1. \A s \in Slots : Used(s)' <=> Used(s)  BY DEF Used
  <1>2. \A s \in Slots : ToWrite(s)' => ToWrite(s)  BY DEF ToWrite
  <1> QED BY <1>1, <1>2 DEF Follow, Release

\* a queue that loses its head
LEMMA QueueTaken ==
    ASSUME TypeInv, NEW w \in Writers, writer_queues[w] # <<>>, Receive(w)
    PROVE  /\ \A s : InQueue(s)' => InQueue(s)
           /\ \A s \in JobSlots(Head(writer_queues[w])) : InQueue(s)
  <1>1. w \in Queues  BY QueueOne, WriterAssumption
  <1>2. /\ Head(writer_queues[w]) = writer_queues[w][1] /\ 1 \in DOMAIN writer_queues[w]
        /\ \A q \in Queues : q # w => writer_queues'[q] = writer_queues[q]
        /\ \A k \in DOMAIN writer_queues'[w] :
              k + 1 \in DOMAIN writer_queues[w]
              /\ writer_queues'[w][k] = writer_queues[w][k + 1]
    BY ReceiveIs
  <1> QED BY <1>1, <1>2 DEF InQueue

\* a request that names no slot is sent to the manager
LEMMA RequestSent ==
    ASSUME TypeInv, NEW j \in HandleJobs \cup CloseJobs, UNCHANGED mgr,
           mgr_queue' = Append(mgr_queue, j)
    PROVE  \A s : Returns(s)' => Returns(s)
  <1>1. j \in ToManager /\ JobSlots(j) = {}
    BY DEF ToManager, HandleJobs, CloseJobs, JobSlots
  <1>2. /\ DOMAIN mgr_queue' = DOMAIN mgr_queue \cup {Len(mgr_queue) + 1}
        /\ mgr_queue'[Len(mgr_queue) + 1] = j
        /\ \A k \in DOMAIN mgr_queue : mgr_queue'[k] = mgr_queue[k]
    BY <1>1, SentIs
  <1> QED BY <1>1, <1>2 DEF Returns

\* a writer that does not write
LEMMA DataStays ==
    ASSUME IInv, NEW w \in Writers, Writer(w), ~WriteBlock(w), ~WriteFails(w)
    PROVE  SameData
  <1>1. /\ DOMAIN files' = DOMAIN files
        /\ \A i \in DOMAIN files : i # writers[w].file => files'[i].data = files[i].data
        /\ files'[writers[w].file].data = files[writers[w].file].data
    BY WriterFiles DEF Kept
  <1> QED BY <1>1 DEF SameData

LEMMA FramesTaken ==
    ASSUME IInv, Frames, NEW w \in Writers, Writer(w), ~WriteBlock(w), ~WriteFails(w)
    PROVE  Frames'
  <1>0. /\ TypeInv /\ CountInv /\ WriterInv /\ UNCHANGED <<slots, mgr, frame_count>>
        /\ \A v \in Writers : v # w => writers'[v] = writers[v]
    BY WriterEffects DEF IInv
  <1>1. SameData  BY DataStays
  <1>2. \A v \in Writers : v # w => \A s : InHand(v, s)' =>
           InHand(v, s) /\ writers'[v].error = writers[v].error
    BY <1>0 DEF InHand
  <1>3. CASE NextHandle(w) \/ TakeAbort(w)
    <2>1. /\ writer_queues[w] # <<>> /\ Receive(w) /\ UNCHANGED mgr_queue
          /\ writers'[w].job = writers[w].job /\ writers'[w].error = writers[w].error
      BY <1>0, <1>3, NextHandleIs, AbortIs
    <2>2. \A s : InQueue(s)' => InQueue(s)  BY <1>0, <2>1, QueueTaken
    <2>3. \A s : Returns(s)' => Returns(s)  BY <1>0, <2>1 DEF Returns
    <2>4. \A s : InHand(w, s)' => InHand(w, s)  BY <2>1 DEF InHand
    <2> QED BY <1>0, <1>1, <1>2, <2>1, <2>2, <2>3, <2>4, RoutesTaken, FramesStay
  <1>4. CASE TakeFits(w) \/ TakeAsks(w) \/ TakeSwitches(w)
    <2>1. /\ writer_queues[w] # <<>> /\ Receive(w)
          /\ writers'[w].job = Head(writer_queues[w])
      BY <1>0, <1>4, TakesIs, Taken
    <2>2. /\ \A s : InQueue(s)' => InQueue(s)
          /\ \A s \in JobSlots(Head(writer_queues[w])) : InQueue(s)
      BY <1>0, <2>1, QueueTaken
    <2>3. \A s : Returns(s)' => Returns(s)
      <3>1. CASE UNCHANGED mgr_queue  BY <1>0, <3>1 DEF Returns
      <3>2. CASE \E j \in HandleJobs \cup CloseJobs : mgr_queue' = Append(mgr_queue, j)
        BY <1>0, <3>2, RequestSent
      <3>3. \/ UNCHANGED mgr_queue
            \/ \E j \in HandleJobs \cup CloseJobs : mgr_queue' = Append(mgr_queue, j)
        BY <1>0, <1>4, TakesIs
      <3> QED BY <3>1, <3>2, <3>3
    <2>4. \A s : InHand(w, s)' => InQueue(s)  BY <2>1, <2>2 DEF InHand
    <2> QED BY <1>0, <1>1, <1>2, <2>2, <2>3, <2>4, RoutesTaken, FramesStay
  <1>5. CASE CloseFile(w)
    <2>1. /\ UNCHANGED <<mgr_queue, writer_queues>>
          /\ writers'[w].job = writers[w].job /\ writers'[w].error = writers[w].error
      BY <1>0, <1>5, CloseIs
    <2>2. \A s : InQueue(s)' => InQueue(s)  BY <2>1 DEF InQueue
    <2>3. \A s : Returns(s)' => Returns(s)  BY <1>0, <2>1 DEF Returns
    <2>4. \A s : InHand(w, s)' => InHand(w, s)  BY <2>1 DEF InHand
    <2> QED BY <1>0, <1>1, <1>2, <2>1, <2>2, <2>3, <2>4, RoutesTaken, FramesStay
  <1> QED BY <1>3, <1>4, <1>5 DEF Writer

\* a block is written
LEMMA FramesWritten ==
    ASSUME IInv, Frames, NEW w \in Writers, WriteBlock(w) \/ WriteFails(w)
    PROVE  Frames'
  <1>0. /\ TypeInv /\ WriterInv /\ mgr.pc \notin {"open", "dead"} /\ Alive(w)
        /\ writers[w].file \in DOMAIN files
    BY WriterRuns DEF Writer
  <1>1. PICK j \in WriteJobs : j = writers[w].job  BY WriteIs, FailsIs
  <1>2. /\ UNCHANGED <<slots, frame_count, mgr, writer_queues>> /\ writers[w].error = "no"
        /\ \A v \in Writers : v # w => writers'[v] = writers[v]
    BY WriteIs, FailsIs DEF recVars
  <1>3. PICK i \in DOMAIN files : i = writers[w].file  BY <1>0
  <1>4. \A x \in 1..j.len : FramesOf(j)[x] = slots[j.start + x - 1].frame  BY DEF FramesOf
  <1>5. \A s \in JobSlots(j) :
           /\ slots[s].st = "writing" /\ ~InQueue(s) /\ ~Returns(s)
           /\ \A v \in Writers : InHand(v, s) => v = w
    BY <1>0, <1>1, WhereIs DEF InHand
  <1>6. ASSUME \A s : InHand(w, s)' => InHand(w, s) /\ writers'[w].error = "card"
        PROVE  \A s \in Slots : ToWrite(s)' => ToWrite(s) /\ s \notin JobSlots(j)
    <2>1. \A s : InQueue(s)' <=> InQueue(s)  BY <1>2 DEF InQueue
    <2>2. \A v \in Writers : v # w => \A s : InHand(v, s)' =>
             InHand(v, s) /\ writers'[v].error = writers[v].error
      BY <1>2 DEF InHand
    <2> QED BY <1>2, <1>5, <1>6, <2>1, <2>2 DEF ToWrite
  <1>7. CASE WriteBlock(w)
    <2>1. PICK d \in Seq(0..MaxFrames) : d = FramesOf(j) /\ Len(d) = j.len
      BY <1>1, <1>7, WriteIs
    <2>2. /\ files' = [files EXCEPT ![i].data = @ \o d]
          /\ mgr_queue' = Append(mgr_queue, j) /\ writers'[w].job = NoJob
      BY <1>1, <1>3, <1>7, <2>1, WriteIs
    <2>3. \A s : ~InHand(w, s)'  BY <2>2 DEF InHand, JobSlots, NoJob
    <2>4. \A s \in Slots : ToWrite(s)' => ToWrite(s) /\ s \notin JobSlots(j)
      BY <1>6, <2>3
    <2>5. \A s \in Slots : Returns(s)' => Returns(s) \/ (s \in JobSlots(j) /\ Len(d) = j.len)
      <3>1. /\ DOMAIN mgr_queue' = DOMAIN mgr_queue \cup {Len(mgr_queue) + 1}
            /\ mgr_queue'[Len(mgr_queue) + 1] = j
            /\ \A k \in DOMAIN mgr_queue : mgr_queue'[k] = mgr_queue[k]
        BY <1>0, <2>2, SentIs DEF ToManager
      <3> QED BY <1>2, <2>1, <3>1 DEF Returns
    <2>6. Len(d) <= j.len /\ \A x \in 1..Len(d) : d[x] = slots[j.start + x - 1].frame
      BY <1>4, <2>1
    <2> QED BY <1>0, <1>1, <1>2, <2>2, <2>4, <2>5, <2>6, FramesPut
  <1>8. CASE WriteFails(w)
    <2>1. PICK d \in Seq(0..MaxFrames) :
              /\ Len(d) <= j.len
              /\ \A x \in 1..Len(d) : d[x] = FramesOf(j)[x]
              /\ files' = [files EXCEPT ![i].data = @ \o d]
      <3>1. PICK d \in Seq(0..MaxFrames) :
                /\ Len(d) <= writers[w].job.len
                /\ \A x \in 1..Len(d) : d[x] = FramesOf(writers[w].job)[x]
                /\ files' = [files EXCEPT ![writers[w].file].data = @ \o d]
        BY <1>8, FailsIs
      <3> QED BY <1>1, <1>3, <3>1
    <2>2. /\ UNCHANGED mgr_queue
          /\ writers'[w].job = writers[w].job /\ writers'[w].error = "card"
      BY <1>8, FailsIs
    <2>3. \A s : InHand(w, s)' => InHand(w, s)  BY <2>2 DEF InHand
    <2>4. \A s \in Slots : ToWrite(s)' => ToWrite(s) /\ s \notin JobSlots(j)
      BY <1>6, <2>2, <2>3
    <2>5. \A s \in Slots : Returns(s)' => Returns(s) \/ (s \in JobSlots(j) /\ Len(d) = j.len)
      BY <1>2, <2>2 DEF Returns
    <2>6. \A x \in 1..Len(d) : d[x] = slots[j.start + x - 1].frame
      <3>1. j.len \in Nat /\ Len(d) \in Nat  BY SizeAssumption DEF WriteJobs
      <3> QED BY <1>4, <2>1, <3>1
    <2> QED BY <1>0, <1>1, <1>2, <2>1, <2>4, <2>5, <2>6, FramesPut
  <1> QED BY <1>7, <1>8

-----------------------------------------------------------------------------
(* Frames: all steps.                                                      *)

\* the files of a recording are opened
LEMMA FramesOpened ==
    ASSUME IInv, OpenFiles
    PROVE  Frames'
  <1>1. /\ frame_count' = 0 /\ UNCHANGED slots
        /\ files' = [i \in 1..NWriters |-> [NewFile EXCEPT !.num = i - 1]]
    BY DEF OpenFiles
  <1>2. \A s \in Slots : slots[s].st \in {"free", "locked"}  BY DEF IInv, FlowInv, OpenFiles
  <1>3. \A s \in Slots : ~Used(s)'  BY <1>1, <1>2 DEF Used
  <1>4. \A i \in DOMAIN files' : DOMAIN files'[i].data = {}  BY <1>1 DEF NewFile
  <1>5. \A f : ~Saved(f)'  BY <1>4 DEF Saved
  <1>6. Numbered' /\ NotYet' /\ Already'  BY <1>3, <1>5 DEF Numbered, NotYet, Already, Has
  <1>7. WrittenOnce' /\ HeldOnce'  BY <1>3, <1>4 DEF WrittenOnce, HeldOnce
  <1>8. NoneMissing'
    <2>1. 1..frame_count' - 1 = {}  BY <1>1
    <2> QED BY <2>1 DEF NoneMissing
  <1> QED BY <1>6, <1>7, <1>8 DEF Frames

LEMMA FrameStep == ASSUME IInv, FrameInv, [Next]_vars PROVE FrameInv'
  <1> SUFFICES ASSUME mgr'.pc \notin {"open", "dead"} PROVE Frames'
    BY DEF FrameInv
  <1>0. FlowInv /\ mgr \in Managers  BY DEF IInv, TypeInv
  <1>1. CASE OpenFiles  BY <1>1, FramesOpened
  <1>2. CASE \E w \in Writers : Writer(w)
    <2>1. PICK w \in Writers : Writer(w)  BY <1>2
    <2>2. Frames  BY <2>1, WriterRuns DEF FrameInv
    <2> QED BY <2>1, <2>2, FramesTaken, FramesWritten
  <1>3. CASE Camera \/ DmaDone \/ TakeSlot \/ ReleaseSlot
    <2>1. mgr.pc \notin {"open", "dead"}  BY <1>3, CameraSlots
    <2> QED BY <1>3, <2>1, FramesOfCamera DEF FrameInv
  <1>4. CASE PressRec \/ UNCHANGED vars
    <2>1. /\ UNCHANGED <<slots, frame_count, mgr_queue, writer_queues, writers, files>>
          /\ mgr' = mgr \/ (state = "idle" /\ mgr' = [mgr EXCEPT !.pc = "prepare"])
      BY <1>4 DEF PressRec, vars, recVars
    <2>2. mgr.pc \notin {"open", "dead"} /\ mgr'.job = mgr.job
      <3>1. CASE mgr' = mgr  BY <3>1
      <3>2. CASE state = "idle" /\ mgr' = [mgr EXCEPT !.pc = "prepare"]
        <4>1. mgr.pc = "off"  BY <1>0, <3>2 DEF FlowInv
        <4> QED BY <1>0, <3>2, <4>1, MgrSet
      <3> QED BY <2>1, <3>1, <3>2
    <2>3. \A s : InQueue(s)' <=> InQueue(s)  BY <2>1 DEF InQueue
    <2>4. \A s : Returns(s)' <=> Returns(s)  BY <2>1, <2>2 DEF Returns
    <2>5. SameData  BY <2>1 DEF SameData
    <2> QED BY <2>1, <2>2, <2>3, <2>4, <2>5, RoutesStay, FramesStay DEF FrameInv
  <1>5. CASE Manager /\ ~OpenFiles
    <2>1. mgr.pc \notin {"open", "dead"}
      BY <1>5 DEF Manager, Prepare, Begin, MgrLoop, FillQueue, NothingReturned,
            WriteReturned, HandleWanted, CloseWanted, Returned, Stopping, Drain,
            AbortWriters, Flush, CleanUp
    <2> QED BY <1>5, <2>1, FramesOfManager DEF FrameInv
  <1> QED BY <1>1, <1>2, <1>3, <1>4, <1>5 DEF Next

LEMMA InitFrame == ASSUME Init PROVE FrameInv
  <1>1. \A s \in Slots : ~Used(s)  BY DEF Init, Used
  <1>2. DOMAIN files = {} /\ frame_count = 0  BY DEF Init
  <1>3. \A f : ~Saved(f)  BY <1>2 DEF Saved
  <1>4. Numbered /\ NotYet /\ Already  BY <1>1, <1>3 DEF Numbered, NotYet, Already, Has
  <1>5. WrittenOnce /\ HeldOnce  BY <1>1, <1>2 DEF WrittenOnce, HeldOnce
  <1>6. NoneMissing
    <2>1. 1..frame_count - 1 = {}  BY <1>2
    <2> QED BY <2>1 DEF NoneMissing
  <1> QED BY <1>4, <1>5, <1>6 DEF FrameInv, Frames

-----------------------------------------------------------------------------
(* Nothing is missing between two frames.                                  *)

\* until the manager tells them to, writers end only when they failed
Working == {"begin", "loop", "fill", "handle", "stopping", "drain"}
EndInv == mgr.pc \in Working =>
    /\ \A w \in Writers : writers[w].pc \in {"off", "close"} => writers[w].error # "no"
    /\ \A q \in Queues : \A k \in DOMAIN writer_queues[q] :
          writer_queues[q][k].type = "write" => writer_queues[q][k].len # 0

\* the manager found all slots free, and has not filled the queues since
Calm  == \/ mgr.pc = "loop" /\ ~mgr.used
         \/ mgr.pc \in {"begin", "stopping", "drain", "abort", "flush"}
Quiet == Calm \/ mgr.pc \in {"cleanup", "off", "prepare"}
Gapless == \A f, g \in 1..frame_count - 1 : f < g /\ Saved(g) => Saved(f)
GapInv == /\ Calm => \A s \in Slots : slots[s].st # "writing"
          /\ Quiet /\ ~Failed => Gapless

\* what a step of a writer leaves in the queues was there
LEMMA QueuesShrink ==
    ASSUME IInv, NEW w \in Writers, Writer(w)
    PROVE  \A q \in Queues : \A k \in DOMAIN writer_queues'[q] :
              \E l \in DOMAIN writer_queues[q] : writer_queues'[q][k] = writer_queues[q][l]
  <1>0. TypeInv /\ CountInv /\ WriterInv  BY DEF IInv
  <1>1. CASE UNCHANGED writer_queues  BY <1>1
  <1>2. CASE writer_queues[w] # <<>> /\ Receive(w)
    <2>1. /\ \A q \in Queues : q # w => writer_queues'[q] = writer_queues[q]
          /\ \A k \in DOMAIN writer_queues'[w] :
                k + 1 \in DOMAIN writer_queues[w]
                /\ writer_queues'[w][k] = writer_queues[w][k + 1]
      BY <1>0, <1>2, ReceiveIs
    <2> QED BY <2>1
  <1>3. CASE NextHandle(w) \/ TakeAbort(w)  BY <1>0, <1>2, <1>3, NextHandleIs, AbortIs
  <1>4. CASE TakeFits(w) \/ TakeAsks(w) \/ TakeSwitches(w)
    BY <1>0, <1>2, <1>4, TakesIs, Taken
  <1>5. CASE WriteBlock(w) \/ WriteFails(w) \/ CloseFile(w)
    BY <1>1, <1>5 DEF WriteBlock, WriteFails, CloseFile
  <1> QED BY <1>3, <1>4, <1>5 DEF Writer

LEMMA EndOfWriters ==
    ASSUME IInv, EndInv, NEW w \in Writers, Writer(w)
    PROVE  EndInv'
  <1> SUFFICES ASSUME mgr.pc \in Working
               PROVE  /\ \A v \in Writers : writers'[v].pc \in {"off", "close"} =>
                            writers'[v].error # "no"
                      /\ \A q \in Queues : \A k \in DOMAIN writer_queues'[q] :
                            writer_queues'[q][k].type = "write" =>
                               writer_queues'[q][k].len # 0
    BY WriterEffects DEF EndInv
  <1>0. /\ TypeInv /\ CountInv /\ WriterInv
        /\ \A v \in Writers : v # w => writers'[v] = writers[v]
    BY WriterEffects DEF IInv
  <1>1. \A q \in Queues : \A k \in DOMAIN writer_queues'[q] :
           writer_queues'[q][k].type = "write" => writer_queues'[q][k].len # 0
    BY QueuesShrink DEF EndInv
  <1>2. writers'[w].pc \in {"off", "close"} => writers'[w].error # "no"
    <2>1. CASE NextHandle(w)  BY <1>0, <2>1, NextHandleIs
    <2>2. CASE TakeAbort(w)
      <3>1. /\ writer_queues[w] # <<>> /\ Receive(w)
            /\ Head(writer_queues[w]) \in WriteJobs /\ Head(writer_queues[w]).len = 0
        BY <1>0, <2>2, AbortIs
      <3>2. Head(writer_queues[w]) = writer_queues[w][1] /\ 1 \in DOMAIN writer_queues[w]
        BY <1>0, <3>1, ReceiveIs
      <3>3. w \in Queues  BY QueueOne, WriterAssumption
      <3>4. Head(writer_queues[w]).type = "write"  BY <3>1 DEF WriteJobs
      <3> QED BY <3>1, <3>2, <3>3, <3>4 DEF EndInv
    <2>3. CASE TakeFits(w) \/ TakeAsks(w) \/ TakeSwitches(w)  BY <1>0, <2>3, TakesIs
    <2>4. CASE WriteBlock(w)  BY <2>4, WriteIs
    <2>5. CASE WriteFails(w)  BY <2>5, FailsIs
    <2>6. CASE CloseFile(w)
      <3>1. writers[w].pc = "close" /\ writers'[w].error = writers[w].error
        BY <1>0, <2>6, CloseIs
      <3> QED BY <3>1 DEF EndInv
    <2> QED BY <2>1, <2>2, <2>3, <2>4, <2>5, <2>6 DEF Writer
  <1>3. \A v \in Writers : writers'[v].pc \in {"off", "close"} => writers'[v].error # "no"
    BY <1>0, <1>2 DEF EndInv
  <1> QED BY <1>1, <1>3

LEMMA EndOfManager ==
    ASSUME IInv, EndInv, Manager
    PROVE  EndInv'
  <1> SUFFICES ASSUME mgr'.pc \in Working
               PROVE  /\ \A w \in Writers : writers'[w].pc \in {"off", "close"} =>
                            writers'[w].error # "no"
                      /\ \A q \in Queues : \A k \in DOMAIN writer_queues'[q] :
                            writer_queues'[q][k].type = "write" =>
                               writer_queues'[q][k].len # 0
    BY DEF EndInv
  <1>0. /\ TypeInv /\ FlowInv /\ mgr \in Managers  BY DEF IInv, TypeInv
  <1>1. CASE OpenFiles
    <2>1. \/ writers' = [w \in Writers |->
                [Idle EXCEPT !.pc = "take", !.file = w + 1, !.num = w]]
          \/ mgr' = [mgr EXCEPT !.pc = "dead"]
      BY <1>1 DEF OpenFiles
    <2>2. mgr' # [mgr EXCEPT !.pc = "dead"]  BY <1>0, MgrSet DEF Working
    <2>3. \A w \in Writers : writers'[w].pc = "take"
      <3>1. writers' = [w \in Writers |->
                [Idle EXCEPT !.pc = "take", !.file = w + 1, !.num = w]]
        BY <2>1, <2>2
      <3> QED BY <3>1 DEF Idle
    <2>4. \A q \in Queues : writer_queues'[q] = <<>>  BY <1>0, <1>1 DEF OpenFiles, FlowInv
    <2> QED BY <2>3, <2>4
  <1>2. CASE ~OpenFiles
    <2>1. UNCHANGED writers  BY <1>2, ManagerReturns
    <2>2. mgr.pc \in Working
      <3>1. ~Prepare
        <4>1. Prepare => \E pc \in {"open", "cleanup"} : mgr' = [mgr EXCEPT !.pc = pc]
          BY DEF Prepare
        <4> QED BY <1>0, <4>1, MgrSet DEF Working
      <3>2. ~AbortWriters
        <4>1. AbortWriters => \/ mgr' = [mgr EXCEPT !.at = 1] /\ mgr.pc = "abort"
                              \/ mgr' = [mgr EXCEPT !.pc = "flush"]
          BY DEF AbortWriters
        <4>2. ASSUME mgr' = [mgr EXCEPT !.at = 1], mgr.pc = "abort" PROVE mgr'.pc = "abort"
          BY <1>0, <4>2 DEF Managers
        <4> QED BY <1>0, <4>1, <4>2, MgrSet DEF Working
      <3>3. ~Flush /\ ~CleanUp
        <4>1. Flush => mgr' = [mgr EXCEPT !.pc = "cleanup"]  BY DEF Flush
        <4>2. CleanUp => mgr' = [mgr EXCEPT !.pc = "off", !.used = FALSE]  BY DEF CleanUp
        <4>3. ASSUME mgr' = [mgr EXCEPT !.pc = "off", !.used = FALSE] PROVE mgr'.pc = "off"
          BY <1>0, <4>3 DEF Managers
        <4> QED BY <1>0, <4>1, <4>2, <4>3, MgrSet DEF Working
      <3> QED BY <1>2, <3>1, <3>2, <3>3 DEF Manager, Begin, MgrLoop, FillQueue,
            NothingReturned, WriteReturned, HandleWanted, CloseWanted, Returned, Stopping,
            Drain, Working
    <2>3. \A q \in Queues : \A k \in DOMAIN writer_queues'[q] :
             writer_queues'[q][k].type = "write" => writer_queues'[q][k].len # 0
      <3>1. CASE UNCHANGED writer_queues  BY <2>2, <3>1 DEF EndInv
      <3>2. ASSUME NEW q \in Queues, NEW j \in ToWriter, j.type = "write" => j.len # 0,
                   writer_queues' = [writer_queues EXCEPT ![q] = Append(@, j)]
            PROVE  \A p \in Queues : \A k \in DOMAIN writer_queues'[p] :
                      writer_queues'[p][k].type = "write" => writer_queues'[p][k].len # 0
        <4>1. /\ \A p \in Queues : p # q => writer_queues'[p] = writer_queues[p]
              /\ Len(writer_queues[q]) \in Nat
              /\ DOMAIN writer_queues[q] = 1..Len(writer_queues[q])
              /\ DOMAIN writer_queues'[q] = 1..Len(writer_queues[q]) + 1
              /\ writer_queues'[q][Len(writer_queues[q]) + 1] = j
              /\ \A k \in DOMAIN writer_queues[q] : writer_queues'[q][k] = writer_queues[q][k]
          BY <1>0, <3>2, GrownIs, ZenonT(60)
        <4>2. \A k \in DOMAIN writer_queues'[q] :
                 k \in DOMAIN writer_queues[q] \/ writer_queues'[q][k] = j
          BY <4>1
        <4> QED BY <2>2, <3>2, <4>1, <4>2 DEF EndInv
      <3>3. CASE FillQueue /\ BlocksFor(mgr.at) # {}
        <4>1. PICK b \in BlocksFor(mgr.at) : \E n \in Shortened(b[2]) :
                  Enqueue(mgr.at, <<b[1], n>>)
          BY <3>3 DEF FillQueue
        <4>2. PICK n \in Shortened(b[2]) : Enqueue(mgr.at, <<b[1], n>>)  BY <4>1
        <4>3. PICK w \in Queues : w = mgr.at  BY <1>0, MgrIs DEF Queues
        <4>4. b[1] \in Nat /\ n \in Nat \ {0} /\ n <= ChunkSize  BY <4>3, BlockFound
        <4>5. n \in 0..ChunkSize  BY <4>4, SizeAssumption
        <4>6. PICK j \in ToWriter : j = WriteJob(w, b[1], n) /\ j.len = n
          <5>1. WriteJob(w, b[1], n) \in ToWriter /\ WriteJob(w, b[1], n).len = n
            BY <4>4, <4>5 DEF WriteJob, ToWriter, WriteJobs
          <5> QED BY <5>1
        <4>7. writer_queues' = [writer_queues EXCEPT ![w] = Append(@, j)]
          BY <4>2, <4>3, <4>6 DEF Enqueue
        <4> QED BY <3>2, <4>4, <4>6, <4>7
      <3>4. CASE HandleWanted
        <4>1. PICK j \in HandleJobs, q \in Queues :
                  writer_queues' = [writer_queues EXCEPT ![q] = Append(@, j)]
          <5>1. mgr.job \in HandleJobs  BY <1>0, <3>4, HandleSent
          <5>2. mgr.job.writer \in Queues
            BY <5>1, QueueOne, WriterAssumption DEF HandleJobs
          <5> QED BY <1>0, <3>4, <5>2, HandleSent
        <4>2. j \in ToWriter /\ j.type # "write"  BY DEF ToWriter, HandleJobs
        <4> QED BY <3>2, <4>1, <4>2
      <3>5. UNCHANGED writer_queues \/ (FillQueue /\ BlocksFor(mgr.at) # {}) \/ HandleWanted
        BY <1>2, <2>2 DEF Manager, Prepare, Begin, MgrLoop, FillQueue, NothingReturned,
              WriteReturned, CloseWanted, Stopping, Drain, AbortWriters, Flush, CleanUp,
              Working
      <3> QED BY <3>1, <3>3, <3>4, <3>5
    <2> QED BY <2>1, <2>2, <2>3 DEF EndInv
  <1> QED BY <1>1, <1>2

LEMMA EndStep == ASSUME IInv, EndInv, [Next]_vars PROVE EndInv'
  <1>1. CASE \E w \in Writers : Writer(w)  BY <1>1, EndOfWriters
  <1>2. CASE Manager  BY <1>2, EndOfManager
  <1>3. CASE Camera \/ DmaDone \/ TakeSlot \/ ReleaseSlot
    <2>1. UNCHANGED <<mgr, writer_queues, writers>>  BY <1>3, CameraSlots
    <2> QED BY <2>1 DEF EndInv
  <1>4. CASE PressRec \/ UNCHANGED vars
    <2>1. /\ UNCHANGED <<writer_queues, writers>>
          /\ mgr' = mgr \/ mgr' = [mgr EXCEPT !.pc = "prepare"]
      BY <1>4 DEF PressRec, vars
    <2>2. mgr' = mgr \/ mgr'.pc = "prepare"
      <3>1. mgr \in Managers  BY DEF IInv, TypeInv
      <3> QED BY <2>1, <3>1, MgrSet
    <2> QED BY <2>1, <2>2 DEF EndInv, Working
  <1> QED BY <1>1, <1>2, <1>3, <1>4 DEF Next

\* how the manager comes to be calm, and quiet
LEMMA CalmFrom ==
    ASSUME IInv, Manager, Calm'
    PROVE  \/ /\ Calm
              /\ \A s \in Slots : slots'[s].st = "writing" <=> slots[s].st = "writing"
           \/ EndLoop /\ ~mgr'.used
           \/ OpenFiles
  <1>0. mgr \in Managers  BY DEF IInv, TypeInv
  <1>1. mgr'.pc \notin {"open", "fill", "handle", "cleanup", "off"}  BY DEF Calm
  <1>2. mgr'.pc = "loop" => ~mgr'.used  BY DEF Calm
  <1>3. CASE Begin \/ Drain \/ AbortWriters
    BY <1>3 DEF Begin, Drain, AbortWriters, Calm
  <1>8. CASE Stopping
    <2>1. Calm /\ SoundStops  BY <1>8 DEF Stopping, Calm
    <2> QED BY <2>1, SoundWrites
  <1>4. CASE MgrLoop
    <2>1. CASE Finished  BY <1>4, <2>1 DEF MgrLoop, Finished, Calm
    <2>2. CASE ~Finished
      <3>1. \/ mgr' = [mgr EXCEPT !.pc = "cleanup"]
            \/ \E j : mgr' = [mgr EXCEPT !.pc = "fill", !.at = 0, !.job = j]
        BY <1>4, <2>2 DEF MgrLoop
      <3>2. ASSUME NEW j, mgr' = [mgr EXCEPT !.pc = "fill", !.at = 0, !.job = j]
            PROVE  mgr'.pc = "fill"
        BY <1>0, <3>2 DEF Managers
      <3>3. ASSUME mgr' = [mgr EXCEPT !.pc = "cleanup"] PROVE FALSE
        BY <1>0, <1>1, <3>3, MgrSet
      <3> QED BY <1>1, <3>1, <3>2, <3>3
    <2> QED BY <2>1, <2>2
  <1>5. CASE FillQueue
    <2>1. \/ mgr' = [mgr EXCEPT !.at = @ + 1] /\ mgr.pc = "fill"
          \/ mgr' = [mgr EXCEPT !.pc = "handle"]
      BY <1>5 DEF FillQueue, FillNext
    <2>2. ASSUME mgr' = [mgr EXCEPT !.at = @ + 1], mgr.pc = "fill" PROVE mgr'.pc = "fill"
      BY <1>0, <2>2 DEF Managers
    <2> QED BY <1>0, <1>1, <2>1, <2>2, MgrSet
  <1>6. CASE NothingReturned \/ WriteReturned \/ HandleWanted \/ CloseWanted
    <2>1. EndLoop  BY <1>6 DEF NothingReturned, WriteReturned, HandleWanted, CloseWanted
    <2> QED BY <1>0, <1>2, <2>1, EndLoopIs
  <1>7. ~Prepare /\ ~Flush /\ ~CleanUp
    <2>1. Prepare \/ Flush => \E pc \in {"open", "cleanup"} : mgr' = [mgr EXCEPT !.pc = pc]
      BY DEF Prepare, Flush
    <2>2. CleanUp => mgr' = [mgr EXCEPT !.pc = "off", !.used = FALSE]  BY DEF CleanUp
    <2>3. ASSUME mgr' = [mgr EXCEPT !.pc = "off", !.used = FALSE] PROVE mgr'.pc = "off"
      BY <1>0, <2>3 DEF Managers
    <2> QED BY <1>0, <1>1, <2>1, <2>2, <2>3, MgrSet
  <1> QED BY <1>3, <1>4, <1>5, <1>6, <1>7, <1>8 DEF Manager

LEMMA QuietFrom ==
    ASSUME IInv, Manager, ~OpenFiles, Quiet'
    PROVE  \/ Quiet
           \/ EndLoop /\ ~mgr'.used
           \/ MgrLoop /\ NoWriters
  <1>0. mgr \in Managers  BY DEF IInv, TypeInv
  <1>1. CASE Calm'  BY <1>1, CalmFrom DEF Quiet
  <1>2. CASE mgr'.pc \in {"cleanup", "off", "prepare"}
    <2>1. CASE Prepare \/ Begin \/ Stopping \/ Drain \/ AbortWriters \/ Flush \/ CleanUp
      BY <2>1 DEF Prepare, Begin, Stopping, Drain, AbortWriters, Flush, CleanUp, Quiet, Calm
    <2>2. CASE MgrLoop
      <3>1. CASE Finished  BY <2>2, <3>1 DEF MgrLoop, Finished, Quiet, Calm
      <3>2. CASE ~Finished /\ ~NoWriters
        <4>1. PICK j : mgr' = [mgr EXCEPT !.pc = "fill", !.at = 0, !.job = j]
          BY <2>2, <3>2 DEF MgrLoop
        <4>2. mgr'.pc = "fill"  BY <1>0, <4>1 DEF Managers
        <4> QED BY <1>2, <4>2
      <3> QED BY <2>2, <3>1, <3>2
    <2>3. CASE FillQueue
      <3>1. \/ mgr' = [mgr EXCEPT !.at = @ + 1] /\ mgr.pc = "fill"
            \/ mgr' = [mgr EXCEPT !.pc = "handle"]
        BY <2>3 DEF FillQueue, FillNext
      <3>2. ASSUME mgr' = [mgr EXCEPT !.at = @ + 1], mgr.pc = "fill" PROVE mgr'.pc = "fill"
        BY <1>0, <3>2 DEF Managers
      <3> QED BY <1>0, <1>2, <3>1, <3>2, MgrSet
    <2>4. CASE NothingReturned \/ WriteReturned \/ HandleWanted \/ CloseWanted
      <3>1. EndLoop  BY <2>4 DEF NothingReturned, WriteReturned, HandleWanted, CloseWanted
      <3> QED BY <1>0, <1>2, <3>1, EndLoopIs
    <2> QED BY <2>1, <2>2, <2>3, <2>4 DEF Manager
  <1> QED BY <1>1, <1>2 DEF Quiet

\* the end of a turn that found all slots free
LEMMA AllFree ==
    ASSUME IInv, EndLoop, ~mgr'.used
    PROVE  \A s \in Slots : slots'[s].st = "free"
  <1>0. mgr \in Managers  BY DEF IInv, TypeInv
  <1>1. PICK u : u = (\E s \in Slots : slots'[s].st # "free")  OBVIOUS
  <1>2. mgr' = [mgr EXCEPT !.pc = "loop", !.job = NoJob, !.used = u]
    BY <1>1, Zenon DEF EndLoop
  <1>3. mgr'.used = u  BY <1>0, <1>2, Zenon DEF Managers
  <1>4. ~u  BY <1>3
  <1> QED BY <1>1, <1>4

\* Calm: no slot is being written
LEMMA CalmStep ==
    ASSUME IInv, GapInv, [Next]_vars, Calm'
    PROVE  \A s \in Slots : slots'[s].st # "writing"
  <1>0. FlowInv /\ mgr \in Managers  BY DEF IInv, TypeInv
  <1>1. CASE Manager
    <2>1. CASE OpenFiles
      BY <1>0, <2>1 DEF OpenFiles, FlowInv
    <2>2. CASE ~OpenFiles
      <3>1. CASE /\ Calm
                 /\ \A s \in Slots : slots'[s].st = "writing" <=> slots[s].st = "writing"
        BY <3>1 DEF GapInv
      <3>2. CASE EndLoop /\ ~mgr'.used  BY <3>2, AllFree
      <3> QED BY <1>1, <2>2, <3>1, <3>2, CalmFrom
    <2> QED BY <2>1, <2>2
  <1>2. CASE \E w \in Writers : Writer(w)
    <2>1. UNCHANGED <<mgr, slots>>  BY <1>2, WriterEffects
    <2> QED BY <2>1 DEF Calm, GapInv
  <1>3. CASE Camera \/ DmaDone \/ TakeSlot \/ ReleaseSlot
    <2>1. UNCHANGED mgr /\ \A s \in Slots : slots'[s].st = "writing" <=> slots[s].st = "writing"
      BY <1>3, CameraSlots
    <2> QED BY <2>1 DEF Calm, GapInv
  <1>4. CASE PressRec \/ UNCHANGED vars
    <2>1. /\ UNCHANGED slots
          /\ mgr' = mgr \/ mgr' = [mgr EXCEPT !.pc = "prepare"]
      BY <1>4 DEF PressRec, vars
    <2>2. mgr' = mgr
      <3>1. mgr'.pc # "prepare"  BY DEF Calm
      <3> QED BY <1>0, <2>1, <3>1, MgrSet
    <2> QED BY <2>1, <2>2 DEF Calm, GapInv
  <1> QED BY <1>1, <1>2, <1>3, <1>4 DEF Next

\* a step that writes nothing leaves no gap, even if a frame is captured in it
LEMMA GaplessStays ==
    ASSUME Frames, Gapless, SameData, frame_count \in Nat,
           frame_count' \in {frame_count, frame_count + 1}
    PROVE  Gapless'
  <1>1. \A f : Saved(f)' <=> Saved(f)  BY SavedSame
  <1> SUFFICES ASSUME NEW f \in 1..frame_count' - 1, NEW g \in 1..frame_count' - 1,
                      f < g, Saved(g)
               PROVE  Saved(f)
    BY <1>1 DEF Gapless
  <1>2. g < frame_count
    <2>1. g \in Nat \ {None}  BY DEF None
    <2> QED BY <2>1 DEF Frames, Numbered
  <1>3. f \in 1..frame_count - 1 /\ g \in 1..frame_count - 1  BY <1>2
  <1> QED BY <1>3 DEF Gapless

\* while the manager is quiet no writer has a block to write
LEMMA QuietWriters ==
    ASSUME IInv, GapInv, Quiet, NEW w \in Writers, Writer(w)
    PROVE  ~WriteBlock(w) /\ ~WriteFails(w)
  <1> SUFFICES ASSUME WriteBlock(w) \/ WriteFails(w) PROVE FALSE  OBVIOUS
  <1>1. Alive(w) /\ mgr.pc \notin {"open", "dead"}  BY WriterRuns
  <1>2. Calm  BY <1>1 DEF IInv, FlowInv, Before, Quiet
  <1>3. PICK j \in WriteJobs : j = writers[w].job /\ j.len \in Nat \ {0}  BY WriteIs, FailsIs
  <1>4. j.start \in JobSlots(j)
    <2>1. j.start \in Nat /\ j.type = "write"  BY DEF WriteJobs
    <2>2. j.start \in j.start .. j.start + j.len - 1  BY <1>3, <2>1
    <2> QED BY <2>1, <2>2 DEF JobSlots
  <1>5. j.start \in Slots /\ slots[j.start].st = "writing"
    BY <1>1, <1>3, <1>4, WhereIs DEF InHand
  <1> QED BY <1>2, <1>5 DEF GapInv

LEMMA GapStep ==
    ASSUME IInv, FrameInv, EndInv, GapInv, [Next]_vars, FrameInv'
    PROVE  GapInv'
  <1> SUFFICES ASSUME Quiet', ~Failed' PROVE Gapless'  BY CalmStep DEF GapInv
  <1>0. /\ FlowInv /\ mgr \in Managers /\ frame_count \in Nat
        /\ mgr'.pc \notin {"open", "dead"}
    BY BoundsNat DEF IInv, TypeInv, Quiet, Calm
  <1>q. Quiet => Frames  BY DEF Quiet, Calm, FrameInv
  <1>1. CASE OpenFiles
    <2>1. frame_count' = 0  BY <1>1 DEF OpenFiles
    <2>2. 1..frame_count' - 1 = {}  BY <2>1
    <2> QED BY <2>2 DEF Gapless
  <1>2. CASE \E w \in Writers : Writer(w)
    <2>1. PICK w \in Writers : Writer(w)  BY <1>2
    <2>2. UNCHANGED <<mgr, frame_count>>  BY <2>1, WriterEffects
    <2>3. Quiet  BY <2>2 DEF Quiet, Calm
    <2>4. ~Failed
      <3>1. ErrorsStay  BY <2>1, WriterErrors
      <3> QED BY <3>1 DEF Failed, ErrorsStay
    <2>5. SameData  BY <2>1, <2>3, QuietWriters, DataStays
    <2> QED BY <1>0, <1>q, <2>2, <2>3, <2>4, <2>5, GaplessStays DEF GapInv
  <1>3. CASE Camera \/ DmaDone \/ TakeSlot \/ ReleaseSlot
    <2>1. UNCHANGED <<mgr, writers, files>>  BY <1>3, CameraSlots
    <2>2. Quiet /\ ~Failed  BY <2>1 DEF Quiet, Calm, Failed
    <2>3. SameData  BY <2>1 DEF SameData
    <2>4. frame_count' \in {frame_count, frame_count + 1}
      BY <1>3 DEF Camera, VsyncBusy, SettingsChanged, CaptureFrame, SkipFrame, DmaDone,
            TakeSlot, ReleaseSlot, recVars
    <2> QED BY <1>0, <1>q, <2>2, <2>3, <2>4, GaplessStays DEF GapInv
  <1>4. CASE PressRec \/ UNCHANGED vars
    <2>1. /\ UNCHANGED <<frame_count, writers, files>>
          /\ mgr' = mgr \/ state = "idle"
      BY <1>4 DEF PressRec, vars, recVars
    <2>2. Quiet
      <3>1. CASE mgr' = mgr  BY <3>1 DEF Quiet, Calm
      <3>2. CASE state = "idle"  BY <1>0, <3>2 DEF FlowInv, Quiet
      <3> QED BY <2>1, <3>1, <3>2
    <2>3. ~Failed /\ SameData  BY <2>1 DEF Failed, SameData
    <2> QED BY <1>0, <1>q, <2>1, <2>2, <2>3, GaplessStays DEF GapInv
  <1>5. CASE Manager /\ ~OpenFiles
    <2>1. /\ UNCHANGED <<writers, frame_count>> /\ SameData
      BY <1>5, ManagerReturns, ManagerData
    <2>2. ~Failed  BY <2>1 DEF Failed
    <2>3. CASE Quiet  BY <1>0, <1>q, <2>1, <2>2, <2>3, GaplessStays DEF GapInv
    <2>4. CASE EndLoop /\ ~mgr'.used
      <3>1. \A s \in Slots : ~Used(s)'  BY <2>4, AllFree DEF Used
      <3>2. NoneMissing'  BY <1>0 DEF FrameInv, Frames
      <3>3. \A f \in 1..frame_count' - 1 : Saved(f)'  BY <3>1, <3>2 DEF NoneMissing
      <3> QED BY <3>3 DEF Gapless
    <2>5. CASE MgrLoop /\ NoWriters
      <3>1. 0 \in Writers /\ ~Alive(0)
        BY <2>5, NoThreads, QueueOne, WriterAssumption DEF NoWriters
      <3>2. writers[0].error # "no"
        BY <2>5, <3>1 DEF MgrLoop, EndInv, Working, Alive
      <3> QED BY <2>2, <3>1, <3>2 DEF Failed
    <2> QED BY <1>5, <2>3, <2>4, <2>5, QuietFrom
  <1> QED BY <1>1, <1>2, <1>3, <1>4, <1>5 DEF Next

LEMMA InitGap == ASSUME Init PROVE EndInv /\ GapInv
  <1>1. mgr.pc = "off" /\ frame_count = 0  BY DEF Init
  <1>2. EndInv  BY <1>1 DEF EndInv, Working
  <1>3. Gapless
    <2>1. 1..frame_count - 1 = {}  BY <1>1
    <2> QED BY <2>1 DEF Gapless
  <1>4. ~Calm  BY <1>1 DEF Calm
  <1> QED BY <1>2, <1>3, <1>4 DEF GapInv

LEMMA GapHolds == IInv /\ FrameInv /\ GapInv => NoGaps
  <1> SUFFICES ASSUME IInv, FrameInv, GapInv, mgr.pc = "cleanup", ~Failed,
                      NEW f \in 1..frame_count - 1, NEW g \in 1..frame_count - 1,
                      f < g, Copies(g) = 1
               PROVE  Copies(f) = 1
    BY DEF NoGaps
  <1>1. WrittenOnce /\ Gapless  BY DEF FrameInv, Frames, GapInv, Quiet
  <1>2. f # None /\ g # None
    <2>1. frame_count \in Int  BY BoundsNat DEF IInv, TypeInv
    <2> QED BY <2>1 DEF None
  <1>3. Saved(g)  BY <1>1, <1>2, CopiesIs
  <1>4. Saved(f)  BY <1>1, <1>3 DEF Gapless
  <1> QED BY <1>1, <1>2, <1>4, CopiesIs

\* what is kept of the frames
KeepsFrames == FrameInv /\ EndInv /\ GapInv

LEMMA KeepsStep == ASSUME IInv, KeepsFrames, [Next]_vars PROVE KeepsFrames'
  <1>1. FrameInv'  BY FrameStep DEF KeepsFrames
  <1>2. EndInv'  BY EndStep DEF KeepsFrames
  <1>3. GapInv'  BY <1>1, GapStep DEF KeepsFrames
  <1> QED BY <1>1, <1>2, <1>3 DEF KeepsFrames

LEMMA KeepsHolds == IInv /\ KeepsFrames => FramesKept
  BY FrameHolds, GapHolds DEF KeepsFrames, FramesKept

\* Every frame is in a file exactly once or waits in one slot, whichever writer
\* takes it and whatever fails; a recording without a failure ends with nothing
\* missing between two frames: in recordings that start with nothing left over.
THEOREM FramesStayKept == Spec /\ []StartsClean => []FramesKept
  <1>1. Init => IInv /\ KeepsFrames  BY InitInv, InitFrame, InitGap DEF KeepsFrames
  <1>2. IInv /\ KeepsFrames /\ StartsClean /\ [Next]_vars => IInv' /\ KeepsFrames'
    BY InvStep, KeepsStep
  <1>3. IInv /\ KeepsFrames => FramesKept  BY KeepsHolds
  <1> QED BY <1>1, <1>2, <1>3, PTL DEF Spec

\* In the first recording of a session nothing is left over.
THEOREM FirstFramesKept == ASSUME MaxRuns <= 1 PROVE Spec => []FramesKept
  <1>1. Init => IInv /\ KeepsFrames /\ FirstInv
    <2>1. Init => FirstInv  BY DEF Init, FirstInv, Clean, StartsClean
    <2> QED BY <2>1, InitInv, InitFrame, InitGap DEF KeepsFrames
  <1>2. IInv /\ KeepsFrames /\ FirstInv /\ [Next]_vars => IInv' /\ KeepsFrames' /\ FirstInv'
    <2>1. FirstInv => StartsClean  BY DEF FirstInv
    <2> QED BY <2>1, InvStep, KeepsStep, FirstStep
  <1>3. IInv /\ KeepsFrames => FramesKept  BY KeepsHolds
  <1> QED BY <1>1, <1>2, <1>3, PTL DEF Spec

-----------------------------------------------------------------------------
(* Files: nothing is left in the queues, and no file that is used is gone. *)

LeftInv == mgr.pc \in {"cleanup", "off", "prepare"} /\ ~Failed =>
              mgr_queue = <<>> /\ \A q \in Queues : writer_queues[q] = <<>>

\* files that are the writer's, or will be
Due(w, i) == \/ Alive(w) /\ i = writers[w].file
             \/ i # None /\ i = writers[w].next
             \/ \E k \in DOMAIN writer_queues[w] :
                   Answer(w, k) /\ writer_queues[w][k].file = i
Busy    == {"begin", "loop", "fill", "handle", "stopping"}
GoneInv == /\ \A i \in DOMAIN files : files[i].gone => files[i].data = <<>>
           /\ mgr.pc \in Busy => \A w \in Writers : \A i : Due(w, i) => ~files[i].gone

\* what the manager does when it is not to record
LEMMA LeftStep ==
    ASSUME IInv, EndInv, StartsClean, LeftInv, [Next]_vars
    PROVE  LeftInv'
  <1> SUFFICES ASSUME mgr'.pc \in {"cleanup", "off", "prepare"}, ~Failed'
               PROVE  mgr_queue' = <<>> /\ \A q \in Queues : writer_queues'[q] = <<>>
    BY DEF LeftInv
  <1>0. FlowInv /\ mgr \in Managers  BY DEF IInv, TypeInv
  <1>1. CASE \E w \in Writers : Writer(w)
    <2>1. PICK w \in Writers : Writer(w)  BY <1>1
    <2>2. UNCHANGED mgr /\ Alive(w)  BY <2>1, WriterEffects
    <2> QED BY <1>0, <2>2 DEF FlowInv, Before
  <1>2. CASE Camera \/ DmaDone \/ TakeSlot \/ ReleaseSlot
    <2>1. UNCHANGED <<mgr, mgr_queue, writer_queues, writers>>  BY <1>2, CameraSlots
    <2> QED BY <2>1 DEF LeftInv, Failed
  <1>3. CASE PressRec \/ UNCHANGED vars
    <2>1. /\ UNCHANGED <<mgr_queue, writer_queues, writers>>
          /\ mgr' = mgr \/ state = "idle"
      BY <1>3 DEF PressRec, vars
    <2>2. mgr.pc \in {"cleanup", "off", "prepare"}
      BY <1>0, <2>1 DEF FlowInv
    <2> QED BY <2>1, <2>2 DEF LeftInv, Failed
  <1>4. CASE Manager
    <2>1. ~OpenFiles
      <3>1. OpenFiles => \E pc \in {"begin", "dead"} : mgr' = [mgr EXCEPT !.pc = pc]
        BY DEF OpenFiles
      <3> QED BY <1>0, <3>1, MgrSet
    <2>2. UNCHANGED writers  BY <1>4, <2>1, ManagerReturns
    <2>3. ~Failed  BY <2>2 DEF Failed
    <2>4. CASE Prepare  BY <2>4 DEF Prepare, StartsClean
    <2>5. ASSUME NoWriters, mgr.pc \in Working PROVE FALSE
      <3>1. 0 \in Writers /\ ~Alive(0)
        BY <2>5, NoThreads, QueueOne, WriterAssumption DEF NoWriters
      <3>2. writers[0].error # "no"  BY <2>5, <3>1 DEF EndInv, Alive
      <3> QED BY <2>3, <3>1, <3>2 DEF Failed
    <2>6. CASE CleanUp  BY <2>3, <2>6 DEF CleanUp, LeftInv
    <2>7. CASE Flush  BY <2>7 DEF Flush
    <2>8. ~MgrLoop
      <3>1. ASSUME MgrLoop PROVE FALSE
        <4>1. ~NoWriters  BY <2>5, <3>1 DEF MgrLoop, Working
        <4>2. \/ mgr' = [mgr EXCEPT !.pc = "stopping"]
              \/ \E job \in MgrJobs : mgr' = [mgr EXCEPT !.pc = "fill", !.at = 0, !.job = job]
          <5>1. mgr_queue \in Seq(ToManager)  BY DEF IInv, TypeInv
          <5>2. mgr_queue # <<>> => Head(mgr_queue) \in MgrJobs  BY <5>1 DEF MgrJobs
          <5>3. NoJob \in MgrJobs  BY DEF MgrJobs
          <5> QED BY <3>1, <4>1, <5>2, <5>3 DEF MgrLoop
        <4>3. CASE mgr' = [mgr EXCEPT !.pc = "stopping"]  BY <1>0, <4>3, MgrSet
        <4>4. ASSUME NEW job \in MgrJobs, mgr' = [mgr EXCEPT !.pc = "fill", !.at = 0, !.job = job]
              PROVE  FALSE
          BY <1>0, <4>4 DEF Managers
        <4> QED BY <4>2, <4>3, <4>4
      <3> QED BY <3>1
    <2>9. ~Drain
      <3>1. ASSUME Drain PROVE FALSE
        <4>1. ~NoWriters  BY <2>5, <3>1 DEF Drain, Working
        <4>2. mgr' = [mgr EXCEPT !.pc = "abort", !.at = 0]  BY <3>1, <4>1 DEF Drain
        <4> QED BY <1>0, <4>2 DEF Managers
      <3> QED BY <3>1
    <2>10. ~AbortWriters
      <3>1. AbortWriters => \/ mgr' = [mgr EXCEPT !.at = 1] /\ mgr.pc = "abort"
                            \/ mgr' = [mgr EXCEPT !.pc = "flush"]
        BY DEF AbortWriters
      <3>2. ASSUME mgr' = [mgr EXCEPT !.at = 1], mgr.pc = "abort" PROVE mgr'.pc = "abort"
        BY <1>0, <3>2 DEF Managers
      <3> QED BY <1>0, <3>1, <3>2, MgrSet
    <2>11. ~FillQueue
      <3>1. FillQueue => \/ mgr' = [mgr EXCEPT !.at = mgr.at + 1] /\ mgr.pc = "fill"
                         \/ mgr' = [mgr EXCEPT !.pc = "handle"]
        BY DEF FillQueue, FillNext
      <3>2. ASSUME mgr' = [mgr EXCEPT !.at = mgr.at + 1], mgr.pc = "fill" PROVE mgr'.pc = "fill"
        BY <1>0, <3>2 DEF Managers
      <3> QED BY <1>0, <3>1, <3>2, MgrSet
    <2>12. ~Begin
      <3>1. Begin => mgr' = [mgr EXCEPT !.pc = "loop", !.used = FALSE, !.job = NoJob]
        BY DEF Begin
      <3>2. ASSUME mgr' = [mgr EXCEPT !.pc = "loop", !.used = FALSE, !.job = NoJob]
            PROVE  mgr'.pc = "loop"
        BY <1>0, <3>2 DEF Managers
      <3> QED BY <3>1, <3>2
    <2>13. ~Stopping  BY <1>0, MgrSet DEF Stopping
    <2>14. ~EndLoop  BY <1>0, EndLoopIs
    <2> QED BY <1>4, <2>1, <2>4, <2>6, <2>7, <2>8, <2>9, <2>10, <2>11, <2>12, <2>13, <2>14
          DEF Manager, NothingReturned, WriteReturned, HandleWanted, CloseWanted
  <1> QED BY <1>1, <1>2, <1>3, <1>4 DEF Next

-----------------------------------------------------------------------------
LEMMA DueFile ==
    ASSUME IInv, mgr.pc \notin {"open", "dead"}, NEW w \in Writers, NEW i, Due(w, i)
    PROVE  i \in DOMAIN files
  <1>0. TypeInv /\ FileInv /\ WriterInv  BY DEF IInv
  <1>1. CASE Alive(w) /\ i = writers[w].file  BY <1>0, <1>1, OwnKnown
  <1>2. CASE i # None /\ i = writers[w].next  BY <1>0, <1>2, OwnKnown
  <1>3. CASE \E k \in DOMAIN writer_queues[w] :
                Answer(w, k) /\ writer_queues[w][k].file = i
    BY <1>0, <1>3, AnswerKnown
  <1> QED BY <1>1, <1>2, <1>3 DEF Due

\* a writer gets a file that was on its way to it
LEMMA DueOfWriters ==
    ASSUME IInv, NEW w \in Writers, Writer(w), NEW v \in Writers, NEW i, Due(v, i)'
    PROVE  Due(v, i)
  <1>0. /\ TypeInv /\ FileInv /\ WriterInv /\ Alive(w)
        /\ \A u \in Writers : u # w => writers'[u] = writers[u]
    BY WriterRuns
  <1>1. PICK d \in {0, 1} : AnswersFrom(w, d)  BY WriterAnswers
  <1>2. CASE Alive(v)' /\ i = writers'[v].file
    <2>1. CASE v # w  BY <1>0, <1>2, <2>1 DEF Due, Alive
    <2>2. CASE v = w
      <3>1. writers'[w].file = writers[w].file
              \/ (writers'[w].file = writers[w].next /\ writers[w].next # None)
        BY WriterFile
      <3> QED BY <1>0, <1>2, <2>2, <3>1 DEF Due
    <2> QED BY <2>1, <2>2
  <1>3. CASE i # None /\ i = writers'[v].next
    <2>1. CASE v # w  BY <1>0, <1>3, <2>1 DEF Due
    <2>2. CASE v = w
      <3>1. CASE writers'[w].next = writers[w].next  BY <1>3, <2>2, <3>1 DEF Due
      <3>2. CASE NextHandle(w)
        <4>1. /\ 1 \in DOMAIN writer_queues[w] /\ writer_queues[w][1].type = "handle"
              /\ writers'[w].next = writer_queues[w][1].file
          BY <1>1, <3>2 DEF AnswersFrom
        <4>2. Answer(w, 1)  BY <1>3, <2>2, <4>1 DEF Answer
        <4> QED BY <1>3, <2>2, <4>1, <4>2 DEF Due
      <3> QED BY <1>3, <2>2, <3>1, <3>2, WriterFile
    <2> QED BY <2>1, <2>2
  <1>4. CASE \E k \in DOMAIN writer_queues'[v] :
                Answer(v, k)' /\ writer_queues'[v][k].file = i
    <2>1. PICK k \in DOMAIN writer_queues'[v] : Answer(v, k)' /\ writer_queues'[v][k].file = i
      BY <1>4
    <2>2. PICK l \in DOMAIN writer_queues[v] : writer_queues'[v][k] = writer_queues[v][l]
      <3>1. CASE v # w
        <4>1. writer_queues'[v] = writer_queues[v]  BY <1>1, <3>1 DEF AnswersFrom
        <4> QED BY <2>1, <4>1
      <3>2. CASE v = w  BY <1>1, <2>1, <3>2 DEF AnswersFrom
      <3> QED BY <3>1, <3>2
    <2>3. Answer(v, l)  BY <2>1, <2>2 DEF Answer
    <2> QED BY <2>1, <2>2, <2>3 DEF Due
  <1> QED BY <1>2, <1>3, <1>4 DEF Due

\* the other steps but for the opening of files
LEMMA DueStays ==
    ASSUME UNCHANGED writers, NoAnswer, NEW v \in Writers, NEW i, Due(v, i)'
    PROVE  Due(v, i)
  <1>0. v \in Queues  BY QueueOne, WriterAssumption
  <1>1. CASE \E k \in DOMAIN writer_queues'[v] :
                Answer(v, k)' /\ writer_queues'[v][k].file = i
    <2>1. PICK k \in DOMAIN writer_queues'[v] : Answer(v, k)' /\ writer_queues'[v][k].file = i
      BY <1>1
    <2>2. Asking(writer_queues'[v][k])  BY <2>1 DEF Answer, Asking
    <2>3. k \in DOMAIN writer_queues[v] /\ writer_queues'[v][k] = writer_queues[v][k]
      BY <1>0, <2>1, <2>2 DEF NoAnswer
    <2>4. Answer(v, k)  BY <2>1, <2>3 DEF Answer
    <2> QED BY <2>1, <2>3, <2>4 DEF Due
  <1>2. CASE (Alive(v)' /\ i = writers'[v].file) \/ (i # None /\ i = writers'[v].next)
    BY <1>2 DEF Due, Alive
  <1> QED BY <1>1, <1>2 DEF Due

\* a file is made
LEMMA DueMade ==
    ASSUME IInv, CloseOrder, HandleWanted, NEW v \in Writers, NEW i, Due(v, i)'
    PROVE  Due(v, i) \/ (i = Len(files) + 1 /\ files' = Append(files, [NewFile EXCEPT !.num = Len(files)]))
  <1>0. TypeInv /\ UNCHANGED writers /\ v \in Queues
    BY QueueOne, WriterAssumption DEF IInv, HandleWanted
  <1>1. PICK j \in HandleJobs :
            /\ writer_queues' = [writer_queues EXCEPT ![mgr.job.writer] = Append(@, j)]
            /\ j.writer = mgr.job.writer
            /\ \/ /\ j.file = Len(files) + 1
                  /\ files' = Append(files, [NewFile EXCEPT !.num = Len(files)])
               \/ j = mgr.job
    BY <1>0, HandleSent
  <1>2. mgr.job \in HandleJobs  BY <1>0, HandleSent
  <1>3. PICK o \in Writers : o = mgr.job.writer  BY <1>2 DEF HandleJobs
  <1>4. o \in Queues /\ j \in ToWriter  BY QueueOne, WriterAssumption DEF ToWriter
  <1>5. mgr.job.file = None
    <2>1. 0 \in Posts
      <3>1. mgr_queue \in Seq(ToManager)  BY <1>0 DEF TypeInv
      <3>2. Len(mgr_queue) \in Nat  BY <3>1
      <3> QED BY <3>2 DEF Posts
    <2>2. mgr.job.type = "handle"  BY <1>2 DEF HandleJobs
    <2> QED BY <2>1, <2>2 DEF CloseOrder, Post
  <1>6. /\ \A p \in Queues : p # o => writer_queues'[p] = writer_queues[p]
        /\ DOMAIN writer_queues[o] = 1..Len(writer_queues[o])
        /\ DOMAIN writer_queues'[o] = 1..Len(writer_queues[o]) + 1
        /\ Len(writer_queues[o]) \in Nat
        /\ writer_queues'[o][Len(writer_queues[o]) + 1] = j
        /\ \A k \in DOMAIN writer_queues[o] : writer_queues'[o][k] = writer_queues[o][k]
    <2>1. writer_queues' = [writer_queues EXCEPT ![o] = Append(@, j)]  BY <1>1, <1>3
    <2> QED BY <1>0, <1>4, <2>1, GrownIs
  <1>7. CASE \E k \in DOMAIN writer_queues'[v] :
                Answer(v, k)' /\ writer_queues'[v][k].file = i
    <2>1. PICK k \in DOMAIN writer_queues'[v] : Answer(v, k)' /\ writer_queues'[v][k].file = i
      BY <1>7
    <2>2. CASE k \in DOMAIN writer_queues[v]
      <3>1. writer_queues'[v][k] = writer_queues[v][k]  BY <1>0, <1>6, <2>2
      <3>2. Answer(v, k)  BY <2>1, <2>2, <3>1 DEF Answer
      <3> QED BY <2>1, <2>2, <3>1, <3>2 DEF Due
    <2>3. CASE k \notin DOMAIN writer_queues[v]
      <3>1. v = o /\ k = Len(writer_queues[o]) + 1  BY <1>0, <1>6, <2>1, <2>3
      <3>2. j.file = i /\ j.file # None  BY <1>6, <2>1, <3>1 DEF Answer
      <3> QED BY <1>1, <1>5, <3>2
    <2> QED BY <2>2, <2>3
  <1>8. CASE (Alive(v)' /\ i = writers'[v].file) \/ (i # None /\ i = writers'[v].next)
    BY <1>0, <1>8 DEF Due, Alive
  <1> QED BY <1>7, <1>8 DEF Due

\* a file is gone when it could not be made, or held nothing at the end
LEMMA GoneStays ==
    ASSUME IInv, [Next]_vars, ~OpenFiles, ~HandleWanted, ~Stopping
    PROVE  DOMAIN files' = DOMAIN files /\ \A i \in DOMAIN files : files'[i].gone = files[i].gone
  <1>0. TypeInv /\ WriterInv /\ files \in Seq(Files)  BY DEF IInv, TypeInv
  <1>1. CASE UNCHANGED files  BY <1>1
  <1>2. CASE \E w \in Writers : WriteBlock(w)
    <2>1. PICK w \in Writers : WriteBlock(w)  BY <1>2
    <2>2. PICK i \in Nat : i = writers[w].file  BY <1>0, WriterIs, WriterFields
    <2>3. PICK d \in Seq(0..MaxFrames) : files' = [files EXCEPT ![writers[w].file].data = @ \o d]
      BY <2>1, WriteIs
    <2>4. files' = [files EXCEPT ![i].data = @ \o d]  BY <2>2, <2>3
    <2> QED BY <1>0, <2>4, DataStep
  <1>3. CASE \E w \in Writers : WriteFails(w)
    <2>1. PICK w \in Writers : WriteFails(w)  BY <1>3
    <2>2. PICK i \in Nat : i = writers[w].file  BY <1>0, WriterIs, WriterFields
    <2>3. PICK d \in Seq(0..MaxFrames) : files' = [files EXCEPT ![writers[w].file].data = @ \o d]
      BY <2>1, FailsIs
    <2>4. files' = [files EXCEPT ![i].data = @ \o d]  BY <2>2, <2>3
    <2> QED BY <1>0, <2>4, DataStep
  <1>4. CASE \E i, n, c \in Nat : files' = Closed(i, n, c)
    <2>1. PICK i \in Nat, n \in Nat, c \in Nat : files' = Closed(i, n, c)  BY <1>4
    <2>2. PICK g : g = files'  OBVIOUS
    <2>3. ClosedAs(g, i, n, c)  BY <1>0, <2>1, <2>2, ClosedIs
    <2> QED BY <2>2, <2>3 DEF ClosedAs
  <1>5. CASE \E w \in Writers : CloseFile(w)
    <2>1. PICK w \in Writers : CloseFile(w)  BY <1>5
    <2>2. \E i, n, c \in Nat : files' = Closed(i, n, c)  BY <1>0, <2>1, CloseIs
    <2> QED BY <1>4, <2>2
  <1>6. CASE CloseWanted
    <2>1. mgr.job \in MgrJobs /\ mgr.job.type = "close"
      BY <1>6, MgrIs DEF IInv, TypeInv, CloseWanted, Returned
    <2>2. mgr.job \in CloseJobs
      BY <2>1 DEF MgrJobs, ToManager, WriteJobs, HandleJobs, NoJob
    <2>3. mgr.job.file \in Nat /\ mgr.job.num \in Nat /\ mgr.job.frames \in Nat
      BY <2>2 DEF CloseJobs
    <2> QED BY <1>4, <1>6, <2>3 DEF CloseWanted
  <1>7. CASE \E w \in Writers : Writer(w)
    BY <1>1, <1>2, <1>3, <1>5, <1>7 DEF Writer, NextHandle, TakeAbort, TakeFits, TakeAsks,
       TakeSwitches
  <1>8. CASE Manager
    BY <1>1, <1>6, <1>8 DEF Manager, Prepare, Begin, MgrLoop, FillQueue, NothingReturned,
       WriteReturned, Drain, AbortWriters, Flush, CleanUp
  <1>9. CASE Camera \/ DmaDone \/ TakeSlot \/ ReleaseSlot  BY <1>1, <1>9, CameraSlots
  <1> QED BY <1>1, <1>7, <1>8, <1>9 DEF Next, PressRec, vars

\* how the manager comes to be busy
LEMMA BusyFrom ==
    ASSUME IInv, [Next]_vars, ~OpenFiles, mgr'.pc \in Busy
    PROVE  mgr.pc \in Busy /\ (mgr'.pc \in Busy => ~Stopping)
  <1>0. FlowInv /\ mgr \in Managers  BY DEF IInv, TypeInv
  <1>1. CASE \E w \in Writers : Writer(w)
    <2>1. UNCHANGED mgr  BY <1>1, WriterEffects
    <2>2. ~Stopping  BY <1>0, <2>1, MgrSet DEF Stopping, Busy
    <2> QED BY <2>1, <2>2
  <1>2. CASE Camera \/ DmaDone \/ TakeSlot \/ ReleaseSlot
    <2>1. UNCHANGED mgr  BY <1>2, CameraSlots
    <2>2. ~Stopping  BY <1>0, <2>1, MgrSet DEF Stopping, Busy
    <2> QED BY <2>1, <2>2
  <1>3. CASE PressRec \/ UNCHANGED vars
    <2>1. mgr' = mgr \/ mgr' = [mgr EXCEPT !.pc = "prepare"]  BY <1>3 DEF PressRec, vars
    <2>2. UNCHANGED mgr  BY <1>0, <2>1, MgrSet DEF Busy
    <2>3. ~Stopping  BY <1>0, <2>2, MgrSet DEF Stopping, Busy
    <2> QED BY <2>2, <2>3
  <1>4. CASE Manager
    <2>1. ~Prepare
      <3>1. Prepare => \E pc \in {"open", "cleanup"} : mgr' = [mgr EXCEPT !.pc = pc]
        BY DEF Prepare
      <3> QED BY <1>0, <3>1, MgrSet DEF Busy
    <2>2. ~Stopping
      <3>1. Stopping => mgr' = [mgr EXCEPT !.pc = "drain"]  BY DEF Stopping
      <3> QED BY <1>0, <3>1, MgrSet DEF Busy
    <2>3. ~Drain
      <3>1. Drain => \/ mgr' = [mgr EXCEPT !.pc = "cleanup"]
                     \/ mgr' = [mgr EXCEPT !.pc = "abort", !.at = 0]
        BY DEF Drain
      <3>2. ASSUME mgr' = [mgr EXCEPT !.pc = "abort", !.at = 0] PROVE mgr'.pc = "abort"
        BY <1>0, <3>2 DEF Managers
      <3> QED BY <1>0, <3>1, <3>2, MgrSet DEF Busy
    <2>4. ~AbortWriters
      <3>1. AbortWriters => \/ mgr' = [mgr EXCEPT !.at = 1] /\ mgr.pc = "abort"
                            \/ mgr' = [mgr EXCEPT !.pc = "flush"]
        BY DEF AbortWriters
      <3>2. ASSUME mgr' = [mgr EXCEPT !.at = 1], mgr.pc = "abort" PROVE mgr'.pc = "abort"
        BY <1>0, <3>2 DEF Managers
      <3> QED BY <1>0, <3>1, <3>2, MgrSet DEF Busy
    <2>5. ~Flush  BY <1>0, MgrSet DEF Flush, Busy
    <2>6. ~CleanUp
      <3>1. CleanUp => mgr' = [mgr EXCEPT !.pc = "off", !.used = FALSE]  BY DEF CleanUp
      <3>2. ASSUME mgr' = [mgr EXCEPT !.pc = "off", !.used = FALSE] PROVE mgr'.pc = "off"
        BY <1>0, <3>2 DEF Managers
      <3> QED BY <3>1, <3>2 DEF Busy
    <2> QED BY <1>4, <2>1, <2>2, <2>3, <2>4, <2>5, <2>6 DEF Manager, Begin, MgrLoop, FillQueue,
          NothingReturned, WriteReturned, HandleWanted, CloseWanted, Returned, Busy
  <1> QED BY <1>1, <1>2, <1>3, <1>4 DEF Next

LEMMA GoneStep ==
    ASSUME IInv, StartsClean, CloseOrder \/ mgr.pc \in {"open", "dead"}, GapInv, GoneInv, [Next]_vars
    PROVE  GoneInv'
  <1>0. TypeInv /\ FlowInv /\ FileInv /\ mgr \in Managers /\ files \in Seq(Files)
    BY DEF IInv, TypeInv
  <1>1. CASE OpenFiles
    <2>1. files' = [i \in 1..NWriters |-> [NewFile EXCEPT !.num = i - 1]]
      BY <1>1 DEF OpenFiles
    <2>2. \A i \in DOMAIN files' : files'[i].gone = FALSE  BY <2>1 DEF NewFile
    <2>3. ASSUME mgr'.pc \in Busy, NEW w \in Writers, NEW i, Due(w, i)'
          PROVE  i \in DOMAIN files'
      <3>1. mgr' # [mgr EXCEPT !.pc = "dead"]  BY <1>0, <2>3, MgrSet DEF Busy
      <3>2. writers' = [v \in Writers |->
                [Idle EXCEPT !.pc = "take", !.file = v + 1, !.num = v]]
        BY <1>1, <3>1 DEF OpenFiles
      <3>3. writers'[w].file = w + 1 /\ writers'[w].next = None  BY <3>2 DEF Idle
      <3>4. DOMAIN writer_queues'[w] = {}
        <4>1. w \in Queues  BY QueueOne, WriterAssumption
        <4>2. writer_queues' = [q \in Queues |-> <<>>]  BY <1>0, <1>1 DEF OpenFiles, FlowInv
        <4> QED BY <4>1, <4>2
      <3>5. i = w + 1  BY <2>3, <3>3, <3>4 DEF Due
      <3> QED BY <2>1, <3>5, WriterAssumption DEF Writers
    <2> QED BY <2>2, <2>3 DEF GoneInv
  <1>2. CASE HandleWanted
    <2>0. mgr.pc = "handle" /\ UNCHANGED writers  BY <1>2 DEF HandleWanted, Returned
    <2>1. CloseOrder /\ mgr.pc \in Busy  BY <2>0 DEF Busy
    <2>2. PICK f \in {[NewFile EXCEPT !.num = Len(files)], [NewFile EXCEPT !.gone = TRUE]} :
              files' = Append(files, f)
      BY <1>2 DEF HandleWanted
    <2>3. f.data = <<>>  BY DEF NewFile
    <2>4. /\ Len(files) \in Nat /\ DOMAIN files = 1..Len(files)
          /\ DOMAIN files' = 1..Len(files) + 1
          /\ \A i \in DOMAIN files : files'[i] = files[i]
          /\ files'[Len(files) + 1] = f
      BY <1>0, <2>2
    <2>5. \A i \in DOMAIN files' : files'[i].gone => files'[i].data = <<>>
      <3> SUFFICES ASSUME NEW i \in DOMAIN files', files'[i].gone PROVE files'[i].data = <<>>
        OBVIOUS
      <3>1. CASE i \in DOMAIN files  BY <2>4, <3>1 DEF GoneInv
      <3>2. CASE i \notin DOMAIN files
        <4>1. i = Len(files) + 1  BY <2>4, <3>2
        <4> QED BY <2>3, <2>4, <4>1
      <3> QED BY <3>1, <3>2
    <2>6. ASSUME NEW w \in Writers, NEW i, Due(w, i)' PROVE ~files'[i].gone
      <3>1. CASE Due(w, i)
        <4>1. i \in DOMAIN files  BY <2>0, <3>1, DueFile
        <4> QED BY <2>1, <2>4, <3>1, <4>1 DEF GoneInv
      <3>2. CASE i = Len(files) + 1 /\ files' = Append(files, [NewFile EXCEPT !.num = Len(files)])
        <4>1. PICK g : files' = Append(files, g) /\ g.gone = FALSE  BY <3>2 DEF NewFile
        <4>2. files'[Len(files) + 1] = g  BY <1>0, <4>1
        <4> QED BY <3>2, <4>1, <4>2
      <3> QED BY <1>2, <2>1, <2>6, <3>1, <3>2, DueMade
    <2> QED BY <2>5, <2>6 DEF GoneInv
  <1>3. CASE Stopping
    <2>1. mgr'.pc = "drain"  BY <1>0, <1>3, MgrSet DEF Stopping
    <2>2. files' = [i \in DOMAIN files |->
                      [files[i] EXCEPT !.gone = @ \/ (i > 1 /\ files[i].data = <<>>)]]
      BY <1>3 DEF Stopping
    <2>3. ASSUME NEW i \in DOMAIN files', files'[i].gone PROVE files'[i].data = <<>>
      <3>1. i \in DOMAIN files /\ files[i] \in Files  BY <1>0, <2>2
      <3>2. files'[i] = [files[i] EXCEPT !.gone = @ \/ (i > 1 /\ files[i].data = <<>>)]
        BY <2>2, <3>1
      <3>3. files'[i].data = files[i].data
            /\ files'[i].gone = (files[i].gone \/ (i > 1 /\ files[i].data = <<>>))
        BY <3>1, <3>2 DEF Files
      <3> QED BY <2>3, <3>1, <3>3 DEF GoneInv
    <2> QED BY <2>1, <2>3 DEF GoneInv, Busy
  <1>4. CASE ~OpenFiles /\ ~HandleWanted /\ ~Stopping
    <2>1. DOMAIN files' = DOMAIN files /\ \A i \in DOMAIN files : files'[i].gone = files[i].gone
      BY <1>4, GoneStays
    <2>2. CASE \E w \in Writers : Writer(w)
      <3>1. PICK w \in Writers : Writer(w)  BY <2>2
      <3>2. UNCHANGED mgr /\ Alive(w) /\ mgr.pc \notin {"open", "dead"}
        BY <3>1, WriterRuns
      <3>3. ASSUME mgr.pc \in Busy, NEW v \in Writers, NEW i, Due(v, i)' PROVE ~files'[i].gone
        <4>1. Due(v, i)  BY <3>1, <3>3, DueOfWriters
        <4>2. i \in DOMAIN files  BY <3>2, <4>1, DueFile
        <4> QED BY <2>1, <3>3, <4>1, <4>2 DEF GoneInv
      <3>4. ASSUME NEW i \in DOMAIN files, files'[i].gone PROVE files'[i].data = <<>>
        <4>1. files[i].data = <<>>  BY <2>1, <3>4 DEF GoneInv
        <4>2. CASE ~WriteBlock(w) /\ ~WriteFails(w)
          <5>1. SameData  BY <3>1, <4>2, DataStays
          <5> QED BY <4>1, <5>1 DEF SameData
        <4>3. CASE WriteBlock(w) \/ WriteFails(w)
          <5>1. ~Quiet  BY <3>1, <4>3, QuietWriters
          <5>2. mgr.pc \in Busy
            BY <1>0, <3>2, <5>1, MgrIs DEF Quiet, Calm, Busy, MgrSteps
          <5>3. ~files[writers[w].file].gone  BY <3>2, <5>2 DEF GoneInv, Due
          <5>4. i # writers[w].file  BY <2>1, <3>4, <5>3
          <5>5. Kept(i)  BY <3>1, <5>4, WriterFiles
          <5> QED BY <4>1, <5>5 DEF Kept
        <4> QED BY <4>2, <4>3
      <3> QED BY <2>1, <3>2, <3>3, <3>4 DEF GoneInv
    <2>3. CASE \A w \in Writers : ~Writer(w)
      <3>1. \A i \in DOMAIN files : files'[i].data = files[i].data
        <4>1. CASE CloseWanted  BY <1>4, <4>1, ManagerData DEF SameData, Manager
        <4>2. CASE ~CloseWanted  BY <1>4, <2>3, <4>2, FilesAlike DEF Kept
        <4> QED BY <4>1, <4>2
      <3>2. \A i \in DOMAIN files : files'[i].gone => files'[i].data = <<>>
        BY <2>1, <3>1 DEF GoneInv
      <3>3. ASSUME mgr'.pc \in Busy, NEW v \in Writers, NEW i, Due(v, i)' PROVE ~files'[i].gone
        <4>1. mgr.pc \in Busy  BY <1>4, <3>3, BusyFrom
        <4>0. mgr.pc \notin {"open", "dead"}  BY <4>1 DEF Busy
        <4>2. UNCHANGED writers /\ NoAnswer  BY <1>4, <2>3, <4>0, QueuesMove
        <4>3. Due(v, i)  BY <3>3, <4>2, DueStays
        <4>4. i \in DOMAIN files  BY <4>0, <4>3, DueFile
        <4> QED BY <2>1, <4>1, <4>3, <4>4 DEF GoneInv
      <3> QED BY <2>1, <3>2, <3>3 DEF GoneInv
    <2> QED BY <2>2, <2>3
  <1> QED BY <1>1, <1>2, <1>3, <1>4

-----------------------------------------------------------------------------
(* Files: each is closed, or somebody is to close it.                      *)

\* the jobs of the manager in a step of the others, and in its own steps
LEMMA JobSteps ==
    ASSUME IInv, [Next]_vars, \A w \in Writers : ~Writer(w)
    PROVE  \/ UNCHANGED mgr_queue /\ mgr'.job = mgr.job
           \/ /\ UNCHANGED mgr_queue /\ mgr'.job = NoJob
              /\ NothingReturned \/ WriteReturned \/ HandleWanted \/ CloseWanted
           \/ /\ mgr_queue # <<>> /\ mgr_queue' = Tail(mgr_queue)
              /\ mgr'.job = Head(mgr_queue) /\ mgr.job = NoJob
           \/ Flush /\ mgr_queue' = <<>> /\ mgr'.job = mgr.job
  <1>0. FlowInv /\ mgr \in Managers  BY DEF IInv, TypeInv
  <1>1. CASE Camera \/ DmaDone \/ TakeSlot \/ ReleaseSlot  BY <1>1, CameraSlots
  <1>2. CASE PressRec \/ UNCHANGED vars
    <2>1. UNCHANGED mgr_queue /\ (mgr' = mgr \/ mgr' = [mgr EXCEPT !.pc = "prepare"])
      BY <1>2 DEF PressRec, vars
    <2> QED BY <1>0, <2>1, MgrSet
  <1>3. CASE Manager
    <2>1. CASE NothingReturned \/ WriteReturned \/ HandleWanted \/ CloseWanted
      <3>1. EndLoop /\ UNCHANGED mgr_queue
        BY <2>1 DEF NothingReturned, WriteReturned, HandleWanted, CloseWanted
      <3> QED BY <1>0, <2>1, <3>1, EndLoopIs
    <2>2. CASE Prepare \/ OpenFiles \/ Stopping \/ Flush
      <3>1. /\ \E pc : mgr' = [mgr EXCEPT !.pc = pc]
            /\ UNCHANGED mgr_queue \/ (Flush /\ mgr_queue' = <<>>)
        BY <2>2 DEF Prepare, OpenFiles, Stopping, Flush
      <3> QED BY <1>0, <3>1, MgrSet
    <2>3. CASE Begin
      <3>1. mgr' = [mgr EXCEPT !.pc = "loop", !.used = FALSE, !.job = NoJob]
            /\ UNCHANGED mgr_queue /\ mgr.pc = "begin"
        BY <2>3 DEF Begin
      <3>2. mgr'.job = NoJob  BY <1>0, <3>1 DEF Managers
      <3> QED BY <1>0, <3>1, <3>2 DEF FlowInv
    <2>4. CASE MgrLoop
      <3>1. mgr.job = NoJob  BY <1>0, <2>4 DEF FlowInv, MgrLoop
      <3>2. mgr_queue \in Seq(ToManager)  BY DEF IInv, TypeInv
      <3>3. PICK job : job = IF mgr_queue = <<>> THEN NoJob ELSE Head(mgr_queue)  OBVIOUS
      <3>4. job \in MgrJobs
        <4>1. mgr_queue # <<>> => Head(mgr_queue) \in MgrJobs  BY <3>2 DEF MgrJobs
        <4> QED BY <3>3, <4>1 DEF MgrJobs
      <3>5. \/ /\ UNCHANGED mgr_queue
               /\ mgr' = [mgr EXCEPT !.pc = "stopping"] \/ mgr' = [mgr EXCEPT !.pc = "cleanup"]
            \/ /\ mgr' = [mgr EXCEPT !.pc = "fill", !.at = 0, !.job = job]
               /\ IF mgr_queue = <<>> THEN UNCHANGED mgr_queue ELSE mgr_queue' = Tail(mgr_queue)
        BY <2>4, <3>3 DEF MgrLoop
      <3>6. CASE UNCHANGED mgr_queue
                 /\ (mgr' = [mgr EXCEPT !.pc = "stopping"] \/ mgr' = [mgr EXCEPT !.pc = "cleanup"])
        BY <1>0, <3>6, MgrSet
      <3>7. CASE /\ mgr' = [mgr EXCEPT !.pc = "fill", !.at = 0, !.job = job]
                 /\ IF mgr_queue = <<>> THEN UNCHANGED mgr_queue
                    ELSE mgr_queue' = Tail(mgr_queue)
        <4>1. mgr'.job = job  BY <1>0, <3>4, <3>7 DEF Managers
        <4> QED BY <3>1, <3>3, <3>7, <4>1
      <3> QED BY <3>5, <3>6, <3>7
    <2>5. CASE FillQueue
      <3>1. UNCHANGED mgr_queue /\ (\/ mgr' = [mgr EXCEPT !.at = mgr.at + 1]
                                    \/ mgr' = [mgr EXCEPT !.pc = "handle"])
        BY <2>5 DEF FillQueue, FillNext
      <3>2. mgr'.job = mgr.job  BY <1>0, <3>1 DEF Managers
      <3> QED BY <3>1, <3>2
    <2>6. CASE Drain \/ AbortWriters \/ CleanUp
      <3>1. /\ UNCHANGED mgr_queue
            /\ \/ \E pc : mgr' = [mgr EXCEPT !.pc = pc]
               \/ mgr' = [mgr EXCEPT !.pc = "abort", !.at = 0]
               \/ mgr' = [mgr EXCEPT !.at = 1]
               \/ mgr' = [mgr EXCEPT !.pc = "off", !.used = FALSE]
        BY <2>6 DEF Drain, AbortWriters, CleanUp
      <3>2. mgr'.job = mgr.job
        <4>1. (\E pc : mgr' = [mgr EXCEPT !.pc = pc]) => mgr'.job = mgr.job  BY <1>0, MgrSet
        <4>2. mgr' = [mgr EXCEPT !.pc = "abort", !.at = 0] => mgr'.job = mgr.job
          BY <1>0 DEF Managers
        <4>3. mgr' = [mgr EXCEPT !.at = 1] => mgr'.job = mgr.job  BY <1>0 DEF Managers
        <4>4. mgr' = [mgr EXCEPT !.pc = "off", !.used = FALSE] => mgr'.job = mgr.job
          BY <1>0 DEF Managers
        <4> QED BY <3>1, <4>1, <4>2, <4>3, <4>4
      <3> QED BY <3>1, <3>2
    <2> QED BY <1>3, <2>1, <2>2, <2>3, <2>4, <2>5, <2>6 DEF Manager
  <1> QED BY <1>1, <1>2, <1>3 DEF Next

\* a step of a writer sends at most one job to the manager
LEMMA PostsGrow ==
    ASSUME IInv, NEW w \in Writers, Writer(w)
    PROVE  /\ mgr_queue' = mgr_queue \/ \E j \in ToManager : mgr_queue' = Append(mgr_queue, j)
           /\ \A k \in DOMAIN mgr_queue : k \in DOMAIN mgr_queue' /\ mgr_queue'[k] = mgr_queue[k]
           /\ \A k \in Posts : k \in Posts' /\ Post(k)' = Post(k)
  <1>0. TypeInv /\ CountInv /\ WriterInv /\ UNCHANGED mgr  BY WriterRuns
  <1>1. mgr_queue' = mgr_queue \/ \E j \in ToManager : mgr_queue' = Append(mgr_queue, j)
    <2>1. CASE TakeAsks(w) \/ TakeSwitches(w)
      <3>1. \E j \in HandleJobs \cup CloseJobs : mgr_queue' = Append(mgr_queue, j)
        <4>1. CASE TakeAsks(w)
          <5>1. PICK j : j = [type |-> "handle", writer |-> w, file |-> None,
                              num |-> writers[w].num]
            OBVIOUS
          <5>2. mgr_queue' = Append(mgr_queue, j)  BY <4>1, <5>1 DEF TakeAsks
          <5>3. writers[w].num \in Nat  BY <1>0, WriterIs, WriterFields
          <5>4. j \in HandleJobs  BY <5>1, <5>3 DEF HandleJobs, None
          <5> QED BY <5>2, <5>4
        <4>2. CASE TakeSwitches(w)
          <5>1. PICK j : j = [type |-> "close", writer |-> w, file |-> writers[w].file,
                              num |-> writers[w].num, frames |-> writers[w].frames]
            OBVIOUS
          <5>2. mgr_queue' = Append(mgr_queue, j)  BY <4>2, <5>1 DEF TakeSwitches
          <5>3. writers[w].num \in Nat /\ writers[w].file \in Nat /\ writers[w].frames \in Nat
            BY <1>0, WriterIs, WriterFields
          <5>4. j \in CloseJobs  BY <5>1, <5>3 DEF CloseJobs
          <5> QED BY <5>2, <5>4
        <4> QED BY <2>1, <4>1, <4>2
      <3> QED BY <3>1 DEF ToManager
    <2>2. CASE WriteBlock(w)  BY <2>2, WriteIs DEF ToManager
    <2>3. CASE ~TakeAsks(w) /\ ~TakeSwitches(w) /\ ~WriteBlock(w)
      BY <2>3 DEF Writer, NextHandle, TakeAbort, TakeFits, WriteFails, CloseFile
    <2> QED BY <2>1, <2>2, <2>3
  <1>2. \A k \in DOMAIN mgr_queue : k \in DOMAIN mgr_queue' /\ mgr_queue'[k] = mgr_queue[k]
    BY <1>0, <1>1, SentIs
  <1>3. ASSUME NEW k \in Posts PROVE k \in Posts' /\ Post(k)' = Post(k)
    <2>1. Len(mgr_queue) \in Nat /\ k \in Nat /\ (k # 0 => k \in DOMAIN mgr_queue)
      BY <1>0, PostTypes
    <2>2. Len(mgr_queue') \in {Len(mgr_queue), Len(mgr_queue) + 1}  BY <1>0, <1>1, SentIs
    <2> QED BY <1>0, <1>2, <2>1, <2>2 DEF Posts, Post
  <1> QED BY <1>1, <1>2, <1>3

\* a block names a slot
LEMMA BlockNames ==
    ASSUME NEW j \in WriteJobs, j.len \in Nat \ {0}
    PROVE  JobSlots(j) # {}
  <1>1. j.start \in Nat /\ j.type = "write"  BY DEF WriteJobs
  <1>2. j.start \in j.start .. j.start + j.len - 1  BY <1>1
  <1> QED BY <1>1, <1>2 DEF JobSlots

\* behind a request to close a file a block is on its way, or will be
Following(k) ==
    \/ \E l \in DOMAIN mgr_queue : l > k /\ JobSlots(mgr_queue[l]) # {}
    \/ \E w \in Writers : JobSlots(writers[w].job) # {}
\* somebody has closed the file or is to close it
Shut(i) == \/ files[i].closed > 0
           \/ \E w \in Writers : Alive(w) /\ writers[w].file = i
           \/ \E k \in Posts : Closes(k) /\ Post(k).file = i
CloseInv == mgr.pc \notin {"open", "dead"} =>
    /\ \A i \in DOMAIN files : files[i].data # <<>> => Shut(i)
    /\ \A k \in DOMAIN mgr_queue : mgr_queue[k].type = "close" => Following(k)

LEMMA FollowOfWriters ==
    ASSUME IInv, CloseInv, NEW w \in Writers, Writer(w),
           NEW k \in DOMAIN mgr_queue', mgr_queue'[k].type = "close"
    PROVE  Following(k)'
  <1>0. /\ TypeInv /\ CountInv /\ WriterInv /\ mgr.pc \notin {"open", "dead"}
        /\ \A v \in Writers : v # w => writers'[v] = writers[v]
        /\ mgr_queue \in Seq(ToManager) /\ Len(mgr_queue) \in Nat
        /\ DOMAIN mgr_queue = 1..Len(mgr_queue)
    <2>1. TypeInv /\ mgr_queue \in Seq(ToManager)  BY DEF IInv, TypeInv
    <2> QED BY <2>1, WriterRuns
  <1>1. \A l \in DOMAIN mgr_queue : l \in DOMAIN mgr_queue' /\ mgr_queue'[l] = mgr_queue[l]
    BY PostsGrow
  <1>2. CASE TakeFits(w) \/ TakeAsks(w) \/ TakeSwitches(w)
    <2>1. writers'[w].job = Head(writer_queues[w]) /\ TakeJob(w) /\ Ready(w, "write")
      BY <1>0, <1>2, TakesIs
    <2>2. JobSlots(writers'[w].job) # {}  BY <1>0, <2>1, Taken, BlockNames
    <2> QED BY <2>2 DEF Following
  <1>3. CASE WriteBlock(w)
    <2>1. PICK j \in WriteJobs : j = writers[w].job /\ j.len \in Nat \ {0}  BY <1>3, WriteIs
    <2>2. mgr_queue' = Append(mgr_queue, j)  BY <1>3, <2>1, WriteIs
    <2>3. j \in ToManager /\ j.type = "write"  BY DEF ToManager, WriteJobs
    <2>4. /\ mgr_queue'[Len(mgr_queue) + 1] = j
          /\ DOMAIN mgr_queue' = DOMAIN mgr_queue \cup {Len(mgr_queue) + 1}
      BY <1>0, <2>2, <2>3, SentIs
    <2>5. k \in DOMAIN mgr_queue  BY <2>3, <2>4
    <2>6. Len(mgr_queue) + 1 > k  BY <1>0, <2>5
    <2>7. JobSlots(mgr_queue'[Len(mgr_queue) + 1]) # {}  BY <2>1, <2>4, BlockNames
    <2> QED BY <2>4, <2>6, <2>7 DEF Following
  <1>4. CASE ~TakeFits(w) /\ ~TakeAsks(w) /\ ~TakeSwitches(w) /\ ~WriteBlock(w)
    <2>1. UNCHANGED mgr_queue
      BY <1>4 DEF Writer, NextHandle, TakeAbort, WriteFails, CloseFile
    <2>2. writers'[w].job = writers[w].job
      <3>1. CASE NextHandle(w)  BY <1>0, <3>1, NextHandleIs
      <3>2. CASE TakeAbort(w)  BY <1>0, <3>2, AbortIs
      <3>3. CASE WriteFails(w)  BY <3>3, FailsIs
      <3>4. CASE CloseFile(w)  BY <1>0, <3>4, CloseIs
      <3> QED BY <1>4, <3>1, <3>2, <3>3, <3>4 DEF Writer
    <2>3. Following(k)  BY <1>0, <2>1 DEF CloseInv
    <2>4. \A v \in Writers : writers'[v].job = writers[v].job  BY <1>0, <2>2
    <2> QED BY <2>1, <2>3, <2>4 DEF Following
  <1> QED BY <1>2, <1>3, <1>4

LEMMA ShutOfWriters ==
    ASSUME IInv, CloseInv, NEW w \in Writers, Writer(w),
           NEW i \in DOMAIN files, files'[i].data # <<>>
    PROVE  Shut(i)'
  <1>0. /\ TypeInv /\ CountInv /\ WriterInv /\ mgr.pc \notin {"open", "dead"} /\ Alive(w)
        /\ \A v \in Writers : v # w => writers'[v] = writers[v]
        /\ writers[w].file \in DOMAIN files
    BY WriterRuns
  <1>1. i # writers[w].file => Kept(i)  BY WriterFiles
  <1>2. files[i].closed \in Nat /\ files[writers[w].file].closed \in Nat  BY <1>0, FileTypes
  <1>3. CASE i # writers[w].file
    <2>1. Shut(i)  BY <1>0, <1>1, <1>3 DEF CloseInv, Kept
    <2>2. CASE files[i].closed > 0  BY <1>1, <1>3, <2>2 DEF Shut, Kept
    <2>3. CASE \E v \in Writers : Alive(v) /\ writers[v].file = i
      <3>1. PICK v \in Writers : Alive(v) /\ writers[v].file = i  BY <2>3
      <3>2. writers'[v] = writers[v]  BY <1>0, <1>3, <3>1
      <3>3. Alive(v)' /\ writers'[v].file = i  BY <3>1, <3>2 DEF Alive
      <3> QED BY <3>3 DEF Shut
    <2>4. CASE \E k \in Posts : Closes(k) /\ Post(k).file = i
      <3>1. PICK k \in Posts : Closes(k) /\ Post(k).file = i  BY <2>4
      <3>2. k \in Posts' /\ Post(k)' = Post(k)  BY PostsGrow
      <3> QED BY <3>1, <3>2 DEF Shut, Closes
    <2> QED BY <2>1, <2>2, <2>3, <2>4 DEF Shut
  \* the writer leaves its file
  <1>4. CASE i = writers[w].file /\ CloseFile(w)
    <2>1. files' = Closed(writers[w].file, writers[w].num, writers[w].frames)
          /\ writers[w].num \in Nat /\ writers[w].frames \in Nat
      BY <1>0, <1>4, CloseIs
    <2>2. files'[writers[w].file].closed = files[writers[w].file].closed + 1
      BY <1>0, <2>1, FileClosed
    <2> QED BY <1>2, <1>4, <2>2 DEF Shut
  \* it keeps it, or has asked for it to be closed
  <1>5. CASE i = writers[w].file /\ ~CloseFile(w)
    <2>1. Alive(w)'
      <3>1. CASE NextHandle(w)  BY <1>0, <3>1, NextHandleIs DEF Alive
      <3>2. CASE TakeAbort(w)  BY <1>0, <3>2, AbortIs DEF Alive
      <3>3. CASE TakeFits(w) \/ TakeAsks(w) \/ TakeSwitches(w)  BY <1>0, <3>3, TakesIs DEF Alive
      <3>4. CASE WriteBlock(w)  BY <3>4, WriteIs DEF Alive
      <3>5. CASE WriteFails(w)  BY <3>5, FailsIs DEF Alive
      <3> QED BY <1>5, <3>1, <3>2, <3>3, <3>4, <3>5 DEF Writer
    <2>2. CASE writers'[w].file = writers[w].file  BY <1>5, <2>1, <2>2 DEF Shut
    <2>3. CASE TakeSwitches(w)
      <3>1. PICK j : j = [type |-> "close", writer |-> w, file |-> writers[w].file,
                          num |-> writers[w].num, frames |-> writers[w].frames]
        OBVIOUS
      <3>2. j.type = "close" /\ j.file = i  BY <1>5, <3>1
      <3>3. j \in ToManager /\ mgr_queue' = Append(mgr_queue, j)
        <4>1. mgr_queue' = Append(mgr_queue, j)  BY <2>3, <3>1 DEF TakeSwitches
        <4>2. writers[w].num \in Nat /\ writers[w].file \in Nat /\ writers[w].frames \in Nat
          BY <1>0, WriterIs, WriterFields
        <4>3. j \in CloseJobs  BY <3>1, <4>2 DEF CloseJobs
        <4> QED BY <4>1, <4>3 DEF ToManager
      <3>4. /\ Len(mgr_queue) \in Nat /\ Len(mgr_queue') = Len(mgr_queue) + 1
            /\ mgr_queue'[Len(mgr_queue) + 1] = j
        BY <1>0, <3>3, SentIs
      <3>5. PICK k : k = Len(mgr_queue) + 1  OBVIOUS
      <3>6. k \in Posts' /\ Post(k)' = j  BY <3>4, <3>5 DEF Posts, Post
      <3> QED BY <3>2, <3>6 DEF Shut, Closes
    <2> QED BY <2>2, <2>3, WriterFile
  <1> QED BY <1>3, <1>4, <1>5

LEMMA OpenStays ==
    ASSUME IInv, [Next]_vars, ~OpenFiles, mgr.pc \in {"open", "dead"}
    PROVE  mgr'.pc = mgr.pc
  <1>1. CASE \E w \in Writers : Writer(w)  BY <1>1, WriterEffects
  <1>2. CASE Camera \/ DmaDone \/ TakeSlot \/ ReleaseSlot  BY <1>2, CameraSlots
  <1>3. CASE PressRec
    <2>1. state # "idle"  BY DEF IInv, FlowInv
    <2> QED BY <1>3, <2>1 DEF PressRec
  <1>4. CASE Manager
    BY <1>4 DEF Manager, Prepare, Begin, MgrLoop, FillQueue, NothingReturned,
          WriteReturned, HandleWanted, CloseWanted, Returned, Stopping, Drain, AbortWriters,
          Flush, CleanUp
  <1>5. CASE UNCHANGED vars  BY <1>5 DEF vars
  <1> QED BY <1>1, <1>2, <1>3, <1>4, <1>5 DEF Next

LEMMA FollowStep ==
    ASSUME IInv, CloseInv, [Next]_vars, \A w \in Writers : ~Writer(w),
           mgr.pc \notin {"open", "dead"},
           NEW k \in DOMAIN mgr_queue', mgr_queue'[k].type = "close"
    PROVE  Following(k)'
  <1>0. UNCHANGED writers
    <2>1. ~OpenFiles  BY DEF OpenFiles
    <2> QED BY <2>1, FilesGrow
  <1>1. CASE UNCHANGED mgr_queue  BY <1>0, <1>1 DEF CloseInv, Following
  <1>2. CASE mgr_queue # <<>> /\ mgr_queue' = Tail(mgr_queue)
    <2>1. mgr_queue \in Seq(ToManager)  BY DEF IInv, TypeInv
    <2>2. /\ k \in Nat /\ k + 1 \in DOMAIN mgr_queue /\ mgr_queue'[k] = mgr_queue[k + 1]
          /\ \A l \in DOMAIN mgr_queue : l > k + 1 =>
                /\ l \in Nat /\ l - 1 > k
                /\ l - 1 \in DOMAIN mgr_queue' /\ mgr_queue'[l - 1] = mgr_queue[l]
      BY <1>2, <2>1
    <2>3. PICK n : n = k + 1  OBVIOUS
    <2>4. Following(n)  BY <2>2, <2>3 DEF CloseInv
    <2>5. CASE \E w \in Writers : JobSlots(writers[w].job) # {}
      BY <1>0, <2>5 DEF Following
    <2>6. CASE \E l \in DOMAIN mgr_queue : l > n /\ JobSlots(mgr_queue[l]) # {}
      <3>1. PICK l \in DOMAIN mgr_queue : l > n /\ JobSlots(mgr_queue[l]) # {}  BY <2>6
      <3>2. PICK m : m = l - 1  OBVIOUS
      <3>3. m \in DOMAIN mgr_queue' /\ m > k /\ mgr_queue'[m] = mgr_queue[l]
        BY <2>2, <2>3, <3>1, <3>2
      <3> QED BY <3>1, <3>3 DEF Following
    <2> QED BY <2>4, <2>5, <2>6 DEF Following
  <1>3. CASE mgr_queue' = <<>>  BY <1>3
  <1> QED BY <1>1, <1>2, <1>3, JobSteps

\* while no block is under way nobody waits for a file to be closed
LEMMA CalmCloses ==
    ASSUME IInv, CloseInv, mgr.pc \in {"abort", "flush"}
    PROVE  \A k \in Posts : ~Closes(k)
  <1>0. /\ \A s \in Slots : slots[s].st # "writing"
        /\ mgr.job = NoJob /\ mgr.pc \notin {"open", "dead"} /\ TypeInv
    BY DEF IInv, FlowInv
  <1>1. \A k \in DOMAIN mgr_queue : ~Following(k)
    <2> SUFFICES ASSUME NEW k \in DOMAIN mgr_queue, Following(k) PROVE FALSE  OBVIOUS
    <2>1. CASE \E w \in Writers : JobSlots(writers[w].job) # {}
      <3>1. PICK w \in Writers : JobSlots(writers[w].job) # {}  BY <2>1
      <3>2. PICK s : s \in JobSlots(writers[w].job)  BY <3>1
      <3> QED BY <1>0, <3>2, WhereIs DEF InHand
    <2>2. CASE \E l \in DOMAIN mgr_queue : l > k /\ JobSlots(mgr_queue[l]) # {}
      <3>1. PICK l \in DOMAIN mgr_queue : JobSlots(mgr_queue[l]) # {}  BY <2>2
      <3>2. PICK s : s \in JobSlots(mgr_queue[l])  BY <3>1
      <3> QED BY <1>0, <3>2, WhereIs DEF Returns
    <2> QED BY <2>1, <2>2 DEF Following
  <1>2. ASSUME NEW k \in Posts, Closes(k) PROVE FALSE
    <2>1. k # 0  BY <1>0, <1>2 DEF Closes, Post, NoJob
    <2>2. k \in DOMAIN mgr_queue /\ mgr_queue[k].type = "close"
      BY <1>0, <1>2, <2>1, PostTypes DEF Closes
    <2> QED BY <1>0, <1>1, <2>2 DEF CloseInv
  <1> QED BY <1>2

\* a request to close a file stays until the manager closes it
LEMMA ClosesStay ==
    ASSUME IInv, CloseInv, [Next]_vars, \A w \in Writers : ~Writer(w), ~CloseWanted,
           mgr.pc \notin {"open", "dead"}, NEW k \in Posts, Closes(k)
    PROVE  \E l \in Posts' : Closes(l)' /\ Post(l)' = Post(k)
  <1>0. /\ TypeInv /\ mgr_queue \in Seq(ToManager) /\ Len(mgr_queue) \in Nat /\ k \in Nat
        /\ k # 0 => k \in DOMAIN mgr_queue /\ Post(k) = mgr_queue[k]
    <2>1. TypeInv /\ mgr_queue \in Seq(ToManager)  BY DEF IInv, TypeInv
    <2> QED BY <2>1, PostTypes
  <1>1. CASE UNCHANGED mgr_queue /\ mgr'.job = mgr.job
    BY <1>1 DEF Closes, Posts, Post
  <1>2. CASE /\ UNCHANGED mgr_queue /\ mgr'.job = NoJob
             /\ NothingReturned \/ WriteReturned \/ HandleWanted \/ CloseWanted
    <2>1. mgr.job.type # "close"
      BY <1>2 DEF NothingReturned, WriteReturned, HandleWanted, Returned
    <2>2. k # 0  BY <2>1 DEF Closes, Post
    <2> QED BY <1>2, <2>2 DEF Closes, Posts, Post
  <1>3. CASE /\ mgr_queue # <<>> /\ mgr_queue' = Tail(mgr_queue)
             /\ mgr'.job = Head(mgr_queue) /\ mgr.job = NoJob
    <2>1. k # 0  BY <1>3 DEF Closes, Post, NoJob
    <2>2. PICK l : l = k - 1  OBVIOUS
    <2>3. l \in 0..Len(mgr_queue')
          /\ Post(k) = IF l = 0 THEN mgr'.job ELSE mgr_queue'[l]
      BY <1>0, <1>3, <2>1, <2>2
    <2>4. l \in Posts' /\ Post(l)' = Post(k)  BY <2>3 DEF Posts, Post
    <2> QED BY <2>4 DEF Closes
  <1>4. CASE Flush  BY <1>4, CalmCloses DEF Flush
  <1> QED BY <1>1, <1>2, <1>3, <1>4, JobSteps

LEMMA ShutStep ==
    ASSUME IInv, CloseInv, [Next]_vars, \A w \in Writers : ~Writer(w),
           mgr.pc \notin {"open", "dead"}, NEW i \in DOMAIN files', files'[i].data # <<>>
    PROVE  Shut(i)'
  <1>0. UNCHANGED writers /\ ~OpenFiles /\ TypeInv
    <2>1. ~OpenFiles  BY DEF OpenFiles
    <2> QED BY <2>1, FilesGrow DEF IInv
  <1>1. SameData
    <2>1. CASE Manager  BY <1>0, <2>1, ManagerData
    <2>2. CASE Camera \/ DmaDone \/ TakeSlot \/ ReleaseSlot
      BY <2>2, CameraSlots DEF SameData
    <2>3. CASE PressRec \/ UNCHANGED vars  BY <2>3 DEF PressRec, vars, SameData
    <2> QED BY <2>1, <2>2, <2>3 DEF Next
  <1>2. i \in DOMAIN files /\ files[i].data # <<>>  BY <1>1 DEF SameData
  <1>3. Shut(i)  BY <1>2 DEF CloseInv
  <1>4. /\ files[i].closed > 0 => files'[i].closed > 0
        /\ (CloseWanted /\ mgr.job.file = i => files'[i].closed > 0)
    <2>1. files[i].closed \in Nat /\ files \in Seq(Files)
      BY <1>0, <1>2, FileTypes DEF TypeInv
    <2>2. CASE CloseWanted
      <3>1. mgr.job \in MgrJobs /\ mgr.job.type = "close"
        BY <1>0, <2>2, MgrIs DEF TypeInv, CloseWanted, Returned
      <3>2. mgr.job \in CloseJobs
        BY <3>1 DEF MgrJobs, ToManager, WriteJobs, HandleJobs, NoJob
      <3>3. PICK x \in Nat, n \in Nat, c \in Nat :
                x = mgr.job.file /\ n = mgr.job.num /\ c = mgr.job.frames
        BY <3>2 DEF CloseJobs
      <3>4. PICK g : g = files'  OBVIOUS
      <3>5. g = Closed(x, n, c)  BY <2>2, <3>3, <3>4 DEF CloseWanted
      <3>6. ClosedAs(g, x, n, c)  BY <2>1, <3>5, ClosedIs
      <3> QED BY <1>2, <2>1, <3>3, <3>4, <3>6 DEF ClosedAs
    <2>3. CASE HandleWanted
      <3>1. \E f : files' = Append(files, f)  BY <2>3 DEF HandleWanted
      <3>2. files'[i] = files[i]  BY <1>2, <2>1, <3>1
      <3>3. ~CloseWanted  BY <2>3 DEF HandleWanted, CloseWanted, Returned
      <3> QED BY <2>1, <3>2, <3>3
    <2>4. CASE ~CloseWanted /\ ~HandleWanted
      <3>1. Kept(i)  BY <1>0, <1>2, <2>4, FilesAlike
      <3> QED BY <2>1, <2>4, <3>1 DEF Kept
    <2> QED BY <2>2, <2>3, <2>4
  <1>5. CASE files[i].closed > 0  BY <1>4, <1>5 DEF Shut
  <1>6. CASE \E v \in Writers : Alive(v) /\ writers[v].file = i
    BY <1>0, <1>6 DEF Shut, Alive
  <1>7. CASE \E k \in Posts : Closes(k) /\ Post(k).file = i
    <2>1. PICK k \in Posts : Closes(k) /\ Post(k).file = i  BY <1>7
    <2>2. CASE ~CloseWanted
      <3>1. PICK l \in Posts' : Closes(l)' /\ Post(l)' = Post(k)  BY <2>1, <2>2, ClosesStay
      <3> QED BY <2>1, <3>1 DEF Shut
    <2>3. CASE CloseWanted /\ k = 0
      <3>1. mgr.job.file = i  BY <2>1, <2>3 DEF Post
      <3> QED BY <1>4, <2>3, <3>1 DEF Shut
    <2>4. CASE CloseWanted /\ k # 0
      <3>1. UNCHANGED mgr_queue  BY <2>4 DEF CloseWanted
      <3>2. k \in Posts' /\ Post(k)' = Post(k)  BY <2>4, <3>1 DEF Posts, Post
      <3> QED BY <2>1, <3>2 DEF Shut, Closes
    <2> QED BY <2>2, <2>3, <2>4
  <1> QED BY <1>3, <1>5, <1>6, <1>7 DEF Shut

LEMMA CloseStep ==
    ASSUME IInv, CloseInv, [Next]_vars
    PROVE  CloseInv'
  <1> SUFFICES ASSUME mgr'.pc \notin {"open", "dead"}
               PROVE  /\ \A i \in DOMAIN files' : files'[i].data # <<>> => Shut(i)'
                      /\ \A k \in DOMAIN mgr_queue' :
                            mgr_queue'[k].type = "close" => Following(k)'
    BY DEF CloseInv
  <1>1. CASE OpenFiles
    <2>1. files' = [i \in 1..NWriters |-> [NewFile EXCEPT !.num = i - 1]]
      BY <1>1 DEF OpenFiles
    <2>2. \A i \in DOMAIN files' : files'[i].data = <<>>  BY <2>1 DEF NewFile
    <2>3. mgr_queue' = <<>>  BY <1>1 DEF OpenFiles, IInv, FlowInv
    <2> QED BY <2>2, <2>3
  <1>2. CASE ~OpenFiles
    <2>1. mgr.pc \notin {"open", "dead"}  BY <1>2, OpenStays
    <2>2. CASE \E w \in Writers : Writer(w)
      <3>1. PICK w \in Writers : Writer(w)  BY <2>2
      <3>2. DOMAIN files' = DOMAIN files  BY <3>1, WriterFiles
      <3> QED BY <3>1, <3>2, FollowOfWriters, ShutOfWriters
    <2>3. CASE \A w \in Writers : ~Writer(w)  BY <2>1, <2>3, FollowStep, ShutStep
    <2> QED BY <2>2, <2>3
  <1> QED BY <1>1, <1>2

-----------------------------------------------------------------------------
(* Files: the next one is there when it is needed.                         *)

Nr      == Cardinality(Slots)
NoneGone == \A i \in DOMAIN files : ~files[i].gone
\* the slots of the block in the hands of the writer, and those of the blocks
\* that come back to the manager after its job k
Load(w)   == IF writers[w].job.type = "write" THEN writers[w].job.len ELSE 0
Behind(k) == UNION {JobSlots(mgr_queue[l]) : l \in {l \in DOMAIN mgr_queue : l > k}}

\* The writer has asked, and so many blocks must come back after the question
\* that the rest of the slots fits in the file; or the answer is on its way, and
\* the block before it fits.
Asked(w, k)  == k \in Posts /\ Post(k).type = "handle" /\ Post(k).writer = w
Covers(w, k) == Nr <= Room(w) + Cardinality(Behind(k))
Clear(w, k)  == \A l \in DOMAIN writer_queues[w] :
                   l < k /\ Block(w, l) => Load(w) + writer_queues[w][l].len <= Room(w)
Awaits(w)    == \/ \E k \in Posts : Asked(w, k) /\ Covers(w, k)
                \/ \E k \in DOMAIN writer_queues[w] : Answer(w, k) /\ Clear(w, k)
Roomy(w) == writers[w].pc \in {"take", "write"} =>
    /\ ~writers[w].asked => Nr + Load(w) <= Room(w)
    /\ writers[w].asked /\ writers[w].next = None => Awaits(w)
FilesSent(w) == \A k \in DOMAIN writer_queues[w] :
                   writer_queues[w][k].type = "handle" => Answer(w, k)
ReadyInv == FarAhead /\ NoneGone =>
    /\ mgr.pc # "dead" => \A w \in Writers : writers[w].error # "file"
    /\ mgr.pc \notin {"open", "dead"} => \A w \in Writers : FilesSent(w) /\ Roomy(w)

LEMMA JobCard ==
    ASSUME NEW j \in WriteJobs
    PROVE  IsFiniteSet(JobSlots(j)) /\ Cardinality(JobSlots(j)) = j.len /\ j.len \in Nat
  <1>1. j.start \in Nat /\ j.type = "write" /\ j.len \in 0..ChunkSize  BY DEF WriteJobs
  <1>2. j.len \in Nat  BY <1>1, SizeAssumption
  <1>3. JobSlots(j) = j.start .. j.start + j.len - 1  BY <1>1 DEF JobSlots
  <1>4. PICK a \in Int, b \in Int : a = j.start /\ b = j.start + j.len - 1  BY <1>1, <1>2
  <1>5. IsFiniteSet(a..b) /\ Cardinality(a..b) = IF a > b THEN 0 ELSE b - a + 1
    BY FS_Interval
  <1> QED BY <1>1, <1>2, <1>3, <1>4, <1>5

LEMMA TwoParts ==
    ASSUME NEW A, NEW B, A \subseteq Slots, B \subseteq Slots, A \cap B = {}
    PROVE  /\ Nr \in Nat /\ Cardinality(A) \in Nat /\ Cardinality(B) \in Nat
           /\ Cardinality(A \cup B) = Cardinality(A) + Cardinality(B)
           /\ Cardinality(A) + Cardinality(B) <= Nr
  <1>1. IsFiniteSet(Slots) /\ Nr \in Nat  BY SlotsFinite DEF Nr
  <1>2. IsFiniteSet(A) /\ IsFiniteSet(B)  BY <1>1, FS_Subset
  <1>3. Cardinality(A) \in Nat /\ Cardinality(B) \in Nat  BY <1>2, FS_CardinalityType
  <1>4. /\ IsFiniteSet(A \cup B)
        /\ Cardinality(A \cup B) = Cardinality(A) + Cardinality(B) - Cardinality(A \cap B)
    BY <1>2, FS_Union
  <1>5. Cardinality(A \cap B) = 0  BY FS_EmptySet
  <1>6. Cardinality(A \cup B) <= Nr  BY <1>1, FS_Subset DEF Nr
  <1> QED BY <1>1, <1>3, <1>4, <1>5, <1>6

LEMMA ThreeParts ==
    ASSUME NEW A, NEW B, NEW C, A \subseteq Slots, B \subseteq Slots, C \subseteq Slots,
           A \cap B = {}, A \cap C = {}, B \cap C = {}
    PROVE  Cardinality(A) + Cardinality(B) + Cardinality(C) <= Nr
  <1>1. /\ Nr \in Nat /\ Cardinality(A) \in Nat /\ Cardinality(B) \in Nat
        /\ Cardinality(A \cup B) = Cardinality(A) + Cardinality(B)
    BY TwoParts
  <1>2. (A \cup B) \cap C = {} /\ A \cup B \subseteq Slots  OBVIOUS
  <1>3. PICK D : D = A \cup B  OBVIOUS
  <1>4. Cardinality(D) + Cardinality(C) <= Nr /\ Cardinality(C) \in Nat  BY <1>2, <1>3, TwoParts
  <1> QED BY <1>1, <1>3, <1>4

\* no slot is in two of these places
LEMMA PartsApart ==
    ASSUME IInv, mgr.pc \notin {"open", "dead"}, NEW k \in Int, NEW w \in Writers
    PROVE  /\ Behind(k) \subseteq Slots /\ JobSlots(writers[w].job) \subseteq Slots
           /\ JobSlots(writers[w].job) \cap Behind(k) = {}
           /\ \A l \in DOMAIN writer_queues[w] :
                 /\ JobSlots(writer_queues[w][l]) \subseteq Slots
                 /\ JobSlots(writer_queues[w][l]) \cap Behind(k) = {}
                 /\ JobSlots(writer_queues[w][l]) \cap JobSlots(writers[w].job) = {}
  <1>0. w \in Queues /\ SlotInv /\ 2 \in 0..4 /\ w \in 0..4
    BY QueueOne, WriterAssumption DEF IInv, Queues
  <1>1. \A s \in Behind(k) : \E l \in DOMAIN mgr_queue : s \in JobSlots(mgr_queue[l])
    BY DEF Behind
  <1>2. \A s \in Behind(k) : Returns(s)  BY <1>1 DEF Returns
  <1>3. \A s : InQueue(s) \/ Returns(s) \/ InHand(w, s) => s \in Slots
    BY WhereIs
  <1>4. \A s : InHand(w, s) => ~InQueue(s) /\ ~Returns(s)  BY WhereIs
  <1>5. \A l \in DOMAIN writer_queues[w] : \A s \in JobSlots(writer_queues[w][l]) : InQueue(s)
    BY <1>0 DEF InQueue
  <1>6. \A s \in JobSlots(writers[w].job) : InHand(w, s)  BY DEF InHand
  <1>7. ASSUME NEW l \in DOMAIN writer_queues[w], NEW s \in JobSlots(writer_queues[w][l]),
               s \in Behind(k)
        PROVE  FALSE
    <2>1. s \in Slots  BY <1>3, <1>5
    <2>2. PICK m \in DOMAIN mgr_queue : s \in JobSlots(mgr_queue[m])  BY <1>1, <1>7
    <2>3. Holder(w, l, s) /\ Holder(2, m, s)  BY <1>0, <2>2, HolderIs
    <2>4. l \in Index(w) /\ m \in Index(2)  BY <2>3 DEF Holder
    <2>5. w = 2  BY <1>0, <2>1, <2>3, <2>4 DEF SlotInv
    <2> QED BY <1>0, <2>5 DEF Queues
  <1> QED BY <1>2, <1>3, <1>4, <1>5, <1>6, <1>7

\* a block that waits for a writer
LEMMA BlockIs ==
    ASSUME TypeInv, NEW w \in Writers, NEW k, Block(w, k)
    PROVE  /\ writer_queues[w][k] \in WriteJobs /\ writer_queues[w][k].len \in Nat \ {0}
           /\ k \in DOMAIN writer_queues[w] /\ k \in Nat \ {0}
  <1>1. w \in Queues  BY QueueOne, WriterAssumption
  <1>2. writer_queues[w] \in Seq(ToWriter) /\ k \in DOMAIN writer_queues[w]
    BY <1>1 DEF TypeInv, Block
  <1>3. writer_queues[w][k] \in ToWriter /\ k \in Nat \ {0}  BY <1>2
  <1>4. writer_queues[w][k] \in WriteJobs
    BY <1>3 DEF Block, ToWriter, WriteJobs, HandleJobs
  <1>5. writer_queues[w][k].len \in 0..ChunkSize  BY <1>4 DEF WriteJobs
  <1>6. writer_queues[w][k].len \in Nat /\ writer_queues[w][k].len > 0
    BY <1>5, SizeAssumption DEF Block
  <1> QED BY <1>2, <1>3, <1>4, <1>6

\* what the writer has, what waits for it and what comes back behind job k make
\* no more than all the slots
LEMMA LoadIs ==
    ASSUME IInv, mgr.pc \notin {"open", "dead"}, NEW k \in Int, NEW w \in Writers
    PROVE  /\ Nr \in Nat /\ Load(w) \in Nat /\ Cardinality(Behind(k)) \in Nat
           /\ Room(w) \in Nat
           /\ Load(w) + Cardinality(Behind(k)) <= Nr
           /\ \A l : Block(w, l) =>
                /\ writer_queues[w][l].len \in Nat \ {0}
                /\ Load(w) + writer_queues[w][l].len + Cardinality(Behind(k)) <= Nr
  <1>0. TypeInv  BY DEF IInv
  <1>1. PICK A, B : A = Behind(k) /\ B = JobSlots(writers[w].job)  OBVIOUS
  <1>2. A \subseteq Slots /\ B \subseteq Slots /\ A \cap B = {}  BY <1>1, PartsApart
  <1>3. /\ Nr \in Nat /\ Cardinality(A) \in Nat /\ Cardinality(B) \in Nat
        /\ Cardinality(A) + Cardinality(B) <= Nr
    BY <1>2, TwoParts
  <1>4. writers[w].job \in WriterJobs /\ writers[w].size \in Nat /\ writers[w].size <= ChunkSize
    BY <1>0, WriterIs, WriterFields
  <1>5. Load(w) = Cardinality(B)
    <2>1. CASE writers[w].job \in WriteJobs
      <3>1. Cardinality(JobSlots(writers[w].job)) = writers[w].job.len  BY <2>1, JobCard
      <3>2. writers[w].job.type = "write"  BY <2>1 DEF WriteJobs
      <3> QED BY <1>1, <3>1, <3>2 DEF Load
    <2>2. CASE writers[w].job = NoJob
      <3>1. writers[w].job.type # "write"  BY <2>2 DEF NoJob
      <3>2. B = {} /\ Load(w) = 0  BY <1>1, <3>1 DEF JobSlots, Load
      <3> QED BY <3>2, FS_EmptySet
    <2> QED BY <1>4, <2>1, <2>2 DEF WriterJobs
  <1>6. ASSUME NEW l, Block(w, l)
        PROVE  /\ writer_queues[w][l].len \in Nat \ {0}
               /\ Load(w) + writer_queues[w][l].len + Cardinality(Behind(k)) <= Nr
    <2>1. /\ writer_queues[w][l] \in WriteJobs /\ writer_queues[w][l].len \in Nat \ {0}
          /\ l \in DOMAIN writer_queues[w]
      BY <1>0, <1>6, BlockIs
    <2>2. PICK C : C = JobSlots(writer_queues[w][l])  OBVIOUS
    <2>3. C \subseteq Slots /\ C \cap A = {} /\ C \cap B = {}  BY <1>1, <2>1, <2>2, PartsApart
    <2>4. Cardinality(C) = writer_queues[w][l].len  BY <2>1, <2>2, JobCard
    <2>5. Cardinality(A) + Cardinality(B) + Cardinality(C) <= Nr  BY <1>2, <2>3, ThreeParts
    <2> QED BY <1>1, <1>3, <1>5, <2>1, <2>4, <2>5
  <1>7. Room(w) \in Nat  BY <1>4, SizeAssumption DEF Room
  <1> QED BY <1>1, <1>3, <1>5, <1>6, <1>7

LEMMA CardGrows ==
    ASSUME NEW A, NEW B, A \subseteq B, B \subseteq Slots
    PROVE  /\ Cardinality(A) \in Nat /\ Cardinality(B) \in Nat
           /\ Cardinality(A) <= Cardinality(B)
  <1>1. IsFiniteSet(B)  BY SlotsFinite, FS_Subset
  <1>2. IsFiniteSet(A)  BY <1>1, FS_Subset
  <1> QED BY <1>1, <1>2, FS_Subset, FS_CardinalityType

\* enough room for Ahead blocks is enough for this block and all the slots
LEMMA AheadIs ==
    ASSUME NEW a \in Nat, NEW n \in Nat, n < a, NEW l \in Nat \ {0}, NEW r \in Nat, a * l <= r
    PROVE  n + l <= r
  <1>1. PICK e \in Nat : a = n + 1 + e  BY a - n - 1 \in Nat
  <1>2. PICK m \in Nat : l = m + 1  BY l - 1 \in Nat
  <1>3. a * l = n * m + n + m + 1 + e * m + e  BY <1>1, <1>2
  <1>4. n * m \in Nat /\ e * m \in Nat  BY <1>1, <1>2
  <1> QED BY <1>1, <1>2, <1>3, <1>4

\* the writer's mark that it has asked
LEMMA AskedAfter ==
    ASSUME IInv, NEW w \in Writers
    PROVE  /\ NextHandle(w) \/ TakeFits(w) \/ WriteBlock(w) =>
                 writers'[w].asked = writers[w].asked
           /\ TakeAsks(w) => writers'[w].asked = TRUE
           /\ TakeSwitches(w) /\ writers[w].next # None => writers'[w].asked = FALSE
  <1>0. TypeInv /\ CountInv /\ WriterInv /\ writers[w] \in WriterStates
    <2>1. TypeInv  BY DEF IInv
    <2> QED BY <2>1, WriterIs DEF IInv
  <1>1. ASSUME NextHandle(w) PROVE writers'[w].asked = writers[w].asked
    <2>1. /\ writer_queues[w] # <<>> /\ Receive(w)
          /\ Head(writer_queues[w]).type = "handle"
          /\ Set(w, Answered(w, Head(writer_queues[w]).file, Head(writer_queues[w]).num))
      BY <1>1 DEF NextHandle, Ready, Answered
    <2>2. Head(writer_queues[w]) \in ToWriter  BY <1>0, <2>1, ReceiveIs
    <2>3. Head(writer_queues[w]) \in HandleJobs  BY <2>1, <2>2 DEF ToWriter, WriteJobs
    <2>4. PICK f \in Nat, n \in Nat : f = Head(writer_queues[w]).file
                                      /\ n = Head(writer_queues[w]).num
      BY <2>3 DEF HandleJobs
    <2>5. PICK r : r = Answered(w, f, n)  OBVIOUS
    <2>6. Set(w, r)  BY <2>1, <2>4, <2>5
    <2>7. r.asked = writers[w].asked  BY <1>0, <2>5, NextIs
    <2> QED BY <1>0, <2>6, <2>7, SetIs
  <1>2. ASSUME TakeFits(w) \/ TakeAsks(w) \/ TakeSwitches(w)
        PROVE  /\ TakeFits(w) => writers'[w].asked = writers[w].asked
               /\ TakeAsks(w) => writers'[w].asked = TRUE
               /\ TakeSwitches(w) /\ writers[w].next # None => writers'[w].asked = FALSE
    <2> DEFINE h == Head(writer_queues[w])
    <2>1. TakeJob(w)  BY <1>2 DEF TakeFits, TakeAsks, TakeSwitches
    <2>2. Ready(w, "write")  BY <2>1 DEF TakeJob
    <2>3. h \in WriteJobs /\ WithJob(w) \in WriterStates  BY <1>0, <2>1, <2>2, Taken
    <2>4. h \in WriterJobs  BY <2>3 DEF WriterJobs
    <2>5. WithJob(w) = Takes(w, h)  BY DEF WithJob, Takes
    <2> HIDE DEF h
    <2>6. ASSUME TakeFits(w) PROVE writers'[w].asked = writers[w].asked
      <3>1. Set(w, WithJob(w))  BY <2>6 DEF TakeFits
      <3>2. PICK r : r = Takes(w, h)  OBVIOUS
      <3>3. Set(w, r)  BY <2>5, <3>1, <3>2
      <3>4. r.asked = writers[w].asked  BY <1>0, <2>4, <3>2, WithJobIs
      <3> QED BY <1>0, <3>3, <3>4, SetIs
    <2>7. ASSUME TakeAsks(w) PROVE writers'[w].asked = TRUE
      <3>1. Set(w, [WithJob(w) EXCEPT !.asked = TRUE])  BY <2>7 DEF TakeAsks
      <3>2. PICK r : r = Asks(w, h)  OBVIOUS
      <3>3. Set(w, r)  BY <2>5, <3>1, <3>2 DEF Asks
      <3>4. r.asked = TRUE  BY <1>0, <2>4, <3>2, AskedIs
      <3> QED BY <1>0, <3>3, <3>4, SetIs
    <2>8. ASSUME TakeSwitches(w), writers[w].next # None PROVE writers'[w].asked = FALSE
      <3>1. Set(w, Switched(w))  BY <2>8 DEF TakeSwitches
      <3>2. PICK r : r = Switched(w)  OBVIOUS
      <3>3. r.asked = FALSE  BY <1>0, <2>3, <3>2, SwitchedIs
      <3>4. Set(w, r)  BY <3>1, <3>2
      <3> QED BY <1>0, <3>3, <3>4, SetIs
    <2> QED BY <2>6, <2>7, <2>8
  <1>3. ASSUME WriteBlock(w) PROVE writers'[w].asked = writers[w].asked
    <2>1. PICK n \in Nat : n = writers[w].job.len  BY <1>3, WriteIs
    <2>2. writers[w].size + n <= ChunkSize
      BY <1>0, <1>3, <2>1 DEF WriterInv, WriteBlock
    <2>3. PICK r : r = Written(w, n)  OBVIOUS
    <2>4. Set(w, r)  BY <1>3, <2>1, <2>3 DEF WriteBlock, Written
    <2>5. r.asked = writers[w].asked  BY <1>0, <2>2, <2>3, WrittenIs
    <2> QED BY <1>0, <2>4, <2>5, SetIs
  <1> QED BY <1>1, <1>2, <1>3

\* the questions of the writer and the answers to it are still there, with no
\* less behind them and no more before them
AskedKept(w)   == \A k : Asked(w, k) /\ Covers(w, k) => \E l : Asked(w, l)' /\ Behind(k) \subseteq Behind(l)'
AnswersKept(w) == \A k : Answer(w, k) => \E l : Answer(w, l)' /\
    \A m : m < l /\ Block(w, m)' => /\ m < k /\ Block(w, m)
                                    /\ writer_queues'[w][m] = writer_queues[w][m]

BehindFits == IInv /\ mgr.pc \notin {"open", "dead"} => \A k : Behind(k) \subseteq Slots

LEMMA BehindIn == BehindFits
  <1> SUFFICES ASSUME IInv, mgr.pc \notin {"open", "dead"}, NEW k
               PROVE  Behind(k) \subseteq Slots
    BY DEF BehindFits
  <1>1. ASSUME NEW s \in Behind(k) PROVE s \in Slots
    <2>1. PICK l \in DOMAIN mgr_queue : s \in JobSlots(mgr_queue[l])  BY <1>1 DEF Behind
    <2> QED BY <2>1, WhereIs DEF Returns
  <1> QED BY <1>1

LEMMA BehindWillBe ==
    ASSUME IInv', mgr'.pc \notin {"open", "dead"}, NEW l
    PROVE  Behind(l)' \subseteq Slots
  <1>1. BehindFits'  BY BehindIn, PTL
  <1> QED BY <1>1 DEF BehindFits

LEMMA RoomyKept ==
    ASSUME IInv', mgr'.pc \notin {"open", "dead"}, IInv, mgr.pc \notin {"open", "dead"},
           NEW w \in Writers, Roomy(w), writers'[w] = writers[w],
           AskedKept(w), AnswersKept(w)
    PROVE  Roomy(w)'
  <1>0. Room(w)' = Room(w) /\ Load(w)' = Load(w)  BY DEF Room, Load
  <1>1. CASE \E k \in Posts : Asked(w, k) /\ Covers(w, k)
    <2>1. PICK k \in Posts : Asked(w, k) /\ Covers(w, k)  BY <1>1
    <2>2. PICK l : Asked(w, l)' /\ Behind(k) \subseteq Behind(l)'  BY <2>1 DEF AskedKept
    <2>3. Behind(l)' \subseteq Slots  BY BehindWillBe
    <2>4. /\ Cardinality(Behind(k)) \in Nat /\ Cardinality(Behind(l)') \in Nat
          /\ Cardinality(Behind(k)) <= Cardinality(Behind(l)')
      BY <2>2, <2>3, CardGrows
    <2>5. Room(w) \in Nat /\ Nr \in Nat
      <3>1. 0 \in Int  OBVIOUS
      <3> QED BY <3>1, LoadIs
    <2>6. Nr <= Room(w) + Cardinality(Behind(l)')  BY <2>1, <2>4, <2>5 DEF Covers
    <2>7. Covers(w, l)'  BY <1>0, <2>6 DEF Covers, Nr
    <2>8. l \in Posts'  BY <2>2 DEF Asked
    <2> QED BY <1>0, <2>2, <2>7, <2>8 DEF Roomy, Awaits, Nr
  <1>2. CASE \E k \in DOMAIN writer_queues[w] : Answer(w, k) /\ Clear(w, k)
    <2>1. PICK k \in DOMAIN writer_queues[w] : Answer(w, k) /\ Clear(w, k)  BY <1>2
    <2>2. PICK l : Answer(w, l)' /\
            \A m : m < l /\ Block(w, m)' => /\ m < k /\ Block(w, m)
                                            /\ writer_queues'[w][m] = writer_queues[w][m]
      BY <2>1 DEF AnswersKept
    <2>3. ASSUME NEW m \in DOMAIN writer_queues'[w], m < l, Block(w, m)'
          PROVE  Load(w)' + writer_queues'[w][m].len <= Room(w)'
      <3>1. m < k /\ Block(w, m) /\ writer_queues'[w][m] = writer_queues[w][m]  BY <2>2, <2>3
      <3>2. m \in DOMAIN writer_queues[w]  BY <3>1 DEF Block
      <3> QED BY <1>0, <2>1, <3>1, <3>2 DEF Clear
    <2>4. Clear(w, l)' /\ l \in DOMAIN writer_queues'[w]
      <3>1. l \in DOMAIN writer_queues'[w]  BY <2>2 DEF Answer
      <3> QED BY <2>3, <3>1 DEF Clear
    <2> QED BY <1>0, <2>2, <2>4 DEF Roomy, Awaits, Nr
  <1>3. CASE ~Awaits(w)  BY <1>0, <1>3 DEF Roomy, Nr
  <1> QED BY <1>1, <1>2, <1>3 DEF Awaits

\* a writer's step, seen by the other one
LEMMA ReadyOfOthers ==
    ASSUME IInv, IInv', NEW w \in Writers, Writer(w), NEW v \in Writers, v # w,
           FilesSent(v), Roomy(v)
    PROVE  FilesSent(v)' /\ Roomy(v)' /\ writers'[v].error = writers[v].error
  <1>0. /\ UNCHANGED mgr /\ mgr.pc \notin {"open", "dead"} /\ writers'[v] = writers[v]
    BY WriterRuns
  <1>1. writer_queues'[v] = writer_queues[v]
    <2>1. PICK d \in {0, 1} : AnswersFrom(w, d)  BY WriterAnswers
    <2> QED BY <2>1 DEF AnswersFrom
  <1>2. FilesSent(v)'  BY <1>1 DEF FilesSent, Answer
  <1>3. AnswersKept(v)
    <2>1. ASSUME NEW k, Answer(v, k) PROVE Answer(v, k)'  BY <1>1, <2>1 DEF Answer
    <2>2. ASSUME NEW m, Block(v, m)' PROVE Block(v, m)  BY <1>1, <2>2 DEF Block
    <2> QED BY <1>1, <2>1, <2>2 DEF AnswersKept
  <1>4. AskedKept(v)
    <2> SUFFICES ASSUME NEW k, Asked(v, k) PROVE Asked(v, k)' /\ Behind(k) \subseteq Behind(k)'
      BY DEF AskedKept
    <2>1. \A l \in Posts : l \in Posts' /\ Post(l)' = Post(l)  BY PostsGrow
    <2>2. \A l \in DOMAIN mgr_queue : l \in DOMAIN mgr_queue' /\ mgr_queue'[l] = mgr_queue[l]
      BY PostsGrow
    <2>3. Asked(v, k)'  BY <2>1 DEF Asked
    <2>4. Behind(k) \subseteq Behind(k)'  BY <2>2 DEF Behind
    <2> QED BY <2>3, <2>4
  <1>5. mgr'.pc \notin {"open", "dead"}  BY <1>0
  <1> QED BY <1>0, <1>2, <1>3, <1>4, <1>5, RoomyKept

\* the writer's own steps
LEMMA SentOfWriter ==
    ASSUME IInv, NEW w \in Writers, Writer(w), FilesSent(w)
    PROVE  FilesSent(w)'
  <1>1. PICK d \in {0, 1} : AnswersFrom(w, d)  BY WriterAnswers
  <1>2. SUFFICES ASSUME NEW k \in DOMAIN writer_queues'[w],
                        writer_queues'[w][k].type = "handle"
                 PROVE  Answer(w, k)'
    BY DEF FilesSent
  <1>3. PICK l : l = k + d  OBVIOUS
  <1>4. l \in DOMAIN writer_queues[w] /\ writer_queues'[w][k] = writer_queues[w][l]
    BY <1>1, <1>3 DEF AnswersFrom
  <1>5. Answer(w, l)  BY <1>2, <1>4 DEF FilesSent
  <1> QED BY <1>4, <1>5 DEF Answer

\* a block at the head of the queue is the only one
LEMMA HeadBlock ==
    ASSUME IInv, NEW w \in Writers, TakeFits(w) \/ TakeAsks(w) \/ TakeSwitches(w)
    PROVE  /\ Block(w, 1) /\ (\A k : Block(w, k) => k = 1)
           /\ JobLen(w) = writer_queues[w][1].len /\ JobLen(w) \in Nat \ {0}
           /\ writers[w].pc = "take" /\ Load(w) = 0 /\ Load(w)' = JobLen(w)
           /\ writers[w].error = "no" /\ TakeJob(w)
           /\ \A k \in DOMAIN writer_queues'[w] :
                 /\ k \in Nat \ {0} /\ k + 1 \in DOMAIN writer_queues[w]
                 /\ writer_queues'[w][k] = writer_queues[w][k + 1]
           /\ \A k \in DOMAIN writer_queues[w] : k # 1 =>
                 /\ k - 1 \in DOMAIN writer_queues'[w]
                 /\ writer_queues'[w][k - 1] = writer_queues[w][k]
  <1>0. TypeInv /\ CountInv /\ WriterInv  BY DEF IInv
  <1>1. TakeJob(w) /\ Ready(w, "write") /\ writers'[w].job = Head(writer_queues[w])
    BY <1>0, TakesIs
  <1>2. /\ Head(writer_queues[w]) \in WriteJobs /\ Head(writer_queues[w]).len \in Nat \ {0}
        /\ writers[w].pc = "take" /\ writers[w].job = NoJob /\ writers[w].error = "no"
        /\ writer_queues[w] # <<>> /\ Receive(w) /\ Block(w, 1)
    BY <1>0, <1>1, Taken
  <1>3. writer_queues[w] \in Seq(ToWriter)  BY <1>0, WriterIs
  <1>4. Head(writer_queues[w]) = writer_queues[w][1] /\ writer_queues'[w] = Tail(writer_queues[w])
    BY <1>0, <1>2, ReceiveIs
  <1>5. \A k : Block(w, k) => k = 1
    <2>1. CountOf(w)  BY <1>0 DEF CountInv
    <2>2. \A k, l \in DOMAIN writer_queues[w] : Block(w, k) /\ Block(w, l) => k = l
      BY <1>2, <2>1 DEF CountOf
    <2> QED BY <1>2, <2>2 DEF Block
  <1>6. Load(w) = 0  BY <1>2 DEF Load, NoJob
  <1>7. Load(w)' = JobLen(w)
    <2>1. writers'[w].job.type = "write"  BY <1>1, <1>2 DEF WriteJobs
    <2> QED BY <1>1, <2>1 DEF Load, JobLen
  <1>8. JobLen(w) = writer_queues[w][1].len /\ JobLen(w) \in Nat \ {0}
    BY <1>2, <1>4 DEF JobLen
  <1>9. \A k \in DOMAIN writer_queues'[w] :
            /\ k \in Nat \ {0} /\ k + 1 \in DOMAIN writer_queues[w]
            /\ writer_queues'[w][k] = writer_queues[w][k + 1]
    BY <1>2, <1>3, <1>4
  <1>10. \A k \in DOMAIN writer_queues[w] : k # 1 =>
            /\ k - 1 \in DOMAIN writer_queues'[w]
            /\ writer_queues'[w][k - 1] = writer_queues[w][k]
    BY <1>2, <1>3, <1>4
  <1> QED BY <1>1, <1>2, <1>5, <1>6, <1>7, <1>8, <1>9, <1>10

LEMMA ReadyOfNext ==
    ASSUME IInv, NEW w \in Writers, NextHandle(w), FilesSent(w), Roomy(w)
    PROVE  Roomy(w)' /\ writers'[w].error # "file"
  <1>0. TypeInv /\ WriterInv  BY DEF IInv
  <1>1. /\ writer_queues[w] # <<>> /\ writers[w].pc = "take"
        /\ Head(writer_queues[w]) \in HandleJobs
        /\ writers'[w].next = Head(writer_queues[w]).file
        /\ writers'[w].size = writers[w].size /\ writers'[w].job = writers[w].job
        /\ writers'[w].error = writers[w].error /\ writer_queues[w] \in Seq(ToWriter)
    BY <1>0, NextHandleIs, WriterIs
  <1>2. writers'[w].next # None
    <2>1. 1 \in DOMAIN writer_queues[w] /\ Head(writer_queues[w]) = writer_queues[w][1]
      BY <1>1
    <2>2. writer_queues[w][1].type = "handle"  BY <1>1, <2>1 DEF HandleJobs
    <2>3. Answer(w, 1)  BY <2>1, <2>2 DEF FilesSent
    <2> QED BY <1>1, <2>1, <2>3 DEF Answer
  <1>3. Room(w)' = Room(w) /\ Load(w)' = Load(w)  BY <1>1 DEF Room, Load
  <1>4. writers'[w].asked = writers[w].asked  BY AskedAfter
  <1>5. writers'[w].error = "no"  BY <1>0, <1>1 DEF WriterInv
  <1> QED BY <1>1, <1>2, <1>3, <1>4, <1>5 DEF Roomy, Nr

LEMMA TakesApart ==
    ASSUME IInv, mgr.pc \notin {"open", "dead"}, NEW w \in Writers
    PROVE  /\ TakeFits(w) => ~TakeAsks(w) /\ ~TakeSwitches(w)
           /\ TakeAsks(w) => ~TakeSwitches(w)
  <1>1. Room(w) \in Nat
    <2>1. 0 \in Int  OBVIOUS
    <2> QED BY <2>1, LoadIs
  <1>2. ASSUME Room(w) >= JobLen(w), TakeSwitches(w) PROVE FALSE
    <2>1. JobLen(w) \in Nat  BY <1>2, HeadBlock
    <2>2. Room(w) < JobLen(w)  BY <1>2 DEF TakeSwitches
    <2> QED BY <1>1, <1>2, <2>1, <2>2
  <1>3. TakeFits(w) => Room(w) >= JobLen(w) /\ (~NearEnd(w) \/ writers[w].asked)
    BY DEF TakeFits
  <1>4. TakeAsks(w) => Room(w) >= JobLen(w) /\ NearEnd(w) /\ ~writers[w].asked
    BY DEF TakeAsks
  <1> QED BY <1>2, <1>3, <1>4

LEMMA ReadyOfFits ==
    ASSUME IInv, IInv', FarAhead, NEW w \in Writers, TakeFits(w), Roomy(w)
    PROVE  Roomy(w)' /\ writers'[w].error # "file"
  <1>0. TypeInv /\ CountInv /\ WriterInv /\ UNCHANGED mgr /\ mgr.pc \notin {"open", "dead"}
    BY WriterRuns DEF Writer
  <1>1. /\ writers'[w].pc = "write" /\ UNCHANGED mgr_queue
        /\ writers'[w].next = writers[w].next /\ writers'[w].size = writers[w].size
        /\ writers'[w].error = "no"
    BY <1>0, TakesIs, TakesApart
  <1>2. Room(w)' = Room(w)  BY <1>1 DEF Room
  <1>3. writers'[w].asked = writers[w].asked  BY AskedAfter
  <1>4. /\ Block(w, 1) /\ (\A k : Block(w, k) => k = 1)
        /\ JobLen(w) \in Nat \ {0} /\ writers[w].pc = "take" /\ Load(w)' = JobLen(w)
    BY HeadBlock
  <1>5. Nr \in Nat /\ Room(w) \in Nat
    <2>1. 0 \in Int  OBVIOUS
    <2> QED BY <1>0, <2>1, LoadIs
  <1>6. CASE ~writers[w].asked
    <2>1. ~NearEnd(w)  BY <1>6 DEF TakeFits
    <2>2. Ahead \in Nat /\ Nr < Ahead  BY SizeAssumption DEF FarAhead, Nr
    <2>3. Ahead * JobLen(w) <= Room(w)
      <3>1. Ahead * JobLen(w) \in Nat  BY <1>4, <2>2
      <3> QED BY <1>5, <2>1, <3>1 DEF NearEnd
    <2>4. Nr + JobLen(w) <= Room(w)
      <3>1. PICK a \in Nat, n \in Nat : a = Ahead /\ n = Nr  BY <1>5, <2>2
      <3>2. PICK l \in Nat \ {0} : l = JobLen(w)  BY <1>4
      <3>3. PICK r \in Nat : r = Room(w)  BY <1>5
      <3>4. n + l <= r  BY <2>2, <2>3, <3>1, <3>2, <3>3, AheadIs
      <3> QED BY <3>1, <3>2, <3>3, <3>4
    <2>5. Nr' = Nr  BY DEF Nr
    <2>6. Nr' + Load(w)' <= Room(w)'  BY <1>2, <1>4, <2>4, <2>5
    <2>7. ~writers'[w].asked  BY <1>3, <1>6
    <2> QED BY <1>1, <2>6, <2>7 DEF Roomy
  <1>7. CASE writers[w].asked /\ writers[w].next # None
    <2>1. writers'[w].asked /\ writers'[w].next # None  BY <1>1, <1>3, <1>7
    <2> QED BY <1>1, <2>1 DEF Roomy
  <1>8. CASE writers[w].asked /\ writers[w].next = None
    <2>1. Awaits(w)  BY <1>4, <1>8 DEF Roomy
    <2>2. Awaits(w)'
      <3>1. CASE \E k \in Posts : Asked(w, k) /\ Covers(w, k)
        <4>1. PICK k \in Posts : Asked(w, k) /\ Covers(w, k)  BY <3>1
        <4>2. k \in Posts' /\ Asked(w, k)' /\ Covers(w, k)'
          BY <1>0, <1>1, <1>2, <4>1 DEF Posts, Post, Asked, Covers, Behind, Nr
        <4> QED BY <4>2 DEF Awaits
      <3>2. CASE \E k \in DOMAIN writer_queues[w] : Answer(w, k) /\ Clear(w, k)
        <4>1. PICK k \in DOMAIN writer_queues[w] : Answer(w, k)  BY <3>2
        <4>2. k # 1  BY <1>4, <4>1 DEF Answer, Block
        <4>3. PICK l : l = k - 1  OBVIOUS
        <4>4. l \in DOMAIN writer_queues'[w] /\ writer_queues'[w][l] = writer_queues[w][k]
          BY <4>2, <4>3, HeadBlock
        <4>5. Answer(w, l)'  BY <4>1, <4>4 DEF Answer
        <4>6. ASSUME NEW m \in DOMAIN writer_queues'[w], Block(w, m)' PROVE FALSE
          <5>1. /\ m \in Nat \ {0} /\ m + 1 \in DOMAIN writer_queues[w]
                /\ writer_queues'[w][m] = writer_queues[w][m + 1]
            BY HeadBlock
          <5>2. PICK n : n = m + 1  OBVIOUS
          <5>3. Block(w, n)  BY <4>6, <5>1, <5>2 DEF Block
          <5>4. n = 1  BY <1>4, <5>3
          <5> QED BY <5>1, <5>2, <5>4
        <4>7. Clear(w, l)'  BY <4>6 DEF Clear
        <4> QED BY <4>4, <4>5, <4>7 DEF Awaits
      <3> QED BY <2>1, <3>1, <3>2 DEF Awaits
    <2>3. writers'[w].asked  BY <1>3, <1>8
    <2> QED BY <1>1, <2>2, <2>3 DEF Roomy
  <1> QED BY <1>6, <1>7, <1>8

LEMMA ReadyOfAsks ==
    ASSUME IInv, IInv', NEW w \in Writers, TakeAsks(w), Roomy(w)
    PROVE  Roomy(w)' /\ writers'[w].error # "file"
  <1>0. TypeInv /\ CountInv /\ WriterInv /\ UNCHANGED mgr /\ mgr.pc \notin {"open", "dead"}
    BY WriterRuns DEF Writer
  <1>1. writers'[w].size = writers[w].size /\ writers'[w].error = "no"
    BY <1>0, TakesIs, TakesApart
  <1>2. Room(w)' = Room(w) /\ Nr' = Nr  BY <1>1 DEF Room, Nr
  <1>3. writers'[w].asked = TRUE  BY AskedAfter
  <1>4. writers[w].pc = "take" /\ Load(w) = 0  BY HeadBlock
  <1>5. Nr \in Nat /\ Room(w) \in Nat
    <2>1. 0 \in Int  OBVIOUS
    <2> QED BY <1>0, <2>1, LoadIs
  <1>6. ~writers[w].asked  BY DEF TakeAsks
  <1>7. Nr <= Room(w)
    <2>1. Nr + Load(w) <= Room(w)  BY <1>4, <1>6 DEF Roomy
    <2> QED BY <1>4, <1>5, <2>1
  <1>8. PICK j : j = [type |-> "handle", writer |-> w, file |-> None, num |-> writers[w].num]
    OBVIOUS
  <1>9. mgr_queue' = Append(mgr_queue, j)  BY <1>8 DEF TakeAsks
  <1>10. writers[w].num \in Nat  BY <1>0, WriterIs, WriterFields
  <1>11. j \in ToManager /\ j.type = "handle" /\ j.writer = w
    BY <1>8, <1>10 DEF HandleJobs, ToManager, None
  <1>12. /\ Len(mgr_queue) \in Nat /\ Len(mgr_queue') = Len(mgr_queue) + 1
         /\ mgr_queue'[Len(mgr_queue) + 1] = j
    BY <1>0, <1>9, <1>11, SentIs
  <1>13. PICK k : k = Len(mgr_queue) + 1  OBVIOUS
  <1>14. k \in Posts' /\ Post(k)' = j  BY <1>12, <1>13 DEF Posts, Post
  <1>15. Asked(w, k)'  BY <1>11, <1>14 DEF Asked
  <1>16. Covers(w, k)'
    <2>1. Behind(k)' \subseteq Slots  BY <1>0, BehindWillBe
    <2>2. PICK B : B = Behind(k)'  OBVIOUS
    <2>3. Cardinality(B) \in Nat  BY <2>1, <2>2, CardGrows
    <2>4. Nr <= Room(w) + Cardinality(B)  BY <1>5, <1>7, <2>3
    <2> QED BY <1>2, <2>2, <2>4 DEF Covers
  <1>17. Awaits(w)'  BY <1>14, <1>15, <1>16 DEF Awaits
  <1> QED BY <1>1, <1>3, <1>17 DEF Roomy

\* the writer has its next file when there is no room for the block
LEMMA ReadyOfSwitches ==
    ASSUME IInv, FarAhead, NEW w \in Writers, TakeSwitches(w), Roomy(w)
    PROVE  Roomy(w)' /\ writers'[w].error # "file"
  <1>0. TypeInv /\ CountInv /\ WriterInv /\ mgr.pc \notin {"open", "dead"}
    BY WriterRuns DEF Writer
  <1>1. /\ Block(w, 1) /\ JobLen(w) = writer_queues[w][1].len /\ JobLen(w) \in Nat \ {0}
        /\ writers[w].pc = "take" /\ Load(w) = 0 /\ Load(w)' = JobLen(w)
    BY HeadBlock
  <1>2. /\ Nr \in Nat /\ Room(w) \in Nat
        /\ \A k \in Int : Cardinality(Behind(k)) \in Nat
                          /\ JobLen(w) + Cardinality(Behind(k)) <= Nr
    <2>1. 0 \in Int  OBVIOUS
    <2>2. ASSUME NEW k \in Int
          PROVE  /\ Nr \in Nat /\ Room(w) \in Nat /\ Cardinality(Behind(k)) \in Nat
                 /\ JobLen(w) + Cardinality(Behind(k)) <= Nr
      <3>1. /\ Nr \in Nat /\ Room(w) \in Nat /\ Cardinality(Behind(k)) \in Nat
            /\ Load(w) + writer_queues[w][1].len + Cardinality(Behind(k)) <= Nr
        BY <1>0, <1>1, LoadIs
      <3> QED BY <1>1, <3>1
    <2> QED BY <2>1, <2>2
  <1>3. Room(w) < JobLen(w)  BY DEF TakeSwitches
  <1>4. JobLen(w) <= Nr
    <2>1. PICK c \in Nat : JobLen(w) + c <= Nr
      <3>1. 0 \in Int  OBVIOUS
      <3> QED BY <1>2, <3>1
    <2> QED BY <1>1, <1>2, <2>1
  <1>5. writers[w].asked
    <2>1. ASSUME ~writers[w].asked PROVE FALSE
      <3>1. Nr + Load(w) <= Room(w)  BY <1>1, <2>1 DEF Roomy
      <3> QED BY <1>1, <1>2, <1>3, <1>4, <3>1
    <2> QED BY <2>1
  <1>6. writers[w].next # None
    <2>1. ASSUME Awaits(w) PROVE FALSE
      <3>1. CASE \E k \in Posts : Asked(w, k) /\ Covers(w, k)
        <4>1. PICK k \in Posts : Covers(w, k)  BY <3>1
        <4>2. k \in Int  BY <1>0, PostTypes
        <4>3. PICK c \in Nat : c = Cardinality(Behind(k)) /\ JobLen(w) + c <= Nr
          BY <1>2, <4>2
        <4>4. Nr <= Room(w) + c  BY <4>1, <4>3 DEF Covers
        <4> QED BY <1>1, <1>2, <1>3, <4>3, <4>4
      <3>2. CASE \E k \in DOMAIN writer_queues[w] : Answer(w, k) /\ Clear(w, k)
        <4>1. PICK k \in DOMAIN writer_queues[w] : Answer(w, k) /\ Clear(w, k)  BY <3>2
        <4>2. k # 1 /\ 1 \in DOMAIN writer_queues[w]  BY <1>1, <4>1 DEF Answer, Block
        <4>3. writer_queues[w] \in Seq(ToWriter)  BY <1>0, WriterIs
        <4>4. 1 < k  BY <4>1, <4>2, <4>3
        <4>5. Load(w) + writer_queues[w][1].len <= Room(w)  BY <1>1, <4>1, <4>2, <4>4 DEF Clear
        <4> QED BY <1>1, <1>2, <1>3, <4>5
      <3> QED BY <2>1, <3>1, <3>2 DEF Awaits
    <2> QED BY <1>1, <1>5, <2>1 DEF Roomy
  <1>7. writers'[w].asked = FALSE  BY <1>6, AskedAfter
  <1>8. writers'[w].size = 0 /\ writers'[w].error = "no"
    BY <1>0, <1>6, TakesIs, TakesApart
  <1>9. Nr' + Load(w)' <= Room(w)'
    <2>1. Room(w)' = ChunkSize /\ Nr' = Nr  BY <1>8, SizeAssumption DEF Room, Nr
    <2>2. 2 * Nr <= ChunkSize /\ ChunkSize \in Nat  BY SizeAssumption DEF FarAhead, Nr
    <2>3. Nr + JobLen(w) <= ChunkSize  BY <1>1, <1>2, <1>4, <2>2
    <2> QED BY <1>1, <2>1, <2>3
  <1> QED BY <1>7, <1>8, <1>9 DEF Roomy

\* the block goes back behind the question
LEMMA ReadyOfWrite ==
    ASSUME IInv, IInv', NEW w \in Writers, WriteBlock(w), Roomy(w)
    PROVE  Roomy(w)' /\ writers'[w].error # "file"
  <1>0. TypeInv /\ UNCHANGED mgr /\ mgr.pc \notin {"open", "dead"}
    BY WriterRuns DEF Writer
  <1>1. PICK n \in Nat \ {0} : n = writers[w].job.len  BY WriteIs
  <1>2. /\ writers[w].pc = "write" /\ writers[w].job \in WriteJobs
        /\ mgr_queue' = Append(mgr_queue, writers[w].job) /\ UNCHANGED writer_queues
        /\ writers'[w].next = writers[w].next
        /\ writers'[w].size = writers[w].size + n
        /\ writers'[w].job = NoJob /\ writers'[w].error = "no"
    BY <1>1, WriteIs
  <1>3. Load(w) = n /\ Load(w)' = 0 /\ Nr' = Nr
    <2>1. writers[w].job.type = "write"  BY <1>2 DEF WriteJobs
    <2>2. NoJob.type # "write"  BY DEF NoJob
    <2> QED BY <1>1, <1>2, <2>1, <2>2 DEF Load, Nr
  <1>4. /\ Nr \in Nat /\ Room(w) \in Nat /\ Room(w)' \in Int
        /\ Room(w)' = Room(w) - n
    <2>1. 0 \in Int  OBVIOUS
    <2>2. Nr \in Nat /\ Room(w) \in Nat  BY <1>0, <2>1, LoadIs
    <2>3. writers[w].size \in Nat /\ ChunkSize \in Nat
      BY <1>0, WriterIs, WriterFields, SizeAssumption
    <2>4. /\ Room(w) = ChunkSize - writers[w].size
          /\ Room(w)' = ChunkSize - (writers[w].size + n)
      BY <1>2 DEF Room
    <2>5. Room(w)' = Room(w) - n  BY <2>3, <2>4
    <2> QED BY <2>2, <2>5
  <1>5. writers'[w].asked = writers[w].asked  BY AskedAfter
  <1>6. CASE ~writers[w].asked
    <2>1. Nr + n <= Room(w)  BY <1>2, <1>3, <1>6 DEF Roomy
    <2>2. Nr' + Load(w)' <= Room(w)'  BY <1>3, <1>4, <2>1
    <2>3. ~writers'[w].asked  BY <1>5, <1>6
    <2> QED BY <1>2, <2>2, <2>3 DEF Roomy
  <1>7. CASE writers[w].asked /\ writers[w].next # None
    <2>1. writers'[w].asked /\ writers'[w].next # None  BY <1>2, <1>5, <1>7
    <2> QED BY <1>2, <2>1 DEF Roomy
  <1>8. CASE writers[w].asked /\ writers[w].next = None
    <2>1. Awaits(w)  BY <1>2, <1>8 DEF Roomy
    <2>2. CASE \E k \in Posts : Asked(w, k) /\ Covers(w, k)
      <3>1. PICK k \in Posts : Asked(w, k) /\ Covers(w, k)  BY <2>2
      <3>2. k \in Posts' /\ Post(k)' = Post(k)  BY <3>1, PostsGrow DEF Writer
      <3>3. Asked(w, k)'  BY <3>1, <3>2 DEF Asked
      <3>4. k \in Int /\ k \in 0..Len(mgr_queue) /\ Len(mgr_queue) \in Nat
        BY <1>0, PostTypes DEF Posts
      <3>5. Covers(w, k)'
        <4>1. PICK A, J, B : A = Behind(k) /\ J = JobSlots(writers[w].job) /\ B = Behind(k)'
          OBVIOUS
        <4>2. A \subseteq Slots /\ J \subseteq Slots /\ A \cap J = {}
          BY <1>0, <3>4, <4>1, PartsApart
        <4>3. A \cup J \subseteq B
          <5>1. writers[w].job \in ToManager  BY <1>2 DEF ToManager
          <5>2. /\ Len(mgr_queue) + 1 \in DOMAIN mgr_queue'
                /\ mgr_queue'[Len(mgr_queue) + 1] = writers[w].job
                /\ \A l \in DOMAIN mgr_queue : l \in DOMAIN mgr_queue' /\ mgr_queue'[l] = mgr_queue[l]
            BY <1>0, <1>2, <5>1, SentIs
          <5>3. J \subseteq B
            <6>1. PICK m : m = Len(mgr_queue) + 1  OBVIOUS
            <6>2. m \in DOMAIN mgr_queue' /\ m > k /\ mgr_queue'[m] = writers[w].job
              BY <3>4, <5>2, <6>1
            <6> QED BY <4>1, <6>2 DEF Behind
          <5>4. A \subseteq B  BY <4>1, <5>2 DEF Behind
          <5> QED BY <5>3, <5>4
        <4>4. B \subseteq Slots  BY <1>0, <4>1, BehindWillBe
        <4>5. /\ Cardinality(A) \in Nat
              /\ Cardinality(A \cup J) = Cardinality(A) + Cardinality(J)
          BY <4>2, TwoParts
        <4>6. Cardinality(J) = n  BY <1>1, <1>2, <4>1, JobCard
        <4>7. Cardinality(A \cup J) <= Cardinality(B) /\ Cardinality(B) \in Nat
          BY <4>3, <4>4, CardGrows
        <4>8. Nr <= Room(w) + Cardinality(A)  BY <3>1, <4>1 DEF Covers
        <4>9. Nr <= Room(w)' + Cardinality(B)  BY <1>4, <4>5, <4>6, <4>7, <4>8
        <4> QED BY <1>3, <4>1, <4>9 DEF Covers
      <3>6. Awaits(w)'  BY <3>2, <3>3, <3>5 DEF Awaits
      <3>7. writers'[w].asked  BY <1>5, <1>8
      <3> QED BY <1>2, <3>6, <3>7 DEF Roomy
    <2>3. CASE \E k \in DOMAIN writer_queues[w] : Answer(w, k) /\ Clear(w, k)
      <3>1. PICK k \in DOMAIN writer_queues[w] : Answer(w, k) /\ Clear(w, k)  BY <2>3
      <3>2. k \in DOMAIN writer_queues'[w] /\ Answer(w, k)'  BY <1>2, <3>1 DEF Answer
      <3>3. Clear(w, k)'
        <4> SUFFICES ASSUME NEW l \in DOMAIN writer_queues'[w], l < k, Block(w, l)'
                     PROVE  Load(w)' + writer_queues'[w][l].len <= Room(w)'
          BY DEF Clear
        <4>1. Block(w, l) /\ l \in DOMAIN writer_queues[w]  BY <1>2 DEF Block
        <4>2. n + writer_queues[w][l].len <= Room(w)  BY <1>3, <3>1, <4>1 DEF Clear
        <4>3. PICK m \in Nat : m = writer_queues[w][l].len  BY <1>0, <4>1, BlockIs
        <4>4. 0 + m <= Room(w)'  BY <1>4, <4>2, <4>3
        <4> QED BY <1>2, <1>3, <4>3, <4>4
      <3>4. Awaits(w)'  BY <3>2, <3>3 DEF Awaits
      <3>5. writers'[w].asked  BY <1>5, <1>8
      <3> QED BY <1>2, <3>4, <3>5 DEF Roomy
    <2> QED BY <2>1, <2>2, <2>3 DEF Awaits
  <1> QED BY <1>6, <1>7, <1>8

LEMMA ReadyOfWriter ==
    ASSUME IInv, IInv', FarAhead, NEW w \in Writers, Writer(w),
           writers[w].error # "file", FilesSent(w), Roomy(w)
    PROVE  Roomy(w)' /\ writers'[w].error # "file"
  <1>0. TypeInv /\ CountInv /\ WriterInv  BY WriterRuns
  <1>1. CASE TakeAbort(w)
    <2>1. writers'[w].pc = "close" /\ writers'[w].error = writers[w].error
      BY <1>0, <1>1, AbortIs
    <2> QED BY <2>1 DEF Roomy
  <1>2. CASE WriteFails(w)
    <2>1. writers'[w].pc = "close" /\ writers'[w].error = "card"  BY <1>2, FailsIs
    <2> QED BY <2>1 DEF Roomy
  <1>3. CASE CloseFile(w)
    <2>1. writers'[w].pc = "off" /\ writers'[w].error = writers[w].error
      BY <1>0, <1>3, CloseIs
    <2> QED BY <2>1 DEF Roomy
  <1> QED BY <1>1, <1>2, <1>3, ReadyOfNext, ReadyOfFits, ReadyOfAsks, ReadyOfSwitches,
             ReadyOfWrite DEF Writer

-----------------------------------------------------------------------------
\* the queues of the writers in the steps of the others
LEMMA SendSteps ==
    ASSUME IInv, [Next]_vars, \A w \in Writers : ~Writer(w), ~OpenFiles
    PROVE  \/ UNCHANGED writer_queues
           \/ Flush /\ writer_queues' = [q \in Queues |-> <<>>]
           \/ \E q \in Queues, j \in WriteJobs :
                 writer_queues' = [writer_queues EXCEPT ![q] = Append(@, j)]
           \/ HandleWanted
  <1>0. TypeInv /\ FlowInv  BY DEF IInv
  <1>1. CASE Camera \/ DmaDone \/ TakeSlot \/ ReleaseSlot  BY <1>1, CameraSlots
  <1>2. CASE PressRec \/ UNCHANGED vars  BY <1>2 DEF PressRec, vars
  <1>3. CASE FillQueue
    <2>1. PICK q \in Queues : q = mgr.at
      <3>1. mgr.at \in Writers  BY <1>0, <1>3 DEF FlowInv, FillQueue
      <3> QED BY <3>1, QueueOne, WriterAssumption
    <2>2. \/ UNCHANGED writer_queues
          \/ \E b \in BlocksFor(q) : \E n \in Shortened(b[2]) : Enqueue(q, <<b[1], n>>)
      BY <1>3, <2>1 DEF FillQueue
    <2>3. ASSUME NEW b \in BlocksFor(q), NEW n \in Shortened(b[2]), Enqueue(q, <<b[1], n>>)
          PROVE  \E j \in WriteJobs :
                    writer_queues' = [writer_queues EXCEPT ![q] = Append(@, j)]
      <3>1. b[1] \in Nat /\ n \in 0..ChunkSize  BY BlockFound, SizeAssumption
      <3>2. PICK j : j = WriteJob(q, b[1], n)  OBVIOUS
      <3>3. j \in WriteJobs  BY <3>1, <3>2 DEF WriteJob, WriteJobs
      <3>4. writer_queues' = [writer_queues EXCEPT ![q] = Append(@, j)]
        BY <2>3, <3>2 DEF Enqueue
      <3> QED BY <3>3, <3>4
    <2> QED BY <2>2, <2>3
  <1>4. CASE AbortWriters
    <2>1. PICK q \in Queues : q = mgr.at  BY <1>0, MgrIs DEF TypeInv, Queues
    <2>2. writer_queues' = [writer_queues EXCEPT ![q] = Append(@, AbortJob)]
      BY <1>4, <2>1 DEF AbortWriters
    <2>3. AbortJob \in WriteJobs
      BY SizeAssumption DEF AbortJob, WriteJob, WriteJobs, None, Queues
    <2> QED BY <2>2, <2>3
  <1>5. CASE Flush  BY <1>5 DEF Flush
  <1>6. CASE Manager /\ ~FillQueue /\ ~AbortWriters /\ ~Flush /\ ~HandleWanted
    BY <1>6 DEF Manager, Prepare, Begin, MgrLoop, NothingReturned, WriteReturned,
          CloseWanted, Stopping, Drain, CleanUp
  <1> QED BY <1>1, <1>2, <1>3, <1>4, <1>5, <1>6 DEF Next

\* a job is put in a queue
LEMMA AnswersKeptGrown ==
    ASSUME TypeInv, NEW q \in Queues, NEW j \in ToWriter, NEW v \in Writers,
           writer_queues' = [writer_queues EXCEPT ![q] = Append(@, j)]
    PROVE  /\ AnswersKept(v)
           /\ FilesSent(v) /\ (j.type = "handle" => j.file # None) => FilesSent(v)'
  <1>0. v \in Queues  BY QueueOne, WriterAssumption
  <1>1. /\ \A k \in DOMAIN writer_queues[v] :
              k \in DOMAIN writer_queues'[v] /\ writer_queues'[v][k] = writer_queues[v][k]
        /\ \A k \in DOMAIN writer_queues'[v] : k \notin DOMAIN writer_queues[v] =>
              /\ writer_queues'[v][k] = j
              /\ \A l \in DOMAIN writer_queues[v] : l < k
        /\ DOMAIN writer_queues[v] \subseteq Nat /\ DOMAIN writer_queues'[v] \subseteq Nat
    <2>1. CASE v = q
      <3>1. /\ Len(writer_queues[q]) \in Nat
            /\ DOMAIN writer_queues[q] = 1..Len(writer_queues[q])
            /\ DOMAIN writer_queues'[q] = 1..Len(writer_queues[q]) + 1
            /\ writer_queues'[q][Len(writer_queues[q]) + 1] = j
            /\ \A k \in DOMAIN writer_queues[q] : writer_queues'[q][k] = writer_queues[q][k]
        BY GrownIs
      <3> QED BY <2>1, <3>1
    <2>2. CASE v # q
      <3>1. writer_queues'[v] = writer_queues[v]  BY <1>0, <2>2, GrownIs
      <3>2. writer_queues[v] \in Seq(ToWriter)  BY WriterIs
      <3> QED BY <3>1, <3>2
    <2> QED BY <2>1, <2>2
  <1>2. AnswersKept(v)
    <2> SUFFICES ASSUME NEW k, Answer(v, k)
                 PROVE  /\ Answer(v, k)'
                        /\ \A m : m < k /\ Block(v, m)' =>
                              Block(v, m) /\ writer_queues'[v][m] = writer_queues[v][m]
      BY DEF AnswersKept
    <2>1. k \in DOMAIN writer_queues[v]  BY DEF Answer
    <2>2. Answer(v, k)'  BY <1>1, <2>1 DEF Answer
    <2>3. ASSUME NEW m, m < k, Block(v, m)'
          PROVE  Block(v, m) /\ writer_queues'[v][m] = writer_queues[v][m]
      <3>1. m \in DOMAIN writer_queues'[v]  BY <2>3 DEF Block
      <3>2. k \in Nat /\ m \in Nat  BY <1>1, <2>1, <3>1
      <3>3. m \in DOMAIN writer_queues[v]  BY <1>1, <2>1, <2>3, <3>1, <3>2
      <3> QED BY <1>1, <2>3, <3>3 DEF Block
    <2> QED BY <2>2, <2>3
  <1>3. ASSUME FilesSent(v), j.type = "handle" => j.file # None,
               NEW k \in DOMAIN writer_queues'[v], writer_queues'[v][k].type = "handle"
        PROVE  Answer(v, k)'
    <2>1. CASE k \in DOMAIN writer_queues[v]
      <3>1. writer_queues'[v][k] = writer_queues[v][k]  BY <1>1, <2>1
      <3>2. Answer(v, k)  BY <1>3, <2>1, <3>1 DEF FilesSent
      <3> QED BY <1>3, <3>1, <3>2 DEF Answer
    <2>2. CASE k \notin DOMAIN writer_queues[v]
      <3>1. writer_queues'[v][k] = j  BY <1>1, <2>2
      <3> QED BY <1>3, <3>1 DEF Answer
    <2> QED BY <2>1, <2>2
  <1> QED BY <1>2, <1>3 DEF FilesSent

\* the questions in the steps of the others
LEMMA AskedSteps ==
    ASSUME IInv, [Next]_vars, \A w \in Writers : ~Writer(w), ~Flush, NEW v \in Writers,
           NEW k, Asked(v, k), ~(HandleWanted /\ k = 0)
    PROVE  \E l : Asked(v, l)' /\ Behind(k) \subseteq Behind(l)'
  <1>0. /\ TypeInv /\ mgr_queue \in Seq(ToManager) /\ Len(mgr_queue) \in Nat /\ k \in Nat
        /\ k \in Posts /\ Post(k).type = "handle" /\ Post(k).writer = v
        /\ k # 0 => k \in DOMAIN mgr_queue /\ Post(k) = mgr_queue[k]
    <2>1. TypeInv /\ mgr_queue \in Seq(ToManager) /\ k \in Posts  BY DEF IInv, TypeInv, Asked
    <2> QED BY <2>1, PostTypes DEF Asked
  <1>1. CASE UNCHANGED mgr_queue /\ mgr'.job = mgr.job
    <2>1. Asked(v, k)' /\ Behind(k)' = Behind(k)
      BY <1>0, <1>1 DEF Asked, Posts, Post, Behind
    <2> QED BY <2>1
  <1>2. CASE /\ UNCHANGED mgr_queue /\ mgr'.job = NoJob
             /\ NothingReturned \/ WriteReturned \/ HandleWanted \/ CloseWanted
    <2>1. k # 0
      <3>1. ASSUME k = 0 PROVE HandleWanted
        <4>1. mgr.job.type = "handle"  BY <1>0, <3>1 DEF Post
        <4> QED BY <1>2, <4>1 DEF NothingReturned, WriteReturned, CloseWanted, Returned
      <3> QED BY <3>1
    <2>2. Asked(v, k)' /\ Behind(k)' = Behind(k)
      BY <1>0, <1>2, <2>1 DEF Asked, Posts, Post, Behind
    <2> QED BY <2>2
  <1>3. CASE /\ mgr_queue # <<>> /\ mgr_queue' = Tail(mgr_queue)
             /\ mgr'.job = Head(mgr_queue) /\ mgr.job = NoJob
    <2>1. k # 0  BY <1>0, <1>3 DEF Post, NoJob
    <2>2. PICK l : l = k - 1  OBVIOUS
    <2>3. l \in 0..Len(mgr_queue') /\ l \in Nat
          /\ Post(k) = IF l = 0 THEN mgr'.job ELSE mgr_queue'[l]
      BY <1>0, <1>3, <2>1, <2>2
    <2>4. l \in Posts' /\ Post(l)' = Post(k)  BY <2>3 DEF Posts, Post
    <2>5. Asked(v, l)'  BY <1>0, <2>4 DEF Asked
    <2>6. ASSUME NEW s \in Behind(k) PROVE s \in Behind(l)'
      <3>1. PICK m \in DOMAIN mgr_queue : m > k /\ s \in JobSlots(mgr_queue[m])
        BY <2>6 DEF Behind
      <3>2. PICK n : n = m - 1  OBVIOUS
      <3>3. n \in DOMAIN mgr_queue' /\ n > l /\ mgr_queue'[n] = mgr_queue[m]
        BY <1>0, <1>3, <2>1, <2>2, <3>1, <3>2
      <3> QED BY <3>1, <3>3 DEF Behind
    <2> QED BY <2>5, <2>6
  <1> QED BY <1>1, <1>2, <1>3, JobSteps

\* the manager answers
LEMMA ReadyOfHandle ==
    ASSUME IInv, IInv', [Next]_vars, HandleWanted, CloseOrder, NoneGone', NEW v \in Writers,
           FilesSent(v), Roomy(v)
    PROVE  FilesSent(v)' /\ Roomy(v)' /\ writers'[v] = writers[v]
  <1>0. /\ TypeInv /\ mgr \in Managers /\ mgr.pc = "handle" /\ v \in Queues
        /\ UNCHANGED <<writers, mgr_queue>> /\ Len(files) \in Nat /\ files \in Seq(Files)
    <2>1. TypeInv /\ mgr \in Managers /\ files \in Seq(Files)  BY DEF IInv, TypeInv
    <2> QED BY <2>1, QueueOne, WriterAssumption DEF HandleWanted, Returned
  <1>1. mgr'.pc \notin {"open", "dead"} /\ \A w \in Writers : ~Writer(w)
    <2>1. mgr'.pc = "loop"  BY <1>0, EndLoopIs DEF HandleWanted
    <2>2. ASSUME NEW w \in Writers, Writer(w) PROVE FALSE  BY <1>0, <2>1, <2>2, WriterRuns
    <2> QED BY <2>1, <2>2
  <1>2. mgr.job \in HandleJobs  BY <1>0, HandleSent
  <1>3. PICK j \in HandleJobs :
            /\ writer_queues' = [writer_queues EXCEPT ![mgr.job.writer] = Append(@, j)]
            /\ \/ j.file = Len(files) + 1
               \/ files' = Append(files, [NewFile EXCEPT !.gone = TRUE])
    BY <1>0, HandleSent
  <1>4. j.file = Len(files) + 1
    <2>1. ASSUME files' = Append(files, [NewFile EXCEPT !.gone = TRUE]) PROVE FALSE
      <3>1. PICK f : f = [NewFile EXCEPT !.gone = TRUE]  OBVIOUS
      <3>2. f.gone = TRUE  BY <3>1 DEF NewFile
      <3>3. Len(files) + 1 \in DOMAIN files' /\ files'[Len(files) + 1] = f
        BY <1>0, <2>1, <3>1
      <3> QED BY <3>2, <3>3 DEF NoneGone
    <2> QED BY <1>3, <2>1
  <1>5. j.file # None /\ j.type = "handle" /\ j \in ToWriter
    BY <1>0, <1>4 DEF None, HandleJobs, ToWriter
  <1>6. PICK o \in Writers : o = mgr.job.writer  BY <1>2 DEF HandleJobs
  <1>7. o \in Queues /\ writer_queues' = [writer_queues EXCEPT ![o] = Append(@, j)]
    BY <1>3, <1>6, QueueOne, WriterAssumption
  <1>8. AnswersKept(v) /\ FilesSent(v)'  BY <1>0, <1>5, <1>7, AnswersKeptGrown
  <1>9. CASE Asked(v, 0) /\ Covers(v, 0)
    <2>1. o = v  BY <1>6, <1>9 DEF Asked, Post
    <2>2. PICK k : k = Len(writer_queues[v]) + 1  OBVIOUS
    <2>9. writer_queues' = [writer_queues EXCEPT ![v] = Append(@, j)]  BY <1>7, <2>1
    <2>10. /\ Len(writer_queues[v]) \in Nat
          /\ DOMAIN writer_queues[v] = 1..Len(writer_queues[v])
          /\ DOMAIN writer_queues'[v] = 1..Len(writer_queues[v]) + 1
          /\ writer_queues'[v][Len(writer_queues[v]) + 1] = j
          /\ \A l \in DOMAIN writer_queues[v] : writer_queues'[v][l] = writer_queues[v][l]
      BY <1>0, <1>5, <2>9, GrownIs
    <2>3. /\ k \in DOMAIN writer_queues'[v] /\ writer_queues'[v][k] = j
          /\ Len(writer_queues[v]) \in Nat
          /\ DOMAIN writer_queues'[v] = 1..Len(writer_queues[v]) + 1
          /\ DOMAIN writer_queues[v] = 1..Len(writer_queues[v])
          /\ \A l \in DOMAIN writer_queues[v] : writer_queues'[v][l] = writer_queues[v][l]
      BY <2>2, <2>10
    <2>4. Answer(v, k)'  BY <1>5, <2>3 DEF Answer
    <2>5. Clear(v, k)'
      <3> SUFFICES ASSUME NEW l \in DOMAIN writer_queues'[v], l < k, Block(v, l)'
                   PROVE  Load(v)' + writer_queues'[v][l].len <= Room(v)'
        BY DEF Clear
      <3>1. l \in DOMAIN writer_queues[v] /\ writer_queues'[v][l] = writer_queues[v][l]
        BY <2>2, <2>3
      <3>2. Block(v, l)  BY <3>1 DEF Block
      <3>3. PICK c : c = Cardinality(Behind(0))  OBVIOUS
      <3>4. /\ Nr \in Nat /\ Load(v) \in Nat /\ c \in Nat /\ Room(v) \in Nat
            /\ writer_queues[v][l].len \in Nat
            /\ Load(v) + writer_queues[v][l].len + c <= Nr
        <4>1. 0 \in Int /\ mgr.pc \notin {"open", "dead"}  BY <1>0
        <4> QED BY <3>2, <3>3, <4>1, LoadIs
      <3>5. Nr <= Room(v) + c  BY <1>9, <3>3 DEF Covers
      <3>6. Load(v) + writer_queues[v][l].len <= Room(v)  BY <3>4, <3>5
      <3>7. Load(v)' = Load(v) /\ Room(v)' = Room(v)  BY <1>0 DEF Load, Room
      <3> QED BY <3>1, <3>6, <3>7
    <2>6. Awaits(v)'  BY <2>3, <2>4, <2>5 DEF Awaits
    <2>7. Load(v)' = Load(v) /\ Room(v)' = Room(v)  BY <1>0 DEF Load, Room
    <2>8. Roomy(v)'  BY <1>0, <2>6, <2>7 DEF Roomy, Nr
    <2> QED BY <1>0, <1>8, <2>8
  <1>10. CASE ~(Asked(v, 0) /\ Covers(v, 0))
    <2>1. ~Flush  BY <1>0 DEF Flush
    <2>2. AskedKept(v)
      <3> SUFFICES ASSUME NEW k, Asked(v, k), Covers(v, k)
                   PROVE  \E l : Asked(v, l)' /\ Behind(k) \subseteq Behind(l)'
        BY DEF AskedKept
      <3>1. k # 0  BY <1>10
      <3> QED BY <1>1, <2>1, <3>1, AskedSteps
    <2>3. Roomy(v)'  BY <1>0, <1>1, <1>8, <2>2, RoomyKept
    <2> QED BY <1>0, <1>8, <2>3
  <1> QED BY <1>9, <1>10

\* the steps of the others
LEMMA ReadyOfRest ==
    ASSUME IInv, IInv', [Next]_vars, \A w \in Writers : ~Writer(w), ~OpenFiles,
           CloseOrder, NoneGone', mgr.pc \notin {"open", "dead"},
           mgr'.pc \notin {"open", "dead"}, NEW v \in Writers, FilesSent(v), Roomy(v)
    PROVE  FilesSent(v)' /\ Roomy(v)'
  <1>0. UNCHANGED writers /\ TypeInv /\ FlowInv /\ v \in Queues
    BY FilesGrow, QueueOne, WriterAssumption DEF IInv
  <1>1. CASE HandleWanted  BY <1>1, ReadyOfHandle
  <1>2. CASE Flush
    <2>1. ~Alive(v)
      <3>1. Threads = 0  BY <1>2 DEF Flush
      <3> QED BY <3>1, NoThreads
    <2>2. Roomy(v)'  BY <1>0, <2>1 DEF Roomy, Alive
    <2>3. writer_queues'[v] = <<>>  BY <1>0, <1>2 DEF Flush
    <2>4. FilesSent(v)'  BY <2>3 DEF FilesSent
    <2> QED BY <2>2, <2>4
  <1>3. CASE ~HandleWanted /\ ~Flush
    <2>1. AskedKept(v)  BY <1>3, AskedSteps DEF AskedKept
    <2>2. AnswersKept(v) /\ FilesSent(v)'
      <3>1. CASE UNCHANGED writer_queues
        <4>1. FilesSent(v)'  BY <3>1 DEF FilesSent, Answer
        <4>2. \A k : Answer(v, k) => Answer(v, k)'  BY <3>1 DEF Answer
        <4>3. \A m : Block(v, m)' => Block(v, m)  BY <3>1 DEF Block
        <4> QED BY <3>1, <4>1, <4>2, <4>3 DEF AnswersKept
      <3>2. CASE \E q \in Queues, j \in WriteJobs :
                    writer_queues' = [writer_queues EXCEPT ![q] = Append(@, j)]
        <4>1. PICK q \in Queues, j \in WriteJobs :
                    writer_queues' = [writer_queues EXCEPT ![q] = Append(@, j)]
          BY <3>2
        <4>2. j \in ToWriter /\ j.type = "write"  BY DEF ToWriter, WriteJobs
        <4> QED BY <1>0, <4>1, <4>2, AnswersKeptGrown
      <3> QED BY <1>3, <3>1, <3>2, SendSteps
    <2>3. writers'[v] = writers[v]  BY <1>0
    <2> QED BY <2>1, <2>2, <2>3, RoomyKept
  <1> QED BY <1>1, <1>2, <1>3

\* if no file is gone then none was
LEMMA NothingWasGone ==
    ASSUME IInv, [Next]_vars, ~OpenFiles, NoneGone'
    PROVE  NoneGone
  <1> SUFFICES ASSUME NEW i \in DOMAIN files PROVE ~files[i].gone  BY DEF NoneGone
  <1>0. files \in Seq(Files)  BY DEF IInv, TypeInv
  <1>1. CASE HandleWanted
    <2>1. PICK f : files' = Append(files, f)  BY <1>1 DEF HandleWanted
    <2>2. i \in DOMAIN files' /\ files'[i] = files[i]  BY <1>0, <2>1
    <2> QED BY <2>2 DEF NoneGone
  <1>2. CASE Stopping
    <2>1. files' = [k \in DOMAIN files |->
                      [files[k] EXCEPT !.gone = @ \/ (k > 1 /\ files[k].data = <<>>)]]
      BY <1>2 DEF Stopping
    <2>2. files[i] \in Files  BY <1>0
    <2>3. i \in DOMAIN files'
          /\ files'[i] = [files[i] EXCEPT !.gone = @ \/ (i > 1 /\ files[i].data = <<>>)]
      BY <2>1
    <2>4. files'[i].gone = (files[i].gone \/ (i > 1 /\ files[i].data = <<>>))
      BY <2>2, <2>3 DEF Files
    <2> QED BY <2>3, <2>4 DEF NoneGone
  <1>3. CASE ~HandleWanted /\ ~Stopping  BY <1>3, GoneStays DEF NoneGone
  <1> QED BY <1>1, <1>2, <1>3

\* fresh writers
LEMMA ReadyOfOpen ==
    ASSUME IInv, FarAhead, OpenFiles, mgr'.pc # "dead", NEW v \in Writers
    PROVE  FilesSent(v)' /\ Roomy(v)' /\ writers'[v].error = "no"
  <1>0. mgr \in Managers /\ FlowInv /\ v \in Queues
    BY QueueOne, WriterAssumption DEF IInv, TypeInv
  <1>1. mgr' # [mgr EXCEPT !.pc = "dead"]  BY <1>0, MgrSet
  <1>2. writers' = [w \in Writers |->
            [Idle EXCEPT !.pc = "take", !.file = w + 1, !.num = w]]
    BY <1>1 DEF OpenFiles
  <1>3. /\ writers'[v].size = 0 /\ writers'[v].asked = FALSE /\ writers'[v].job = NoJob
        /\ writers'[v].error = "no"
    BY <1>2 DEF Idle
  <1>4. writer_queues'[v] = <<>>  BY <1>0 DEF OpenFiles, FlowInv
  <1>5. FilesSent(v)'  BY <1>4 DEF FilesSent
  <1>6. Room(v)' = ChunkSize /\ Load(v)' = 0 /\ Nr' = Nr
    BY <1>3, SizeAssumption DEF Room, Load, NoJob, Nr
  <1>7. Nr \in Nat /\ ChunkSize \in Nat /\ 2 * Nr <= ChunkSize
    BY SlotsFinite, SizeAssumption DEF Nr, FarAhead
  <1>8. Nr' + Load(v)' <= Room(v)'  BY <1>6, <1>7
  <1>9. Roomy(v)'  BY <1>3, <1>8 DEF Roomy
  <1> QED BY <1>3, <1>5, <1>9

LEMMA ReadyStep ==
    ASSUME IInv, IInv', CloseOrder \/ mgr.pc \in {"open", "dead"}, ReadyInv, [Next]_vars
    PROVE  ReadyInv'
  <1> SUFFICES ASSUME FarAhead, NoneGone'
               PROVE  /\ mgr'.pc # "dead" => \A v \in Writers : writers'[v].error # "file"
                      /\ mgr'.pc \notin {"open", "dead"} =>
                            \A v \in Writers : FilesSent(v)' /\ Roomy(v)'
    BY DEF ReadyInv, FarAhead
  <1>1. CASE OpenFiles
    <2>1. ASSUME mgr'.pc # "dead", NEW v \in Writers
          PROVE  FilesSent(v)' /\ Roomy(v)' /\ writers'[v].error # "file"
      <3>1. FilesSent(v)' /\ Roomy(v)' /\ writers'[v].error = "no"
        BY <1>1, <2>1, ReadyOfOpen
      <3> QED BY <3>1
    <2> QED BY <2>1
  <1>2. CASE ~OpenFiles
    <2>0. NoneGone  BY <1>2, NothingWasGone
    <2>1. CASE \E w \in Writers : Writer(w)
      <3>1. PICK w \in Writers : Writer(w)  BY <2>1
      <3>2. mgr.pc \notin {"open", "dead"} /\ UNCHANGED mgr  BY <3>1, WriterRuns
      <3>3. \A v \in Writers : FilesSent(v) /\ Roomy(v) /\ writers[v].error # "file"
        BY <2>0, <3>2 DEF ReadyInv
      <3>4. ASSUME NEW v \in Writers
            PROVE  FilesSent(v)' /\ Roomy(v)' /\ writers'[v].error # "file"
        <4>1. CASE v = w
          <5>1. FilesSent(w)'  BY <3>1, <3>3, SentOfWriter
          <5>2. Roomy(w)' /\ writers'[w].error # "file"  BY <3>1, <3>3, ReadyOfWriter
          <5> QED BY <4>1, <5>1, <5>2
        <4>2. CASE v # w
          <5>1. FilesSent(v)' /\ Roomy(v)' /\ writers'[v].error = writers[v].error
            BY <3>1, <3>3, <4>2, ReadyOfOthers
          <5> QED BY <3>3, <5>1
        <4> QED BY <4>1, <4>2
      <3> QED BY <3>4
    <2>2. CASE \A w \in Writers : ~Writer(w)
      <3>1. UNCHANGED writers  BY <1>2, <2>2, FilesGrow
      <3>2. CASE mgr.pc \in {"open", "dead"}
        <4>1. mgr'.pc = mgr.pc  BY <1>2, <3>2, OpenStays
        <4> QED BY <2>0, <3>1, <3>2, <4>1 DEF ReadyInv
      <3>3. CASE mgr.pc \notin {"open", "dead"}
        <4>1. \A v \in Writers : FilesSent(v) /\ Roomy(v) /\ writers[v].error # "file"
          BY <2>0, <3>3 DEF ReadyInv
        <4>2. ASSUME mgr'.pc \notin {"open", "dead"}, NEW v \in Writers
              PROVE  FilesSent(v)' /\ Roomy(v)'
          BY <1>2, <2>2, <3>3, <4>1, <4>2, ReadyOfRest
        <4> QED BY <3>1, <4>1, <4>2
      <3> QED BY <3>2, <3>3
    <2> QED BY <2>1, <2>2
  <1> QED BY <1>1, <1>2

-----------------------------------------------------------------------------
\* what is kept of the files
KeepsFiles == LeftInv /\ GoneInv /\ CloseInv /\ ReadyInv

LEMMA InitFiles == ASSUME Init PROVE KeepsFiles
  <1>1. /\ mgr.pc = "off" /\ mgr.job = NoJob /\ mgr_queue = <<>> /\ files = <<>>
        /\ writer_queues = [q \in Queues |-> <<>>] /\ writers = [w \in Writers |-> Idle]
    BY DEF Init
  <1>2. LeftInv  BY <1>1 DEF LeftInv
  <1>3. GoneInv  BY <1>1 DEF GoneInv, Busy
  <1>4. CloseInv  BY <1>1 DEF CloseInv
  <1>5. ASSUME NEW w \in Writers
        PROVE  FilesSent(w) /\ Roomy(w) /\ writers[w].error # "file"
    <2>1. writers[w].pc = "off" /\ writers[w].error = "no"  BY <1>1 DEF Idle
    <2>2. w \in Queues  BY QueueOne, WriterAssumption
    <2>3. writer_queues[w] = <<>>  BY <1>1, <2>2
    <2> QED BY <2>1, <2>3 DEF FilesSent, Roomy
  <1>6. ReadyInv  BY <1>5 DEF ReadyInv
  <1> QED BY <1>2, <1>3, <1>4, <1>6 DEF KeepsFiles

LEMMA KeepsFilesStep ==
    ASSUME IInv, StartsClean, HeadInv, KeepsFrames, KeepsFiles, [Next]_vars
    PROVE  KeepsFiles'
  <1>1. IInv'  BY InvStep
  <1>2. CloseOrder \/ mgr.pc \in {"open", "dead"}  BY DEF HeadInv
  <1>3. LeftInv'  BY LeftStep DEF KeepsFiles, KeepsFrames
  <1>4. GoneInv'  BY <1>2, GoneStep DEF KeepsFiles, KeepsFrames
  <1>5. CloseInv'  BY CloseStep DEF KeepsFiles
  <1>6. ReadyInv'  BY <1>1, <1>2, ReadyStep DEF KeepsFiles
  <1> QED BY <1>3, <1>4, <1>5, <1>6 DEF KeepsFiles

LEMMA FilesHold == IInv /\ KeepsFiles => FilesKept
  <1> SUFFICES ASSUME IInv, KeepsFiles PROVE FilesKept  OBVIOUS
  <1>0. LeftInv /\ GoneInv /\ CloseInv /\ ReadyInv /\ FlowInv /\ TypeInv
    BY DEF KeepsFiles, IInv
  <1>1. AllClosed
    <2> SUFFICES ASSUME mgr.pc = "cleanup", NEW i \in DOMAIN files, files[i].data # <<>>
                 PROVE  ~files[i].gone /\ (files[i].closed > 0 \/ (Failed /\ CloseLost(i)))
      BY DEF AllClosed
    <2>1. ~files[i].gone  BY <1>0 DEF GoneInv
    <2>2. Shut(i)  BY <1>0 DEF CloseInv
    <2>3. CASE files[i].closed > 0  BY <2>1, <2>3
    <2>4. CASE \E w \in Writers : Alive(w) /\ writers[w].file = i
      BY <1>0, <2>4 DEF FlowInv, Before
    <2>5. CASE \E k \in Posts : Closes(k) /\ Post(k).file = i
      <3>1. PICK k \in Posts : Closes(k) /\ Post(k).file = i  BY <2>5
      <3>2. mgr.job = NoJob  BY <1>0 DEF FlowInv
      <3>3. k # 0  BY <3>1, <3>2 DEF Closes, Post, NoJob
      <3>4. k \in DOMAIN mgr_queue /\ Post(k) = mgr_queue[k]  BY <1>0, <3>3, PostTypes
      <3>5. CloseLost(i)  BY <3>1, <3>4 DEF CloseLost, Closes
      <3>6. Failed  BY <1>0, <3>4 DEF LeftInv
      <3> QED BY <2>1, <3>5, <3>6
    <2> QED BY <2>2, <2>3, <2>4, <2>5 DEF Shut
  <1>2. ChunkReady  BY <1>0 DEF ChunkReady, ReadyInv, NoneGone
  <1>3. QueuesFlushed  BY <1>0 DEF QueuesFlushed, LeftInv
  <1> QED BY <1>1, <1>2, <1>3 DEF FilesKept

\* Every file with data is kept on the card and closed unless all writers gave
\* up; the next file is there when a writer has no room for a block, unless it
\* could not be created, where Ahead blocks are more than all the slots; and a
\* recording without a failure leaves nothing in the queues: in recordings that
\* start with nothing left over.
THEOREM FilesStayKept == Spec /\ []StartsClean => []FilesKept
  <1>1. Init => IInv /\ HeadInv /\ KeepsFrames /\ KeepsFiles
    BY InitInv, InitHead, InitFrame, InitGap, InitFiles DEF KeepsFrames
  <1>2. IInv /\ HeadInv /\ KeepsFrames /\ KeepsFiles /\ StartsClean /\ [Next]_vars =>
            IInv' /\ HeadInv' /\ KeepsFrames' /\ KeepsFiles'
    BY InvStep, HeadStep, KeepsStep, KeepsFilesStep
  <1>3. IInv /\ KeepsFiles => FilesKept  BY FilesHold
  <1> QED BY <1>1, <1>2, <1>3, PTL DEF Spec

\* In the first recording of a session nothing is left over.
THEOREM FirstFilesKept == ASSUME MaxRuns <= 1 PROVE Spec => []FilesKept
  <1>1. Init => IInv /\ HeadInv /\ KeepsFrames /\ KeepsFiles /\ FirstInv
    <2>1. Init => FirstInv  BY DEF Init, FirstInv, Clean, StartsClean
    <2> QED BY <2>1, InitInv, InitHead, InitFrame, InitGap, InitFiles DEF KeepsFrames
  <1>2. IInv /\ HeadInv /\ KeepsFrames /\ KeepsFiles /\ FirstInv /\ [Next]_vars =>
            IInv' /\ HeadInv' /\ KeepsFrames' /\ KeepsFiles' /\ FirstInv'
    <2>1. FirstInv => StartsClean  BY DEF FirstInv
    <2> QED BY <2>1, InvStep, HeadStep, KeepsStep, KeepsFilesStep, FirstStep
  <1>3. IInv /\ KeepsFiles => FilesKept  BY FilesHold
  <1> QED BY <1>1, <1>2, <1>3, PTL DEF Spec
=============================================================================
