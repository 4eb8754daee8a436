---------------------------- MODULE MlvRecProofs ----------------------------
(***************************************************************************)
(* Proofs about the older recorder (MlvRec): what the vsync handler, the   *)
(* manager and the writers keep of the slots, the files, their headers and *)
(* the jobs, for any groups of slots, block sizes, file sizes and bounds.  *)
(***************************************************************************)
EXTENDS MlvRec, FiniteSetTheorems, SequenceTheorems, WellFoundedInduction, TLAPS

(* Types.                                                                  *)

WriteJobs  == [type : {"write"}, writer : Queues, start : Nat, len : 0..ChunkSize]
HandleJobs == [type : {"handle"}, writer : Writers, file : Nat, num : Nat]
CloseJobs  == [type : {"close"}, writer : Writers, file : Nat, num : Nat, frames : Nat]
ToWriter   == WriteJobs \cup HandleJobs
ToManager  == WriteJobs \cup HandleJobs \cup CloseJobs

MgrSteps == {"off", "dead", "prepare", "open", "begin", "loop", "fill", "handle",
             "stopping", "drain", "abort", "flush", "cleanup"}
Turns    == 0..1
MgrJobs  == ToManager \cup {NoJob}
Managers == [pc : MgrSteps, at : Turns, job : MgrJobs, used : BOOLEAN]
WriterSteps == {"off", "take", "write", "close"}
Errors      == {"no", "file", "card"}
Sizes       == 0..ChunkSize
WriterJobs  == WriteJobs \cup {NoJob}
WriterStates ==
    [pc : WriterSteps, file : Nat, next : Nat, num : Nat, nextNum : Nat, frames : Nat,
     size : Sizes, asked : BOOLEAN, job : WriterJobs, error : Errors]
Files == [data : Seq(0..MaxFrames), num : Nat, count : Nat, closed : Nat, gone : BOOLEAN]

TypeInv ==
    /\ state \in {"idle", "preparing", "recording", "finishing"}
    /\ slots \in [Slots -> [st : Statuses, frame : 0..MaxFrames]]
    /\ frame_count \in 0..MaxFrames + 1 /\ frame_skips \in BOOLEAN
    /\ capture_slot \in Slots \cup {None} /\ meta \subseteq Slots
    /\ mgr \in Managers /\ mgr_queue \in Seq(ToManager)
    /\ writer_queues \in [Queues -> Seq(ToWriter)]
    /\ pool \in Nat /\ job_count \in [Queues -> -1..1]
    /\ writers \in [Writers -> WriterStates] /\ files \in Seq(Files)

Before == {"off", "prepare", "open", "dead"}   \* the writers do not run yet

\* where the manager is, and what that says of the others
FlowInv ==
    /\ state = "idle" => mgr.pc = "off"
    /\ state = "recording" => mgr.pc \notin Before \cup {"begin"}
    /\ dma_active => mgr.pc \notin Before \cup {"begin"}
    /\ mgr.pc \in Before \cup {"cleanup"} => \A w \in Writers : ~Alive(w)
    /\ mgr.pc \notin {"fill", "handle"} => mgr.job = NoJob
    /\ mgr.pc = "fill" => mgr.at \in Writers
    /\ mgr.pc \in {"abort", "flush"} => \A s \in Slots : slots[s].st # "writing"
    /\ mgr.pc = "open" =>
          /\ \A s \in Slots : slots[s].st \in {"free", "locked"}
          /\ mgr_queue = <<>> /\ writer_queues = [q \in Queues |-> <<>>]

\* mlv_snd keeps the slots it was lent, and has none before STARTING
SoundInv ==
    /\ \A m \in meta : slots[m].st = "locked"
    /\ mgr.pc \in Before => ~owes
    /\ mgr.pc \in {"off", "prepare"} => meta = {}

\* what a writer has in its hands
WriterInv == \A w \in Writers :
    /\ Alive(w) => writers[w].file \in 1..Len(files)
    /\ writers[w].pc = "take" => writers[w].job = NoJob /\ writers[w].error = "no"
    /\ writers[w].pc = "write" =>
          /\ writers[w].job.type = "write" /\ writers[w].job.len > 0
          /\ writers[w].size + writers[w].job.len <= ChunkSize
          /\ writers[w].error = "no"
    /\ writers[w].error = "no" /\ writers[w].pc # "write" => writers[w].job = NoJob
    /\ writers[w].error # "no" => writers[w].job.type = "write"

\* writer_job_count is the number of blocks that wait for a writer
Block(w, k) == /\ k \in DOMAIN writer_queues[w]
               /\ writer_queues[w][k].type = "write" /\ writer_queues[w][k].len > 0
CountOf(w) == writers[w].pc \in {"take", "write"} =>
    /\ job_count[w] \in {0, 1}
    /\ \A k \in DOMAIN writer_queues[w] : Block(w, k) => job_count[w] = 1
    /\ \A k, l \in DOMAIN writer_queues[w] : Block(w, k) /\ Block(w, l) => k = l
CountInv == \A w \in Writers : CountOf(w)

\* jobs are not made out of nothing
Carries(w) == IF w \in Writers THEN IF writers[w].job.type = "write" THEN 1 ELSE 0 ELSE 0
OnHand     == IF mgr.job.type = "none" THEN 0 ELSE 1
Backlog(q) == Len(writer_queues[q])
Waiting    == Backlog(0) + Backlog(1)
Carried    == Carries(0) + Carries(1)
PoolInv    == pool + Waiting + Len(mgr_queue) + OnHand + Carried <= NJobs

\* the places where a job can be: the queues of the writers (0 and 1), the
\* queue of the manager (2), the manager (3) and the writers (4)
Index(c) == CASE c \in Queues -> DOMAIN writer_queues[c]
              [] c = 2        -> DOMAIN mgr_queue
              [] c = 3        -> {1}
              [] OTHER        -> Writers
JobAt(c, k) == CASE c \in Queues -> writer_queues[c][k]
                 [] c = 2        -> mgr_queue[k]
                 [] c = 3        -> mgr.job
                 [] OTHER        -> writers[k].job

\* a job at this place names the slot
Holder(c, k, s) == k \in Index(c) /\ s \in JobSlots(JobAt(c, k))

SlotInv == mgr.pc \notin {"open", "dead"} =>
    /\ \A c \in 0..4 : \A k \in Index(c) : \A s \in JobSlots(JobAt(c, k)) :
          s \in Slots /\ slots[s].st = "writing"
    /\ \A s \in Slots : slots[s].st = "writing" =>
          \E c \in 0..4 : \E k \in Index(c) : Holder(c, k, s)
    /\ \A s \in Slots : \A c, d \in 0..4 : \A k \in Index(c), l \in Index(d) :
          Holder(c, k, s) /\ Holder(d, l, s) => c = d /\ k = l

\* a writer, or a request of a writer, means the file
Means(w, i) == \/ i = writers[w].file
               \/ i = writers[w].next
               \/ \E c \in 0..3 : \E k \in Index(c) :
                    /\ JobAt(c, k).type \in {"handle", "close"}
                    /\ JobAt(c, k).writer = w /\ JobAt(c, k).file = i
FileInv == mgr.pc \notin {"open", "dead"} =>
    /\ \A w \in Writers : \A k \in DOMAIN writer_queues[w] :
          writer_queues[w][k].type = "handle" => writer_queues[w][k].writer = w
    /\ \A w \in Writers : writers[w].file <= Len(files) /\ writers[w].next <= Len(files)
    /\ \A c \in 0..3 : \A k \in Index(c) :
          JobAt(c, k).type \in {"handle", "close"} => JobAt(c, k).file <= Len(files)
    /\ \A v, w \in Writers : \A i \in DOMAIN files : Means(v, i) /\ Means(w, i) => v = w

IInv == TypeInv /\ FlowInv /\ SoundInv /\ WriterInv /\ CountInv /\ PoolInv /\ SlotInv /\ FileInv

\* a recording starts with nothing left of the one before
StartsClean == mgr.pc = "prepare" =>
    mgr_queue = <<>> /\ writer_queues = [q \in Queues |-> <<>>]
-----------------------------------------------------------------------------
(* The slots chosen                                                        *)

LEMMA MinIn ==
    ASSUME NEW S, S \subseteq Nat, S # {}
    PROVE  Min(S) \in S
  <1>1. PICK x \in S : \A y \in S : ~ (<<y, x>> \in OpToRel(<, Nat))
    BY WFMin, NatLessThanWellFounded
  <1>2. \A y \in S : x <= y
    <2> TAKE y \in S
    <2>1. <<y, x>> \in Nat \X Nat  OBVIOUS
    <2> QED BY <1>1, <2>1 DEF OpToRel
  <1> QED BY <1>2 DEF Min

LEMMA MaxIn ==
    ASSUME NEW n \in Nat, NEW S, S \subseteq 0..n, S # {}
    PROVE  Max(S) \in S /\ \A y \in S : y <= Max(S)
  <1> DEFINE D == {d \in 0..n : n - d \in S}
  <1>1. D \subseteq Nat /\ D # {}
    <2>1. PICK x \in S : x \in 0..n  OBVIOUS
    <2>2. n - x \in 0..n /\ n - (n - x) = x  BY <2>1
    <2>3. n - x \in D  BY <2>1, <2>2
    <2>4. D \subseteq Nat  OBVIOUS
    <2> HIDE DEF D
    <2> QED BY <2>3, <2>4
  <1>2. PICK x \in D : \A y \in D : ~ (<<y, x>> \in OpToRel(<, Nat))
    BY <1>1, WFMin, NatLessThanWellFounded
  <1>3. n - x \in S /\ \A y \in S : y <= n - x
    <2>1. n - x \in S  BY <1>2
    <2>2. ASSUME NEW y \in S PROVE y <= n - x
      <3>0. y \in 0..n /\ x \in 0..n  BY <2>2, <1>2
      <3>a. n - y \in 0..n /\ n - (n - y) = y  BY <3>0
      <3>1. n - y \in D /\ x \in 0..n  BY <3>0, <3>a, <2>2
      <3>2. <<n - y, x>> \in Nat \X Nat  BY <3>1
      <3>3. ~ (n - y < x)  BY <1>2, <3>1, <3>2 DEF OpToRel
      <3> QED BY <3>1, <3>3, <2>2
    <2> QED BY <2>1, <2>2
  <1> QED BY <1>3 DEF Max

LEMMA GroupSlots ==
    ASSUME NEW g \in GroupIds
    PROVE  /\ Groups[g].slot \in Nat \ {0} /\ Groups[g].len \in Nat \ {0}
           /\ SlotsOf(g) \subseteq Nat \ {0} /\ SlotsOf(g) \subseteq Slots
           /\ IsFiniteSet(SlotsOf(g))
  <1>1. Groups[g] \in [slot : Nat \ {0}, len : Nat \ {0}]
    <2> DEFINE R == [slot : Nat \ {0}, len : Nat \ {0}]
    <2> HIDE DEF R
    <2>1. Groups \in Seq(R)  BY GroupAssumption DEF R
    <2>2. Groups[g] \in R  BY <2>1 DEF GroupIds
    <2> QED BY <2>2 DEF R
  <1>2. Groups[g].slot \in Nat \ {0} /\ Groups[g].len \in Nat \ {0}  BY <1>1
  <1>3. SlotsOf(g) \subseteq Nat \ {0}  BY <1>2 DEF SlotsOf
  <1>4. SlotsOf(g) \subseteq Slots  BY DEF Slots
  <1>5. IsFiniteSet(SlotsOf(g))
    <2>1. Groups[g].slot \in Int /\ Groups[g].slot + Groups[g].len - 1 \in Int  BY <1>2
    <2> QED BY <2>1, FS_Interval DEF SlotsOf
  <1> QED BY <1>2, <1>3, <1>4, <1>5

LEMMA SlotsFinite ==
    Slots \subseteq Nat \ {0} /\ IsFiniteSet(Slots) /\ Cardinality(Slots) \in Nat
  <1> DEFINE T == {SlotsOf(g) : g \in GroupIds}
             f == [g \in GroupIds |-> SlotsOf(g)]
  <1>1. Slots \subseteq Nat \ {0}  BY GroupSlots DEF Slots
  <1>2. IsFiniteSet(GroupIds)
    <2>1. Len(Groups) \in Nat  BY GroupAssumption
    <2> QED BY <2>1, FS_Interval DEF GroupIds
  <1>3. f \in Surjection(GroupIds, T)  BY DEF Surjection
  <1>4. IsFiniteSet(T)  BY <1>2, <1>3, FS_Surjection
  <1>5. \A X \in T : IsFiniteSet(X)  BY GroupSlots
  <1>6. IsFiniteSet(UNION T)  BY <1>4, <1>5, FS_UNION
  <1>7. IsFiniteSet(Slots)  BY <1>6 DEF Slots
  <1> QED BY <1>1, <1>7, FS_CardinalityType

LEMMA LongestIn ==
    ASSUME NEW n \in Nat, NEW B, B \subseteq Nat \X (1..n), B # {}
    PROVE  Longest(B) \in B
  <1> DEFINE L == {b[2] : b \in B}
             m == Max(L)
             F == {b[1] : b \in {c \in B : c[2] = m}}
             x == Min(F)
  <1>1. L \subseteq 0..n /\ L # {}  OBVIOUS
  <1>2. m \in L /\ \A y \in L : y <= m  BY <1>1, MaxIn
  <1>3. F \subseteq Nat /\ F # {}  BY <1>2
  <1> HIDE DEF F
  <1>4. x \in F /\ \A y \in F : x <= y
    <2>1. PICK z \in F : \A y \in F : ~ (<<y, z>> \in OpToRel(<, Nat))
      BY <1>3, WFMin, NatLessThanWellFounded
    <2>2. \A y \in F : z <= y
      <3> TAKE y \in F
      <3>1. <<y, z>> \in Nat \X Nat  BY <1>3
      <3> QED BY <2>1, <3>1, <1>3 DEF OpToRel
    <2> QED BY <2>2, <1>3 DEF Min
  <1>5. PICK b \in B : b[1] = x /\ b[2] = m  BY <1>4 DEF F
  <1>6. \A c \in B : b[2] > c[2] \/ (b[2] = c[2] /\ b[1] <= c[1])
    <2> TAKE c \in B
    <2>1. c[2] \in L /\ c[2] \in Nat /\ b[2] \in Nat  BY <1>1
    <2>2. CASE c[2] = m
      <3>1. c[1] \in F  BY <2>2 DEF F
      <3> QED BY <3>1, <1>4, <1>5, <2>2
    <2>3. CASE c[2] # m
      <3>1. c[2] <= m  BY <2>1, <1>2
      <3> QED BY <3>1, <2>3, <2>1, <1>5
    <2> QED BY <2>2, <2>3
  <1> QED BY <1>6 DEF Longest

LEMMA ShortenedIn ==
    ASSUME NEW n \in Nat \ {0}, NEW k \in Shortened(n)
    PROVE  k \in 1..n
  <1>1. CASE k = n  BY <1>1
  <1>2. ASSUME NEW l \in 0..n - 1, k = Max({1, l - 1}) PROVE k \in 1..n
    <2>1. CASE l <= 1
      <3>1. \A y \in {1, l - 1} : 1 >= y  BY <2>1
      <3>2. \E x \in {1, l - 1} : \A y \in {1, l - 1} : x >= y  BY <3>1
      <3>3. k \in {1, l - 1} /\ \A y \in {1, l - 1} : k >= y  BY <3>2, <1>2 DEF Max
      <3> QED BY <3>3, <2>1
    <2>2. CASE l > 1
      <3>1. {1, l - 1} \subseteq 0..n /\ {1, l - 1} # {}  BY <2>2
      <3>2. k \in {1, l - 1}  BY <3>1, MaxIn, <1>2
      <3> QED BY <3>2, <2>2
    <2> QED BY <2>1, <2>2
  <1> QED BY <1>1, <1>2 DEF Shortened

LEMMA BlockIn ==
    ASSUME NEW st, NEW n \in Nat, NEW g \in GroupIds, Blocks(g, st, n) # {}
    PROVE  Longest(Blocks(g, st, n)) \in Blocks(g, st, n)
  <1>1. Blocks(g, st, n) \subseteq SlotsOf(g) \X (1..n)  BY DEF Blocks
  <1>2. SlotsOf(g) \subseteq Nat  BY GroupSlots
  <1> QED BY <1>1, <1>2, LongestIn

\* a block lies in the slots, and all of it has the status
LEMMA BlockSlots ==
    ASSUME NEW st, NEW n \in Nat, NEW g \in GroupIds, NEW b \in Blocks(g, st, n)
    PROVE  /\ b = <<b[1], b[2]>> /\ b[1] \in Slots /\ b[1] \in Nat /\ b[2] \in 1..n
           /\ \A s \in b[1] .. b[1] + b[2] - 1 : s \in Slots /\ slots[s].st = st
  <1>1. /\ b \in SlotsOf(g) \X (1..n) /\ b[1] + b[2] - 1 \in SlotsOf(g)
        /\ \A s \in b[1] .. b[1] + b[2] - 1 : slots[s].st = st
    BY DEF Blocks
  <1>2. b[1] \in SlotsOf(g) /\ b[2] \in 1..n /\ b = <<b[1], b[2]>>  BY <1>1
  <1>3. SlotsOf(g) \subseteq Nat /\ SlotsOf(g) \subseteq Slots  BY GroupSlots
  <1>4. ASSUME NEW s \in b[1] .. b[1] + b[2] - 1 PROVE s \in SlotsOf(g)
    <2>1. Groups[g].slot \in Nat /\ Groups[g].len \in Nat  BY GroupSlots
    <2>2. b[1] >= Groups[g].slot /\ b[1] + b[2] - 1 <= Groups[g].slot + Groups[g].len - 1
      BY <1>1, <1>2, <2>1 DEF SlotsOf
    <2>3. b[1] \in Nat /\ b[2] \in Nat  BY <1>2, <1>3
    <2> QED BY <2>1, <2>2, <2>3 DEF SlotsOf
  <1> QED BY <1>1, <1>2, <1>3, <1>4

LEMMA FirstFreeIn ==
    ASSUME NEW g \in FreeGroups
    PROVE  FirstFree(g) \in Slots /\ Free(FirstFree(g))
  <1> DEFINE S == {s \in SlotsOf(g) : Free(s)}
  <1>1. g \in GroupIds /\ S # {}  BY DEF FreeGroups
  <1>2. S \subseteq Nat /\ S \subseteq Slots  BY <1>1, GroupSlots
  <1>3. Min(S) \in S  BY <1>1, <1>2, MinIn
  <1> QED BY <1>2, <1>3 DEF FirstFree

LEMMA GroupsBound == FreeGroups \subseteq 0..Len(Groups) /\ Len(Groups) \in Nat
  <1>1. Len(Groups) \in Nat  BY GroupAssumption
  <1> QED BY <1>1 DEF FreeGroups, GroupIds

LEMMA NextCaptureSlotIn ==
    NextCaptureSlot = None
      \/ (FreeGroups # {} /\ NextCaptureSlot \in Slots /\ Free(NextCaptureSlot))
  <1> DEFINE all == UNION {Blocks(g, "free", Cardinality(Slots)) : g \in GroupIds}
  <1> SUFFICES ASSUME FreeGroups # {}
               PROVE  NextCaptureSlot \in Slots /\ Free(NextCaptureSlot)
    BY DEF NextCaptureSlot
  <1>0. PICK g \in GroupIds : \E s \in SlotsOf(g) : Free(s)  BY DEF FreeGroups
  <1>1. PICK s \in SlotsOf(g) : Free(s)  BY <1>0
  <1>2. SlotsOf(g) \subseteq Nat \ {0} /\ SlotsOf(g) \subseteq Slots  BY GroupSlots
  <1>3. CASE FillMethod = 0
    <2> DEFINE S == {t \in Slots : Free(t)}
    <2>1. S # {} /\ S \subseteq Nat  BY <1>1, <1>2, SlotsFinite
    <2>2. Min(S) \in S  BY <2>1, MinIn
    <2>3. NextCaptureSlot = Min(S)
      <3>1. FillMethod \notin {1, 4} /\ ~Rolling  BY <1>3 DEF Rolling
      <3> QED BY <1>3, <3>1, Zenon DEF NextCaptureSlot
    <2> QED BY <2>2, <2>3
  <1>4. CASE FillMethod \in {1, 4}
    <2>0. FreeGroups \subseteq Nat  BY GroupsBound
    <2>1. Min(FreeGroups) \in FreeGroups  BY <2>0, MinIn
    <2>2. NextCaptureSlot = FirstFree(Min(FreeGroups))
      <3>1. FillMethod # 0 /\ ~Rolling  BY <1>4 DEF Rolling
      <3> QED BY <1>4, <3>1, Zenon DEF NextCaptureSlot
    <2> QED BY <2>1, <2>2, FirstFreeIn
  <1>5. CASE FillMethod \in {2, 3} /\ Rolling
    <2>1. NextCaptureSlot = capture_slot + 1  BY <1>5 DEF NextCaptureSlot
    <2>2. capture_slot + 1 \in Slots /\ Free(capture_slot + 1)
      BY <1>5, GroupSlots DEF Rolling
    <2> QED BY <2>1, <2>2
  <1>6. CASE FillMethod \in {2, 3} /\ ~Rolling
    <2>1. NextCaptureSlot = Longest(all)[1]  BY <1>6 DEF NextCaptureSlot
    <2>2. \A h \in GroupIds : Blocks(h, "free", Cardinality(Slots))
                                 \subseteq Nat \X (1..Cardinality(Slots))
      BY GroupSlots DEF Blocks
    <2>3. all \subseteq Nat \X (1..Cardinality(Slots))  BY <2>2
    <2>4. Cardinality(Slots) \in Nat \ {0}
      BY SlotsFinite, FS_EmptySet, <1>1, <1>2
    <2>5. <<s, 1>> \in Blocks(g, "free", Cardinality(Slots))
      <3>1. s + 1 - 1 = s  BY <1>2
      <3>2. \A t \in s .. s + 1 - 1 : slots[t].st = "free"  BY <1>1, <1>2 DEF Free
      <3> QED BY <3>1, <3>2, <2>4 DEF Blocks
    <2>6. all # {}  BY <2>5
    <2> HIDE DEF all
    <2>7. Longest(all) \in all  BY <2>3, <2>4, <2>6, LongestIn
    <2>8. PICK h \in GroupIds : Longest(all) \in Blocks(h, "free", Cardinality(Slots))
      BY <2>7 DEF all
    <2>9. /\ Longest(all)[1] \in Slots /\ Longest(all)[2] \in 1..Cardinality(Slots)
          /\ Longest(all)[1] \in Nat
          /\ \A t \in Longest(all)[1] .. Longest(all)[1] + Longest(all)[2] - 1 :
                slots[t].st = "free"
      BY <2>8, <2>4, BlockSlots
    <2> QED BY <2>1, <2>9 DEF Free
  <1> QED BY <1>3, <1>4, <1>5, <1>6, OptionAssumption

LEMMA LargestIn ==
    ASSUME NEW first, NEW n \in Nat, NEW b \in LargestBuffer(first, n)
    PROVE  \E g \in GroupIds : b \in Blocks(g, "full", n)
  <1>1. PICK g \in GroupIds : /\ Blocks(g, "full", n) # {}
                             /\ b = Longest(Blocks(g, "full", n))
    BY DEF LargestBuffer
  <1> QED BY <1>1, BlockIn

-----------------------------------------------------------------------------
(* Types                                                                   *)

SlotStates == [st : Statuses, frame : 0..MaxFrames]

LEMMA MarkIs ==
    ASSUME slots \in [Slots -> SlotStates], NEW S, NEW st \in Statuses
    PROVE  /\ Mark(S, st) \in [Slots -> SlotStates]
           /\ \A s \in Slots : /\ Mark(S, st)[s].st = IF s \in S THEN st ELSE slots[s].st
                               /\ Mark(S, st)[s].frame = slots[s].frame
  <1>1. ASSUME NEW s \in Slots
        PROVE  /\ Mark(S, st)[s] \in SlotStates
               /\ Mark(S, st)[s].st = IF s \in S THEN st ELSE slots[s].st
               /\ Mark(S, st)[s].frame = slots[s].frame
    <2>1. slots[s] \in SlotStates  OBVIOUS
    <2>2. [slots[s] EXCEPT !.st = st] \in SlotStates
          /\ [slots[s] EXCEPT !.st = st].st = st
          /\ [slots[s] EXCEPT !.st = st].frame = slots[s].frame
      BY <2>1 DEF SlotStates
    <2>3. Mark(S, st)[s] = IF s \in S THEN [slots[s] EXCEPT !.st = st] ELSE slots[s]
      BY DEF Mark
    <2> QED BY <2>1, <2>2, <2>3
  <1>2. Mark(S, st) \in [Slots -> SlotStates]
    <2>1. DOMAIN Mark(S, st) = Slots /\ Mark(S, st) = [s \in Slots |-> Mark(S, st)[s]]
      BY DEF Mark
    <2> QED BY <1>1, <2>1
  <1> QED BY <1>1, <1>2

LEMMA BoundsNat == MaxFrames \in Nat /\ MaxMeta \in Nat /\ MaxTimeouts \in Nat /\ MaxRuns \in Nat
  BY BoundAssumption

LEMMA IdleIs == Idle \in WriterStates
  <1>1. 0 \in Sizes /\ None \in Nat /\ NoJob \in WriterJobs
    BY SizeAssumption DEF Sizes, None, WriterJobs
  <1>2. "off" \in WriterSteps /\ "no" \in Errors  BY DEF WriterSteps, Errors
  <1> QED BY <1>1, <1>2 DEF Idle, WriterStates

LEMMA InitType == Init => TypeInv
  <1> SUFFICES ASSUME Init PROVE TypeInv  OBVIOUS
  <1>1. slots \in [Slots -> SlotStates]
    <2>1. [st |-> "free", frame |-> None] \in SlotStates
      BY BoundsNat DEF SlotStates, Statuses, None
    <2> QED BY <2>1 DEF Init
  <1>2. mgr \in Managers  BY DEF Init, Managers, MgrSteps, Turns, MgrJobs
  <1>3. writers \in [Writers -> WriterStates]
    <2> QED BY IdleIs DEF Init
  <1>4. writer_queues \in [Queues -> Seq(ToWriter)]  BY DEF Init
  <1>5. job_count \in [Queues -> -1..1]  BY DEF Init
  <1>6. pool \in Nat  BY SizeAssumption DEF Init
  <1>7. files \in Seq(Files) /\ mgr_queue \in Seq(ToManager)  BY DEF Init
  <1>8. /\ state = "idle" /\ frame_count \in 0..MaxFrames + 1
        /\ capture_slot = None /\ meta = {}
    BY BoundsNat DEF Init
  <1>a. frame_skips \in BOOLEAN  BY Zenon DEF Init
  <1>9. slots \in [Slots -> [st : Statuses, frame : 0..MaxFrames]]
    BY <1>1 DEF SlotStates
  <1> QED BY <1>2, <1>3, <1>4, <1>5, <1>6, <1>7, <1>8, <1>9, <1>a DEF TypeInv

\* mlv_snd takes a slot, or finds none
LEMMA TakeIs ==
    ASSUME TypeInv, TakeSlot
    PROVE  /\ UNCHANGED <<state, recVars, mgr, mgr_queue, writer_queues, pool, job_count,
                          writers, files, runs>>
           /\ ~owes' /\ (mgr.pc = "open" \/ owes)
           /\ meta' \subseteq Slots /\ slots' \in [Slots -> SlotStates]
           /\ \/ UNCHANGED <<slots, meta>>
              \/ \E m \in Slots : /\ Free(m) /\ meta' = meta \cup {m}
                                  /\ slots' = Mark({m}, "locked")
  <1>0. slots \in [Slots -> SlotStates] /\ meta \subseteq Slots  BY DEF TypeInv, SlotStates
  <1>1. /\ UNCHANGED <<state, recVars, mgr, mgr_queue, writer_queues, pool, job_count,
                       writers, files, runs>>
        /\ ~owes' /\ (mgr.pc = "open" \/ owes)
    BY DEF TakeSlot, Allocating
  <1>2. CASE FreeGroups = {}  BY <1>0, <1>1, <1>2 DEF TakeSlot
  <1>3. CASE FreeGroups # {}
    <2>1. PICK m : m = FirstFree(Max(FreeGroups))  OBVIOUS
    <2>2. Max(FreeGroups) \in FreeGroups  BY <1>3, GroupsBound, MaxIn
    <2>3. m \in Slots /\ Free(m)  BY <2>1, <2>2, FirstFreeIn
    <2>4. meta' = meta \cup {m} /\ slots' = Mark({m}, "locked")
      BY <1>3, <2>1 DEF TakeSlot
    <2>5. slots' \in [Slots -> SlotStates]  BY <1>0, <2>4, MarkIs DEF Statuses
    <2> QED BY <1>0, <1>1, <2>3, <2>4, <2>5
  <1> QED BY <1>2, <1>3

\* mlv_snd gives back what it holds
LEMMA SoundStopsIs ==
    ASSUME TypeInv, SoundStops
    PROVE  /\ meta' = {} /\ ~owes' /\ slots' \in [Slots -> SlotStates]
           /\ \A s \in Slots : slots'[s] = IF s \in meta THEN [st |-> "full", frame |-> None]
                                            ELSE slots[s]
  <1>1. slots \in [Slots -> SlotStates]  BY DEF TypeInv, SlotStates
  <1>2. [st |-> "full", frame |-> None] \in SlotStates
    BY BoundsNat DEF SlotStates, Statuses, None
  <1> QED BY <1>1, <1>2 DEF SoundStops

\* the vsync handler and mlv_snd
LEMMA CameraType ==
    ASSUME TypeInv, Camera \/ DmaDone \/ TakeSlot \/ ReleaseSlot
    PROVE  TypeInv'
  <1>0. slots \in [Slots -> SlotStates]  BY DEF TypeInv, SlotStates
  <1>1. CASE VsyncBusy  BY <1>1 DEF VsyncBusy, TypeInv, metaVars
  <1>2. CASE SettingsChanged  BY <1>2 DEF SettingsChanged, Vsync, TypeInv, metaVars
  <1>3. CASE CaptureFrame
    <2>1. CASE frame_count = 0
      BY <1>3, <2>1, BoundsNat DEF CaptureFrame, Vsync, TypeInv, metaVars
    <2>2. CASE frame_count # 0
      <3>1. capture_slot' = None \/ capture_slot' \in Slots
        BY <1>3, <2>2, NextCaptureSlotIn DEF CaptureFrame
      <3>2. CASE capture_slot' = None
        BY <1>3, <2>2, <3>2 DEF CaptureFrame, Vsync, TypeInv, metaVars
      <3>3. CASE capture_slot' # None
        <4>1. slots' = [slots EXCEPT ![capture_slot'] = [st |-> "full", frame |-> frame_count]]
              /\ frame_count' = frame_count + 1 /\ frame_count <= MaxFrames
          BY <1>3, <2>2, <3>3 DEF CaptureFrame
        <4>2. frame_count \in 0..MaxFrames  BY <4>1, BoundsNat DEF TypeInv
        <4>3. [st |-> "full", frame |-> frame_count] \in SlotStates
          BY <4>2 DEF SlotStates, Statuses
        <4>4. slots' \in [Slots -> SlotStates]  BY <1>0, <4>1, <4>3
        <4>5. slots' \in [Slots -> [st : Statuses, frame : 0..MaxFrames]]
          BY <4>4 DEF SlotStates
        <4> QED BY <1>3, <2>2, <3>1, <3>3, <4>1, <4>2, <4>5, BoundsNat
            DEF CaptureFrame, Vsync, TypeInv, metaVars
      <3> QED BY <3>2, <3>3
    <2> QED BY <2>1, <2>2
  <1>4. CASE SkipFrame
    <2>1. capture_slot' \in Slots \cup {None}  BY <1>4, NextCaptureSlotIn DEF SkipFrame
    <2>2. slots' \in [Slots -> SlotStates]
      <3>1. Mark({capture_slot'}, "locked") \in [Slots -> SlotStates]
        BY <1>0, MarkIs DEF Statuses
      <3> QED BY <3>1, <1>0, <1>4 DEF SkipFrame
    <2>3. slots' \in [Slots -> [st : Statuses, frame : 0..MaxFrames]]
      BY <2>2 DEF SlotStates
    <2> QED BY <1>4, <2>1, <2>3 DEF SkipFrame, Vsync, TypeInv, metaVars
  <1>5. CASE DmaDone  BY <1>5 DEF DmaDone, TypeInv, metaVars
  <1>6. CASE TakeSlot
    <2>1. /\ UNCHANGED <<state, recVars, mgr, mgr_queue, writer_queues, pool, job_count,
                          writers, files>>
          /\ meta' \subseteq Slots /\ slots' \in [Slots -> SlotStates]
      BY <1>6, TakeIs
    <2> QED BY <2>1 DEF TypeInv, SlotStates, recVars
  <1>7. CASE ReleaseSlot
    <2>1. PICK m \in meta : /\ meta' = meta \ {m}
                            /\ slots' = [slots EXCEPT ![m] = [st |-> "full", frame |-> None]]
      BY <1>7 DEF ReleaseSlot
    <2>2. [st |-> "full", frame |-> None] \in SlotStates
      BY BoundsNat DEF SlotStates, Statuses, None
    <2>3. slots' \in [Slots -> SlotStates]  BY <2>1, <2>2, <1>0
    <2>4. slots' \in [Slots -> [st : Statuses, frame : 0..MaxFrames]]
      BY <2>3 DEF SlotStates
    <2> QED BY <1>7, <2>1, <2>4 DEF ReleaseSlot, TypeInv, recVars
  <1> QED BY <1>1, <1>2, <1>3, <1>4, <1>5, <1>6, <1>7 DEF Camera

LEMMA MgrIs ==
    ASSUME mgr \in Managers
    PROVE  /\ mgr.pc \in MgrSteps /\ mgr.at \in 0..1 /\ mgr.used \in BOOLEAN
           /\ mgr.job \in MgrJobs
  BY DEF Managers, Turns

LEMMA MgrTurn ==
    ASSUME mgr \in Managers, NEW job \in MgrJobs
    PROVE  [mgr EXCEPT !.pc = "fill", !.at = 0, !.job = job] \in Managers
  <1>1. "fill" \in MgrSteps /\ 0 \in Turns  BY DEF MgrSteps, Turns
  <1> QED BY <1>1 DEF Managers

LEMMA QueueOne == WriterAssumption => Writers \subseteq Queues /\ 0 \in Writers
  BY DEF Writers, Queues

LEMMA ManagerStartType ==
    ASSUME TypeInv, PressRec \/ Prepare \/ OpenFiles \/ Begin \/ MgrLoop \/ CleanUp
    PROVE  TypeInv'
  <1>0. mgr \in Managers /\ slots \in [Slots -> SlotStates]  BY DEF TypeInv, SlotStates
  <1>1. CASE PressRec
    <2>1. mgr' \in Managers  BY <1>0, <1>1 DEF PressRec, Managers, MgrSteps
    <2>2. state' \in {"preparing", "finishing"}  BY <1>1 DEF PressRec
    <2> QED BY <1>1, <2>1, <2>2 DEF PressRec, TypeInv, recVars, metaVars
  <1>2. CASE Prepare
    <2>1. mgr' \in Managers  BY <1>0, <1>2 DEF Prepare, Managers, MgrSteps
    <2>2. slots' \in [Slots -> SlotStates]
      <3>1. [st |-> "free", frame |-> None] \in SlotStates
        BY BoundsNat DEF SlotStates, Statuses, None
      <3>2. [s \in Slots |-> [st |-> "free", frame |-> None]] \in [Slots -> SlotStates]
        BY <3>1
      <3> QED BY <3>2, <1>0, <1>2 DEF Prepare
    <2>3. slots' \in [Slots -> [st : Statuses, frame : 0..MaxFrames]]
      BY <2>2 DEF SlotStates
    <2> QED BY <1>2, <2>1, <2>3 DEF Prepare, TypeInv, recVars
  <1>3. CASE OpenFiles
    <2>1. mgr' \in Managers  BY <1>0, <1>3 DEF OpenFiles, Managers, MgrSteps
    <2>2. writers' \in [Writers -> WriterStates]
      <3>1. \A w \in Writers :
                [Idle EXCEPT !.pc = "take", !.file = w + 1, !.num = w] \in WriterStates
        <4> TAKE w \in Writers
        <4>1. w \in Nat /\ w + 1 \in Nat  BY WriterAssumption DEF Writers
        <4>2. "take" \in WriterSteps  BY DEF WriterSteps
        <4> QED BY <4>1, <4>2, IdleIs DEF WriterStates
      <3>2. [w \in Writers |-> [Idle EXCEPT !.pc = "take", !.file = w + 1, !.num = w]]
                \in [Writers -> WriterStates]
        BY <3>1
      <3>3. writers \in [Writers -> WriterStates]  BY DEF TypeInv
      <3> QED BY <1>3, <3>2, <3>3 DEF OpenFiles
    <2>3. files' \in Seq(Files)
      <3>1. \A i \in 1..NWriters : [NewFile EXCEPT !.num = i - 1] \in Files
        <4> TAKE i \in 1..NWriters
        <4>1. i - 1 \in Nat  BY WriterAssumption
        <4>2. <<>> \in Seq(0..MaxFrames)  OBVIOUS
        <4> QED BY <4>1, <4>2 DEF NewFile, Files
      <3>2. NWriters \in Nat  BY WriterAssumption
      <3>3. files' = [i \in 1..NWriters |-> [NewFile EXCEPT !.num = i - 1]]
        BY <1>3 DEF OpenFiles
      <3> QED BY <3>1, <3>2, <3>3
    <2>4. job_count' \in [Queues -> -1..1]
      <3>1. job_count' = [w \in Queues |-> IF w \in Writers THEN 0 ELSE job_count[w]]
        BY <1>3 DEF OpenFiles
      <3>2. job_count \in [Queues -> -1..1]  BY DEF TypeInv
      <3> QED BY <3>1, <3>2
    <2>5. frame_count' = 0 /\ frame_skips' = FALSE /\ capture_slot' = None /\ state' = state
          /\ mgr_queue' = mgr_queue /\ writer_queues' = writer_queues /\ pool' = pool
          /\ meta' = meta /\ slots' = slots
      BY <1>3 DEF OpenFiles, metaVars
    <2>6. frame_skips' \in BOOLEAN  BY <2>5, Zenon
    <2>7. frame_count' \in 0..MaxFrames + 1  BY <2>5, BoundsNat
    <2> QED BY <2>1, <2>2, <2>3, <2>4, <2>5, <2>6, <2>7 DEF TypeInv
  <1>4. CASE Begin
    <2>1. mgr' \in Managers
      <3>1. NoJob \in MgrJobs /\ "loop" \in MgrSteps  BY DEF MgrJobs, MgrSteps
      <3>2. mgr' = [mgr EXCEPT !.pc = "loop", !.used = FALSE, !.job = NoJob]
        BY <1>4 DEF Begin
      <3> QED BY <1>0, <3>1, <3>2 DEF Managers
    <2> QED BY <1>4, <2>1 DEF Begin, TypeInv, recVars, metaVars
  <1>5. CASE MgrLoop
    <2>1. mgr_queue \in Seq(ToManager)  BY DEF TypeInv
    <2>2. mgr_queue # <<>> => Head(mgr_queue) \in ToManager
                              /\ Tail(mgr_queue) \in Seq(ToManager)
      BY <2>1
    <2>3. mgr' \in Managers /\ mgr_queue' \in Seq(ToManager)
      <3>1. CASE Finished
        <4>1. mgr' = [mgr EXCEPT !.pc = "stopping"] /\ mgr_queue' = mgr_queue
          BY <1>5, <3>1, Zenon DEF MgrLoop
        <4> QED BY <4>1, <1>0, <2>1 DEF Managers, MgrSteps
      <3>2. CASE ~Finished /\ NoWriters
        <4>1. mgr' = [mgr EXCEPT !.pc = "cleanup"] /\ mgr_queue' = mgr_queue
          BY <1>5, <3>2, Zenon DEF MgrLoop
        <4> QED BY <4>1, <1>0, <2>1 DEF Managers, MgrSteps
      <3>3. CASE ~Finished /\ ~NoWriters /\ mgr_queue = <<>>
        <4>1. mgr' = [mgr EXCEPT !.pc = "fill", !.at = 0, !.job = NoJob]
              /\ mgr_queue' = mgr_queue
          BY <1>5, <3>3, Zenon DEF MgrLoop
        <4> QED BY <4>1, <1>0, <2>1, MgrTurn DEF MgrJobs
      <3>4. CASE ~Finished /\ ~NoWriters /\ mgr_queue # <<>>
        <4>1. mgr' = [mgr EXCEPT !.pc = "fill", !.at = 0, !.job = Head(mgr_queue)]
              /\ mgr_queue' = Tail(mgr_queue)
          BY <1>5, <3>4, Zenon DEF MgrLoop
        <4> QED BY <4>1, <1>0, <2>2, <3>4, MgrTurn DEF MgrJobs
      <3> QED BY <3>1, <3>2, <3>3, <3>4
    <2>4. state' = state \/ state' = "finishing"  BY <1>5 DEF MgrLoop
    <2> QED BY <1>5, <2>3, <2>4 DEF MgrLoop, TypeInv, recVars, metaVars
  <1>6. CASE CleanUp
    <2>1. mgr' \in Managers  BY <1>0, <1>6 DEF CleanUp, Managers, MgrSteps
    <2>2. meta' \subseteq Slots /\ slots' \in [Slots -> [st : Statuses, frame : 0..MaxFrames]]
      BY <1>6, SoundStopsIs DEF CleanUp, SlotStates
    <2> QED BY <1>6, <2>1, <2>2 DEF CleanUp, TypeInv, recVars
  <1> QED BY <1>1, <1>2, <1>3, <1>4, <1>5, <1>6

\* what the manager finds for a writer
LEMMA BlockFound ==
    ASSUME NEW w \in Queues, NEW b \in BlocksFor(w), NEW n \in Shortened(b[2])
    PROVE  /\ b[1] \in Nat /\ n \in Nat \ {0} /\ n <= ChunkSize
           /\ \A s \in b[1] .. b[1] + n - 1 : s \in Slots /\ slots[s].st = "full"
           /\ job_count[w] = 0
  <1>1. b \in LargestBuffer(w * FastGroups, MaxBlock[w]) /\ job_count[w] = 0
    BY DEF BlocksFor, CanFill
  <1>2. MaxBlock[w] \in 1..ChunkSize /\ ChunkSize \in Nat  BY SizeAssumption DEF Queues
  <1>3. PICK g \in GroupIds : b \in Blocks(g, "full", MaxBlock[w])
    BY <1>1, LargestIn, <1>2
  <1>4. /\ b[1] \in Nat /\ b[2] \in 1..MaxBlock[w]
        /\ \A s \in b[1] .. b[1] + b[2] - 1 : s \in Slots /\ slots[s].st = "full"
    BY <1>2, <1>3, BlockSlots
  <1>5. b[2] \in Nat \ {0}  BY <1>2, <1>4
  <1>6. n \in 1..b[2]  BY <1>5, ShortenedIn
  <1> QED BY <1>1, <1>2, <1>4, <1>5, <1>6

LEMMA Appended ==
    ASSUME writer_queues \in [Queues -> Seq(ToWriter)], NEW w \in Queues, NEW j \in ToWriter
    PROVE  [writer_queues EXCEPT ![w] = Append(@, j)] \in [Queues -> Seq(ToWriter)]
  <1>1. Append(writer_queues[w], j) \in Seq(ToWriter)  OBVIOUS
  <1> QED BY <1>1

LEMMA FillType == ASSUME TypeInv, FillQueue PROVE TypeInv'
  <1>0. mgr \in Managers /\ slots \in [Slots -> SlotStates]  BY DEF TypeInv, SlotStates
  <1>1. mgr' \in Managers
    <2>1. mgr.at + 1 < NWriters => mgr.at + 1 \in Turns
      BY MgrIs, <1>0, WriterAssumption DEF Turns
    <2>2. "handle" \in MgrSteps  BY DEF MgrSteps
    <2>3. CASE mgr.at + 1 < NWriters
      <3>1. mgr' = [mgr EXCEPT !.at = mgr.at + 1]  BY <2>3 DEF FillQueue, FillNext
      <3> QED BY <3>1, <2>1, <2>3, <1>0 DEF Managers
    <2>4. CASE ~(mgr.at + 1 < NWriters)
      <3>1. mgr' = [mgr EXCEPT !.pc = "handle"]  BY <2>4 DEF FillQueue, FillNext
      <3> QED BY <3>1, <2>2, <1>0 DEF Managers
    <2> QED BY <2>3, <2>4
  <1>2. /\ slots' \in [Slots -> SlotStates] /\ writer_queues' \in [Queues -> Seq(ToWriter)]
        /\ pool' \in Nat /\ job_count' \in [Queues -> -1..1]
    <2>0. /\ writer_queues \in [Queues -> Seq(ToWriter)]
          /\ pool \in Nat /\ job_count \in [Queues -> -1..1]
      BY DEF TypeInv
    <2>1. CASE BlocksFor(mgr.at) = {}  BY <2>0, <2>1, <1>0 DEF FillQueue
    <2>2. CASE BlocksFor(mgr.at) # {}
      <3>1. PICK b \in BlocksFor(mgr.at) : \E n \in Shortened(b[2]) :
                Enqueue(mgr.at, <<b[1], n>>)
        BY <2>2 DEF FillQueue
      <3>2. PICK n \in Shortened(b[2]) : Enqueue(mgr.at, <<b[1], n>>)  BY <3>1
      <3>3. mgr.at \in Queues  BY MgrIs, <1>0 DEF Queues
      <3>4. /\ b[1] \in Nat /\ n \in Nat \ {0} /\ n <= ChunkSize /\ job_count[mgr.at] = 0
        BY <3>3, BlockFound
      <3>5. WriteJob(mgr.at, b[1], n) \in ToWriter
        BY <3>3, <3>4, SizeAssumption DEF WriteJob, ToWriter, WriteJobs
      <3>6. writer_queues' = [writer_queues EXCEPT
                ![mgr.at] = Append(@, WriteJob(mgr.at, b[1], n))]
        BY <3>2 DEF Enqueue
      <3>7. writer_queues' \in [Queues -> Seq(ToWriter)]
        BY <2>0, <3>3, <3>5, <3>6, Appended
      <3>8. slots' \in [Slots -> SlotStates]
        BY <3>2, <1>0, MarkIs DEF Enqueue, Statuses
      <3>9. pool' \in Nat  BY <3>2, <2>0 DEF Enqueue
      <3>10. job_count' = [job_count EXCEPT ![mgr.at] = @ + 1]  BY <3>2 DEF Enqueue
      <3>11. job_count' \in [Queues -> -1..1]  BY <3>10, <3>4, <3>3, <2>0
      <3> QED BY <3>7, <3>8, <3>9, <3>11
    <2> QED BY <2>1, <2>2
  <1>3. slots' \in [Slots -> [st : Statuses, frame : 0..MaxFrames]]
    BY <1>2 DEF SlotStates
  <1> QED BY <1>1, <1>2, <1>3 DEF FillQueue, TypeInv, recVars, metaVars

LEMMA EndLoopIs ==
    ASSUME mgr \in Managers, EndLoop
    PROVE  mgr' \in Managers /\ mgr'.pc = "loop" /\ mgr'.job = NoJob
  <1>1. NoJob \in MgrJobs /\ "loop" \in MgrSteps  BY DEF MgrJobs, MgrSteps
  <1>2. (\E s \in Slots : slots'[s].st # "free") \in BOOLEAN  OBVIOUS
  <1>3. PICK u \in BOOLEAN : mgr' = [mgr EXCEPT !.pc = "loop", !.job = NoJob, !.used = u]
    BY <1>2, Zenon DEF EndLoop
  <1> QED BY <1>1, <1>3 DEF Managers

\* g is files with the header of file i written
ClosedAs(g, i, n, c) ==
    /\ g \in Seq(Files) /\ DOMAIN g = DOMAIN files /\ Len(g) = Len(files)
    /\ \A k \in DOMAIN files : k # i => g[k] = files[k]
    /\ i \in DOMAIN files =>
          /\ g[i].data = files[i].data /\ g[i].gone = files[i].gone
          /\ g[i].num = n /\ g[i].count = c /\ g[i].closed = files[i].closed + 1

LEMMA ClosedIs ==
    ASSUME files \in Seq(Files), NEW i \in Nat, NEW n \in Nat, NEW c \in Nat,
           NEW g, g = Closed(i, n, c)
    PROVE  ClosedAs(g, i, n, c)
  <1> DEFINE f1 == [files EXCEPT ![i].num = n]
             f2 == [f1 EXCEPT ![i].count = c]
             f3 == [f2 EXCEPT ![i].closed = @ + 1]
  <1>0. g = f3  BY DEF Closed
  <1>1. /\ \A k \in DOMAIN files : files[k] \in Files
        /\ Len(files) \in Nat /\ DOMAIN files = 1..Len(files)
    OBVIOUS
  <1>2. DOMAIN f1 = DOMAIN files /\ \A k \in DOMAIN files : k # i => f1[k] = files[k]
    OBVIOUS
  <1>3. i \in DOMAIN files => f1[i] = [files[i] EXCEPT !.num = n]
    BY Zenon
  <1> HIDE DEF f1
  <1>4. DOMAIN f2 = DOMAIN files /\ \A k \in DOMAIN files : k # i => f2[k] = files[k]
    BY <1>2
  <1>5. i \in DOMAIN files => f2[i] = [f1[i] EXCEPT !.count = c]
    BY <1>2, Zenon
  <1> HIDE DEF f2
  <1>6. DOMAIN f3 = DOMAIN files /\ \A k \in DOMAIN files : k # i => f3[k] = files[k]
    BY <1>4
  <1>7. i \in DOMAIN files => f3[i] = [f2[i] EXCEPT !.closed = @ + 1]
    BY <1>4, Zenon
  <1> HIDE DEF f3
  <1>8. ASSUME i \in DOMAIN files
        PROVE  /\ f3[i] \in Files /\ f3[i].data = files[i].data
               /\ f3[i].gone = files[i].gone /\ f3[i].num = n /\ f3[i].count = c
               /\ f3[i].closed = files[i].closed + 1
    <2>1. files[i] \in Files  BY <1>1, <1>8
    <2>2. f1[i] \in Files /\ f1[i].data = files[i].data /\ f1[i].gone = files[i].gone
          /\ f1[i].num = n /\ f1[i].closed = files[i].closed
      BY <1>3, <1>8, <2>1 DEF Files
    <2>3. f2[i] \in Files /\ f2[i].data = files[i].data /\ f2[i].gone = files[i].gone
          /\ f2[i].num = n /\ f2[i].closed = files[i].closed /\ f2[i].count = c
      BY <1>5, <1>8, <2>2 DEF Files
    <2>a. files[i].closed \in Nat  BY <2>1 DEF Files
    <2>4. f2[i].closed + 1 \in Nat  BY <2>3, <2>a
    <2> QED BY <1>7, <1>8, <2>3, <2>4 DEF Files
  <1>9. \A k \in DOMAIN files : f3[k] \in Files  BY <1>1, <1>6, <1>8
  <1>10. f3 = [k \in DOMAIN f3 |-> f3[k]]  BY DEF f3
  <1>11. f3 \in [1..Len(files) -> Files]  BY <1>1, <1>6, <1>9, <1>10
  <1>12. f3 \in Seq(Files) /\ Len(f3) = Len(files)  BY <1>1, <1>11
  <1> QED BY <1>0, <1>6, <1>8, <1>12 DEF ClosedAs

LEMMA FileStep ==
    ASSUME files \in Seq(Files), NEW i \in Nat, NEW n \in Nat, NEW c \in Nat
    PROVE  /\ Closed(i, n, c) \in Seq(Files) /\ DOMAIN Closed(i, n, c) = DOMAIN files
           /\ Len(Closed(i, n, c)) = Len(files)
           /\ \A k \in DOMAIN files : k # i => Closed(i, n, c)[k] = files[k]
           /\ i \in DOMAIN files =>
                 /\ Closed(i, n, c)[i].data = files[i].data
                 /\ Closed(i, n, c)[i].gone = files[i].gone
                 /\ Closed(i, n, c)[i].num = n /\ Closed(i, n, c)[i].count = c
                 /\ Closed(i, n, c)[i].closed = files[i].closed + 1
  <1>1. PICK g : g = Closed(i, n, c)  OBVIOUS
  <1>2. ClosedAs(g, i, n, c)  BY <1>1, ClosedIs
  <1> QED BY <1>1, <1>2 DEF ClosedAs

LEMMA HandleType ==
    ASSUME TypeInv, NothingReturned \/ WriteReturned \/ HandleWanted \/ CloseWanted
    PROVE  TypeInv'
  <1>0. mgr \in Managers /\ slots \in [Slots -> SlotStates]  BY DEF TypeInv, SlotStates
  <1>1. CASE NothingReturned
    <2>1. mgr' \in Managers  BY <1>0, <1>1, EndLoopIs DEF NothingReturned
    <2> QED BY <1>1, <2>1 DEF NothingReturned, TypeInv, recVars, metaVars
  <1>2. CASE WriteReturned
    <2>1. mgr' \in Managers  BY <1>0, <1>2, EndLoopIs DEF WriteReturned
    <2>2. slots' \in [Slots -> [st : Statuses, frame : 0..MaxFrames]]
      BY <1>2, <1>0, MarkIs DEF WriteReturned, SlotStates, Statuses
    <2> QED BY <1>2, <2>1, <2>2 DEF WriteReturned, TypeInv, recVars, metaVars
  <1>3. CASE HandleWanted
    <2>1. mgr' \in Managers  BY <1>0, <1>3, EndLoopIs DEF HandleWanted
    <2>2. mgr.job \in HandleJobs /\ files \in Seq(Files) /\ Len(files) \in Nat
          /\ writer_queues \in [Queues -> Seq(ToWriter)]
      <3>1. mgr.job \in MgrJobs /\ mgr.job.type = "handle"
        BY <1>0, <1>3, MgrIs DEF HandleWanted, Returned
      <3>2. files \in Seq(Files) /\ writer_queues \in [Queues -> Seq(ToWriter)]
        BY DEF TypeInv
      <3>3. mgr.job \in HandleJobs
        BY <3>1 DEF MgrJobs, ToManager, WriteJobs, CloseJobs, NoJob
      <3> QED BY <3>2, <3>3
    <2>3. mgr.job.writer \in Queues  BY <2>2, QueueOne, WriterAssumption DEF HandleJobs
    <2>4. mgr.job \in ToWriter /\ [mgr.job EXCEPT !.file = NextFileNum + 1] \in ToWriter
      <3>1. NextFileNum + 1 \in Nat  BY <2>2 DEF NextFileNum
      <3>2. [mgr.job EXCEPT !.file = NextFileNum + 1] \in HandleJobs
        BY <3>1, <2>2 DEF HandleJobs
      <3> QED BY <2>2, <3>2 DEF ToWriter
    <2>5. writer_queues' \in [Queues -> Seq(ToWriter)]
      <3>1. PICK j \in ToWriter :
                writer_queues' = [writer_queues EXCEPT ![mgr.job.writer] = Append(@, j)]
        BY <2>4, <1>3 DEF HandleWanted
      <3> QED BY <3>1, <2>2, <2>3, Appended
    <2>6. files' \in Seq(Files)
      <3>1. NewFile \in Files
        <4>1. <<>> \in Seq(0..MaxFrames)  OBVIOUS
        <4> QED BY <4>1 DEF NewFile, Files
      <3>2. [NewFile EXCEPT !.num = Len(files)] \in Files
            /\ [NewFile EXCEPT !.gone = TRUE] \in Files
        BY <3>1, <2>2 DEF Files
      <3>3. PICK f \in Files : files' = Append(files, f)  BY <3>2, <1>3 DEF HandleWanted
      <3> QED BY <3>3, <2>2
    <2>7. state' = state \/ state' = "finishing"  BY <1>3 DEF HandleWanted
    <2> QED BY <1>3, <2>1, <2>5, <2>6, <2>7 DEF HandleWanted, TypeInv, recVars, metaVars
  <1>4. CASE CloseWanted
    <2>1. mgr' \in Managers  BY <1>0, <1>4, EndLoopIs DEF CloseWanted
    <2>2. mgr.job \in CloseJobs
      <3>1. mgr.job \in MgrJobs /\ mgr.job.type = "close"
        BY <1>0, <1>4, MgrIs DEF CloseWanted, Returned
      <3> QED BY <3>1 DEF MgrJobs, ToManager, WriteJobs, HandleJobs, NoJob
    <2>3. mgr.job.file \in Nat /\ mgr.job.num \in Nat /\ mgr.job.frames \in Nat
      BY <2>2 DEF CloseJobs
    <2>4. files' \in Seq(Files)
      <3>1. files \in Seq(Files)  BY DEF TypeInv
      <3> QED BY <1>4, <2>3, <3>1, FileStep DEF CloseWanted
    <2> QED BY <1>4, <2>1, <2>4 DEF CloseWanted, TypeInv, recVars, metaVars
  <1> QED BY <1>1, <1>2, <1>3, <1>4

LEMMA ManagerEndType ==
    ASSUME TypeInv, Stopping \/ Drain \/ AbortWriters \/ Flush
    PROVE  TypeInv'
  <1>0. mgr \in Managers /\ slots \in [Slots -> SlotStates]  BY DEF TypeInv, SlotStates
  <1>1. CASE Stopping
    <2>1. mgr' \in Managers  BY <1>0, <1>1 DEF Stopping, Managers, MgrSteps
    <2>2. files \in Seq(Files) /\ Len(files) \in Nat /\ DOMAIN files = 1..Len(files)
      BY DEF TypeInv
    <2>3. ASSUME NEW i \in DOMAIN files
          PROVE  [files[i] EXCEPT !.gone = @ \/ (i > 1 /\ files[i].data = <<>>)] \in Files
      <3>1. files[i] \in Files  BY <2>2
      <3>2. (files[i].gone \/ (i > 1 /\ files[i].data = <<>>)) \in BOOLEAN  OBVIOUS
      <3>3. PICK u \in BOOLEAN : u = (files[i].gone \/ (i > 1 /\ files[i].data = <<>>))
        BY <3>2
      <3>4. [files[i] EXCEPT !.gone = u] \in Files  BY <3>1 DEF Files
      <3> QED BY <3>3, <3>4, Zenon
    <2>4. files' \in [1..Len(files) -> Files]
      BY <1>1, <2>2, <2>3 DEF Stopping
    <2>5. files' \in Seq(Files)  BY <2>2, <2>4
    <2>6. meta' \subseteq Slots /\ slots' \in [Slots -> [st : Statuses, frame : 0..MaxFrames]]
      BY <1>1, SoundStopsIs DEF Stopping, SlotStates
    <2> QED BY <1>1, <2>1, <2>5, <2>6 DEF Stopping, TypeInv, recVars
  <1>2. CASE Drain
    <2>1. mgr' \in Managers
      <3>1. 0 \in Turns /\ {"cleanup", "abort"} \subseteq MgrSteps
        BY DEF Turns, MgrSteps
      <3> QED BY <1>0, <1>2, <3>1 DEF Drain, Managers
    <2>2. state' = state \/ state' = "finishing"  BY <1>2 DEF Drain
    <2> QED BY <1>2, <2>1, <2>2 DEF Drain, TypeInv, recVars, metaVars
  <1>3. CASE AbortWriters
    <2>1. mgr' \in Managers
      <3>1. 1 \in Turns /\ "flush" \in MgrSteps  BY DEF Turns, MgrSteps
      <3> QED BY <1>0, <1>3, <3>1 DEF AbortWriters, Managers
    <2>2. AbortJob \in ToWriter
      BY SizeAssumption DEF AbortJob, WriteJob, ToWriter, WriteJobs, Queues, None
    <2>3. writer_queues' \in [Queues -> Seq(ToWriter)]
      <3>1. mgr.at \in Queues  BY <1>0, MgrIs DEF Queues
      <3>2. writer_queues \in [Queues -> Seq(ToWriter)]  BY DEF TypeInv
      <3>3. writer_queues' = [writer_queues EXCEPT ![mgr.at] = Append(@, AbortJob)]
        BY <1>3 DEF AbortWriters
      <3> QED BY <3>1, <3>2, <3>3, <2>2, Appended
    <2> QED BY <1>3, <2>1, <2>3 DEF AbortWriters, TypeInv, recVars, metaVars
  <1>4. CASE Flush
    <2>1. mgr' \in Managers  BY <1>0, <1>4 DEF Flush, Managers, MgrSteps
    <2>2. mgr_queue' \in Seq(ToManager) /\ writer_queues' \in [Queues -> Seq(ToWriter)]
      BY <1>4 DEF Flush
    <2> QED BY <1>4, <2>1, <2>2 DEF Flush, TypeInv, recVars, metaVars
  <1> QED BY <1>1, <1>2, <1>3, <1>4

LEMMA WriterIs ==
    ASSUME TypeInv, NEW w \in Writers
    PROVE  /\ writers[w] \in WriterStates /\ w \in Queues
           /\ writer_queues[w] \in Seq(ToWriter)
  BY QueueOne, WriterAssumption DEF TypeInv

LEMMA SetType ==
    ASSUME TypeInv, NEW w \in Writers, NEW r \in WriterStates, Set(w, r)
    PROVE  writers' \in [Writers -> WriterStates]
  BY DEF Set, TypeInv

LEMMA ReceiveIs ==
    ASSUME TypeInv, NEW w \in Writers, writer_queues[w] # <<>>, Receive(w)
    PROVE  /\ writer_queues' \in [Queues -> Seq(ToWriter)]
           /\ Head(writer_queues[w]) \in ToWriter /\ Head(writer_queues[w]) = writer_queues[w][1]
           /\ \A q \in Queues : q # w => writer_queues'[q] = writer_queues[q]
           /\ writer_queues'[w] = Tail(writer_queues[w])
           /\ Len(writer_queues'[w]) = Len(writer_queues[w]) - 1
           /\ \A k \in DOMAIN writer_queues'[w] :
                 k + 1 \in DOMAIN writer_queues[w]
                 /\ writer_queues'[w][k] = writer_queues[w][k + 1]
           /\ 1 \in DOMAIN writer_queues[w]
  <1> DEFINE q == writer_queues[w]
  <1>1. q \in Seq(ToWriter) /\ q # <<>> /\ w \in Queues  BY WriterIs
  <1> HIDE DEF q
  <1>2. /\ Tail(q) \in Seq(ToWriter) /\ Head(q) \in ToWriter /\ Head(q) = q[1]
        /\ Len(Tail(q)) = Len(q) - 1
        /\ \A k \in DOMAIN Tail(q) : k + 1 \in DOMAIN q /\ Tail(q)[k] = q[k + 1]
        /\ 1 \in DOMAIN q
    BY <1>1
  <1>3. writer_queues \in [Queues -> Seq(ToWriter)]  BY DEF TypeInv
  <1>4. writer_queues' = [writer_queues EXCEPT ![w] = Tail(@)]  BY DEF Receive
  <1>5. writer_queues'[w] = Tail(q) /\ \A p \in Queues : p # w => writer_queues'[p] = writer_queues[p]
    BY <1>1, <1>3, <1>4 DEF q
  <1>6. writer_queues' \in [Queues -> Seq(ToWriter)]
    BY <1>1, <1>2, <1>3, <1>4 DEF q
  <1> QED BY <1>2, <1>5, <1>6 DEF q

LEMMA SentIs ==
    ASSUME TypeInv, NEW j \in ToManager, mgr_queue' = Append(mgr_queue, j)
    PROVE  /\ mgr_queue' \in Seq(ToManager) /\ Len(mgr_queue') = Len(mgr_queue) + 1
           /\ DOMAIN mgr_queue' = DOMAIN mgr_queue \cup {Len(mgr_queue) + 1}
           /\ mgr_queue'[Len(mgr_queue) + 1] = j
           /\ \A k \in DOMAIN mgr_queue : mgr_queue'[k] = mgr_queue[k]
           /\ Len(mgr_queue) + 1 \notin DOMAIN mgr_queue
           /\ Len(mgr_queue) \in Nat
  BY DEF TypeInv

LEMMA DataStep ==
    ASSUME files \in Seq(Files), NEW i \in Nat, NEW d \in Seq(0..MaxFrames),
           files' = [files EXCEPT ![i].data = @ \o d]
    PROVE  /\ files' \in Seq(Files) /\ DOMAIN files' = DOMAIN files /\ Len(files') = Len(files)
           /\ \A k \in DOMAIN files : k # i => files'[k] = files[k]
           /\ i \in DOMAIN files =>
                 /\ files'[i].data = files[i].data \o d
                 /\ files'[i].gone = files[i].gone /\ files'[i].num = files[i].num
                 /\ files'[i].count = files[i].count /\ files'[i].closed = files[i].closed
  <1>1. /\ \A k \in DOMAIN files : files[k] \in Files
        /\ Len(files) \in Nat /\ DOMAIN files = 1..Len(files)
    OBVIOUS
  <1>2. DOMAIN files' = DOMAIN files /\ \A k \in DOMAIN files : k # i => files'[k] = files[k]
    OBVIOUS
  <1>3. ASSUME i \in DOMAIN files
        PROVE  /\ files'[i] \in Files /\ files'[i].data = files[i].data \o d
               /\ files'[i].gone = files[i].gone /\ files'[i].num = files[i].num
               /\ files'[i].count = files[i].count /\ files'[i].closed = files[i].closed
    <2>1. files'[i] = [files[i] EXCEPT !.data = @ \o d]  BY <1>3, Zenon
    <2>2. files[i] \in Files  BY <1>1, <1>3
    <2>3. files[i].data \in Seq(0..MaxFrames)  BY <2>2 DEF Files
    <2>4. files[i].data \o d \in Seq(0..MaxFrames)  BY <2>3
    <2> QED BY <2>1, <2>2, <2>4, ZenonT(60) DEF Files
  <1>4. \A k \in DOMAIN files : files'[k] \in Files  BY <1>1, <1>2, <1>3
  <1>5. files' = [k \in DOMAIN files' |-> files'[k]]  OBVIOUS
  <1>6. files' \in [1..Len(files) -> Files]  BY <1>1, <1>2, <1>4, <1>5
  <1>7. files' \in Seq(Files) /\ Len(files') = Len(files)  BY <1>1, <1>6
  <1> QED BY <1>2, <1>3, <1>7

\* a writer that runs: the slots of its block hold frames
LEMMA BlockFrames ==
    ASSUME IInv, NEW w \in Writers, Alive(w), writers[w].job.type = "write"
    PROVE  /\ writers[w].job \in WriteJobs
           /\ FramesOf(writers[w].job) \in Seq(0..MaxFrames)
           /\ Len(FramesOf(writers[w].job)) = writers[w].job.len
           /\ \A s \in JobSlots(writers[w].job) : s \in Slots /\ slots[s].st = "writing"
  <1> DEFINE j == writers[w].job
  <1>1. j \in WriteJobs
    <2>1. TypeInv  BY DEF IInv
    <2>2. writers[w] \in WriterStates  BY <2>1, WriterIs
    <2>3. j \in WriterJobs  BY <2>2 DEF WriterStates
    <2> QED BY <2>3 DEF WriterJobs, NoJob
  <1>2. j.start \in Nat /\ j.len \in Nat
    <2>1. j.start \in Nat /\ j.len \in 0..ChunkSize  BY <1>1 DEF WriteJobs
    <2> QED BY <2>1, SizeAssumption
  <1>3. mgr.pc \notin {"open", "dead"}  BY DEF IInv, FlowInv, Before
  <1>4. w \in Index(4) /\ JobAt(4, w) = j  BY DEF Index, JobAt, Queues
  <1>5. \A s \in JobSlots(j) : s \in Slots /\ slots[s].st = "writing"
    BY <1>3, <1>4 DEF IInv, SlotInv
  <1>6. \A i \in 1..j.len : slots[j.start + i - 1].frame \in 0..MaxFrames
    <2> TAKE i \in 1..j.len
    <2>1. j.start + i - 1 \in j.start .. j.start + j.len - 1  BY <1>2
    <2>2. j.start + i - 1 \in Slots  BY <2>1, <1>5 DEF JobSlots
    <2>3. slots[j.start + i - 1] \in SlotStates
      BY <2>2 DEF IInv, TypeInv, SlotStates
    <2> QED BY <2>3 DEF SlotStates
  <1>7. FramesOf(j) = [i \in 1..j.len |-> slots[j.start + i - 1].frame]  BY DEF FramesOf
  <1> HIDE DEF j
  <1>8. FramesOf(j) \in [1..j.len -> 0..MaxFrames]  BY <1>6, <1>7
  <1>9. FramesOf(j) \in Seq(0..MaxFrames) /\ Len(FramesOf(j)) = j.len
    <2> DEFINE fr == FramesOf(j)
               n  == j.len
               F  == 0..MaxFrames
    <2>1. fr \in [1..n -> F] /\ n \in Nat  BY <1>2, <1>8
    <2> HIDE DEF fr, n, F
    <2>2. fr \in Seq(F) /\ Len(fr) = n  BY <2>1
    <2> QED BY <2>2 DEF fr, n, F
  <1> QED BY <1>1, <1>5, <1>9 DEF j

LEMMA WriterFields ==
    ASSUME NEW r \in WriterStates
    PROVE  /\ r.pc \in WriterSteps /\ r.file \in Nat /\ r.next \in Nat /\ r.num \in Nat
           /\ r.nextNum \in Nat /\ r.frames \in Nat /\ r.size \in Nat /\ r.size <= ChunkSize
           /\ r.asked \in BOOLEAN /\ r.job \in WriterJobs /\ r.error \in Errors
  <1>1. /\ r.pc \in WriterSteps /\ r.file \in Nat /\ r.next \in Nat /\ r.num \in Nat
        /\ r.nextNum \in Nat /\ r.frames \in Nat /\ r.size \in Sizes
        /\ r.asked \in BOOLEAN /\ r.job \in WriterJobs /\ r.error \in Errors
    BY DEF WriterStates
  <1>2. r.size \in Nat /\ r.size <= ChunkSize  BY <1>1, SizeAssumption DEF Sizes
  <1> QED BY <1>1, <1>2

\* the job a writer takes, and what it makes of it
LEMMA Taken ==
    ASSUME TypeInv, CountInv, WriterInv, NEW w \in Writers, Ready(w, "write"), TakeJob(w)
    PROVE  /\ Head(writer_queues[w]) \in WriteJobs
           /\ Head(writer_queues[w]).len \in Nat \ {0}
           /\ Head(writer_queues[w]).len <= ChunkSize
           /\ writers[w].pc = "take" /\ writers[w].job = NoJob /\ writers[w].error = "no"
           /\ writers[w].file \in 1..Len(files)
           /\ writer_queues[w] # <<>> /\ Receive(w)
           /\ job_count[w] = 1 /\ job_count' = [job_count EXCEPT ![w] = 0]
           /\ job_count' \in [Queues -> -1..1]
           /\ WithJob(w) \in WriterStates
           /\ Block(w, 1)
  <1> DEFINE h == Head(writer_queues[w])
  <1>1. /\ writers[w].pc = "take" /\ writer_queues[w] # <<>> /\ h.type = "write" /\ h.len > 0
        /\ Receive(w) /\ job_count' = [job_count EXCEPT ![w] = @ - 1]
    BY DEF Ready, TakeJob
  <1>2. h \in ToWriter /\ h = writer_queues[w][1] /\ 1 \in DOMAIN writer_queues[w]
    BY <1>1, ReceiveIs
  <1>3. h \in WriteJobs  BY <1>1, <1>2 DEF ToWriter, HandleJobs
  <1>4. h.len \in Nat \ {0} /\ h.len <= ChunkSize
    <2>1. h.len \in 0..ChunkSize  BY <1>3 DEF WriteJobs
    <2> QED BY <2>1, <1>1, SizeAssumption
  <1>5. Block(w, 1)  BY <1>1, <1>2 DEF Block
  <1>6. job_count[w] = 1  BY <1>1, <1>2, <1>5 DEF CountInv, CountOf
  <1>7. job_count \in [Queues -> -1..1] /\ w \in Queues  BY WriterIs DEF TypeInv
  <1>8. job_count' = [job_count EXCEPT ![w] = 0]  BY <1>1, <1>6, <1>7
  <1>9. job_count' \in [Queues -> -1..1]  BY <1>7, <1>8
  <1>10. writers[w].job = NoJob /\ writers[w].error = "no" /\ writers[w].file \in 1..Len(files)
    BY <1>1 DEF WriterInv, Alive
  <1>11. WithJob(w) \in WriterStates
    <2>1. h \in WriterJobs /\ "write" \in WriterSteps  BY <1>3 DEF WriterJobs, WriterSteps
    <2>2. writers[w] \in WriterStates  BY WriterIs
    <2>3. WithJob(w) = [writers[w] EXCEPT !.pc = "write", !.job = h]  BY DEF WithJob
    <2> QED BY <2>1, <2>2, <2>3 DEF WriterStates
  <1> QED BY <1>1, <1>3, <1>4, <1>5, <1>6, <1>8, <1>9, <1>10, <1>11

\* the new state of a writer, field by field
LEMMA SwitchedIs ==
    ASSUME NEW w \in Writers, WithJob(w) \in WriterStates, writers[w] \in WriterStates,
           NEW r, r = Switched(w)
    PROVE  /\ r \in WriterStates /\ r.pc = "write" /\ r.job = Head(writer_queues[w])
           /\ r.file = writers[w].next /\ r.num = writers[w].nextNum /\ r.next = None
           /\ r.frames = 0 /\ r.size = 0 /\ r.asked = FALSE /\ r.error = writers[w].error
  <1> DEFINE x  == WithJob(w)
             a1 == [x EXCEPT !.file = writers[w].next]
             a2 == [a1 EXCEPT !.num = writers[w].nextNum]
             a3 == [a2 EXCEPT !.next = None]
             a4 == [a3 EXCEPT !.frames = 0]
             a5 == [a4 EXCEPT !.size = 0]
             a6 == [a5 EXCEPT !.asked = FALSE]
  <1>1. r = a6  BY DEF Switched
  <1>2. /\ writers[w].next \in Nat /\ writers[w].nextNum \in Nat
    BY WriterFields
  <1>3. x \in WriterStates /\ x.pc = "write" /\ x.job = Head(writer_queues[w])
        /\ x.error = writers[w].error
    BY DEF WithJob, WriterStates
  <1> HIDE DEF x
  <1>4. a1 \in WriterStates /\ a1.pc = "write" /\ a1.job = Head(writer_queues[w])
        /\ a1.error = writers[w].error /\ a1.file = writers[w].next
    BY <1>2, <1>3 DEF WriterStates
  <1> HIDE DEF a1
  <1>5. a2 \in WriterStates /\ a2.pc = "write" /\ a2.job = Head(writer_queues[w])
        /\ a2.error = writers[w].error /\ a2.file = writers[w].next
        /\ a2.num = writers[w].nextNum
    BY <1>2, <1>4 DEF WriterStates
  <1> HIDE DEF a2
  <1>6. a3 \in WriterStates /\ a3.pc = "write" /\ a3.job = Head(writer_queues[w])
        /\ a3.error = writers[w].error /\ a3.file = writers[w].next
        /\ a3.num = writers[w].nextNum /\ a3.next = None
    <2>1. None \in Nat  BY DEF None
    <2> QED BY <2>1, <1>5 DEF WriterStates
  <1> HIDE DEF a3
  <1>7. a4 \in WriterStates /\ a4.pc = "write" /\ a4.job = Head(writer_queues[w])
        /\ a4.error = writers[w].error /\ a4.file = writers[w].next
        /\ a4.num = writers[w].nextNum /\ a4.next = None /\ a4.frames = 0
    BY <1>6 DEF WriterStates
  <1> HIDE DEF a4
  <1>8. a5 \in WriterStates /\ a5.pc = "write" /\ a5.job = Head(writer_queues[w])
        /\ a5.error = writers[w].error /\ a5.file = writers[w].next
        /\ a5.num = writers[w].nextNum /\ a5.next = None /\ a5.frames = 0 /\ a5.size = 0
    <2>1. 0 \in Sizes  BY SizeAssumption DEF Sizes
    <2> QED BY <2>1, <1>7 DEF WriterStates
  <1> HIDE DEF a5
  <1>9. a6 \in WriterStates /\ a6.pc = "write" /\ a6.job = Head(writer_queues[w])
        /\ a6.error = writers[w].error /\ a6.file = writers[w].next
        /\ a6.num = writers[w].nextNum /\ a6.next = None /\ a6.frames = 0 /\ a6.size = 0
        /\ a6.asked = FALSE
    BY <1>8 DEF WriterStates
  <1> QED BY <1>1, <1>9

(* The states a writer goes to, field by field.                            *)

Takes(w, h)  == [writers[w] EXCEPT !.pc = "write", !.job = h]
Asks(w, h)   == [Takes(w, h) EXCEPT !.asked = TRUE]
NoFile(w, h) == [Takes(w, h) EXCEPT !.pc = "close", !.error = "file"]
Written(w, n) == [writers[w] EXCEPT !.pc = "take", !.job = NoJob, !.size = @ + n,
                                    !.frames = @ + n]
Answered(w, f, n) == [writers[w] EXCEPT !.next = f, !.nextNum = n]

\* a block is taken
LEMMA WithJobIs ==
    ASSUME NEW w \in Writers, writers[w] \in WriterStates, NEW h, h \in WriterJobs, NEW r,
           r = Takes(w, h)
    PROVE  /\ r \in WriterStates
           /\ r.pc = "write" /\ r.file = writers[w].file
           /\ r.next = writers[w].next /\ r.num = writers[w].num
           /\ r.nextNum = writers[w].nextNum /\ r.frames = writers[w].frames
           /\ r.size = writers[w].size /\ r.asked = writers[w].asked
           /\ r.job = h /\ r.error = writers[w].error
  <1> DEFINE a1 == [writers[w] EXCEPT !.pc = "write"]
             a2 == [a1 EXCEPT !.job = h]
  <1>0. r = a2  BY DEF Takes
  <1>t. /\ "write" \in WriterSteps /\ "take" \in WriterSteps /\ "close" \in WriterSteps
        /\ "off" \in WriterSteps /\ "file" \in Errors /\ "card" \in Errors
        /\ None \in Nat /\ 0 \in Sizes /\ NoJob \in WriterJobs
    BY SizeAssumption DEF WriterSteps, Errors, None, Sizes, WriterJobs
  <1>1. /\ a1 \in WriterStates
        /\ a1.pc = "write" /\ a1.file = writers[w].file
        /\ a1.next = writers[w].next /\ a1.num = writers[w].num
        /\ a1.nextNum = writers[w].nextNum /\ a1.frames = writers[w].frames
        /\ a1.size = writers[w].size /\ a1.asked = writers[w].asked
        /\ a1.job = writers[w].job /\ a1.error = writers[w].error
    BY <1>t DEF WriterStates
  <1> HIDE DEF a1
  <1>2. /\ a2 \in WriterStates
        /\ a2.pc = "write" /\ a2.file = writers[w].file
        /\ a2.next = writers[w].next /\ a2.num = writers[w].num
        /\ a2.nextNum = writers[w].nextNum /\ a2.frames = writers[w].frames
        /\ a2.size = writers[w].size /\ a2.asked = writers[w].asked
        /\ a2.job = h /\ a2.error = writers[w].error
    BY <1>t, <1>1 DEF WriterStates
  <1> HIDE DEF a2
  <1> QED BY <1>0, <1>2

\* the next file is asked for
LEMMA AsksIs ==
    ASSUME NEW w \in Writers, writers[w] \in WriterStates, NEW h, h \in WriterJobs, NEW r,
           r = Asks(w, h)
    PROVE  /\ r \in WriterStates
           /\ r.pc = "write" /\ r.file = writers[w].file
           /\ r.next = writers[w].next /\ r.num = writers[w].num
           /\ r.nextNum = writers[w].nextNum /\ r.frames = writers[w].frames
           /\ r.size = writers[w].size
           /\ r.job = h /\ r.error = writers[w].error
  <1> DEFINE a1 == [writers[w] EXCEPT !.pc = "write"]
             a2 == [a1 EXCEPT !.job = h]
             a3 == [a2 EXCEPT !.asked = TRUE]
  <1>0. r = a3  BY DEF Asks, Takes
  <1>t. /\ "write" \in WriterSteps /\ "take" \in WriterSteps /\ "close" \in WriterSteps
        /\ "off" \in WriterSteps /\ "file" \in Errors /\ "card" \in Errors
        /\ None \in Nat /\ 0 \in Sizes /\ NoJob \in WriterJobs
    BY SizeAssumption DEF WriterSteps, Errors, None, Sizes, WriterJobs
  <1>1. /\ a1 \in WriterStates
        /\ a1.pc = "write" /\ a1.file = writers[w].file
        /\ a1.next = writers[w].next /\ a1.num = writers[w].num
        /\ a1.nextNum = writers[w].nextNum /\ a1.frames = writers[w].frames
        /\ a1.size = writers[w].size /\ a1.asked = writers[w].asked
        /\ a1.job = writers[w].job /\ a1.error = writers[w].error
    BY <1>t DEF WriterStates
  <1> HIDE DEF a1
  <1>2. /\ a2 \in WriterStates
        /\ a2.pc = "write" /\ a2.file = writers[w].file
        /\ a2.next = writers[w].next /\ a2.num = writers[w].num
        /\ a2.nextNum = writers[w].nextNum /\ a2.frames = writers[w].frames
        /\ a2.size = writers[w].size /\ a2.asked = writers[w].asked
        /\ a2.job = h /\ a2.error = writers[w].error
    BY <1>t, <1>1 DEF WriterStates
  <1> HIDE DEF a2
  <1>3. /\ a3 \in WriterStates
        /\ a3.pc = "write" /\ a3.file = writers[w].file
        /\ a3.next = writers[w].next /\ a3.num = writers[w].num
        /\ a3.nextNum = writers[w].nextNum /\ a3.frames = writers[w].frames
        /\ a3.size = writers[w].size /\ a3.asked = TRUE
        /\ a3.job = h /\ a3.error = writers[w].error
    BY <1>t, <1>2 DEF WriterStates
  <1> HIDE DEF a3
  <1> QED BY <1>0, <1>3

LEMMA AskedIs ==
    ASSUME NEW w \in Writers, writers[w] \in WriterStates, NEW h, h \in WriterJobs
    PROVE  Asks(w, h).asked = TRUE
  <1> DEFINE a == Takes(w, h)
  <1>1. a \in WriterStates  BY WithJobIs
  <1> HIDE DEF a
  <1>2. [a EXCEPT !.asked = TRUE].asked = TRUE  BY <1>1 DEF WriterStates
  <1>3. Asks(w, h) = [a EXCEPT !.asked = TRUE]  BY DEF Asks, a
  <1> QED BY <1>2, <1>3

\* there is no next file
LEMMA NoFileIs ==
    ASSUME NEW w \in Writers, writers[w] \in WriterStates, NEW h, h \in WriterJobs, NEW r,
           r = NoFile(w, h)
    PROVE  /\ r \in WriterStates
           /\ r.pc = "close" /\ r.file = writers[w].file
           /\ r.next = writers[w].next /\ r.num = writers[w].num
           /\ r.nextNum = writers[w].nextNum /\ r.frames = writers[w].frames
           /\ r.size = writers[w].size /\ r.asked = writers[w].asked
           /\ r.job = h /\ r.error = "file"
  <1> DEFINE a1 == [writers[w] EXCEPT !.pc = "write"]
             a2 == [a1 EXCEPT !.job = h]
             a3 == [a2 EXCEPT !.pc = "close"]
             a4 == [a3 EXCEPT !.error = "file"]
  <1>0. r = a4  BY DEF NoFile, Takes
  <1>t. /\ "write" \in WriterSteps /\ "take" \in WriterSteps /\ "close" \in WriterSteps
        /\ "off" \in WriterSteps /\ "file" \in Errors /\ "card" \in Errors
        /\ None \in Nat /\ 0 \in Sizes /\ NoJob \in WriterJobs
    BY SizeAssumption DEF WriterSteps, Errors, None, Sizes, WriterJobs
  <1>1. /\ a1 \in WriterStates
        /\ a1.pc = "write" /\ a1.file = writers[w].file
        /\ a1.next = writers[w].next /\ a1.num = writers[w].num
        /\ a1.nextNum = writers[w].nextNum /\ a1.frames = writers[w].frames
        /\ a1.size = writers[w].size /\ a1.asked = writers[w].asked
        /\ a1.job = writers[w].job /\ a1.error = writers[w].error
    BY <1>t DEF WriterStates
  <1> HIDE DEF a1
  <1>2. /\ a2 \in WriterStates
        /\ a2.pc = "write" /\ a2.file = writers[w].file
        /\ a2.next = writers[w].next /\ a2.num = writers[w].num
        /\ a2.nextNum = writers[w].nextNum /\ a2.frames = writers[w].frames
        /\ a2.size = writers[w].size /\ a2.asked = writers[w].asked
        /\ a2.job = h /\ a2.error = writers[w].error
    BY <1>t, <1>1 DEF WriterStates
  <1> HIDE DEF a2
  <1>3. /\ a3 \in WriterStates
        /\ a3.pc = "close" /\ a3.file = writers[w].file
        /\ a3.next = writers[w].next /\ a3.num = writers[w].num
        /\ a3.nextNum = writers[w].nextNum /\ a3.frames = writers[w].frames
        /\ a3.size = writers[w].size /\ a3.asked = writers[w].asked
        /\ a3.job = h /\ a3.error = writers[w].error
    BY <1>t, <1>2 DEF WriterStates
  <1> HIDE DEF a3
  <1>4. /\ a4 \in WriterStates
        /\ a4.pc = "close" /\ a4.file = writers[w].file
        /\ a4.next = writers[w].next /\ a4.num = writers[w].num
        /\ a4.nextNum = writers[w].nextNum /\ a4.frames = writers[w].frames
        /\ a4.size = writers[w].size /\ a4.asked = writers[w].asked
        /\ a4.job = h /\ a4.error = "file"
    BY <1>t, <1>3 DEF WriterStates
  <1> HIDE DEF a4
  <1> QED BY <1>0, <1>4

\* a block is written
LEMMA WrittenIs ==
    ASSUME NEW w \in Writers, writers[w] \in WriterStates, NEW n \in Nat, writers[w].size + n <= ChunkSize, NEW r,
           r = Written(w, n)
    PROVE  /\ r \in WriterStates
           /\ r.pc = "take" /\ r.file = writers[w].file
           /\ r.next = writers[w].next /\ r.num = writers[w].num
           /\ r.nextNum = writers[w].nextNum /\ r.frames = writers[w].frames + n
           /\ r.size = writers[w].size + n /\ r.asked = writers[w].asked
           /\ r.job = NoJob /\ r.error = writers[w].error
  <1> DEFINE a1 == [writers[w] EXCEPT !.pc = "take"]
             a2 == [a1 EXCEPT !.job = NoJob]
             a3 == [a2 EXCEPT !.size = writers[w].size + n]
             a4 == [a3 EXCEPT !.frames = writers[w].frames + n]
  <1>0. r = a4  BY DEF Written
  <1>t. /\ "write" \in WriterSteps /\ "take" \in WriterSteps /\ "close" \in WriterSteps
        /\ "off" \in WriterSteps /\ "file" \in Errors /\ "card" \in Errors
        /\ None \in Nat /\ 0 \in Sizes /\ NoJob \in WriterJobs
    BY SizeAssumption DEF WriterSteps, Errors, None, Sizes, WriterJobs
  <1>s. writers[w].size + n \in Sizes /\ writers[w].frames + n \in Nat
    BY WriterFields, SizeAssumption DEF Sizes
  <1>1. /\ a1 \in WriterStates
        /\ a1.pc = "take" /\ a1.file = writers[w].file
        /\ a1.next = writers[w].next /\ a1.num = writers[w].num
        /\ a1.nextNum = writers[w].nextNum /\ a1.frames = writers[w].frames
        /\ a1.size = writers[w].size /\ a1.asked = writers[w].asked
        /\ a1.job = writers[w].job /\ a1.error = writers[w].error
    BY <1>t DEF WriterStates
  <1> HIDE DEF a1
  <1>2. /\ a2 \in WriterStates
        /\ a2.pc = "take" /\ a2.file = writers[w].file
        /\ a2.next = writers[w].next /\ a2.num = writers[w].num
        /\ a2.nextNum = writers[w].nextNum /\ a2.frames = writers[w].frames
        /\ a2.size = writers[w].size /\ a2.asked = writers[w].asked
        /\ a2.job = NoJob /\ a2.error = writers[w].error
    BY <1>t, <1>1 DEF WriterStates
  <1> HIDE DEF a2
  <1>3. /\ a3 \in WriterStates
        /\ a3.pc = "take" /\ a3.file = writers[w].file
        /\ a3.next = writers[w].next /\ a3.num = writers[w].num
        /\ a3.nextNum = writers[w].nextNum /\ a3.frames = writers[w].frames
        /\ a3.size = writers[w].size + n /\ a3.asked = writers[w].asked
        /\ a3.job = NoJob /\ a3.error = writers[w].error
    BY <1>t, <1>s, <1>2 DEF WriterStates
  <1> HIDE DEF a3
  <1>4. /\ a4 \in WriterStates
        /\ a4.pc = "take" /\ a4.file = writers[w].file
        /\ a4.next = writers[w].next /\ a4.num = writers[w].num
        /\ a4.nextNum = writers[w].nextNum /\ a4.frames = writers[w].frames + n
        /\ a4.size = writers[w].size + n /\ a4.asked = writers[w].asked
        /\ a4.job = NoJob /\ a4.error = writers[w].error
    BY <1>t, <1>s, <1>3 DEF WriterStates
  <1> HIDE DEF a4
  <1> QED BY <1>0, <1>4

\* a write fails
LEMMA CardFullIs ==
    ASSUME NEW w \in Writers, writers[w] \in WriterStates, NEW r,
           r = [writers[w] EXCEPT !.pc = "close", !.error = "card"]
    PROVE  /\ r \in WriterStates
           /\ r.pc = "close" /\ r.file = writers[w].file
           /\ r.next = writers[w].next /\ r.num = writers[w].num
           /\ r.nextNum = writers[w].nextNum /\ r.frames = writers[w].frames
           /\ r.size = writers[w].size /\ r.asked = writers[w].asked
           /\ r.job = writers[w].job /\ r.error = "card"
  <1> DEFINE a1 == [writers[w] EXCEPT !.pc = "close"]
             a2 == [a1 EXCEPT !.error = "card"]
  <1>0. r = a2  OBVIOUS
  <1>t. /\ "write" \in WriterSteps /\ "take" \in WriterSteps /\ "close" \in WriterSteps
        /\ "off" \in WriterSteps /\ "file" \in Errors /\ "card" \in Errors
        /\ None \in Nat /\ 0 \in Sizes /\ NoJob \in WriterJobs
    BY SizeAssumption DEF WriterSteps, Errors, None, Sizes, WriterJobs
  <1>1. /\ a1 \in WriterStates
        /\ a1.pc = "close" /\ a1.file = writers[w].file
        /\ a1.next = writers[w].next /\ a1.num = writers[w].num
        /\ a1.nextNum = writers[w].nextNum /\ a1.frames = writers[w].frames
        /\ a1.size = writers[w].size /\ a1.asked = writers[w].asked
        /\ a1.job = writers[w].job /\ a1.error = writers[w].error
    BY <1>t DEF WriterStates
  <1> HIDE DEF a1
  <1>2. /\ a2 \in WriterStates
        /\ a2.pc = "close" /\ a2.file = writers[w].file
        /\ a2.next = writers[w].next /\ a2.num = writers[w].num
        /\ a2.nextNum = writers[w].nextNum /\ a2.frames = writers[w].frames
        /\ a2.size = writers[w].size /\ a2.asked = writers[w].asked
        /\ a2.job = writers[w].job /\ a2.error = "card"
    BY <1>t, <1>1 DEF WriterStates
  <1> HIDE DEF a2
  <1> QED BY <1>0, <1>2

\* the end of a writer
LEMMA StepIs ==
    ASSUME NEW w \in Writers, writers[w] \in WriterStates, NEW pc \in WriterSteps, NEW r, r = [writers[w] EXCEPT !.pc = pc]
    PROVE  /\ r \in WriterStates
           /\ r.pc = pc /\ r.file = writers[w].file
           /\ r.next = writers[w].next /\ r.num = writers[w].num
           /\ r.nextNum = writers[w].nextNum /\ r.frames = writers[w].frames
           /\ r.size = writers[w].size /\ r.asked = writers[w].asked
           /\ r.job = writers[w].job /\ r.error = writers[w].error
  <1> DEFINE a1 == [writers[w] EXCEPT !.pc = pc]
  <1>0. r = a1  OBVIOUS
  <1>t. /\ "write" \in WriterSteps /\ "take" \in WriterSteps /\ "close" \in WriterSteps
        /\ "off" \in WriterSteps /\ "file" \in Errors /\ "card" \in Errors
        /\ None \in Nat /\ 0 \in Sizes /\ NoJob \in WriterJobs
    BY SizeAssumption DEF WriterSteps, Errors, None, Sizes, WriterJobs
  <1>1. /\ a1 \in WriterStates
        /\ a1.pc = pc /\ a1.file = writers[w].file
        /\ a1.next = writers[w].next /\ a1.num = writers[w].num
        /\ a1.nextNum = writers[w].nextNum /\ a1.frames = writers[w].frames
        /\ a1.size = writers[w].size /\ a1.asked = writers[w].asked
        /\ a1.job = writers[w].job /\ a1.error = writers[w].error
    BY <1>t DEF WriterStates
  <1> HIDE DEF a1
  <1> QED BY <1>0, <1>1

\* the answer of the manager
LEMMA NextIs ==
    ASSUME NEW w \in Writers, writers[w] \in WriterStates, NEW f \in Nat, NEW n \in Nat, NEW r,
           r = Answered(w, f, n)
    PROVE  /\ r \in WriterStates
           /\ r.pc = writers[w].pc /\ r.file = writers[w].file
           /\ r.next = f /\ r.num = writers[w].num
           /\ r.nextNum = n /\ r.frames = writers[w].frames
           /\ r.size = writers[w].size /\ r.asked = writers[w].asked
           /\ r.job = writers[w].job /\ r.error = writers[w].error
  <1> DEFINE a1 == [writers[w] EXCEPT !.next = f]
             a2 == [a1 EXCEPT !.nextNum = n]
  <1>0. r = a2  BY DEF Answered
  <1>t. /\ "write" \in WriterSteps /\ "take" \in WriterSteps /\ "close" \in WriterSteps
        /\ "off" \in WriterSteps /\ "file" \in Errors /\ "card" \in Errors
        /\ None \in Nat /\ 0 \in Sizes /\ NoJob \in WriterJobs
    BY SizeAssumption DEF WriterSteps, Errors, None, Sizes, WriterJobs
  <1>1. /\ a1 \in WriterStates
        /\ a1.pc = writers[w].pc /\ a1.file = writers[w].file
        /\ a1.next = f /\ a1.num = writers[w].num
        /\ a1.nextNum = writers[w].nextNum /\ a1.frames = writers[w].frames
        /\ a1.size = writers[w].size /\ a1.asked = writers[w].asked
        /\ a1.job = writers[w].job /\ a1.error = writers[w].error
    BY <1>t DEF WriterStates
  <1> HIDE DEF a1
  <1>2. /\ a2 \in WriterStates
        /\ a2.pc = writers[w].pc /\ a2.file = writers[w].file
        /\ a2.next = f /\ a2.num = writers[w].num
        /\ a2.nextNum = n /\ a2.frames = writers[w].frames
        /\ a2.size = writers[w].size /\ a2.asked = writers[w].asked
        /\ a2.job = writers[w].job /\ a2.error = writers[w].error
    BY <1>t, <1>1 DEF WriterStates
  <1> HIDE DEF a2
  <1> QED BY <1>0, <1>2

LEMMA SetIs ==
    ASSUME TypeInv, NEW w \in Writers, NEW r, Set(w, r)
    PROVE  writers'[w] = r /\ \A v \in Writers : v # w => writers'[v] = writers[v]
  BY DEF Set, TypeInv

\* The writers' steps, as changes of the queues and of the writer's state.

LEMMA NextHandleIs ==
    ASSUME TypeInv, NEW w \in Writers, NextHandle(w)
    PROVE  /\ writer_queues[w] # <<>> /\ Receive(w) /\ writers[w].pc = "take"
           /\ Head(writer_queues[w]) \in HandleJobs
           /\ writers' \in [Writers -> WriterStates]
           /\ \A v \in Writers : v # w => writers'[v] = writers[v]
           /\ writers'[w].pc = "take" /\ writers'[w].file = writers[w].file
           /\ writers'[w].next = Head(writer_queues[w]).file
           /\ writers'[w].num = writers[w].num
           /\ writers'[w].nextNum = Head(writer_queues[w]).num
           /\ writers'[w].frames = writers[w].frames /\ writers'[w].size = writers[w].size
           /\ writers'[w].job = writers[w].job /\ writers'[w].error = writers[w].error
           /\ UNCHANGED <<state, slots, recVars, mgr, mgr_queue, pool, job_count, files,
                          metaVars, runs>>
  <1>1. /\ writer_queues[w] # <<>> /\ Receive(w) /\ writers[w].pc = "take"
        /\ Head(writer_queues[w]).type = "handle"
        /\ Set(w, Answered(w, Head(writer_queues[w]).file, Head(writer_queues[w]).num))
        /\ UNCHANGED <<state, slots, recVars, mgr, mgr_queue, pool, job_count, files,
                       metaVars, runs>>
    BY DEF NextHandle, Ready, Answered
  <1>2. Head(writer_queues[w]) \in ToWriter  BY <1>1, ReceiveIs
  <1>3. Head(writer_queues[w]) \in HandleJobs  BY <1>1, <1>2 DEF ToWriter, WriteJobs
  <1>4. PICK f \in Nat, n \in Nat : f = Head(writer_queues[w]).file
                                    /\ n = Head(writer_queues[w]).num
    BY <1>3 DEF HandleJobs
  <1>5. PICK r : r = Answered(w, f, n)  OBVIOUS
  <1>6. Set(w, r)  BY <1>1, <1>4, <1>5
  <1>7. writers[w] \in WriterStates  BY WriterIs
  <1>8. /\ r \in WriterStates
        /\ r.pc = writers[w].pc /\ r.file = writers[w].file
        /\ r.next = f /\ r.num = writers[w].num
        /\ r.nextNum = n /\ r.frames = writers[w].frames /\ r.size = writers[w].size
        /\ r.job = writers[w].job /\ r.error = writers[w].error
    BY <1>5, <1>7, NextIs
  <1>9. writers'[w] = r /\ \A v \in Writers : v # w => writers'[v] = writers[v]
    BY <1>6, SetIs
  <1>10. writers' \in [Writers -> WriterStates]  BY <1>6, <1>8, SetType
  <1> QED BY <1>1, <1>3, <1>4, <1>8, <1>9, <1>10

\* the writer's new state in a step that takes a block
LEMMA TakesIs ==
    ASSUME TypeInv, CountInv, WriterInv, NEW w \in Writers,
           TakeFits(w) \/ TakeAsks(w) \/ TakeSwitches(w)
    PROVE  /\ TakeJob(w) /\ Ready(w, "write")
           /\ writers' \in [Writers -> WriterStates]
           /\ \A v \in Writers : v # w => writers'[v] = writers[v]
           /\ writers'[w].job = Head(writer_queues[w])
           /\ UNCHANGED <<slots, recVars, mgr, files, metaVars, runs>>
           /\ \/ /\ TakeFits(w) /\ writers'[w].pc = "write" /\ UNCHANGED <<state, mgr_queue, pool>>
                 /\ writers'[w].file = writers[w].file /\ writers'[w].next = writers[w].next
                 /\ writers'[w].num = writers[w].num /\ writers'[w].nextNum = writers[w].nextNum
                 /\ writers'[w].frames = writers[w].frames
                 /\ writers'[w].size = writers[w].size
                 /\ writers'[w].error = "no"
              \/ /\ TakeAsks(w) /\ writers'[w].pc = "write" /\ UNCHANGED state
                 /\ pool > 0 /\ pool' = pool - 1
                 /\ mgr_queue' = Append(mgr_queue, [type |-> "handle", writer |-> w,
                                            file |-> None, num |-> writers[w].num])
                 /\ [type |-> "handle", writer |-> w, file |-> None, num |-> writers[w].num]
                       \in HandleJobs
                 /\ writers'[w].file = writers[w].file /\ writers'[w].next = writers[w].next
                 /\ writers'[w].num = writers[w].num /\ writers'[w].nextNum = writers[w].nextNum
                 /\ writers'[w].frames = writers[w].frames
                 /\ writers'[w].size = writers[w].size
                 /\ writers'[w].error = "no"
              \/ /\ TakeSwitches(w) /\ pool > 0 /\ pool' = pool - 1
                 /\ mgr_queue' = Append(mgr_queue,
                       [type |-> "close", writer |-> w, file |-> writers[w].file,
                        num |-> writers[w].num, frames |-> writers[w].frames])
                 /\ [type |-> "close", writer |-> w, file |-> writers[w].file,
                     num |-> writers[w].num, frames |-> writers[w].frames] \in CloseJobs
                 /\ \/ /\ writers[w].next = None /\ state' = "finishing"
                       /\ writers'[w].pc = "close" /\ writers'[w].error = "file"
                       /\ writers'[w].file = writers[w].file /\ writers'[w].next = None
                       /\ writers'[w].num = writers[w].num
                       /\ writers'[w].nextNum = writers[w].nextNum
                       /\ writers'[w].frames = writers[w].frames
                       /\ writers'[w].size = writers[w].size
                      
                    \/ /\ writers[w].next # None /\ UNCHANGED state
                       /\ writers'[w].pc = "write" /\ writers'[w].error = "no"
                       /\ writers'[w].file = writers[w].next /\ writers'[w].next = None
                       /\ writers'[w].num = writers[w].nextNum
                       /\ writers'[w].frames = 0 /\ writers'[w].size = 0
  <1> DEFINE h == Head(writer_queues[w])
  <1>1. TakeJob(w)  BY DEF TakeFits, TakeAsks, TakeSwitches
  <1>2. Ready(w, "write")  BY <1>1 DEF TakeJob
  <1>3. /\ h \in WriteJobs /\ WithJob(w) \in WriterStates /\ writers[w].pc = "take"
        /\ writers[w].error = "no"
    BY <1>1, <1>2, Taken
  <1>4. h \in WriterJobs  BY <1>3 DEF WriterJobs
  <1>5. writers[w] \in WriterStates  BY WriterIs
  <1>6. WithJob(w) = Takes(w, h)  BY DEF WithJob, Takes
  <1> HIDE DEF h
  <1>7. UNCHANGED <<slots, recVars, mgr, files, metaVars, runs>>
    BY DEF TakeFits, TakeAsks, TakeSwitches
  <1>8. CASE TakeFits(w)
    <2>1. Set(w, WithJob(w)) /\ UNCHANGED <<state, mgr_queue, pool>>
      BY <1>8 DEF TakeFits
    <2>r. PICK r : r = Takes(w, h)  OBVIOUS
    <2>2. Set(w, r)  BY <2>1, <2>r, <1>6
    <2>3. /\ r \in WriterStates /\ r.pc = "write" /\ r.job = h
          /\ r.file = writers[w].file /\ r.next = writers[w].next
          /\ r.num = writers[w].num /\ r.nextNum = writers[w].nextNum
          /\ r.frames = writers[w].frames /\ r.size = writers[w].size
          /\ r.asked = writers[w].asked /\ r.error = writers[w].error
      BY <1>4, <1>5, <2>r, WithJobIs
    <2>4. writers'[w] = r /\ \A v \in Writers : v # w => writers'[v] = writers[v]
      BY <2>2, SetIs
    <2>5. writers' \in [Writers -> WriterStates]  BY <2>2, <2>3, SetType
    <2> QED BY <1>1, <1>2, <1>3, <1>7, <1>8, <2>1, <2>3, <2>4, <2>5 DEF h
  <1>9. CASE TakeAsks(w)
    <2>r. PICK r : r = Asks(w, h)  OBVIOUS
    <2> DEFINE j == [type |-> "handle", writer |-> w, file |-> None, num |-> writers[w].num]
    <2>1. /\ Set(w, [WithJob(w) EXCEPT !.asked = TRUE]) /\ UNCHANGED state
          /\ pool > 0 /\ pool' = pool - 1 /\ mgr_queue' = Append(mgr_queue, j)
      BY <1>9 DEF TakeAsks
    <2>2. Set(w, r)  BY <2>1, <2>r, <1>6 DEF Asks
    <2>3. /\ r \in WriterStates
          /\ r.pc = "write" /\ r.file = writers[w].file
          /\ r.next = writers[w].next /\ r.num = writers[w].num
          /\ r.nextNum = writers[w].nextNum /\ r.frames = writers[w].frames
          /\ r.size = writers[w].size
          /\ r.job = h /\ r.error = writers[w].error
      BY <1>4, <1>5, <2>r, AsksIs
    <2>3a. r.asked = TRUE  BY <1>4, <1>5, <2>r, AskedIs
    <2>6. writers[w].num \in Nat  BY <1>5, WriterFields
    <2>7. j \in HandleJobs  BY <2>6 DEF HandleJobs, None
    <2> HIDE DEF j
    <2>4. writers'[w] = r /\ \A v \in Writers : v # w => writers'[v] = writers[v]
      BY <2>2, SetIs
    <2>5. writers' \in [Writers -> WriterStates]  BY <2>2, <2>3, SetType
    <2> QED BY <1>1, <1>2, <1>3, <1>7, <1>9, <2>1, <2>3, <2>3a, <2>4, <2>5, <2>7 DEF h, j
  <1>10. CASE TakeSwitches(w)
    <2> DEFINE j == [type |-> "close", writer |-> w, file |-> writers[w].file,
                     num |-> writers[w].num, frames |-> writers[w].frames]
    <2>1. pool > 0 /\ pool' = pool - 1 /\ mgr_queue' = Append(mgr_queue, j)
      BY <1>10 DEF TakeSwitches
    <2>2. writers[w].num \in Nat /\ writers[w].file \in Nat /\ writers[w].frames \in Nat
      BY <1>5, WriterFields
    <2>3. j \in CloseJobs  BY <2>2 DEF CloseJobs
    <2> HIDE DEF j
    <2>4. CASE writers[w].next = None
      <3>r. PICK r : r = NoFile(w, h)  OBVIOUS
      <3>1. Set(w, [WithJob(w) EXCEPT !.pc = "close", !.error = "file"]) /\ state' = "finishing"
        BY <1>10, <2>4 DEF TakeSwitches
      <3>2. Set(w, r)  BY <3>1, <3>r, <1>6 DEF NoFile
      <3>3. /\ r \in WriterStates /\ r.pc = "close" /\ r.job = h
            /\ r.file = writers[w].file /\ r.next = writers[w].next
            /\ r.num = writers[w].num /\ r.nextNum = writers[w].nextNum
            /\ r.frames = writers[w].frames /\ r.size = writers[w].size
            /\ r.asked = writers[w].asked /\ r.error = "file"
        BY <1>4, <1>5, <3>r, NoFileIs
      <3>4. writers'[w] = r /\ \A v \in Writers : v # w => writers'[v] = writers[v]
        BY <3>2, SetIs
      <3>5. writers' \in [Writers -> WriterStates]  BY <3>2, <3>3, SetType
      <3> QED BY <1>1, <1>2, <1>3, <1>7, <1>10, <2>1, <2>3, <2>4, <3>1, <3>3, <3>4, <3>5
          DEF h, j
    <2>5. CASE writers[w].next # None
      <3> DEFINE r == Switched(w)
      <3>1. Set(w, r) /\ UNCHANGED state
        BY <1>10, <2>5 DEF TakeSwitches
      <3>3. /\ r \in WriterStates /\ r.pc = "write" /\ r.job = h
            /\ r.file = writers[w].next /\ r.num = writers[w].nextNum /\ r.next = None
            /\ r.frames = 0 /\ r.size = 0 /\ r.asked = FALSE /\ r.error = writers[w].error
        BY <1>3, <1>5, SwitchedIs DEF h
      <3> HIDE DEF r
      <3>4. writers'[w] = r /\ \A v \in Writers : v # w => writers'[v] = writers[v]
        BY <3>1, SetIs
      <3>5. writers' \in [Writers -> WriterStates]  BY <3>1, <3>3, SetType
      <3> QED BY <1>1, <1>2, <1>3, <1>7, <1>10, <2>1, <2>3, <2>5, <3>1, <3>3, <3>4, <3>5
          DEF h, j
    <2> QED BY <2>4, <2>5
  <1> QED BY <1>8, <1>9, <1>10
\* a job of length 0 ends the writer
LEMMA AbortIs ==
    ASSUME TypeInv, CountInv, WriterInv, NEW w \in Writers, TakeAbort(w)
    PROVE  /\ writer_queues[w] # <<>> /\ Receive(w) /\ writers[w].pc = "take"
           /\ Head(writer_queues[w]) \in WriteJobs /\ Head(writer_queues[w]).len = 0
           /\ job_count[w] \in {0, 1} /\ job_count' = [job_count EXCEPT ![w] = @ - 1]
           /\ job_count' \in [Queues -> -1..1]
           /\ pool' = pool + 1
           /\ writers' \in [Writers -> WriterStates]
           /\ \A v \in Writers : v # w => writers'[v] = writers[v]
           /\ writers'[w].pc = "close" /\ writers'[w].file = writers[w].file
           /\ writers'[w].next = writers[w].next /\ writers'[w].num = writers[w].num
           /\ writers'[w].nextNum = writers[w].nextNum
           /\ writers'[w].frames = writers[w].frames /\ writers'[w].size = writers[w].size
           /\ writers'[w].job = writers[w].job /\ writers'[w].error = writers[w].error
           /\ UNCHANGED <<state, slots, recVars, mgr, mgr_queue, files, metaVars, runs>>
  <1>1. /\ writer_queues[w] # <<>> /\ Receive(w) /\ writers[w].pc = "take"
        /\ Head(writer_queues[w]).type = "write" /\ Head(writer_queues[w]).len = 0
        /\ job_count' = [job_count EXCEPT ![w] = @ - 1] /\ pool' = pool + 1
        /\ Set(w, [writers[w] EXCEPT !.pc = "close"])
        /\ UNCHANGED <<state, slots, recVars, mgr, mgr_queue, files, metaVars, runs>>
    BY DEF TakeAbort, Ready
  <1>2. Head(writer_queues[w]) \in WriteJobs
    BY <1>1, ReceiveIs DEF ToWriter, HandleJobs
  <1>3. job_count[w] \in {0, 1}  BY <1>1 DEF CountInv, CountOf
  <1>4. job_count' \in [Queues -> -1..1]
    <2>1. job_count \in [Queues -> -1..1] /\ w \in Queues  BY WriterIs DEF TypeInv
    <2>2. job_count[w] - 1 \in -1..1  BY <1>3
    <2> QED BY <1>1, <2>1, <2>2
  <1>5. writers[w] \in WriterStates /\ "close" \in WriterSteps  BY WriterIs DEF WriterSteps
  <1>6. PICK r : r = [writers[w] EXCEPT !.pc = "close"]  OBVIOUS
  <1>7. Set(w, r)  BY <1>1, <1>6
  <1>8. /\ r \in WriterStates
        /\ r.pc = "close" /\ r.file = writers[w].file
        /\ r.next = writers[w].next /\ r.num = writers[w].num
        /\ r.nextNum = writers[w].nextNum /\ r.frames = writers[w].frames
        /\ r.size = writers[w].size
        /\ r.job = writers[w].job /\ r.error = writers[w].error
    BY <1>5, <1>6, StepIs
  <1>9. writers'[w] = r /\ \A v \in Writers : v # w => writers'[v] = writers[v]
    BY <1>7, SetIs
  <1>10. writers' \in [Writers -> WriterStates]  BY <1>7, <1>8, SetType
  <1> QED BY <1>1, <1>2, <1>3, <1>4, <1>8, <1>9, <1>10

LEMMA WriteIs ==
    ASSUME IInv, NEW w \in Writers, WriteBlock(w)
    PROVE  /\ writers[w].pc = "write" /\ writers[w].job \in WriteJobs
           /\ writers[w].job.len \in Nat \ {0} /\ writers[w].file \in 1..Len(files)
           /\ writers[w].error = "no"
           /\ FramesOf(writers[w].job) \in Seq(0..MaxFrames)
           /\ Len(FramesOf(writers[w].job)) = writers[w].job.len
           /\ files' = [files EXCEPT ![writers[w].file].data = @ \o FramesOf(writers[w].job)]
           /\ files' \in Seq(Files) /\ Len(files') = Len(files)
           /\ mgr_queue' = Append(mgr_queue, writers[w].job)
           /\ writers' \in [Writers -> WriterStates]
           /\ \A v \in Writers : v # w => writers'[v] = writers[v]
           /\ writers'[w].pc = "take" /\ writers'[w].file = writers[w].file
           /\ writers'[w].next = writers[w].next /\ writers'[w].num = writers[w].num
           /\ writers'[w].nextNum = writers[w].nextNum
           /\ writers'[w].frames = writers[w].frames + writers[w].job.len
           /\ writers'[w].size = writers[w].size + writers[w].job.len
           /\ writers'[w].job = NoJob /\ writers'[w].error = "no"
           /\ UNCHANGED <<state, slots, recVars, mgr, writer_queues, pool, job_count,
                          metaVars, runs>>
  <1> DEFINE job == writers[w].job
  <1>1. /\ writers[w].pc = "write"
        /\ files' = [files EXCEPT ![writers[w].file].data = @ \o FramesOf(job)]
        /\ mgr_queue' = Append(mgr_queue, job)
        /\ Set(w, [writers[w] EXCEPT !.pc = "take", !.job = NoJob,
                        !.size = @ + job.len, !.frames = @ + job.len])
        /\ UNCHANGED <<state, slots, recVars, mgr, writer_queues, pool, job_count,
                       metaVars, runs>>
    BY DEF WriteBlock
  <1>2. /\ writers[w].job.type = "write" /\ writers[w].job.len > 0
        /\ writers[w].size + writers[w].job.len <= ChunkSize
        /\ writers[w].error = "no" /\ writers[w].file \in 1..Len(files) /\ Alive(w)
    BY <1>1 DEF IInv, WriterInv, Alive
  <1>3. /\ job \in WriteJobs /\ FramesOf(job) \in Seq(0..MaxFrames)
        /\ Len(FramesOf(job)) = job.len
    BY <1>2, BlockFrames
  <1>4. job.len \in Nat \ {0}
    <2>1. job.len \in 0..ChunkSize  BY <1>3 DEF WriteJobs
    <2> QED BY <2>1, <1>2, SizeAssumption
  <1>t. TypeInv /\ files \in Seq(Files)  BY DEF IInv, TypeInv
  <1>5. files' \in Seq(Files) /\ Len(files') = Len(files)
    <2>1. PICK i \in Nat : i = writers[w].file  BY <1>2
    <2>2. PICK d \in Seq(0..MaxFrames) : d = FramesOf(job)  BY <1>3
    <2>3. files' = [files EXCEPT ![i].data = @ \o d]  BY <1>1, <2>1, <2>2
    <2> QED BY <1>t, <2>3, DataStep
  <1>6. writers[w] \in WriterStates  BY <1>t, WriterIs
  <1>7. PICK n \in Nat : n = job.len  BY <1>4
  <1>8. PICK r : r = Written(w, n)  OBVIOUS
  <1>9. Set(w, r)  BY <1>1, <1>7, <1>8 DEF Written
  <1>10. /\ r \in WriterStates
         /\ r.pc = "take" /\ r.file = writers[w].file
         /\ r.next = writers[w].next /\ r.num = writers[w].num
         /\ r.nextNum = writers[w].nextNum /\ r.frames = writers[w].frames + n
         /\ r.size = writers[w].size + n
         /\ r.job = NoJob /\ r.error = writers[w].error
    BY <1>2, <1>6, <1>7, <1>8, WrittenIs
  <1>11. writers'[w] = r /\ \A v \in Writers : v # w => writers'[v] = writers[v]
    BY <1>9, <1>t, SetIs
  <1>12. writers' \in [Writers -> WriterStates]  BY <1>9, <1>10, <1>t, SetType
  <1> QED BY <1>1, <1>2, <1>3, <1>4, <1>5, <1>7, <1>10, <1>11, <1>12

LEMMA FailsIs ==
    ASSUME IInv, NEW w \in Writers, WriteFails(w)
    PROVE  /\ writers[w].pc = "write" /\ writers[w].job \in WriteJobs
           /\ writers[w].job.len \in Nat \ {0} /\ writers[w].file \in 1..Len(files)
           /\ writers[w].error = "no"
           /\ \E d \in Seq(0..MaxFrames) :
                 /\ Len(d) <= writers[w].job.len
                 /\ \A i \in 1..Len(d) : d[i] = FramesOf(writers[w].job)[i]
                 /\ files' = [files EXCEPT ![writers[w].file].data = @ \o d]
           /\ files' \in Seq(Files) /\ Len(files') = Len(files)
           /\ writers' \in [Writers -> WriterStates]
           /\ \A v \in Writers : v # w => writers'[v] = writers[v]
           /\ writers'[w].pc = "close" /\ writers'[w].file = writers[w].file
           /\ writers'[w].next = writers[w].next /\ writers'[w].num = writers[w].num
           /\ writers'[w].nextNum = writers[w].nextNum
           /\ writers'[w].frames = writers[w].frames /\ writers'[w].size = writers[w].size
           /\ writers'[w].job = writers[w].job /\ writers'[w].error = "card"
           /\ state' = "finishing"
           /\ UNCHANGED <<slots, recVars, mgr, mgr_queue, writer_queues, pool, job_count,
                          metaVars, runs>>
  <1> DEFINE job == writers[w].job
  <1>1. /\ writers[w].pc = "write" /\ state' = "finishing"
        /\ \E n \in 0..job.len : files' = [files EXCEPT
              ![writers[w].file].data = @ \o SubSeq(FramesOf(job), 1, n)]
        /\ Set(w, [writers[w] EXCEPT !.pc = "close", !.error = "card"])
        /\ UNCHANGED <<slots, recVars, mgr, mgr_queue, writer_queues, pool, job_count,
                       metaVars, runs>>
    BY DEF WriteFails
  <1>2. /\ writers[w].job.type = "write" /\ writers[w].job.len > 0
        /\ writers[w].error = "no" /\ writers[w].file \in 1..Len(files) /\ Alive(w)
    BY <1>1 DEF IInv, WriterInv, Alive
  <1>3. /\ job \in WriteJobs /\ FramesOf(job) \in Seq(0..MaxFrames)
        /\ Len(FramesOf(job)) = job.len
    BY <1>2, BlockFrames
  <1>4. job.len \in Nat \ {0}
    <2>1. job.len \in 0..ChunkSize  BY <1>3 DEF WriteJobs
    <2> QED BY <2>1, <1>2, SizeAssumption
  <1>t. TypeInv /\ files \in Seq(Files)  BY DEF IInv, TypeInv
  <1>d. PICK n \in 0..job.len : files' = [files EXCEPT
              ![writers[w].file].data = @ \o SubSeq(FramesOf(job), 1, n)]
    BY <1>1
  <1>s. PICK d \in Seq(0..MaxFrames) : /\ d = SubSeq(FramesOf(job), 1, n) /\ Len(d) = n
                                       /\ \A i \in 1..n : d[i] = FramesOf(job)[i]
    <2> DEFINE F == 0..MaxFrames
    <2>1. PICK x \in Seq(F) : x = FramesOf(job) /\ Len(x) = job.len  BY <1>3
    <2> HIDE DEF F
    <2>2. n \in Nat /\ n <= Len(x)  BY <2>1, <1>4
    <2>3. /\ SubSeq(x, 1, n) \in Seq(F) /\ Len(SubSeq(x, 1, n)) = n
          /\ \A i \in 1..n : SubSeq(x, 1, n)[i] = x[i]
      BY <2>1, <2>2
    <2> QED BY <2>1, <2>3 DEF F
  <1>f. files' = [files EXCEPT ![writers[w].file].data = @ \o d]  BY <1>d, <1>s
  <1>5. files' \in Seq(Files) /\ Len(files') = Len(files)
    <2>1. PICK i \in Nat : i = writers[w].file  BY <1>2
    <2>3. files' = [files EXCEPT ![i].data = @ \o d]  BY <1>f, <2>1
    <2> QED BY <1>t, <2>3, DataStep
  <1>6. writers[w] \in WriterStates  BY <1>t, WriterIs
  <1>8. PICK r : r = [writers[w] EXCEPT !.pc = "close", !.error = "card"]
    OBVIOUS
  <1>9. Set(w, r)  BY <1>1, <1>8
  <1>10. /\ r \in WriterStates
         /\ r.pc = "close" /\ r.file = writers[w].file
         /\ r.next = writers[w].next /\ r.num = writers[w].num
         /\ r.nextNum = writers[w].nextNum /\ r.frames = writers[w].frames
         /\ r.size = writers[w].size
         /\ r.job = writers[w].job /\ r.error = "card"
    BY <1>6, <1>8, CardFullIs, ZenonT(60)
  <1>11. writers'[w] = r /\ \A v \in Writers : v # w => writers'[v] = writers[v]
    BY <1>9, <1>t, SetIs
  <1>12. writers' \in [Writers -> WriterStates]  BY <1>9, <1>10, <1>t, SetType
  <1>13. Len(d) <= job.len /\ \A i \in 1..Len(d) : d[i] = FramesOf(job)[i]
    BY <1>s, <1>4
  <1> QED BY <1>1, <1>2, <1>3, <1>4, <1>5, <1>f, <1>10, <1>11, <1>12, <1>13

LEMMA CloseIs ==
    ASSUME TypeInv, WriterInv, NEW w \in Writers, CloseFile(w)
    PROVE  /\ writers[w].pc = "close" /\ writers[w].file \in 1..Len(files)
           /\ writers[w].num \in Nat /\ writers[w].frames \in Nat
           /\ files' = Closed(writers[w].file, writers[w].num, writers[w].frames)
           /\ files' \in Seq(Files) /\ Len(files') = Len(files)
           /\ writers' \in [Writers -> WriterStates]
           /\ \A v \in Writers : v # w => writers'[v] = writers[v]
           /\ writers'[w].pc = "off" /\ writers'[w].file = writers[w].file
           /\ writers'[w].next = writers[w].next /\ writers'[w].num = writers[w].num
           /\ writers'[w].nextNum = writers[w].nextNum
           /\ writers'[w].frames = writers[w].frames /\ writers'[w].size = writers[w].size
           /\ writers'[w].job = writers[w].job /\ writers'[w].error = writers[w].error
           /\ UNCHANGED <<state, slots, recVars, mgr, mgr_queue, writer_queues, pool,
                          job_count, metaVars, runs>>
  <1>1. /\ writers[w].pc = "close"
        /\ Set(w, [writers[w] EXCEPT !.pc = "off"])
        /\ UNCHANGED <<state, slots, recVars, mgr, mgr_queue, writer_queues, pool,
                       job_count, metaVars, runs>>
    BY DEF CloseFile
  <1>2. writers[w].file \in 1..Len(files)  BY <1>1 DEF WriterInv, Alive
  <1>3. files' = Closed(writers[w].file, writers[w].num, writers[w].frames)
    BY <1>2 DEF CloseFile, None
  <1>4. writers[w] \in WriterStates /\ "off" \in WriterSteps  BY WriterIs DEF WriterSteps
  <1>5. writers[w].num \in Nat /\ writers[w].frames \in Nat  BY <1>4, WriterFields
  <1>6. files' \in Seq(Files) /\ Len(files') = Len(files)
    <2>1. files \in Seq(Files)  BY DEF TypeInv
    <2>2. PICK i \in Nat, n \in Nat, c \in Nat :
              i = writers[w].file /\ n = writers[w].num /\ c = writers[w].frames
      BY <1>2, <1>5
    <2>3. files' = Closed(i, n, c)  BY <1>3, <2>2
    <2>4. Closed(i, n, c) \in Seq(Files) /\ Len(Closed(i, n, c)) = Len(files)
      BY <2>1, FileStep
    <2> QED BY <2>3, <2>4
  <1>8. PICK r : r = [writers[w] EXCEPT !.pc = "off"]  OBVIOUS
  <1>9. Set(w, r)  BY <1>1, <1>8
  <1>10. /\ r \in WriterStates
         /\ r.pc = "off" /\ r.file = writers[w].file
         /\ r.next = writers[w].next /\ r.num = writers[w].num
         /\ r.nextNum = writers[w].nextNum /\ r.frames = writers[w].frames
         /\ r.size = writers[w].size
         /\ r.job = writers[w].job /\ r.error = writers[w].error
    BY <1>4, <1>8, StepIs
  <1>11. writers'[w] = r /\ \A v \in Writers : v # w => writers'[v] = writers[v]
    BY <1>9, SetIs
  <1>12. writers' \in [Writers -> WriterStates]  BY <1>9, <1>10, SetType
  <1> QED BY <1>1, <1>2, <1>3, <1>5, <1>6, <1>10, <1>11, <1>12

LEMMA WriterType == ASSUME IInv, NEW w \in Writers, Writer(w) PROVE TypeInv'
  <1>0. TypeInv /\ WriterInv /\ CountInv  BY DEF IInv
  <1>1. CASE NextHandle(w)
    <2>1. /\ writer_queues[w] # <<>> /\ Receive(w)
          /\ writers' \in [Writers -> WriterStates]
          /\ UNCHANGED <<state, slots, recVars, mgr, mgr_queue, pool, job_count, files,
                         metaVars, runs>>
      BY <1>0, <1>1, NextHandleIs
    <2>2. writer_queues' \in [Queues -> Seq(ToWriter)]  BY <1>0, <2>1, ReceiveIs
    <2> QED BY <1>0, <2>1, <2>2 DEF TypeInv, recVars, metaVars
  <1>2. CASE TakeAbort(w)
    <2>1. /\ writer_queues[w] # <<>> /\ Receive(w)
          /\ job_count' \in [Queues -> -1..1] /\ pool' = pool + 1
          /\ writers' \in [Writers -> WriterStates]
          /\ UNCHANGED <<state, slots, recVars, mgr, mgr_queue, files, metaVars, runs>>
      BY <1>0, <1>2, AbortIs
    <2>2. writer_queues' \in [Queues -> Seq(ToWriter)]  BY <1>0, <2>1, ReceiveIs
    <2> QED BY <1>0, <2>1, <2>2 DEF TypeInv, recVars, metaVars
  <1>3. CASE TakeFits(w) \/ TakeAsks(w) \/ TakeSwitches(w)
    <2>1. /\ TakeJob(w) /\ Ready(w, "write") /\ writers' \in [Writers -> WriterStates]
          /\ UNCHANGED <<slots, recVars, mgr, files, metaVars, runs>>
          /\ state' \in {state, "finishing"}
      BY <1>0, <1>3, TakesIs
    <2>2. /\ job_count' \in [Queues -> -1..1] /\ writer_queues[w] # <<>> /\ Receive(w)
      BY <1>0, <2>1, Taken
    <2>3. writer_queues' \in [Queues -> Seq(ToWriter)]  BY <1>0, <2>2, ReceiveIs
    <2>4. pool' \in Nat /\ mgr_queue' \in Seq(ToManager)
      <3>1. CASE UNCHANGED <<mgr_queue, pool>>  BY <3>1, <1>0 DEF TypeInv
      <3>2. CASE pool > 0 /\ pool' = pool - 1
                   /\ \E j \in HandleJobs \cup CloseJobs : mgr_queue' = Append(mgr_queue, j)
        <4>1. PICK j \in HandleJobs \cup CloseJobs : mgr_queue' = Append(mgr_queue, j)
          BY <3>2
        <4>2. j \in ToManager  BY DEF ToManager
        <4>3. mgr_queue' \in Seq(ToManager)  BY <1>0, <4>1, <4>2, SentIs
        <4> QED BY <3>2, <4>3, <1>0 DEF TypeInv
      <3>3. \/ UNCHANGED <<mgr_queue, pool>>
            \/ pool > 0 /\ pool' = pool - 1
                  /\ \E j \in HandleJobs \cup CloseJobs : mgr_queue' = Append(mgr_queue, j)
        BY <1>0, <1>3, TakesIs, Zenon
      <3> QED BY <3>1, <3>2, <3>3
    <2> QED BY <1>0, <2>1, <2>2, <2>3, <2>4 DEF TypeInv, recVars, metaVars
  <1>4. CASE WriteBlock(w)
    <2>1. /\ writers[w].job \in WriteJobs /\ files' \in Seq(Files)
          /\ mgr_queue' = Append(mgr_queue, writers[w].job)
          /\ writers' \in [Writers -> WriterStates]
          /\ UNCHANGED <<state, slots, recVars, mgr, writer_queues, pool, job_count,
                         metaVars, runs>>
      BY <1>4, WriteIs
    <2>2. mgr_queue' \in Seq(ToManager)
      <3>1. PICK j \in ToManager : j = writers[w].job  BY <2>1 DEF ToManager
      <3>2. mgr_queue' = Append(mgr_queue, j)  BY <2>1, <3>1
      <3> QED BY <1>0, <3>2, SentIs
    <2> QED BY <1>0, <2>1, <2>2 DEF TypeInv, recVars, metaVars
  <1>5. CASE WriteFails(w)
    <2>1. /\ files' \in Seq(Files) /\ state' = "finishing"
          /\ writers' \in [Writers -> WriterStates]
          /\ UNCHANGED <<slots, recVars, mgr, mgr_queue, writer_queues, pool, job_count,
                         metaVars, runs>>
      BY <1>5, FailsIs
    <2> QED BY <1>0, <2>1 DEF TypeInv, recVars, metaVars
  <1>6. CASE CloseFile(w)
    <2>1. /\ files' \in Seq(Files) /\ writers' \in [Writers -> WriterStates]
          /\ UNCHANGED <<state, slots, recVars, mgr, mgr_queue, writer_queues, pool,
                         job_count, metaVars, runs>>
      BY <1>0, <1>6, CloseIs
    <2> QED BY <1>0, <2>1 DEF TypeInv, recVars, metaVars
  <1> QED BY <1>1, <1>2, <1>3, <1>4, <1>5, <1>6 DEF Writer

-----------------------------------------------------------------------------
(* The types are kept                                                      *)

LEMMA TypeStep == ASSUME IInv, [Next]_vars PROVE TypeInv'
  <1>0. TypeInv  BY DEF IInv
  <1>1. CASE Manager
    <2>1. CASE Prepare \/ OpenFiles \/ Begin \/ MgrLoop \/ CleanUp
      BY <1>0, <2>1, ManagerStartType
    <2>2. CASE FillQueue  BY <1>0, <2>2, FillType
    <2>3. CASE NothingReturned \/ WriteReturned \/ HandleWanted \/ CloseWanted
      BY <1>0, <2>3, HandleType
    <2>4. CASE Stopping \/ Drain \/ AbortWriters \/ Flush
      BY <1>0, <2>4, ManagerEndType
    <2> QED BY <1>1, <2>1, <2>2, <2>3, <2>4 DEF Manager
  <1>2. CASE \E w \in Writers : Writer(w)  BY <1>2, WriterType
  <1>3. CASE Camera \/ DmaDone \/ TakeSlot \/ ReleaseSlot
    BY <1>0, <1>3, CameraType
  <1>4. CASE PressRec  BY <1>0, <1>4, ManagerStartType
  <1>5. CASE UNCHANGED vars  BY <1>0, <1>5 DEF vars, TypeInv, recVars, metaVars
  <1> QED BY <1>1, <1>2, <1>3, <1>4, <1>5 DEF Next

(* The flow of the manager is kept                                         *)

LEMMA NoThreads == Threads = 0 => \A w \in Writers : ~Alive(w)
  <1> DEFINE S == {w \in Writers : Alive(w)}
  <1>1. IsFiniteSet(Writers)
    <2>1. NWriters - 1 \in Int  BY WriterAssumption
    <2> QED BY <2>1, FS_Interval DEF Writers
  <1>2. IsFiniteSet(S)  BY <1>1, FS_Subset
  <1>3. Cardinality(S) = 0 => S = {}  BY <1>2, FS_EmptySet
  <1> QED BY <1>3 DEF Threads

\* what FlowInv needs of a step that the manager and the writers take no part in
LEMMA FlowKept ==
    ASSUME FlowInv, UNCHANGED <<mgr, mgr_queue, writer_queues, writers>>,
           state' \in {state, "finishing"}, state' = "finishing" => state # "idle",
           dma_active' => dma_active \/ state = "recording",
           mgr.pc = "open" => \A s \in Slots : slots'[s].st \in {slots[s].st, "locked"},
           \A s \in Slots : slots'[s].st = "writing" => slots[s].st = "writing"
    PROVE  FlowInv'
  <1>1. state' = "idle" => mgr'.pc = "off"  BY DEF FlowInv
  <1>2. state' = "recording" => mgr'.pc \notin Before \cup {"begin"}  BY DEF FlowInv
  <1>3. dma_active' => mgr'.pc \notin Before \cup {"begin"}  BY DEF FlowInv
  <1>4. mgr'.pc \in Before \cup {"cleanup"} => \A w \in Writers : ~Alive(w)'
    BY DEF FlowInv, Alive
  <1>5. mgr'.pc \notin {"fill", "handle"} => mgr'.job = NoJob  BY DEF FlowInv
  <1>6. mgr'.pc = "fill" => mgr'.at \in Writers  BY DEF FlowInv
  <1>7. mgr'.pc \in {"abort", "flush"} => \A s \in Slots : slots'[s].st # "writing"
    BY DEF FlowInv
  <1>8. mgr'.pc = "open" =>
          /\ \A s \in Slots : slots'[s].st \in {"free", "locked"}
          /\ mgr_queue' = <<>> /\ writer_queues' = [q \in Queues |-> <<>>]
    BY DEF FlowInv
  <1> QED BY <1>1, <1>2, <1>3, <1>4, <1>5, <1>6, <1>7, <1>8 DEF FlowInv, Before

\* what the vsync handler and the modules do to the slots
LEMMA CameraSlots ==
    ASSUME IInv, Camera \/ DmaDone \/ TakeSlot \/ ReleaseSlot
    PROVE  /\ UNCHANGED <<mgr, mgr_queue, writer_queues, writers, files, pool, job_count, runs>>
           /\ state' \in {state, "finishing"} /\ (state' = "finishing" => state # "idle")
           /\ dma_active' => dma_active \/ state = "recording"
           /\ mgr.pc = "open" => \A s \in Slots : slots'[s].st \in {slots[s].st, "locked"}
           /\ \A s \in Slots : slots'[s].st = "writing" <=> slots[s].st = "writing"
           /\ SoundInv'
  <1>0. /\ FlowInv /\ TypeInv /\ SoundInv /\ slots \in [Slots -> SlotStates]
        /\ meta \subseteq Slots
    BY DEF IInv, TypeInv, SlotStates
  <1>t. {"full", "free", "locked"} \subseteq Statuses  BY DEF Statuses
  <1>1. CASE VsyncBusy \/ SettingsChanged \/ DmaDone
    <2>1. /\ state' \in {state, "finishing"} /\ (dma_active' => dma_active)
          /\ UNCHANGED <<slots, meta, owes, mgr, mgr_queue, writer_queues, writers, files,
                         pool, job_count, runs>>
      BY <1>1 DEF VsyncBusy, SettingsChanged, DmaDone, Vsync, metaVars
    <2>2. state' = "finishing" => state # "idle"
      BY <1>0, <1>1
         DEF VsyncBusy, SettingsChanged, DmaDone, Vsync, FlowInv, Before
    <2>3. SoundInv'  BY <1>0, <2>1 DEF SoundInv
    <2> QED BY <2>1, <2>2, <2>3
  <1>2. CASE CaptureFrame
    <2>1. /\ state = "recording" /\ UNCHANGED <<state, meta, owes, mgr, mgr_queue, writer_queues,
                         writers, files, pool, job_count, runs>>
      BY <1>2 DEF CaptureFrame, Vsync, metaVars
    <2>2. mgr.pc # "open"  BY <2>1, <1>0 DEF FlowInv, Before
    <2>3. /\ \A s \in Slots : slots'[s].st = "writing" <=> slots[s].st = "writing"
          /\ \A s \in Slots : slots[s].st = "locked" => slots'[s].st = "locked"
      <3>1. CASE UNCHANGED slots  BY <3>1
      <3>2. CASE NextCaptureSlot # None /\ slots' = [slots EXCEPT ![NextCaptureSlot] =
                                    [st |-> "full", frame |-> frame_count]]
        <4>1. NextCaptureSlot \in Slots /\ slots[NextCaptureSlot].st = "free"
          BY <3>2, NextCaptureSlotIn DEF Free
        <4>2. /\ slots'[NextCaptureSlot].st = "full"
              /\ \A s \in Slots : s # NextCaptureSlot => slots'[s] = slots[s]
          BY <3>2, <4>1, <1>0
        <4> QED BY <4>1, <4>2
      <3> QED BY <1>2, <3>1, <3>2 DEF CaptureFrame
    <2>4. SoundInv'  BY <1>0, <2>1, <2>3 DEF SoundInv
    <2> QED BY <2>1, <2>2, <2>3, <2>4
  <1>3. CASE SkipFrame
    <2>1. /\ state = "recording" /\ UNCHANGED <<state, meta, owes, mgr, mgr_queue, writer_queues,
                         writers, files, pool, job_count, runs, dma_active>>
      BY <1>3 DEF SkipFrame, Vsync, metaVars
    <2>2. mgr.pc # "open"  BY <2>1, <1>0 DEF FlowInv, Before
    <2>3. /\ \A s \in Slots : slots'[s].st = "writing" <=> slots[s].st = "writing"
          /\ \A s \in Slots : slots[s].st = "locked" => slots'[s].st = "locked"
      <3>1. CASE UNCHANGED slots  BY <3>1
      <3>2. CASE slots' = Mark({capture_slot'}, "locked")
        <4>1. capture_slot' = NextCaptureSlot /\ FreeGroups # {}  BY <1>3 DEF SkipFrame
        <4>2. \A s \in Slots : slots'[s].st = IF s \in {capture_slot'} THEN "locked"
                                              ELSE slots[s].st
          BY <3>2, <1>0, <1>t, MarkIs
        <4>3. capture_slot' \in Slots => slots[capture_slot'].st = "free"
          BY <4>1, NextCaptureSlotIn, SlotsFinite DEF Free, None
        <4> QED BY <4>2, <4>3
      <3> QED BY <1>3, <3>1, <3>2 DEF SkipFrame
    <2>4. SoundInv'  BY <1>0, <2>1, <2>3 DEF SoundInv
    <2> QED BY <2>1, <2>2, <2>3, <2>4
  <1>4. CASE TakeSlot
    <2>1. UNCHANGED <<state, mgr, mgr_queue, writer_queues, writers, files, pool, job_count,
                      runs, dma_active>>
      BY <1>0, <1>4, TakeIs DEF recVars
    <2>2. /\ \A s \in Slots : slots'[s].st \in {slots[s].st, "locked"}
          /\ \A s \in Slots : slots'[s].st = "writing" <=> slots[s].st = "writing"
          /\ \A m \in meta' : slots'[m].st = "locked"
      <3>1. CASE UNCHANGED <<slots, meta>>  BY <1>0, <3>1 DEF SoundInv
      <3>2. CASE \E m \in Slots : /\ Free(m) /\ meta' = meta \cup {m}
                                  /\ slots' = Mark({m}, "locked")
        <4>1. PICK m \in Slots : /\ Free(m) /\ meta' = meta \cup {m}
                                 /\ slots' = Mark({m}, "locked")
          BY <3>2
        <4>2. \A s \in Slots : slots'[s].st = IF s \in {m} THEN "locked" ELSE slots[s].st
          BY <4>1, <1>0, <1>t, MarkIs
        <4> QED BY <1>0, <4>1, <4>2 DEF SoundInv, Free
      <3> QED BY <1>0, <1>4, <3>1, <3>2, TakeIs
    <2>3. ~owes' /\ (mgr.pc = "open" \/ owes)  BY <1>0, <1>4, TakeIs
    <2>4. mgr.pc \notin {"off", "prepare"}  BY <1>0, <2>3 DEF SoundInv, Before
    <2>5. SoundInv'  BY <2>1, <2>2, <2>3, <2>4 DEF SoundInv
    <2> QED BY <2>1, <2>2, <2>5
  <1>5. CASE ReleaseSlot
    <2>1. /\ mgr.pc \notin Before
          /\ UNCHANGED <<state, mgr, mgr_queue, writer_queues,
                         writers, files, pool, job_count, runs, dma_active>>
      BY <1>5 DEF ReleaseSlot, recVars, Recording, Before
    <2>2. PICK m \in meta : /\ meta' = meta \ {m}
                            /\ slots' = [slots EXCEPT ![m] = [st |-> "full", frame |-> None]]
      BY <1>5 DEF ReleaseSlot
    <2>3. m \in Slots /\ slots[m].st = "locked"  BY <1>0, <2>2 DEF SoundInv
    <2>4. slots'[m].st = "full" /\ \A s \in Slots : s # m => slots'[s] = slots[s]
      BY <2>2, <2>3, <1>0
    <2>5. \A s \in Slots : slots'[s].st = "writing" <=> slots[s].st = "writing"
      BY <2>3, <2>4
    <2>6. SoundInv'  BY <1>0, <2>1, <2>2, <2>4 DEF SoundInv, Before
    <2> QED BY <2>1, <2>5, <2>6 DEF Before
  <1> QED BY <1>1, <1>2, <1>3, <1>4, <1>5 DEF Camera

LEMMA CameraFlow ==
    ASSUME IInv, Camera \/ DmaDone \/ TakeSlot \/ ReleaseSlot
    PROVE  FlowInv'
  <1>1. /\ UNCHANGED <<mgr, mgr_queue, writer_queues, writers>>
        /\ state' \in {state, "finishing"} /\ (state' = "finishing" => state # "idle")
        /\ dma_active' => dma_active \/ state = "recording"
        /\ mgr.pc = "open" => \A s \in Slots : slots'[s].st \in {slots[s].st, "locked"}
        /\ \A s \in Slots : slots'[s].st = "writing" <=> slots[s].st = "writing"
    BY CameraSlots
  <1>2. FlowInv  BY DEF IInv
  <1> QED BY <1>1, <1>2, FlowKept

\* what a step of a writer leaves alone
LEMMA WriterEffects ==
    ASSUME IInv, NEW w \in Writers, Writer(w)
    PROVE  /\ UNCHANGED <<mgr, slots, dma_active, meta, owes, runs, frame_count>>
           /\ Alive(w) /\ state' \in {state, "finishing"}
           /\ \A v \in Writers : v # w => writers'[v] = writers[v]
  <1>0. TypeInv /\ WriterInv /\ CountInv  BY DEF IInv
  <1>1. CASE NextHandle(w)
    <2>1. /\ writers[w].pc = "take" /\ UNCHANGED <<state, slots, recVars, mgr, metaVars, runs>>
          /\ \A v \in Writers : v # w => writers'[v] = writers[v]
      BY <1>0, <1>1, NextHandleIs
    <2> QED BY <2>1 DEF Alive, recVars, metaVars
  <1>2. CASE TakeAbort(w)
    <2>1. /\ writers[w].pc = "take" /\ UNCHANGED <<state, slots, recVars, mgr, metaVars, runs>>
          /\ \A v \in Writers : v # w => writers'[v] = writers[v]
      BY <1>0, <1>2, AbortIs
    <2> QED BY <2>1 DEF Alive, recVars, metaVars
  <1>3. CASE TakeFits(w) \/ TakeAsks(w) \/ TakeSwitches(w)
    <2>1. /\ Ready(w, "write") /\ UNCHANGED <<slots, recVars, mgr, metaVars, runs>>
          /\ \A v \in Writers : v # w => writers'[v] = writers[v]
          /\ state' \in {state, "finishing"}
      BY <1>0, <1>3, TakesIs
    <2> QED BY <2>1 DEF Alive, recVars, metaVars, Ready
  <1>4. CASE WriteBlock(w)
    <2>1. /\ writers[w].pc = "write" /\ UNCHANGED <<state, slots, recVars, mgr, metaVars, runs>>
          /\ \A v \in Writers : v # w => writers'[v] = writers[v]
      BY <1>4, WriteIs
    <2> QED BY <2>1 DEF Alive, recVars, metaVars
  <1>5. CASE WriteFails(w)
    <2>1. /\ writers[w].pc = "write" /\ UNCHANGED <<slots, recVars, mgr, metaVars, runs>>
          /\ \A v \in Writers : v # w => writers'[v] = writers[v]
          /\ state' = "finishing"
      BY <1>5, FailsIs
    <2> QED BY <2>1 DEF Alive, recVars, metaVars
  <1>6. CASE CloseFile(w)
    <2>1. /\ writers[w].pc = "close" /\ UNCHANGED <<state, slots, recVars, mgr, metaVars, runs>>
          /\ \A v \in Writers : v # w => writers'[v] = writers[v]
      BY <1>0, <1>6, CloseIs
    <2> QED BY <2>1 DEF Alive, recVars, metaVars
  <1> QED BY <1>1, <1>2, <1>3, <1>4, <1>5, <1>6 DEF Writer

LEMMA WriterFlow == ASSUME IInv, NEW w \in Writers, Writer(w) PROVE FlowInv'
  <1>1. /\ UNCHANGED <<mgr, slots, dma_active, meta>>
        /\ Alive(w) /\ state' \in {state, "finishing"}
        /\ \A v \in Writers : v # w => writers'[v] = writers[v]
    BY WriterEffects
  <1>2. mgr.pc \notin Before \cup {"cleanup"} /\ FlowInv  BY <1>1 DEF IInv, FlowInv
  <1> QED BY <1>1, <1>2 DEF FlowInv, Before

LEMMA MgrSet ==
    ASSUME mgr \in Managers, NEW pc
    PROVE  LET m == [mgr EXCEPT !.pc = pc] IN
           m.pc = pc /\ m.at = mgr.at /\ m.job = mgr.job /\ m.used = mgr.used
  BY DEF Managers

LEMMA ManagerStartFlow ==
    ASSUME IInv, StartsClean, PressRec \/ Prepare \/ OpenFiles \/ Begin \/ MgrLoop \/ CleanUp
    PROVE  FlowInv'
  <1>0. FlowInv /\ TypeInv /\ mgr \in Managers  BY DEF IInv, TypeInv
  <1>1. CASE PressRec
    <2>1. CASE state = "idle"
      <3>1. mgr' = [mgr EXCEPT !.pc = "prepare"] /\ state' = "preparing"
            /\ UNCHANGED <<slots, dma_active, mgr_queue, writer_queues, writers>>
        BY <1>1, <2>1 DEF PressRec, recVars, metaVars
      <3>2. mgr.pc = "off"  BY <1>0, <2>1 DEF FlowInv
      <3>3. mgr'.pc = "prepare" /\ mgr'.job = mgr.job /\ mgr'.at = mgr.at
        BY <3>1, <1>0, MgrSet
      <3> QED BY <1>0, <3>1, <3>2, <3>3 DEF FlowInv, Before, Alive
    <2>2. CASE state # "idle"
      <3>1. state' = "finishing"
            /\ UNCHANGED <<mgr, slots, dma_active, mgr_queue, writer_queues, writers>>
        BY <1>1, <2>2 DEF PressRec, recVars, metaVars
      <3> QED BY <1>0, <3>1, <2>2, FlowKept
    <2> QED BY <2>1, <2>2
  <1>2. CASE Prepare
    <2>0. mgr.pc = "prepare"
          /\ UNCHANGED <<state, dma_active, mgr_queue, writer_queues, writers>>
      BY <1>2 DEF Prepare, recVars
    <2>1. CASE mgr' = [mgr EXCEPT !.pc = "open"]
                 /\ slots' = [s \in Slots |-> [st |-> "free", frame |-> None]]
      <3>1. mgr'.pc = "open" /\ mgr'.job = mgr.job /\ mgr'.at = mgr.at
        BY <2>1, <1>0, MgrSet
      <3>2. \A s \in Slots : slots'[s].st = "free"  BY <2>1
      <3> QED BY <1>0, <2>0, <3>1, <3>2 DEF FlowInv, Before, Alive, StartsClean
    <2>2. CASE mgr' = [mgr EXCEPT !.pc = "cleanup"] /\ UNCHANGED slots
      <3>1. mgr'.pc = "cleanup" /\ mgr'.job = mgr.job /\ mgr'.at = mgr.at
        BY <2>2, <1>0, MgrSet
      <3> QED BY <1>0, <2>0, <3>1 DEF FlowInv, Before, Alive
    <2> QED BY <1>2, <2>1, <2>2 DEF Prepare
  <1>3. CASE OpenFiles
    <2>0. mgr.pc = "open"
          /\ UNCHANGED <<state, dma_active, mgr_queue, writer_queues, slots>>
      BY <1>3 DEF OpenFiles
    <2>1. CASE mgr' = [mgr EXCEPT !.pc = "begin"]
      <3>1. mgr'.pc = "begin" /\ mgr'.job = mgr.job /\ mgr'.at = mgr.at
        BY <2>1, <1>0, MgrSet
      <3> QED BY <1>0, <2>0, <3>1 DEF FlowInv, Before, Alive
    <2>2. CASE mgr' = [mgr EXCEPT !.pc = "dead"] /\ UNCHANGED writers
      <3>1. mgr'.pc = "dead" /\ mgr'.job = mgr.job /\ mgr'.at = mgr.at
        BY <2>2, <1>0, MgrSet
      <3> QED BY <1>0, <2>0, <2>2, <3>1 DEF FlowInv, Before, Alive
    <2> QED BY <1>3, <2>1, <2>2 DEF OpenFiles
  <1>4. CASE Begin
    <2>0. mgr.pc = "begin" /\ state' = "recording" /\ UNCHANGED <<slots, dma_active>>
      BY <1>4 DEF Begin, recVars
    <2>1. mgr' = [mgr EXCEPT !.pc = "loop", !.used = FALSE, !.job = NoJob]
      BY <1>4 DEF Begin
    <2>2. mgr'.pc = "loop" /\ mgr'.job = NoJob  BY <2>1, <1>0 DEF Managers
    <2> QED BY <1>0, <2>0, <2>2 DEF FlowInv, Before
  <1>5. CASE MgrLoop
    <2>0. mgr.pc = "loop" /\ UNCHANGED <<slots, dma_active, writers>>
          /\ state' \in {state, "finishing"}
      BY <1>5 DEF MgrLoop, recVars
    <2>1. CASE mgr' = [mgr EXCEPT !.pc = "stopping"] /\ UNCHANGED state
      <3>1. mgr'.pc = "stopping" /\ mgr'.job = mgr.job  BY <2>1, <1>0, MgrSet
      <3> QED BY <1>0, <2>0, <3>1 DEF FlowInv, Before
    <2>2. CASE mgr' = [mgr EXCEPT !.pc = "cleanup"] /\ NoWriters /\ UNCHANGED state
      <3>1. mgr'.pc = "cleanup" /\ mgr'.job = mgr.job  BY <2>2, <1>0, MgrSet
      <3>2. \A w \in Writers : ~Alive(w)'  BY <2>0, <2>2, NoThreads DEF NoWriters, Alive
      <3> QED BY <1>0, <2>0, <3>1, <3>2 DEF FlowInv, Before
    <2>3. CASE \E j \in {NoJob, Head(mgr_queue)} :
                 mgr' = [mgr EXCEPT !.pc = "fill", !.at = 0, !.job = j]
      <3>1. mgr'.pc = "fill" /\ mgr'.at = 0  BY <2>3, <1>0 DEF Managers
      <3>2. state' # "idle"  BY <1>0, <2>0 DEF FlowInv
      <3>3. 0 \in Writers  BY QueueOne, WriterAssumption
      <3> QED BY <1>0, <2>0, <3>1, <3>2, <3>3 DEF FlowInv, Before
    <2>4. \/ mgr' = [mgr EXCEPT !.pc = "stopping"] /\ UNCHANGED state
          \/ mgr' = [mgr EXCEPT !.pc = "cleanup"] /\ NoWriters /\ UNCHANGED state
          \/ \E j \in {NoJob, Head(mgr_queue)} :
                 mgr' = [mgr EXCEPT !.pc = "fill", !.at = 0, !.job = j]
      BY <1>5 DEF MgrLoop
    <2> QED BY <2>1, <2>2, <2>3, <2>4
  <1>6. CASE CleanUp
    <2>0. /\ mgr.pc = "cleanup" /\ state' = "idle" /\ ~dma_active
          /\ UNCHANGED <<dma_active, writers>>
      BY <1>6 DEF CleanUp, recVars
    <2>1. mgr' = [mgr EXCEPT !.pc = "off", !.used = FALSE]  BY <1>6 DEF CleanUp
    <2>2. mgr'.pc = "off" /\ mgr'.job = mgr.job  BY <2>1, <1>0 DEF Managers
    <2> QED BY <1>0, <2>0, <2>2 DEF FlowInv, Before, Alive
  <1> QED BY <1>1, <1>2, <1>3, <1>4, <1>5, <1>6

LEMMA ManagerFlow ==
    ASSUME IInv, FillQueue \/ NothingReturned \/ WriteReturned \/ HandleWanted \/ CloseWanted
                 \/ Stopping \/ Drain \/ AbortWriters \/ Flush
    PROVE  FlowInv'
  <1>0. FlowInv /\ TypeInv /\ mgr \in Managers  BY DEF IInv, TypeInv
  <1>1. CASE FillQueue
    <2>1. mgr.pc = "fill" /\ FillNext /\ UNCHANGED <<state, dma_active, writers>>
      BY <1>1 DEF FillQueue, recVars
    <2>2. \/ mgr'.pc = "fill" /\ mgr'.at \in Writers
          \/ mgr'.pc = "handle"
      <3>1. CASE mgr.at + 1 < NWriters
        <4>1. mgr'.pc = "fill" /\ mgr'.at = mgr.at + 1
          BY <2>1, <3>1, <1>0 DEF FillNext, Managers
        <4>2. mgr.at \in 0..1  BY <1>0, MgrIs
        <4> QED BY <4>1, <4>2, <3>1, WriterAssumption DEF Writers
      <3>2. CASE ~(mgr.at + 1 < NWriters)
        <4>1. mgr'.pc = "handle"  BY <2>1, <3>2, <1>0 DEF FillNext, Managers
        <4> QED BY <4>1
      <3> QED BY <3>1, <3>2
    <2> QED BY <1>0, <2>1, <2>2 DEF FlowInv, Before
  <1>2. CASE NothingReturned \/ WriteReturned \/ HandleWanted \/ CloseWanted
    <2>1. /\ mgr.pc = "handle" /\ EndLoop /\ UNCHANGED <<dma_active, writers>>
          /\ state' \in {state, "finishing"}
      BY <1>2 DEF NothingReturned, WriteReturned, HandleWanted, CloseWanted, Returned, recVars
    <2>2. mgr'.pc = "loop" /\ mgr'.job = NoJob  BY <1>0, <2>1, EndLoopIs
    <2> QED BY <1>0, <2>1, <2>2 DEF FlowInv, Before
  <1>3. CASE Stopping
    <2>1. /\ mgr.pc = "stopping" /\ mgr' = [mgr EXCEPT !.pc = "drain"]
          /\ UNCHANGED <<state, dma_active>>
      BY <1>3 DEF Stopping, recVars
    <2>2. mgr'.pc = "drain" /\ mgr'.job = mgr.job  BY <2>1, <1>0, MgrSet
    <2> QED BY <1>0, <2>1, <2>2 DEF FlowInv, Before
  <1>4. CASE Drain
    <2>0. mgr.pc = "drain" /\ UNCHANGED <<slots, dma_active, writers>>
      BY <1>4 DEF Drain, recVars
    <2>1. CASE NoWriters
      <3>1. mgr' = [mgr EXCEPT !.pc = "cleanup"] /\ UNCHANGED state
        BY <1>4, <2>1 DEF Drain
      <3>2. mgr'.pc = "cleanup" /\ mgr'.job = mgr.job  BY <3>1, <1>0, MgrSet
      <3>3. \A w \in Writers : ~Alive(w)'  BY <2>0, <2>1, NoThreads DEF NoWriters, Alive
      <3> QED BY <1>0, <2>0, <3>1, <3>2, <3>3 DEF FlowInv, Before
    <2>2. CASE ~NoWriters
      <3>1. /\ mgr' = [mgr EXCEPT !.pc = "abort", !.at = 0] /\ state' = "finishing"
            /\ \A s \in Slots : slots[s].st # "writing"
        BY <1>4, <2>2 DEF Drain
      <3>2. mgr'.pc = "abort" /\ mgr'.job = mgr.job  BY <3>1, <1>0 DEF Managers
      <3> QED BY <1>0, <2>0, <3>1, <3>2 DEF FlowInv, Before
    <2> QED BY <2>1, <2>2
  <1>5. CASE AbortWriters
    <2>1. /\ mgr.pc = "abort" /\ UNCHANGED <<state, slots, dma_active>>
          /\ mgr' = IF mgr.at = 0 THEN [mgr EXCEPT !.at = 1] ELSE [mgr EXCEPT !.pc = "flush"]
      BY <1>5 DEF AbortWriters, recVars
    <2>2. mgr'.pc \in {"abort", "flush"} /\ mgr'.job = mgr.job
      <3>1. CASE mgr.at = 0  BY <3>1, <2>1, <1>0 DEF Managers
      <3>2. CASE mgr.at # 0  BY <3>2, <2>1, <1>0 DEF Managers
      <3> QED BY <3>1, <3>2
    <2> QED BY <1>0, <2>1, <2>2 DEF FlowInv, Before
  <1>6. CASE Flush
    <2>1. /\ mgr.pc = "flush" /\ Threads = 0 /\ mgr' = [mgr EXCEPT !.pc = "cleanup"]
          /\ UNCHANGED <<state, dma_active, slots, writers>>
      BY <1>6 DEF Flush, recVars
    <2>2. mgr'.pc = "cleanup" /\ mgr'.job = mgr.job  BY <2>1, <1>0, MgrSet
    <2>3. \A w \in Writers : ~Alive(w)'  BY <2>1, NoThreads DEF Alive
    <2> QED BY <1>0, <2>1, <2>2, <2>3 DEF FlowInv, Before
  <1> QED BY <1>1, <1>2, <1>3, <1>4, <1>5, <1>6

LEMMA FlowStep == ASSUME IInv, StartsClean, [Next]_vars PROVE FlowInv'
  <1>1. CASE Manager
    <2>1. CASE Prepare \/ OpenFiles \/ Begin \/ MgrLoop \/ CleanUp
      BY <2>1, ManagerStartFlow
    <2>2. CASE FillQueue \/ NothingReturned \/ WriteReturned \/ HandleWanted \/ CloseWanted
                 \/ Stopping \/ Drain \/ AbortWriters \/ Flush
      BY <2>2, ManagerFlow
    <2> QED BY <1>1, <2>1, <2>2 DEF Manager
  <1>2. CASE \E w \in Writers : Writer(w)  BY <1>2, WriterFlow
  <1>3. CASE Camera \/ DmaDone \/ TakeSlot \/ ReleaseSlot  BY <1>3, CameraFlow
  <1>4. CASE PressRec  BY <1>4, ManagerStartFlow
  <1>5. CASE UNCHANGED vars
    <2>1. FlowInv  BY DEF IInv
    <2> QED BY <1>5, <2>1 DEF vars, FlowInv, recVars, metaVars, Alive
  <1> QED BY <1>1, <1>2, <1>3, <1>4, <1>5 DEF Next

-----------------------------------------------------------------------------
(* What the writers have in their hands is kept                            *)

LEMMA WriterInvKept ==
    ASSUME WriterInv, TypeInv, files' \in Seq(Files), Len(files) <= Len(files'), NEW S, S \subseteq Writers,
           \A v \in S : writers'[v] = writers[v]
    PROVE  \A v \in S :
              /\ Alive(v)' => writers'[v].file \in 1..Len(files')
              /\ writers'[v].pc = "take" => writers'[v].job = NoJob /\ writers'[v].error = "no"
              /\ writers'[v].pc = "write" =>
                    /\ writers'[v].job.type = "write" /\ writers'[v].job.len > 0
                    /\ writers'[v].size + writers'[v].job.len <= ChunkSize
                    /\ writers'[v].error = "no"
              /\ writers'[v].error = "no" /\ writers'[v].pc # "write" => writers'[v].job = NoJob
              /\ writers'[v].error # "no" => writers'[v].job.type = "write"
  <1> SUFFICES ASSUME NEW v \in S
               PROVE  /\ Alive(v)' => writers'[v].file \in 1..Len(files')
                      /\ writers'[v].pc = "take" =>
                            writers'[v].job = NoJob /\ writers'[v].error = "no"
                      /\ writers'[v].pc = "write" =>
                            /\ writers'[v].job.type = "write" /\ writers'[v].job.len > 0
                            /\ writers'[v].size + writers'[v].job.len <= ChunkSize
                            /\ writers'[v].error = "no"
                      /\ writers'[v].error = "no" /\ writers'[v].pc # "write" =>
                            writers'[v].job = NoJob
                      /\ writers'[v].error # "no" => writers'[v].job.type = "write"
    OBVIOUS
  <1>1. writers'[v] = writers[v]  OBVIOUS
  <1>2. Len(files) \in Nat /\ Len(files') \in Nat  BY DEF TypeInv
  <1>3. Alive(v)' => writers'[v].file \in 1..Len(files')
    <2>1. Alive(v) => writers[v].file \in 1..Len(files)  BY DEF WriterInv
    <2> QED BY <1>1, <1>2, <2>1 DEF Alive
  <1>4. /\ writers[v].pc = "take" => writers[v].job = NoJob /\ writers[v].error = "no"
        /\ writers[v].pc = "write" =>
              /\ writers[v].job.type = "write" /\ writers[v].job.len > 0
              /\ writers[v].size + writers[v].job.len <= ChunkSize
              /\ writers[v].error = "no"
        /\ writers[v].error = "no" /\ writers[v].pc # "write" => writers[v].job = NoJob
        /\ writers[v].error # "no" => writers[v].job.type = "write"
    BY DEF WriterInv
  <1> QED BY <1>1, <1>3, <1>4

LEMMA WriterInvOf ==
    ASSUME IInv, NEW w \in Writers, Writer(w)
    PROVE  WriterInv'
  <1>0. /\ TypeInv /\ WriterInv /\ CountInv /\ FileInv
        /\ mgr.pc \notin Before \cup {"cleanup"} /\ Alive(w)
    <2>1. Alive(w)  BY WriterEffects
    <2> QED BY <2>1 DEF IInv, FlowInv
  <1>1. /\ writers[w].file \in 1..Len(files)
        /\ writers[w].pc = "take" => writers[w].job = NoJob /\ writers[w].error = "no"
        /\ writers[w].pc = "write" =>
              /\ writers[w].job.type = "write" /\ writers[w].job.len > 0
              /\ writers[w].size + writers[w].job.len <= ChunkSize
              /\ writers[w].error = "no"
        /\ writers[w].error = "no" /\ writers[w].pc # "write" => writers[w].job = NoJob
        /\ writers[w].error # "no" => writers[w].job.type = "write"
    BY <1>0 DEF WriterInv
  <1>2. \A v \in Writers \ {w} : writers'[v] = writers[v]  BY WriterEffects
  <1>3. Len(files') = Len(files) /\ files' \in Seq(Files)
    <2>0. files \in Seq(Files)  BY <1>0 DEF TypeInv
    <2>1. CASE NextHandle(w)  BY <2>0, <2>1 DEF NextHandle
    <2>2. CASE TakeAbort(w)  BY <2>0, <2>2 DEF TakeAbort
    <2>3. CASE TakeFits(w) \/ TakeAsks(w) \/ TakeSwitches(w)
      BY <2>0, <2>3 DEF TakeFits, TakeAsks, TakeSwitches
    <2>4. CASE WriteBlock(w)  BY <2>4, WriteIs
    <2>5. CASE WriteFails(w)  BY <2>5, FailsIs
    <2>6. CASE CloseFile(w)  BY <2>6, <1>0, CloseIs
    <2> QED BY <2>1, <2>2, <2>3, <2>4, <2>5, <2>6 DEF Writer
  <1>4. /\ Alive(w)' => writers'[w].file \in 1..Len(files')
        /\ writers'[w].pc = "take" => writers'[w].job = NoJob /\ writers'[w].error = "no"
        /\ writers'[w].pc = "write" =>
              /\ writers'[w].job.type = "write" /\ writers'[w].job.len > 0
              /\ writers'[w].size + writers'[w].job.len <= ChunkSize
              /\ writers'[w].error = "no"
        /\ writers'[w].error = "no" /\ writers'[w].pc # "write" => writers'[w].job = NoJob
        /\ writers'[w].error # "no" => writers'[w].job.type = "write"
    <2>1. CASE NextHandle(w)
      <3>1. /\ writers'[w].pc = "take" /\ writers[w].pc = "take"
            /\ writers'[w].file = writers[w].file
            /\ writers'[w].job = writers[w].job /\ writers'[w].error = writers[w].error
        BY <1>0, <2>1, NextHandleIs
      <3> QED BY <1>1, <1>3, <3>1
    <2>2. CASE TakeAbort(w)
      <3>1. /\ writers[w].pc = "take"
            /\ writers'[w].pc = "close" /\ writers'[w].file = writers[w].file
            /\ writers'[w].job = writers[w].job /\ writers'[w].error = writers[w].error
        BY <1>0, <2>2, AbortIs
      <3> QED BY <1>1, <1>3, <3>1
    <2>3. CASE TakeFits(w) \/ TakeAsks(w) \/ TakeSwitches(w)
      <3>1. TakeJob(w) /\ Ready(w, "write") /\ writers'[w].job = Head(writer_queues[w])
            /\ UNCHANGED files
        BY <1>0, <2>3, TakesIs
      <3>2. /\ Head(writer_queues[w]) \in WriteJobs
            /\ Head(writer_queues[w]).len \in Nat \ {0}
            /\ Head(writer_queues[w]).len <= ChunkSize
            /\ writers[w].file \in 1..Len(files)
        BY <1>0, <3>1, Taken
      <3>3. Head(writer_queues[w]).type = "write"  BY <3>2 DEF WriteJobs
      <3>s. writers[w].size \in Nat /\ writers[w].next \in Nat
        <4>1. writers[w] \in WriterStates  BY <1>0, WriterIs
        <4> QED BY <4>1, WriterFields
      <3>4. CASE /\ TakeFits(w) \/ TakeAsks(w)
                 /\ writers'[w].pc = "write" /\ writers'[w].file = writers[w].file
                 /\ writers'[w].size = writers[w].size /\ writers'[w].error = "no"
        <4>1. Room(w) >= JobLen(w)  BY <3>4 DEF TakeFits, TakeAsks
        <4>2. writers[w].size + Head(writer_queues[w]).len <= ChunkSize
          BY <4>1, <3>2, <3>s, SizeAssumption DEF Room, JobLen
        <4> QED BY <3>1, <3>2, <3>3, <3>4, <4>2, <1>3
      <3>5. CASE /\ writers'[w].pc = "close" /\ writers'[w].error = "file"
                 /\ writers'[w].file = writers[w].file
        BY <3>1, <3>2, <3>3, <3>5, <1>3
      <3>6. CASE /\ writers[w].next # None
                 /\ writers'[w].pc = "write" /\ writers'[w].error = "no"
                 /\ writers'[w].file = writers[w].next /\ writers'[w].size = 0
        <4>1. writers[w].next \in 1..Len(files)
          <5>1. writers[w].next <= Len(files)  BY <1>0 DEF FileInv, Before
          <5>2. Len(files) \in Nat  BY <1>0 DEF TypeInv
          <5> QED BY <5>1, <5>2, <3>6, <3>s DEF None
        <4> QED BY <3>1, <3>2, <3>3, <3>6, <4>1, <1>3
      <3>7. \/ /\ TakeFits(w) \/ TakeAsks(w)
               /\ writers'[w].pc = "write" /\ writers'[w].file = writers[w].file
               /\ writers'[w].size = writers[w].size /\ writers'[w].error = "no"
            \/ /\ writers'[w].pc = "close" /\ writers'[w].error = "file"
               /\ writers'[w].file = writers[w].file
            \/ /\ writers[w].next # None
               /\ writers'[w].pc = "write" /\ writers'[w].error = "no"
               /\ writers'[w].file = writers[w].next /\ writers'[w].size = 0
        BY <1>0, <2>3, TakesIs
      <3> QED BY <3>4, <3>5, <3>6, <3>7
    <2>4. CASE WriteBlock(w)
      <3>1. /\ writers'[w].pc = "take" /\ writers'[w].file = writers[w].file
            /\ writers'[w].job = NoJob /\ writers'[w].error = "no"
        BY <2>4, WriteIs
      <3> QED BY <1>1, <1>3, <3>1
    <2>5. CASE WriteFails(w)
      <3>1. /\ writers[w].pc = "write"
            /\ writers'[w].pc = "close" /\ writers'[w].file = writers[w].file
            /\ writers'[w].job = writers[w].job /\ writers'[w].error = "card"
        BY <2>5, FailsIs
      <3> QED BY <1>1, <1>3, <3>1
    <2>6. CASE CloseFile(w)
      <3>1. /\ writers[w].pc = "close"
            /\ writers'[w].pc = "off" /\ writers'[w].file = writers[w].file
            /\ writers'[w].job = writers[w].job /\ writers'[w].error = writers[w].error
        BY <1>0, <2>6, CloseIs
      <3> QED BY <1>1, <1>3, <3>1
    <2> QED BY <2>1, <2>2, <2>3, <2>4, <2>5, <2>6 DEF Writer
  <1>5. Len(files) \in Nat /\ Len(files) <= Len(files')  BY <1>0, <1>3 DEF TypeInv
  <1>6. \A v \in Writers \ {w} :
              /\ Alive(v)' => writers'[v].file \in 1..Len(files')
              /\ writers'[v].pc = "take" => writers'[v].job = NoJob /\ writers'[v].error = "no"
              /\ writers'[v].pc = "write" =>
                    /\ writers'[v].job.type = "write" /\ writers'[v].job.len > 0
                    /\ writers'[v].size + writers'[v].job.len <= ChunkSize
                    /\ writers'[v].error = "no"
              /\ writers'[v].error = "no" /\ writers'[v].pc # "write" => writers'[v].job = NoJob
              /\ writers'[v].error # "no" => writers'[v].job.type = "write"
    <2>1. Writers \ {w} \subseteq Writers  OBVIOUS
    <2> QED BY <1>0, <1>2, <1>3, <1>5, <2>1, WriterInvKept
  <1> QED BY <1>4, <1>6 DEF WriterInv

\* what the manager does to the writers and to the number of files
LEMMA FilesGrow ==
    ASSUME IInv, [Next]_vars, ~OpenFiles, \A w \in Writers : ~Writer(w)
    PROVE  /\ UNCHANGED writers /\ Len(files) <= Len(files') /\ Len(files) \in Nat
           /\ files' \in Seq(Files)
  <1>0. files \in Seq(Files) /\ Len(files) \in Nat /\ files' \in Seq(Files)
    <2>1. TypeInv /\ TypeInv'  BY TypeStep DEF IInv
    <2> QED BY <2>1 DEF TypeInv
  <1>1. CASE Camera \/ DmaDone \/ TakeSlot \/ ReleaseSlot \/ PressRec
    BY <1>0, <1>1 DEF Camera, VsyncBusy, SettingsChanged, CaptureFrame, SkipFrame, DmaDone,
                      TakeSlot, ReleaseSlot, PressRec
  <1>2. CASE Prepare \/ Begin \/ MgrLoop \/ CleanUp \/ FillQueue \/ NothingReturned
             \/ WriteReturned \/ Drain \/ AbortWriters \/ Flush
    BY <1>0, <1>2 DEF Prepare, Begin, MgrLoop, CleanUp, FillQueue, NothingReturned,
                      WriteReturned, Drain, AbortWriters, Flush
  <1>3. CASE HandleWanted
    <2>1. UNCHANGED writers /\ \E f : files' = Append(files, f)  BY <1>3 DEF HandleWanted
    <2>2. PICK f : files' = Append(files, f)  BY <2>1
    <2>3. Len(files') = Len(files) + 1  BY <1>0, <2>2
    <2> QED BY <1>0, <2>1, <2>3
  <1>4. CASE CloseWanted
    <2>1. UNCHANGED writers /\ files' = Closed(mgr.job.file, mgr.job.num, mgr.job.frames)
      BY <1>4 DEF CloseWanted
    <2>2. DOMAIN files' = DOMAIN files  BY <2>1 DEF Closed
    <2>3. Len(files') = Len(files)  BY <1>0, <2>2
    <2> QED BY <1>0, <2>1, <2>3
  <1>5. CASE Stopping
    <2>1. UNCHANGED writers /\ DOMAIN files' = DOMAIN files  BY <1>5 DEF Stopping
    <2>3. Len(files') = Len(files)  BY <1>0, <2>1
    <2> QED BY <1>0, <2>1, <2>3
  <1>6. CASE UNCHANGED vars  BY <1>0, <1>6 DEF vars
  <1> QED BY <1>1, <1>2, <1>3, <1>4, <1>5, <1>6 DEF Next, Manager

LEMMA WriterInvStep == ASSUME IInv, [Next]_vars PROVE WriterInv'
  <1>0. TypeInv /\ WriterInv /\ FlowInv  BY DEF IInv
  <1>1. CASE \E w \in Writers : Writer(w)  BY <1>1, WriterInvOf
  <1>2. CASE OpenFiles
    <2>0. mgr.pc = "open"  BY <1>2 DEF OpenFiles
    <2>1. CASE UNCHANGED writers
      <3>1. \A w \in Writers : ~Alive(w)  BY <1>0, <2>0 DEF FlowInv, Before
      <3> QED BY <1>0, <2>1, <3>1 DEF WriterInv, Alive
    <2>2. CASE writers' = [w \in Writers |->
                  [Idle EXCEPT !.pc = "take", !.file = w + 1, !.num = w]]
      <3>1. \A w \in Writers : /\ writers'[w].pc = "take" /\ writers'[w].file = w + 1
                               /\ writers'[w].job = NoJob /\ writers'[w].error = "no"
        BY <2>2 DEF Idle
      <3>2. Len(files') = NWriters
        <4>1. files' = [i \in 1..NWriters |-> [NewFile EXCEPT !.num = i - 1]]
          BY <1>2 DEF OpenFiles
        <4>2. files' \in Seq(Files)
          <5>1. TypeInv'  BY TypeStep
          <5> QED BY <5>1 DEF TypeInv
        <4>3. DOMAIN files' = 1..NWriters  BY <4>1
        <4> QED BY <4>2, <4>3, WriterAssumption
      <3>3. \A w \in Writers : w + 1 \in 1..NWriters  BY WriterAssumption DEF Writers
      <3> QED BY <3>1, <3>2, <3>3 DEF WriterInv
    <2> QED BY <1>2, <2>1, <2>2 DEF OpenFiles
  <1>3. CASE ~OpenFiles /\ \A w \in Writers : ~Writer(w)
    <2>1. /\ UNCHANGED writers /\ Len(files) <= Len(files') /\ files' \in Seq(Files)
      BY <1>3, FilesGrow
    <2>2. Writers \subseteq Writers /\ \A v \in Writers : writers'[v] = writers[v]  BY <2>1
    <2>3. \A v \in Writers :
              /\ Alive(v)' => writers'[v].file \in 1..Len(files')
              /\ writers'[v].pc = "take" => writers'[v].job = NoJob /\ writers'[v].error = "no"
              /\ writers'[v].pc = "write" =>
                    /\ writers'[v].job.type = "write" /\ writers'[v].job.len > 0
                    /\ writers'[v].size + writers'[v].job.len <= ChunkSize
                    /\ writers'[v].error = "no"
              /\ writers'[v].error = "no" /\ writers'[v].pc # "write" => writers'[v].job = NoJob
              /\ writers'[v].error # "no" => writers'[v].job.type = "write"
      BY <1>0, <2>1, <2>2, WriterInvKept
    <2> QED BY <2>3 DEF WriterInv
  <1> QED BY <1>1, <1>2, <1>3

-----------------------------------------------------------------------------
(* The counts of blocks are kept                                           *)

LEMMA CountKept ==
    ASSUME NEW v \in Writers, CountOf(v), writer_queues[v] \in Seq(ToWriter),
           writers'[v].pc \in {"take", "write"} => writers[v].pc \in {"take", "write"},
           job_count'[v] = job_count[v], NEW d \in {0, 1},
           \A k \in DOMAIN writer_queues'[v] : Block(v, k)' => k \in Nat /\ Block(v, k + d)
    PROVE  CountOf(v)'
  <1> SUFFICES ASSUME writers'[v].pc \in {"take", "write"} PROVE CountOf(v)'  BY DEF CountOf
  <1>1. /\ job_count[v] \in {0, 1}
        /\ \A k \in DOMAIN writer_queues[v] : Block(v, k) => job_count[v] = 1
        /\ \A k, l \in DOMAIN writer_queues[v] : Block(v, k) /\ Block(v, l) => k = l
    BY DEF CountOf
  <1>2. \A k : Block(v, k) => k \in DOMAIN writer_queues[v]  BY DEF Block
  <1>3. ASSUME NEW k \in DOMAIN writer_queues'[v], Block(v, k)'
        PROVE  job_count'[v] = 1
    <2>1. Block(v, k + d)  BY <1>3
    <2> QED BY <1>1, <1>2, <2>1
  <1>4. ASSUME NEW k \in DOMAIN writer_queues'[v], NEW l \in DOMAIN writer_queues'[v],
               Block(v, k)', Block(v, l)'
        PROVE  k = l
    <2>1. k \in Nat /\ l \in Nat /\ Block(v, k + d) /\ Block(v, l + d)  BY <1>4
    <2>2. k + d = l + d  BY <1>1, <1>2, <2>1
    <2> QED BY <2>1, <2>2
  <1> QED BY <1>1, <1>3, <1>4 DEF CountOf

\* a queue that grows
LEMMA GrownIs ==
    ASSUME TypeInv, NEW q \in Queues, NEW j \in ToWriter,
           writer_queues' = [writer_queues EXCEPT ![q] = Append(@, j)]
    PROVE  /\ \A p \in Queues : p # q => writer_queues'[p] = writer_queues[p]
           /\ writer_queues'[q] = Append(writer_queues[q], j)
           /\ Len(writer_queues[q]) \in Nat
           /\ DOMAIN writer_queues[q] = 1..Len(writer_queues[q])
           /\ Len(writer_queues'[q]) = Len(writer_queues[q]) + 1
           /\ DOMAIN writer_queues'[q] = 1..Len(writer_queues[q]) + 1
           /\ writer_queues'[q][Len(writer_queues[q]) + 1] = j
           /\ \A k \in DOMAIN writer_queues[q] : writer_queues'[q][k] = writer_queues[q][k]
  <1>1. writer_queues \in [Queues -> Seq(ToWriter)]  BY DEF TypeInv
  <1>2. /\ \A p \in Queues : p # q => writer_queues'[p] = writer_queues[p]
        /\ writer_queues'[q] = Append(writer_queues[q], j)
    BY <1>1
  <1>3. PICK s \in Seq(ToWriter) : s = writer_queues[q]  BY <1>1
  <1>4. /\ Len(s) \in Nat /\ DOMAIN s = 1..Len(s)
        /\ Len(Append(s, j)) = Len(s) + 1 /\ DOMAIN Append(s, j) = 1..Len(s) + 1
        /\ Append(s, j)[Len(s) + 1] = j
        /\ \A k \in DOMAIN s : Append(s, j)[k] = s[k]
    OBVIOUS
  <1> QED BY <1>2, <1>3, <1>4

\* the jobs that an action of the manager adds to a queue of a writer
LEMMA HandleSent ==
    ASSUME TypeInv, HandleWanted
    PROVE  /\ mgr.job \in HandleJobs
           /\ \E j \in HandleJobs :
                 /\ writer_queues' = [writer_queues EXCEPT ![mgr.job.writer] = Append(@, j)]
                 /\ j.writer = mgr.job.writer
                 /\ \/ /\ j.file = Len(files) + 1 /\ j.num = mgr.job.num
                       /\ files' = Append(files, [NewFile EXCEPT !.num = Len(files)])
                       /\ UNCHANGED state
                    \/ /\ j = mgr.job /\ state' = "finishing"
                       /\ files' = Append(files, [NewFile EXCEPT !.gone = TRUE])
  <1>0. mgr.job \in MgrJobs /\ mgr.job.type = "handle"
    <2>1. mgr \in Managers  BY DEF TypeInv
    <2> QED BY <2>1, MgrIs DEF HandleWanted, Returned
  <1>1. mgr.job \in HandleJobs
    BY <1>0 DEF MgrJobs, ToManager, WriteJobs, CloseJobs, NoJob
  <1>2. Len(files) \in Nat  BY DEF TypeInv
  <1>3. PICK j : j = [mgr.job EXCEPT !.file = NextFileNum + 1]  OBVIOUS
  <1>4. j \in HandleJobs /\ j.file = Len(files) + 1 /\ j.writer = mgr.job.writer
        /\ j.num = mgr.job.num
    <2>1. Len(files) + 1 \in Nat  BY <1>2
    <2> QED BY <1>1, <1>3, <2>1 DEF HandleJobs, NextFileNum
  <1>5. CASE /\ files' = Append(files, [NewFile EXCEPT !.num = Len(files)])
             /\ writer_queues' = [writer_queues EXCEPT ![mgr.job.writer] = Append(@, j)]
             /\ UNCHANGED state
    BY <1>1, <1>4, <1>5
  <1>6. CASE /\ files' = Append(files, [NewFile EXCEPT !.gone = TRUE])
             /\ writer_queues' = [writer_queues EXCEPT ![mgr.job.writer] = Append(@, mgr.job)]
             /\ state' = "finishing"
    BY <1>1, <1>6
  <1> QED BY <1>3, <1>5, <1>6 DEF HandleWanted

LEMMA CountStep == ASSUME IInv, [Next]_vars PROVE CountInv'
  <1>0. TypeInv /\ WriterInv /\ CountInv /\ FlowInv /\ mgr \in Managers
    BY DEF IInv, TypeInv
  <1>q. \A v \in Writers : v \in Queues /\ writer_queues[v] \in Seq(ToWriter)
                             /\ CountOf(v)
    BY <1>0, WriterIs DEF CountInv
  <1>b. ASSUME NEW v \in Writers, writer_queues'[v] = writer_queues[v]
        PROVE  \A k \in DOMAIN writer_queues'[v] : Block(v, k)' => k \in Nat /\ Block(v, k + 0)
    <2> TAKE k \in DOMAIN writer_queues'[v]
    <2>1. k \in Nat /\ k + 0 = k  BY <1>b, <1>q
    <2> QED BY <1>b, <2>1 DEF Block
  <1>u. ASSUME UNCHANGED <<writer_queues, job_count, writers>>
        PROVE  CountInv'
    <2>1. ASSUME NEW v \in Writers PROVE CountOf(v)'
      <3>1. \A k \in DOMAIN writer_queues'[v] : Block(v, k)' => k \in Nat /\ Block(v, k + 0)
        BY <1>u, <1>b
      <3>2. writers'[v] = writers[v] /\ job_count'[v] = job_count[v]  BY <1>u
      <3> QED BY <1>q, <3>1, <3>2, CountKept
    <2> QED BY <2>1 DEF CountInv
  <1>1. ASSUME NEW w \in Writers, Writer(w) PROVE CountInv'
    <2>1. ASSUME NEW v \in Writers, v # w, writer_queues'[v] = writer_queues[v],
                 job_count'[v] = job_count[v]
          PROVE  CountOf(v)'
      <3>1. \A k \in DOMAIN writer_queues'[v] : Block(v, k)' => k \in Nat /\ Block(v, k + 0)
        BY <2>1, <1>b
      <3>2. writers'[v] = writers[v]  BY <1>1, <2>1, WriterEffects
      <3> QED BY <1>q, <2>1, <3>1, <3>2, CountKept
    <2>2. CASE NextHandle(w)
      <3>1. /\ writer_queues[w] # <<>> /\ Receive(w) /\ writers[w].pc = "take"
            /\ UNCHANGED job_count
        BY <1>0, <2>2, NextHandleIs
      <3>2. /\ \A q \in Queues : q # w => writer_queues'[q] = writer_queues[q]
            /\ writer_queues' \in [Queues -> Seq(ToWriter)]
            /\ \A k \in DOMAIN writer_queues'[w] :
                  k + 1 \in DOMAIN writer_queues[w]
                  /\ writer_queues'[w][k] = writer_queues[w][k + 1]
        BY <1>0, <3>1, ReceiveIs
      <3>3. ASSUME NEW k \in DOMAIN writer_queues'[w], Block(w, k)'
            PROVE  k \in Nat /\ Block(w, k + 1)
        <4>1. k \in Nat  BY <3>2, <1>q
        <4>2. writer_queues'[w][k].type = "write" /\ writer_queues'[w][k].len > 0
          BY <3>3 DEF Block
        <4> QED BY <3>2, <4>1, <4>2 DEF Block
      <3>4. CountOf(w)'  BY <3>1, <3>3, <1>q, CountKept
      <3>5. \A v \in Writers : v # w => CountOf(v)'  BY <2>1, <3>1, <3>2, <1>q
      <3> QED BY <3>4, <3>5 DEF CountInv
    <2>3. CASE TakeAbort(w)
      <3>1. /\ writer_queues[w] # <<>> /\ Receive(w) /\ writers'[w].pc = "close"
            /\ job_count' = [job_count EXCEPT ![w] = @ - 1]
        BY <1>0, <2>3, AbortIs
      <3>2. \A q \in Queues : q # w => writer_queues'[q] = writer_queues[q]
        BY <1>0, <3>1, ReceiveIs
      <3>3. \A v \in Writers : v # w => job_count'[v] = job_count[v]
        BY <3>1, <1>0, <1>q DEF TypeInv
      <3>4. CountOf(w)'  BY <3>1 DEF CountOf
      <3>5. \A v \in Writers : v # w => CountOf(v)'  BY <2>1, <3>2, <3>3, <1>q
      <3> QED BY <3>4, <3>5 DEF CountInv
    <2>4. CASE TakeFits(w) \/ TakeAsks(w) \/ TakeSwitches(w)
      <3>1. TakeJob(w) /\ Ready(w, "write")  BY <1>0, <2>4, TakesIs
      <3>2. /\ writers[w].pc = "take" /\ writer_queues[w] # <<>> /\ Receive(w)
            /\ job_count' = [job_count EXCEPT ![w] = 0] /\ Block(w, 1)
        BY <1>0, <3>1, Taken
      <3>3. /\ \A q \in Queues : q # w => writer_queues'[q] = writer_queues[q]
            /\ writer_queues' \in [Queues -> Seq(ToWriter)]
            /\ \A k \in DOMAIN writer_queues'[w] :
                  k + 1 \in DOMAIN writer_queues[w]
                  /\ writer_queues'[w][k] = writer_queues[w][k + 1]
            /\ 1 \in DOMAIN writer_queues[w]
        BY <1>0, <3>2, ReceiveIs
      <3>4. \A k, l \in DOMAIN writer_queues[w] : Block(w, k) /\ Block(w, l) => k = l
        BY <3>2, <1>q DEF CountOf
      <3>5. ASSUME NEW k \in DOMAIN writer_queues'[w], Block(w, k)' PROVE FALSE
        <4>1. k \in Nat \ {0}  BY <3>3, <1>q
        <4>2. writer_queues'[w][k].type = "write" /\ writer_queues'[w][k].len > 0
          BY <3>5 DEF Block
        <4>3. Block(w, k + 1)  BY <3>3, <4>2 DEF Block
        <4>4. k + 1 = 1  BY <3>2, <3>3, <3>4, <4>3
        <4> QED BY <4>1, <4>4
      <3>6. job_count'[w] = 0 /\ \A v \in Writers : v # w => job_count'[v] = job_count[v]
        BY <3>2, <1>0, <1>q DEF TypeInv
      <3>7. CountOf(w)'  BY <3>5, <3>6 DEF CountOf
      <3>8. \A v \in Writers : v # w => CountOf(v)'  BY <2>1, <3>3, <3>6, <1>q
      <3> QED BY <3>7, <3>8 DEF CountInv
    <2>5. CASE WriteBlock(w)
      <3>1. writers[w].pc = "write" /\ UNCHANGED <<writer_queues, job_count>>
        BY <2>5, WriteIs
      <3>2. \A k \in DOMAIN writer_queues'[w] : Block(w, k)' => k \in Nat /\ Block(w, k + 0)
        BY <3>1, <1>b
      <3>3. CountOf(w)'  BY <3>1, <3>2, <1>q, CountKept
      <3>4. \A v \in Writers : v # w => CountOf(v)'  BY <2>1, <3>1
      <3> QED BY <3>3, <3>4 DEF CountInv
    <2>6. CASE WriteFails(w) \/ CloseFile(w)
      <3>1. writers'[w].pc \in {"close", "off"} /\ UNCHANGED <<writer_queues, job_count>>
        BY <1>0, <2>6, FailsIs, CloseIs
      <3>3. CountOf(w)'  BY <3>1 DEF CountOf
      <3>4. \A v \in Writers : v # w => CountOf(v)'  BY <2>1, <3>1
      <3> QED BY <3>3, <3>4 DEF CountInv
    <2> QED BY <1>1, <2>2, <2>3, <2>4, <2>5, <2>6 DEF Writer
  <1>2. CASE FillQueue
    <2>0. mgr.at \in Writers /\ UNCHANGED writers  BY <1>0, <1>2 DEF FillQueue, FlowInv
    <2>1. CASE UNCHANGED <<writer_queues, job_count>>  BY <2>0, <2>1, <1>u
    <2>2. CASE \E b \in BlocksFor(mgr.at) : \E n \in Shortened(b[2]) :
                  Enqueue(mgr.at, <<b[1], n>>)
      <3>1. PICK w \in Writers : w = mgr.at  BY <2>0
      <3>2. PICK b \in BlocksFor(w) : \E n \in Shortened(b[2]) : Enqueue(w, <<b[1], n>>)
        BY <2>2, <3>1
      <3>3. PICK n \in Shortened(b[2]) : Enqueue(w, <<b[1], n>>)  BY <3>2
      <3>4. b[1] \in Nat /\ n \in Nat \ {0} /\ n <= ChunkSize /\ job_count[w] = 0
        BY <1>q, BlockFound
      <3>5. /\ writer_queues' = [writer_queues EXCEPT ![w] = Append(@, WriteJob(w, b[1], n))]
            /\ job_count' = [job_count EXCEPT ![w] = @ + 1]
        BY <3>3 DEF Enqueue
      <3>6. WriteJob(w, b[1], n) \in ToWriter
        <4>1. n \in 0..ChunkSize  BY <3>4, SizeAssumption
        <4> QED BY <4>1, <3>4, <1>q DEF WriteJob, ToWriter, WriteJobs
      <3>7. /\ \A p \in Queues : p # w => writer_queues'[p] = writer_queues[p]
            /\ Len(writer_queues[w]) \in Nat
            /\ DOMAIN writer_queues[w] = 1..Len(writer_queues[w])
            /\ DOMAIN writer_queues'[w] = 1..Len(writer_queues[w]) + 1
            /\ \A k \in DOMAIN writer_queues[w] : writer_queues'[w][k] = writer_queues[w][k]
        BY <1>0, <1>q, <3>5, <3>6, GrownIs
      <3>8. job_count'[w] = 1 /\ \A v \in Writers : v # w => job_count'[v] = job_count[v]
        BY <3>4, <3>5, <1>0, <1>q DEF TypeInv
      <3>9. ASSUME writers[w].pc \in {"take", "write"},
                   NEW k \in DOMAIN writer_queues'[w], Block(w, k)'
            PROVE  k = Len(writer_queues[w]) + 1
        <4>1. CASE k \in DOMAIN writer_queues[w]
          <5>1. Block(w, k)  BY <3>7, <3>9, <4>1 DEF Block
          <5>2. job_count[w] = 1  BY <3>9, <4>1, <5>1, <1>q DEF CountOf
          <5> QED BY <5>2, <3>4
        <4>2. CASE k \notin DOMAIN writer_queues[w]  BY <3>7, <4>2
        <4> QED BY <4>1, <4>2
      <3>10. CountOf(w)'  BY <2>0, <3>8, <3>9 DEF CountOf
      <3>11. ASSUME NEW v \in Writers, v # w PROVE CountOf(v)'
        <4>1. writer_queues'[v] = writer_queues[v] /\ job_count'[v] = job_count[v]
          BY <3>7, <3>8, <3>11, <1>q
        <4>2. \A k \in DOMAIN writer_queues'[v] : Block(v, k)' => k \in Nat /\ Block(v, k + 0)
          BY <4>1, <1>b
        <4> QED BY <1>q, <2>0, <4>1, <4>2, CountKept
      <3> QED BY <3>10, <3>11 DEF CountInv
    <2> QED BY <1>2, <2>1, <2>2 DEF FillQueue
  <1>3. CASE HandleWanted \/ AbortWriters
    <2>0. UNCHANGED <<writers, job_count>>  BY <1>3 DEF HandleWanted, AbortWriters
    <2>1. PICK q \in Queues, j \in ToWriter :
              /\ writer_queues' = [writer_queues EXCEPT ![q] = Append(@, j)]
              /\ ~ (j.type = "write" /\ j.len > 0)
      <3>1. CASE HandleWanted
        <4>1. PICK j \in HandleJobs :
                writer_queues' = [writer_queues EXCEPT ![mgr.job.writer] = Append(@, j)]
          BY <1>0, <3>1, HandleSent
        <4>2. mgr.job.writer \in Queues
          <5>1. mgr.job \in HandleJobs  BY <1>0, <3>1, HandleSent
          <5> QED BY <5>1, <1>q DEF HandleJobs
        <4>3. j \in ToWriter /\ j.type # "write"  BY DEF ToWriter, HandleJobs
        <4>4. PICK q \in Queues : q = mgr.job.writer  BY <4>2
        <4> QED BY <4>1, <4>3, <4>4, Zenon
      <3>2. CASE AbortWriters
        <4>1. writer_queues' = [writer_queues EXCEPT ![mgr.at] = Append(@, AbortJob)]
          BY <3>2 DEF AbortWriters
        <4>2. mgr.at \in Queues  BY <1>0, MgrIs DEF Queues
        <4>3. AbortJob \in ToWriter /\ AbortJob.len = 0
          BY SizeAssumption DEF AbortJob, WriteJob, ToWriter, WriteJobs, Queues, None
        <4>4. PICK q \in Queues, j \in ToWriter : q = mgr.at /\ j = AbortJob
          BY <4>2, <4>3
        <4>5. writer_queues' = [writer_queues EXCEPT ![q] = Append(@, j)]
          BY <4>1, <4>4
        <4>6. ~ (j.type = "write" /\ j.len > 0)  BY <4>3, <4>4
        <4> QED BY <4>5, <4>6, Zenon
      <3> QED BY <1>3, <3>1, <3>2
    <2>2. /\ \A p \in Queues : p # q => writer_queues'[p] = writer_queues[p]
          /\ Len(writer_queues[q]) \in Nat
          /\ DOMAIN writer_queues[q] = 1..Len(writer_queues[q])
          /\ DOMAIN writer_queues'[q] = 1..Len(writer_queues[q]) + 1
          /\ writer_queues'[q][Len(writer_queues[q]) + 1] = j
          /\ \A k \in DOMAIN writer_queues[q] : writer_queues'[q][k] = writer_queues[q][k]
      BY <1>0, <2>1, GrownIs
    <2>3. ASSUME NEW v \in Writers PROVE CountOf(v)'
      <3>1. \A k \in DOMAIN writer_queues'[v] : Block(v, k)' => k \in Nat /\ Block(v, k + 0)
        <4>1. CASE v = q
          <5> TAKE k \in DOMAIN writer_queues'[v]
          <5>1. k \in Nat /\ k + 0 = k  BY <2>2, <4>1
          <5>2. CASE k \in DOMAIN writer_queues[v]
            BY <2>2, <4>1, <5>1, <5>2 DEF Block
          <5>3. CASE k \notin DOMAIN writer_queues[v]
            <6>1. k = Len(writer_queues[q]) + 1  BY <2>2, <4>1, <5>3
            <6>2. writer_queues'[v][k] = j  BY <6>1, <2>2, <4>1
            <6> QED BY <6>2, <2>1 DEF Block
          <5> QED BY <5>2, <5>3
        <4>2. CASE v # q
          <5>1. writer_queues'[v] = writer_queues[v]  BY <2>2, <4>2, <1>q
          <5> QED BY <5>1, <1>b
        <4> QED BY <4>1, <4>2
      <3>2. writers'[v] = writers[v] /\ job_count'[v] = job_count[v]  BY <2>0
      <3> QED BY <1>q, <3>1, <3>2, CountKept
    <2> QED BY <2>3 DEF CountInv
  <1>4. CASE Flush
    <2>1. \A v \in Writers : writers'[v].pc = "off"  BY <1>4, NoThreads DEF Flush, Alive
    <2> QED BY <2>1 DEF CountInv, CountOf
  <1>5. CASE OpenFiles
    <2>1. writer_queues' = [q \in Queues |-> <<>>]
          /\ job_count' = [w \in Queues |-> IF w \in Writers THEN 0 ELSE job_count[w]]
      BY <1>5, <1>0 DEF OpenFiles, FlowInv
    <2>2. \A v \in Writers : writer_queues'[v] = <<>> /\ job_count'[v] = 0  BY <1>q, <2>1
    <2> QED BY <2>2 DEF CountInv, CountOf
  <1>6. CASE Camera \/ DmaDone \/ TakeSlot \/ ReleaseSlot \/ PressRec
    <2>1. UNCHANGED <<writer_queues, job_count, writers>>
      BY <1>6 DEF Camera, VsyncBusy, SettingsChanged, CaptureFrame, SkipFrame, DmaDone,
                  TakeSlot, ReleaseSlot, PressRec
    <2> QED BY <2>1, <1>u
  <1>7. CASE Prepare \/ Begin \/ MgrLoop \/ CleanUp \/ NothingReturned \/ WriteReturned
             \/ CloseWanted \/ Stopping \/ Drain
    <2>1. UNCHANGED <<writer_queues, job_count, writers>>
      BY <1>7 DEF Prepare, Begin, MgrLoop, CleanUp, NothingReturned, WriteReturned,
                  CloseWanted, Stopping, Drain
    <2> QED BY <2>1, <1>u
  <1>8. CASE UNCHANGED vars
    <2>1. UNCHANGED <<writer_queues, job_count, writers>>  BY <1>8 DEF vars
    <2> QED BY <2>1, <1>u
  <1> QED BY <1>1, <1>2, <1>3, <1>4, <1>5, <1>6, <1>7, <1>8 DEF Next, Manager

-----------------------------------------------------------------------------
(* Jobs are not made out of nothing                                        *)

LEMMA Counted ==
    ASSUME TypeInv
    PROVE  /\ Backlog(0) \in Nat /\ Backlog(1) \in Nat
           /\ Waiting \in Nat /\ Carried \in Nat /\ Len(mgr_queue) \in Nat /\ OnHand \in {0, 1}
           /\ pool \in Nat /\ NJobs \in Nat
  <1>1. \A q \in Queues : writer_queues[q] \in Seq(ToWriter)  BY DEF TypeInv
  <1>2. \A q \in Queues : Backlog(q) \in Nat  BY <1>1 DEF Backlog
  <1>3. Backlog(0) \in Nat /\ Backlog(1) \in Nat  BY <1>2 DEF Queues
  <1>4. Waiting \in Nat  BY <1>3 DEF Waiting
  <1>5. Carries(0) \in {0, 1} /\ Carries(1) \in {0, 1} /\ OnHand \in {0, 1}
    BY DEF Carries, OnHand
  <1>6. Carried \in Nat  BY <1>5 DEF Carried
  <1>7. Len(mgr_queue) \in Nat /\ pool \in Nat  BY DEF TypeInv
  <1> QED BY <1>3, <1>4, <1>5, <1>6, <1>7, SizeAssumption

LEMMA WaitingGrows ==
    ASSUME TypeInv, NEW q \in Queues, NEW j \in ToWriter,
           writer_queues' = [writer_queues EXCEPT ![q] = Append(@, j)]
    PROVE  Waiting' = Waiting + 1
  <1>0. /\ \A p \in Queues : p # q => writer_queues'[p] = writer_queues[p]
        /\ Len(writer_queues'[q]) = Len(writer_queues[q]) + 1
    BY GrownIs
  <1>1. \A p \in Queues : Backlog(p)' = IF p = q THEN Backlog(p) + 1 ELSE Backlog(p)
    BY <1>0 DEF Backlog
  <1>2. Backlog(0) \in Nat /\ Backlog(1) \in Nat  BY Counted
  <1>3. CASE q = 0
    <2>1. Backlog(0)' = Backlog(0) + 1 /\ Backlog(1)' = Backlog(1)  BY <1>1, <1>3 DEF Queues
    <2> QED BY <1>2, <2>1 DEF Waiting
  <1>4. CASE q = 1
    <2>1. Backlog(0)' = Backlog(0) /\ Backlog(1)' = Backlog(1) + 1  BY <1>1, <1>4 DEF Queues
    <2> QED BY <1>2, <2>1 DEF Waiting
  <1> QED BY <1>3, <1>4 DEF Queues

LEMMA WaitingShrinks ==
    ASSUME TypeInv, NEW w \in Writers, writer_queues[w] # <<>>, Receive(w)
    PROVE  Waiting' = Waiting - 1
  <1>1. \A p \in Queues : Backlog(p)' = IF p = w THEN Backlog(p) - 1 ELSE Backlog(p)
    BY ReceiveIs DEF Backlog
  <1>2. Backlog(0) \in Nat /\ Backlog(1) \in Nat  BY Counted
  <1>3. w \in Queues  BY WriterIs
  <1>4. CASE w = 0
    <2>1. Backlog(0)' = Backlog(0) - 1 /\ Backlog(1)' = Backlog(1)  BY <1>1, <1>4 DEF Queues
    <2> QED BY <1>2, <2>1 DEF Waiting
  <1>5. CASE w = 1
    <2>1. Backlog(0)' = Backlog(0) /\ Backlog(1)' = Backlog(1) - 1  BY <1>1, <1>5 DEF Queues
    <2> QED BY <1>2, <2>1 DEF Waiting
  <1> QED BY <1>3, <1>4, <1>5 DEF Queues

LEMMA CarriedChanges ==
    ASSUME NEW w \in Writers, \A v \in Writers : v # w => writers'[v] = writers[v]
    PROVE  Carried' = Carried - Carries(w) + Carries(w)'
  <1>1. w \in {0, 1}  BY WriterAssumption DEF Writers
  <1>2. \A v \in {0, 1} : Carries(v) \in {0, 1} /\ Carries(v)' \in {0, 1}  BY DEF Carries
  <1>3. \A v \in {0, 1} : v # w => Carries(v)' = Carries(v)  BY DEF Carries
  <1>4. CASE w = 0  BY <1>2, <1>3, <1>4 DEF Carried
  <1>5. CASE w = 1  BY <1>2, <1>3, <1>5 DEF Carried
  <1> QED BY <1>1, <1>4, <1>5

LEMMA PoolOfWriters == ASSUME IInv, NEW w \in Writers, Writer(w) PROVE PoolInv'
  <1>0. TypeInv /\ TypeInv' /\ WriterInv /\ CountInv /\ PoolInv
    BY WriterType DEF IInv
  <1>1. /\ Waiting \in Nat /\ Carried \in Nat /\ Len(mgr_queue) \in Nat /\ OnHand \in {0, 1}
        /\ pool \in Nat /\ NJobs \in Nat
        /\ pool + Waiting + Len(mgr_queue) + OnHand + Carried <= NJobs
    BY <1>0, Counted DEF PoolInv
  <1>2. Carried' = Carried - Carries(w) + Carries(w)' /\ OnHand' = OnHand
    <2>1. UNCHANGED mgr /\ \A v \in Writers : v # w => writers'[v] = writers[v]
      BY WriterEffects
    <2> QED BY <2>1, CarriedChanges DEF OnHand
  <1>3. /\ Carries(w) = IF writers[w].job.type = "write" THEN 1 ELSE 0
        /\ Carries(w)' = IF writers'[w].job.type = "write" THEN 1 ELSE 0
    BY DEF Carries
  <1>w. ASSUME UNCHANGED writer_queues PROVE Waiting' = Waiting  BY <1>w DEF Waiting, Backlog
  <1>4. CASE NextHandle(w)
    <2>1. /\ writer_queues[w] # <<>> /\ Receive(w) /\ UNCHANGED <<mgr_queue, pool>>
          /\ writers'[w].job = writers[w].job
      BY <1>0, <1>4, NextHandleIs
    <2>2. Waiting' = Waiting - 1  BY <1>0, <2>1, WaitingShrinks
    <2>3. Carried' = Carried  BY <1>1, <1>2, <1>3, <2>1
    <2>4. pool' + Waiting' + Len(mgr_queue') + OnHand' + Carried' <= NJobs
      BY <1>1, <1>2, <2>1, <2>2, <2>3
    <2> QED BY <2>4 DEF PoolInv
  <1>5. CASE TakeAbort(w)
    <2>1. /\ writer_queues[w] # <<>> /\ Receive(w) /\ UNCHANGED mgr_queue /\ pool' = pool + 1
          /\ writers'[w].job = writers[w].job
      BY <1>0, <1>5, AbortIs
    <2>2. Waiting' = Waiting - 1  BY <1>0, <2>1, WaitingShrinks
    <2>3. Carried' = Carried  BY <1>1, <1>2, <1>3, <2>1
    <2>4. pool' + Waiting' + Len(mgr_queue') + OnHand' + Carried' <= NJobs
      BY <1>1, <1>2, <2>1, <2>2, <2>3
    <2> QED BY <2>4 DEF PoolInv
  <1>6. CASE TakeFits(w) \/ TakeAsks(w) \/ TakeSwitches(w)
    <2>1. TakeJob(w) /\ Ready(w, "write")  BY <1>0, <1>6, TakesIs
    <2>2. /\ writer_queues[w] # <<>> /\ Receive(w) /\ writers[w].job = NoJob
      BY <1>0, <2>1, Taken
    <2>3. Waiting' = Waiting - 1  BY <1>0, <2>2, WaitingShrinks
    <2>4. Carried' <= Carried + 1 /\ Carried' \in Nat
      <3>1. writers[w].job.type # "write"  BY <2>2 DEF NoJob
      <3>2. Carries(w) = 0 /\ Carries(w)' \in {0, 1}  BY <1>3, <3>1
      <3> QED BY <1>1, <1>2, <3>2
    <2>5. pool' + Len(mgr_queue') = pool + Len(mgr_queue) /\ pool' \in Nat /\ Len(mgr_queue') \in Nat
      <3>1. CASE UNCHANGED <<mgr_queue, pool>>  BY <3>1, <1>1
      <3>2. CASE /\ pool > 0 /\ pool' = pool - 1
                 /\ \E j \in HandleJobs \cup CloseJobs : mgr_queue' = Append(mgr_queue, j)
        <4>1. PICK j \in HandleJobs \cup CloseJobs : mgr_queue' = Append(mgr_queue, j)
          BY <3>2
        <4>2. j \in ToManager  BY DEF ToManager
        <4>3. Len(mgr_queue') = Len(mgr_queue) + 1  BY <1>0, <4>1, <4>2, SentIs
        <4> QED BY <3>2, <4>3, <1>1
      <3>3. \/ UNCHANGED <<mgr_queue, pool>>
            \/ pool > 0 /\ pool' = pool - 1
                  /\ \E j \in HandleJobs \cup CloseJobs : mgr_queue' = Append(mgr_queue, j)
        BY <1>0, <1>6, TakesIs, Zenon
      <3> QED BY <3>1, <3>2, <3>3
    <2>6. pool' + Waiting' + Len(mgr_queue') + OnHand' + Carried' <= NJobs
      <3>1. PICK a \in Nat, b \in Nat, c \in Nat :
                a = pool' /\ b = Len(mgr_queue') /\ c = Carried'
        BY <2>4, <2>5
      <3>2. PICK d \in Nat, e \in Nat, g \in Nat, h \in Nat, i \in Nat, n \in Nat :
                /\ d = pool /\ e = Len(mgr_queue) /\ g = Carried /\ h = Waiting
                /\ i = OnHand /\ n = NJobs
        BY <1>1
      <3>3. OnHand' = i  BY <1>2, <3>2
      <3>4. Waiting' = h - 1  BY <2>3, <3>2
      <3>5. c <= g + 1 /\ a + b = d + e  BY <2>4, <2>5, <3>1, <3>2
      <3>6. d + h + e + i + g <= n  BY <1>1, <3>2
      <3>7. a + (h - 1) + b + i + c <= n  BY <3>5, <3>6
      <3> QED BY <3>1, <3>2, <3>3, <3>4, <3>7
    <2> QED BY <2>6 DEF PoolInv
  <1>7. CASE WriteBlock(w)
    <2>1. /\ writers[w].job \in WriteJobs /\ mgr_queue' = Append(mgr_queue, writers[w].job)
          /\ writers'[w].job = NoJob /\ UNCHANGED <<writer_queues, pool>>
      BY <1>7, WriteIs
    <2>2. Len(mgr_queue') = Len(mgr_queue) + 1
      <3>1. PICK j \in ToManager : j = writers[w].job  BY <2>1 DEF ToManager
      <3>2. mgr_queue' = Append(mgr_queue, j)  BY <2>1, <3>1
      <3> QED BY <1>0, <3>2, SentIs
    <2>3. Carried' = Carried - 1
      <3>1. Carries(w) = 1 /\ Carries(w)' = 0  BY <1>3, <2>1 DEF WriteJobs, NoJob
      <3> QED BY <1>1, <1>2, <3>1
    <2>w. Waiting' = Waiting /\ pool' = pool /\ OnHand' = OnHand  BY <1>2, <1>w, <2>1
    <2>4. pool' + Waiting' + Len(mgr_queue') + OnHand' + Carried' <= NJobs
      BY ONLY <1>1, <2>2, <2>3, <2>w
    <2> QED BY <2>4 DEF PoolInv
  <1>8. CASE WriteFails(w) \/ CloseFile(w)
    <2>1. /\ writers'[w].job = writers[w].job
          /\ UNCHANGED <<writer_queues, pool, mgr_queue>>
      BY <1>0, <1>8, FailsIs, CloseIs
    <2>2. Carried' = Carried  BY <1>1, <1>2, <1>3, <2>1
    <2>3. pool' + Waiting' + Len(mgr_queue') + OnHand' + Carried' <= NJobs
      BY <1>1, <1>2, <1>w, <2>1, <2>2
    <2> QED BY <2>3 DEF PoolInv
  <1> QED BY <1>4, <1>5, <1>6, <1>7, <1>8 DEF Writer

LEMMA PoolStep == ASSUME IInv, [Next]_vars PROVE PoolInv'
  <1>0. TypeInv /\ TypeInv' /\ FlowInv /\ PoolInv /\ mgr \in Managers
    BY TypeStep DEF IInv, TypeInv
  <1>1. /\ Waiting \in Nat /\ Carried \in Nat /\ Len(mgr_queue) \in Nat /\ OnHand \in {0, 1}
        /\ pool \in Nat /\ NJobs \in Nat
        /\ pool + Waiting + Len(mgr_queue) + OnHand + Carried <= NJobs
    BY <1>0, Counted DEF PoolInv
  <1>c. ASSUME UNCHANGED writers PROVE Carried' = Carried
    BY <1>c DEF Carried, Carries
  <1>w. ASSUME UNCHANGED writer_queues PROVE Waiting' = Waiting  BY <1>w DEF Waiting, Backlog
  <1>2. CASE \E w \in Writers : Writer(w)  BY <1>2, PoolOfWriters
  <1>3. CASE \/ Camera \/ DmaDone \/ TakeSlot \/ ReleaseSlot
             \/ Begin \/ CleanUp \/ Stopping \/ Drain \/ PressRec \/ Prepare \/ UNCHANGED vars
    <2>1. UNCHANGED <<writer_queues, writers, mgr_queue, pool>>
      BY <1>3 DEF Camera, VsyncBusy, SettingsChanged, CaptureFrame, SkipFrame, DmaDone,
                  TakeSlot, ReleaseSlot, Begin, CleanUp, Stopping, Drain, PressRec, Prepare, vars
    <2>2. mgr'.job = mgr.job
      <3>1. CASE Begin
        <4>1. mgr' = [mgr EXCEPT !.pc = "loop", !.used = FALSE, !.job = NoJob]
              /\ mgr.pc = "begin"
          BY <3>1 DEF Begin
        <4>2. mgr'.job = NoJob  BY <4>1, <1>0 DEF Managers
        <4> QED BY <4>1, <4>2, <1>0 DEF FlowInv
      <3>2. CASE \E m \in {[mgr EXCEPT !.pc = "off", !.used = FALSE],
                           [mgr EXCEPT !.pc = "abort", !.at = 0], mgr} : mgr' = m
        BY <3>2, <1>0 DEF Managers
      <3>3. CASE \E pc : mgr' = [mgr EXCEPT !.pc = pc]
        <4>1. PICK pc : mgr' = [mgr EXCEPT !.pc = pc]  BY <3>3
        <4> QED BY <4>1, <1>0, MgrSet
      <3> QED BY <1>3, <3>1, <3>2, <3>3
          DEF Camera, VsyncBusy, SettingsChanged, CaptureFrame, SkipFrame, DmaDone,
              TakeSlot, ReleaseSlot, CleanUp, Stopping, Drain, PressRec, Prepare, vars
    <2>3. OnHand' = OnHand  BY <2>2 DEF OnHand
    <2>4. pool' + Waiting' + Len(mgr_queue') + OnHand' + Carried' <= NJobs
      BY <1>1, <1>c, <1>w, <2>1, <2>3
    <2> QED BY <2>4 DEF PoolInv
  <1>4. CASE OpenFiles
    <2>1. UNCHANGED <<writer_queues, mgr_queue, pool>>  BY <1>4 DEF OpenFiles
    <2>2. mgr'.job = mgr.job
      <3>1. \E pc : mgr' = [mgr EXCEPT !.pc = pc]  BY <1>4 DEF OpenFiles
      <3> QED BY <3>1, <1>0, MgrSet
    <2>3. Carried' <= Carried
      <3>1. CASE UNCHANGED writers  BY <3>1, <1>c, <1>1
      <3>2. CASE writers' = [w \in Writers |->
                  [Idle EXCEPT !.pc = "take", !.file = w + 1, !.num = w]]
        <4>1. \A w \in Writers : writers'[w].job.type # "write"  BY <3>2 DEF Idle, NoJob
        <4>2. Carries(0)' = 0 /\ Carries(1)' = 0  BY <4>1 DEF Carries
        <4> QED BY <4>2, <1>1 DEF Carried
      <3> QED BY <1>4, <3>1, <3>2 DEF OpenFiles
    <2>4. Carried' \in Nat
      <3>1. Carries(0)' \in {0, 1} /\ Carries(1)' \in {0, 1}  BY DEF Carries
      <3> QED BY <3>1 DEF Carried
    <2>5. OnHand' = OnHand  BY <2>2 DEF OnHand
    <2>6. pool' + Waiting' + Len(mgr_queue') + OnHand' + Carried' <= NJobs
      BY <1>1, <1>w, <2>1, <2>3, <2>4, <2>5
    <2> QED BY <2>6 DEF PoolInv
  <1>5. CASE MgrLoop
    <2>0. mgr.pc = "loop" /\ mgr.job = NoJob /\ UNCHANGED <<writer_queues, pool, writers>>
      BY <1>5, <1>0 DEF MgrLoop, FlowInv
    <2>1. OnHand = 0  BY <2>0 DEF OnHand, NoJob
    <2>2. CASE mgr_queue # <<>> /\ mgr_queue' = Tail(mgr_queue)
      <3>1. Len(mgr_queue') = Len(mgr_queue) - 1
        <4>1. mgr_queue \in Seq(ToManager)  BY <1>0 DEF TypeInv
        <4> QED BY <2>2, <4>1
      <3>2. OnHand' \in {0, 1}  BY DEF OnHand
      <3>3. pool' + Waiting' + Len(mgr_queue') + OnHand' + Carried' <= NJobs
        BY <1>1, <1>w, <1>c, <2>0, <2>1, <3>1, <3>2
      <3> QED BY <3>3 DEF PoolInv
    <2>3. CASE /\ UNCHANGED mgr_queue
               /\ \/ mgr' = [mgr EXCEPT !.pc = "stopping"]
                  \/ mgr' = [mgr EXCEPT !.pc = "cleanup"]
                  \/ mgr' = [mgr EXCEPT !.pc = "fill", !.at = 0, !.job = NoJob]
      <3>1. mgr'.job = NoJob  BY <2>0, <2>3, <1>0 DEF Managers
      <3>2. OnHand' = 0  BY <3>1 DEF OnHand, NoJob
      <3>3. pool' + Waiting' + Len(mgr_queue') + OnHand' + Carried' <= NJobs
        BY <1>1, <1>w, <1>c, <2>0, <2>1, <2>3, <3>2
      <3> QED BY <3>3 DEF PoolInv
    <2> QED BY <1>5, <2>2, <2>3 DEF MgrLoop
  <1>6. CASE FillQueue
    <2>0. UNCHANGED <<mgr_queue, writers>> /\ FillNext /\ mgr.pc = "fill"
      BY <1>6 DEF FillQueue
    <2>1. OnHand' = OnHand
      <3>1. mgr'.job = mgr.job
        <4>1. CASE mgr.at + 1 < NWriters  BY <4>1, <2>0, <1>0 DEF FillNext, Managers
        <4>2. CASE ~(mgr.at + 1 < NWriters)  BY <4>2, <2>0, <1>0 DEF FillNext, Managers
        <4> QED BY <4>1, <4>2
      <3> QED BY <3>1 DEF OnHand
    <2>2. CASE UNCHANGED <<writer_queues, pool>>
      <3>1. pool' + Waiting' + Len(mgr_queue') + OnHand' + Carried' <= NJobs
        BY <1>1, <1>w, <1>c, <2>0, <2>1, <2>2
      <3> QED BY <3>1 DEF PoolInv
    <2>3. CASE \E b \in BlocksFor(mgr.at) : \E n \in Shortened(b[2]) :
                  Enqueue(mgr.at, <<b[1], n>>)
      <3>1. PICK w \in Queues : w = mgr.at
        BY <1>0, <2>0, QueueOne, WriterAssumption DEF FlowInv
      <3>2. PICK b \in BlocksFor(w) : \E n \in Shortened(b[2]) : Enqueue(w, <<b[1], n>>)
        BY <2>3, <3>1
      <3>3. PICK n \in Shortened(b[2]) : Enqueue(w, <<b[1], n>>)  BY <3>2
      <3>4. b[1] \in Nat /\ n \in Nat \ {0} /\ n <= ChunkSize  BY BlockFound
      <3>5. /\ writer_queues' = [writer_queues EXCEPT ![w] = Append(@, WriteJob(w, b[1], n))]
            /\ pool > 0 /\ pool' = pool - 1
        BY <3>3 DEF Enqueue
      <3>6. WriteJob(w, b[1], n) \in ToWriter
        <4>1. n \in 0..ChunkSize  BY <3>4, SizeAssumption
        <4> QED BY <4>1, <3>4 DEF WriteJob, ToWriter, WriteJobs
      <3>7. Waiting' = Waiting + 1
        <4>1. PICK j \in ToWriter : j = WriteJob(w, b[1], n)  BY <3>6
        <4>2. writer_queues' = [writer_queues EXCEPT ![w] = Append(@, j)]  BY <3>5, <4>1
        <4> QED BY <1>0, <4>2, WaitingGrows
      <3>8. pool' + Waiting' + Len(mgr_queue') + OnHand' + Carried' <= NJobs
        BY <1>1, <1>c, <2>0, <2>1, <3>5, <3>7
      <3> QED BY <3>8 DEF PoolInv
    <2> QED BY <1>6, <2>2, <2>3 DEF FillQueue
  <1>7. CASE NothingReturned \/ WriteReturned \/ CloseWanted
    <2>1. /\ EndLoop /\ UNCHANGED <<writer_queues, mgr_queue, writers>>
          /\ pool' = pool \/ (pool' = pool + 1 /\ mgr.job.type \in {"write", "close"})
      BY <1>7 DEF NothingReturned, WriteReturned, CloseWanted, Returned
    <2>2. OnHand' = 0
      <3>1. mgr'.job = NoJob  BY <1>0, <2>1, EndLoopIs
      <3> QED BY <3>1 DEF OnHand, NoJob
    <2>3. pool' = pool + 1 /\ mgr.job.type \in {"write", "close"} => OnHand = 1  BY DEF OnHand
    <2>4. pool' + Waiting' + Len(mgr_queue') + OnHand' + Carried' <= NJobs
      BY <1>1, <1>w, <1>c, <2>1, <2>2, <2>3
    <2> QED BY <2>4 DEF PoolInv
  <1>8. CASE HandleWanted
    <2>1. /\ EndLoop /\ UNCHANGED <<pool, mgr_queue, writers>> /\ mgr.job.type = "handle"
      BY <1>8 DEF HandleWanted, Returned
    <2>2. OnHand' = 0 /\ OnHand = 1
      <3>1. mgr'.job = NoJob  BY <1>0, <2>1, EndLoopIs
      <3> QED BY <3>1, <2>1 DEF OnHand, NoJob
    <2>3. Waiting' = Waiting + 1
      <3>1. mgr.job \in HandleJobs  BY <1>0, <1>8, HandleSent
      <3>2. PICK q \in Queues : q = mgr.job.writer
        BY <3>1, QueueOne, WriterAssumption DEF HandleJobs
      <3>3. PICK j \in HandleJobs :
                writer_queues' = [writer_queues EXCEPT ![mgr.job.writer] = Append(@, j)]
        BY <1>0, <1>8, HandleSent
      <3>4. j \in ToWriter /\ writer_queues' = [writer_queues EXCEPT ![q] = Append(@, j)]
        BY <3>2, <3>3 DEF ToWriter
      <3> QED BY <1>0, <3>4, WaitingGrows
    <2>4. pool' + Waiting' + Len(mgr_queue') + OnHand' + Carried' <= NJobs
      BY <1>1, <1>c, <2>1, <2>2, <2>3
    <2> QED BY <2>4 DEF PoolInv
  <1>9. CASE AbortWriters
    <2>1. /\ UNCHANGED <<mgr_queue, writers>> /\ pool > 0 /\ pool' = pool - 1
          /\ mgr' = IF mgr.at = 0 THEN [mgr EXCEPT !.at = 1] ELSE [mgr EXCEPT !.pc = "flush"]
          /\ writer_queues' = [writer_queues EXCEPT ![mgr.at] = Append(@, AbortJob)]
      BY <1>9 DEF AbortWriters
    <2>2. OnHand' = OnHand
      <3>1. mgr'.job = mgr.job
        <4>1. CASE mgr.at = 0  BY <4>1, <2>1, <1>0 DEF Managers
        <4>2. CASE mgr.at # 0  BY <4>2, <2>1, <1>0 DEF Managers
        <4> QED BY <4>1, <4>2
      <3> QED BY <3>1 DEF OnHand
    <2>3. Waiting' = Waiting + 1
      <3>1. PICK q \in Queues, j \in ToWriter : q = mgr.at /\ j = AbortJob
        <4>1. mgr.at \in Queues  BY <1>0, MgrIs DEF Queues
        <4>2. AbortJob \in ToWriter
          BY SizeAssumption DEF AbortJob, WriteJob, ToWriter, WriteJobs, Queues, None
        <4> QED BY <4>1, <4>2
      <3>2. writer_queues' = [writer_queues EXCEPT ![q] = Append(@, j)]  BY <2>1, <3>1
      <3> QED BY <1>0, <3>2, WaitingGrows
    <2>4. pool' + Waiting' + Len(mgr_queue') + OnHand' + Carried' <= NJobs
      BY <1>1, <1>c, <2>1, <2>2, <2>3
    <2> QED BY <2>4 DEF PoolInv
  <1>10. CASE Flush
    <2>1. /\ mgr_queue' = <<>> /\ writer_queues' = [q \in Queues |-> <<>>]
          /\ mgr' = [mgr EXCEPT !.pc = "cleanup"] /\ UNCHANGED <<pool, writers>>
      BY <1>10 DEF Flush
    <2>2. Waiting' = 0 /\ Len(mgr_queue') = 0
      <3>1. \A q \in Queues : Backlog(q)' = 0  BY <2>1 DEF Backlog
      <3>2. Backlog(0)' = 0 /\ Backlog(1)' = 0  BY <3>1 DEF Queues
      <3> QED BY <3>2, <2>1 DEF Waiting
    <2>3. OnHand' = OnHand
      <3>1. mgr'.job = mgr.job  BY <2>1, <1>0, MgrSet
      <3> QED BY <3>1 DEF OnHand
    <2>4. pool' + Waiting' + Len(mgr_queue') + OnHand' + Carried' <= NJobs
      BY <1>1, <1>c, <2>1, <2>2, <2>3
    <2> QED BY <2>4 DEF PoolInv
  <1> QED BY <1>2, <1>3, <1>4, <1>5, <1>6, <1>7, <1>8, <1>9, <1>10 DEF Next, Manager

-----------------------------------------------------------------------------
(* Slots: a step moves one job from a place to another, and what is behind *)
(* it in a queue moves up.                                                 *)

LEMMA HolderIs ==
    ASSUME NEW k, NEW s
    PROVE  /\ \A q \in Queues : Holder(q, k, s) <=>
                 k \in DOMAIN writer_queues[q] /\ s \in JobSlots(writer_queues[q][k])
           /\ Holder(2, k, s) <=> k \in DOMAIN mgr_queue /\ s \in JobSlots(mgr_queue[k])
           /\ Holder(3, k, s) <=> k = 1 /\ s \in JobSlots(mgr.job)
           /\ Holder(4, k, s) <=> k \in Writers /\ s \in JobSlots(writers[k].job)
  BY DEF Holder, Index, JobAt, Queues

LEMMA HolderWillBe ==
    ASSUME NEW k, NEW s
    PROVE  /\ \A q \in Queues : Holder(q, k, s)' <=>
                 k \in DOMAIN writer_queues'[q] /\ s \in JobSlots(writer_queues'[q][k])
           /\ Holder(2, k, s)' <=> k \in DOMAIN mgr_queue' /\ s \in JobSlots(mgr_queue'[k])
           /\ Holder(3, k, s)' <=> k = 1 /\ s \in JobSlots(mgr'.job)
           /\ Holder(4, k, s)' <=> k \in Writers /\ s \in JobSlots(writers'[k].job)
  BY DEF Holder, Index, JobAt, Queues

LEMMA HolderInt ==
    ASSUME TypeInv, NEW c \in 0..4, NEW k, NEW s, Holder(c, k, s)
    PROVE  k \in Int
  <1>1. c \in Queues \/ c = 2 \/ c = 3 \/ c = 4  BY DEF Queues
  <1>2. /\ \A q \in Queues : Len(writer_queues[q]) \in Nat
                             /\ DOMAIN writer_queues[q] = 1..Len(writer_queues[q])
        /\ Len(mgr_queue) \in Nat /\ DOMAIN mgr_queue = 1..Len(mgr_queue)
    BY DEF TypeInv
  <1>3. CASE c \in Queues
    <2>1. k \in DOMAIN writer_queues[c]  BY <1>3, HolderIs
    <2>2. k \in 1..Len(writer_queues[c]) /\ Len(writer_queues[c]) \in Nat  BY <1>2, <1>3, <2>1
    <2> QED BY <2>2
  <1>4. CASE c = 2  BY <1>2, <1>4, HolderIs
  <1>5. CASE c = 3  BY <1>5, HolderIs
  <1>6. CASE c = 4  BY <1>6, HolderIs DEF Writers
  <1> QED BY <1>1, <1>3, <1>4, <1>5, <1>6

\* how far the jobs of place c move up when queue src loses its head
Up(c, src, d) == IF c = src THEN d ELSE 0

\* the slots of the job at place src, i are those of the job at dst, j
JobMoves(src, i, dst, j, d) ==
    /\ \A c \in 0..4 : \A k \in Int : \A s : Holder(c, k, s)' =>
          \/ c = dst /\ k = j /\ Holder(src, i, s)
          \/ /\ ~(c = dst /\ k = j) /\ Holder(c, k + Up(c, src, d), s)
             /\ ~(c = src /\ k + d = i)
    /\ \A s : Holder(src, i, s) => Holder(dst, j, s)'
    /\ \A c \in 0..4 : \A k \in Int : \A s :
          Holder(c, k, s) /\ ~(c = src /\ k = i) => Holder(c, k - Up(c, src, d), s)'

LEMMA SlotsMove ==
    ASSUME SlotInv, TypeInv, TypeInv', mgr.pc \notin {"open", "dead"},
           NEW src \in 0..4, NEW i \in Int, NEW dst \in 0..4, NEW j \in Int, NEW d \in {0, 1},
           \A s \in Slots : slots'[s].st = "writing" <=> slots[s].st = "writing",
           JobMoves(src, i, dst, j, d)
    PROVE  SlotInv'
  <1>m. /\ \A c \in 0..4 : \A k \in Int : \A s : Holder(c, k, s)' =>
              \/ c = dst /\ k = j /\ Holder(src, i, s)
              \/ /\ ~(c = dst /\ k = j) /\ Holder(c, k + Up(c, src, d), s)
                 /\ ~(c = src /\ k + d = i)
        /\ \A s : Holder(src, i, s) => Holder(dst, j, s)'
        /\ \A c \in 0..4 : \A k \in Int : \A s :
              Holder(c, k, s) /\ ~(c = src /\ k = i) => Holder(c, k - Up(c, src, d), s)'
    BY DEF JobMoves
  <1>1. /\ \A c \in 0..4 : \A k \in Int : \A s : Holder(c, k, s) =>
              s \in Slots /\ slots[s].st = "writing"
        /\ \A s \in Slots : slots[s].st = "writing" =>
              \E c \in 0..4 : \E k \in Int : Holder(c, k, s)
        /\ \A s \in Slots : \A c, e \in 0..4 : \A k, l \in Int :
              Holder(c, k, s) /\ Holder(e, l, s) => c = e /\ k = l
    <2>1. \A c \in 0..4 : \A k : \A s : Holder(c, k, s) => k \in Int  BY HolderInt
    <2> QED BY <2>1 DEF SlotInv, Holder
  <1>2. \A c \in 0..4 : \A k \in Int : k + Up(c, src, d) \in Int /\ k - Up(c, src, d) \in Int
    BY DEF Up
  <1>3. \A c \in 0..4 : \A k : \A s : Holder(c, k, s)' => k \in Int
    <2> SUFFICES ASSUME NEW c \in 0..4, NEW k, NEW s, Holder(c, k, s)' PROVE k \in Int
      OBVIOUS
    <2>1. c \in Queues \/ c = 2 \/ c = 3 \/ c = 4  BY DEF Queues
    <2>2. /\ \A q \in Queues : Len(writer_queues'[q]) \in Nat
                               /\ DOMAIN writer_queues'[q] = 1..Len(writer_queues'[q])
          /\ Len(mgr_queue') \in Nat /\ DOMAIN mgr_queue' = 1..Len(mgr_queue')
      BY SMTT(30) DEF TypeInv
    <2>3. CASE c \in Queues
      <3>1. k \in DOMAIN writer_queues'[c]  BY <2>3, HolderWillBe
      <3>2. k \in 1..Len(writer_queues'[c]) /\ Len(writer_queues'[c]) \in Nat
        BY <2>2, <2>3, <3>1
      <3> QED BY <3>2
    <2>4. CASE c = 2  BY <2>2, <2>4, HolderWillBe
    <2>5. CASE c = 3  BY <2>5, HolderWillBe
    <2>6. CASE c = 4  BY <2>6, HolderWillBe DEF Writers
    <2> QED BY <2>1, <2>3, <2>4, <2>5, <2>6
  <1>4. ASSUME NEW c \in 0..4, NEW k \in Int, NEW s, Holder(c, k, s)'
        PROVE  s \in Slots /\ slots'[s].st = "writing"
    <2>1. CASE Holder(src, i, s)  BY <2>1, <1>1
    <2>2. CASE Holder(c, k + Up(c, src, d), s)  BY <2>2, <1>1, <1>2
    <2> QED BY <1>m, <1>4, <2>1, <2>2
  <1>5. ASSUME NEW s \in Slots, slots'[s].st = "writing"
        PROVE  \E c \in 0..4 : \E k \in Int : Holder(c, k, s)'
    <2>1. PICK c \in 0..4 : \E k \in Int : Holder(c, k, s)  BY <1>5, <1>1
    <2>2. PICK k \in Int : Holder(c, k, s)  BY <2>1
    <2>3. CASE c = src /\ k = i  BY <1>m, <2>2, <2>3
    <2>4. CASE ~(c = src /\ k = i)  BY <1>m, <2>2, <2>4, <1>2
    <2> QED BY <2>3, <2>4
  <1>6. ASSUME NEW s \in Slots, NEW c \in 0..4, NEW e \in 0..4, NEW k \in Int, NEW l \in Int,
               Holder(c, k, s)', Holder(e, l, s)'
        PROVE  c = e /\ k = l
    <2> DEFINE u == k + Up(c, src, d)
               v == l + Up(e, src, d)
    <2>0. u \in Int /\ v \in Int  BY <1>2
    <2>1. \/ c = dst /\ k = j /\ Holder(src, i, s)
          \/ ~(c = dst /\ k = j) /\ Holder(c, u, s) /\ ~(c = src /\ u = i)
      <3>1. c = src => u = k + d  BY DEF Up
      <3> QED BY <1>m, <1>6, <3>1
    <2>2. \/ e = dst /\ l = j /\ Holder(src, i, s)
          \/ ~(e = dst /\ l = j) /\ Holder(e, v, s) /\ ~(e = src /\ v = i)
      <3>1. e = src => v = l + d  BY DEF Up
      <3> QED BY <1>m, <1>6, <3>1
    <2>3. c = e /\ u = v => k = l  BY DEF Up
    <2> HIDE DEF u, v
    <2> QED BY <2>0, <2>1, <2>2, <2>3, <1>1
  <1>7. \A c \in 0..4 : \A k \in Index(c)' : \A s \in JobSlots(JobAt(c, k)') : Holder(c, k, s)'
    BY DEF Holder
  <1>8. \A c \in 0..4 : \A k : \A s : Holder(c, k, s)' => k \in Index(c)'
    BY DEF Holder
  <1>9. /\ \A c \in 0..4 : \A k \in Index(c)' : \A s \in JobSlots(JobAt(c, k)') :
              s \in Slots /\ slots'[s].st = "writing"
        /\ \A s \in Slots : slots'[s].st = "writing" =>
              \E c \in 0..4 : \E k \in Index(c)' : Holder(c, k, s)'
        /\ \A s \in Slots : \A c, e \in 0..4 : \A k \in Index(c)', l \in Index(e)' :
              Holder(c, k, s)' /\ Holder(e, l, s)' => c = e /\ k = l
    BY <1>3, <1>4, <1>5, <1>6, <1>7, <1>8
  <1> QED BY <1>9 DEF SlotInv

\* nothing moves
LEMMA SlotsStay ==
    ASSUME SlotInv, TypeInv, TypeInv', mgr.pc \notin {"open", "dead"},
           \A s \in Slots : slots'[s].st = "writing" <=> slots[s].st = "writing",
           \A q \in Queues : \A k : \A s :
              (k \in DOMAIN writer_queues'[q] /\ s \in JobSlots(writer_queues'[q][k]))
                <=> (k \in DOMAIN writer_queues[q] /\ s \in JobSlots(writer_queues[q][k])),
           UNCHANGED mgr_queue, JobSlots(mgr'.job) = JobSlots(mgr.job),
           \A v \in Writers : writers'[v].job = writers[v].job
    PROVE  SlotInv'
  <1>1. \A c \in 0..4 : \A k : \A s : Holder(c, k, s)' <=> Holder(c, k, s)
    <2> TAKE c \in 0..4
    <2> TAKE k
    <2> TAKE s
    <2>1. CASE c \in Queues
      <3>1. Holder(c, k, s) <=> k \in DOMAIN writer_queues[c] /\ s \in JobSlots(writer_queues[c][k])
        BY <2>1, HolderIs
      <3>2. Holder(c, k, s)' <=> k \in DOMAIN writer_queues'[c] /\ s \in JobSlots(writer_queues'[c][k])
        BY <2>1, HolderWillBe
      <3> QED BY <2>1, <3>1, <3>2
    <2>2. CASE c = 2  BY <2>2, HolderIs, HolderWillBe
    <2>3. CASE c = 3  BY <2>3, HolderIs, HolderWillBe
    <2>4. CASE c = 4  BY <2>4, HolderIs, HolderWillBe
    <2> QED BY <2>1, <2>2, <2>3, <2>4 DEF Queues
  <1>2. \A c \in 0..4 : \A k \in Int : k + Up(c, 3, 0) = k /\ k - Up(c, 3, 0) = k
    BY DEF Up
  <1>3. \A c \in 0..4 : \A k \in Int : \A s : Holder(c, k, s)' =>
            \/ c = 3 /\ k = 1 /\ Holder(3, 1, s)
            \/ /\ ~(c = 3 /\ k = 1) /\ Holder(c, k + Up(c, 3, 0), s)
               /\ ~(c = 3 /\ k + 0 = 1)
    BY <1>1, <1>2
  <1>4. \A s : Holder(3, 1, s) => Holder(3, 1, s)'  BY <1>1
  <1>5. \A c \in 0..4 : \A k \in Int : \A s :
            Holder(c, k, s) /\ ~(c = 3 /\ k = 1) => Holder(c, k - Up(c, 3, 0), s)'
    BY <1>1, <1>2
  <1>6. 3 \in 0..4 /\ 1 \in Int /\ 0 \in {0, 1}  OBVIOUS
  <1>7. JobMoves(3, 1, 3, 1, 0)  BY <1>3, <1>4, <1>5 DEF JobMoves
  <1> QED BY <1>6, <1>7, SlotsMove

\* a writer takes the head of its queue
LEMMA SlotsReceived ==
    ASSUME SlotInv, TypeInv, TypeInv', mgr.pc \notin {"open", "dead"}, NEW w \in Writers,
           UNCHANGED <<slots, mgr>>, writer_queues[w] # <<>>, Receive(w),
           \A k : \A s : (k \in DOMAIN mgr_queue' /\ s \in JobSlots(mgr_queue'[k]))
                           <=> (k \in DOMAIN mgr_queue /\ s \in JobSlots(mgr_queue[k])),
           \A v \in Writers : v # w => writers'[v] = writers[v],
           JobSlots(writers[w].job) = {},
           JobSlots(writers'[w].job) = JobSlots(Head(writer_queues[w]))
    PROVE  SlotInv'
  <1>1. /\ w \in Queues /\ w \in 0..4 /\ w # 4 /\ w \in Int
        /\ Head(writer_queues[w]) = writer_queues[w][1] /\ 1 \in DOMAIN writer_queues[w]
        /\ \A q \in Queues : q # w => writer_queues'[q] = writer_queues[q]
        /\ \A k \in DOMAIN writer_queues'[w] :
              k + 1 \in DOMAIN writer_queues[w] /\ writer_queues'[w][k] = writer_queues[w][k + 1]
        /\ Len(writer_queues'[w]) = Len(writer_queues[w]) - 1
    <2>1. w \in Queues  BY WriterIs
    <2>2. w \in 0..4 /\ w # 4 /\ w \in Int  BY <2>1 DEF Queues
    <2> QED BY <2>1, <2>2, ReceiveIs
  <1>2. /\ Len(writer_queues[w]) \in Nat /\ DOMAIN writer_queues[w] = 1..Len(writer_queues[w])
        /\ Len(writer_queues'[w]) \in Nat /\ DOMAIN writer_queues'[w] = 1..Len(writer_queues'[w])
    BY <1>1 DEF TypeInv
  <1>3. ASSUME NEW k \in Int, k \in DOMAIN writer_queues[w], k # 1
        PROVE  k - 1 \in DOMAIN writer_queues'[w] /\ writer_queues'[w][k - 1] = writer_queues[w][k]
    <2>1. k - 1 \in DOMAIN writer_queues'[w]  BY <1>1, <1>2, <1>3
    <2>2. k - 1 + 1 = k  OBVIOUS
    <2> QED BY <1>1, <2>1, <2>2
  <1>4. \A c \in 0..4 : \A k \in Int : \A s : Holder(c, k, s)' =>
            \/ c = 4 /\ k = w /\ Holder(w, 1, s)
            \/ /\ ~(c = 4 /\ k = w) /\ Holder(c, k + Up(c, w, 1), s)
               /\ ~(c = w /\ k + 1 = 1)
    <2> SUFFICES ASSUME NEW c \in 0..4, NEW k \in Int, NEW s, Holder(c, k, s)'
                 PROVE  \/ c = 4 /\ k = w /\ Holder(w, 1, s)
                        \/ /\ ~(c = 4 /\ k = w) /\ Holder(c, k + Up(c, w, 1), s)
                           /\ ~(c = w /\ k + 1 = 1)
      OBVIOUS
    <2>1. CASE c = w
      <3>1. k \in DOMAIN writer_queues'[w] /\ s \in JobSlots(writer_queues'[w][k])
        BY <1>1, <2>1, HolderWillBe
      <3>2. k + 1 \in DOMAIN writer_queues[w] /\ s \in JobSlots(writer_queues[w][k + 1])
        BY <1>1, <3>1
      <3>3. Holder(w, k + 1, s)  BY <1>1, <3>2, HolderIs
      <3>4. k + Up(c, w, 1) = k + 1 /\ k + 1 # 1  BY <1>2, <2>1, <3>1 DEF Up
      <3>5. c # 4  BY <1>1, <2>1
      <3> QED BY <2>1, <3>3, <3>4, <3>5
    <2>2. CASE c \in Queues /\ c # w
      <3>1. Holder(c, k, s)  BY <1>1, <2>2, HolderIs, HolderWillBe
      <3>2. k + Up(c, w, 1) = k /\ c # 4  BY <2>2 DEF Up, Queues
      <3> QED BY <2>2, <3>1, <3>2
    <2>3. CASE c = 2
      <3>1. Holder(c, k, s)  BY <2>3, HolderIs, HolderWillBe
      <3>2. k + Up(c, w, 1) = k /\ c # w  BY <2>3, <1>1 DEF Up, Queues
      <3> QED BY <2>3, <3>1, <3>2
    <2>4. CASE c = 3
      <3>1. Holder(c, k, s)  BY <2>4, HolderIs, HolderWillBe
      <3>2. k + Up(c, w, 1) = k /\ c # w  BY <2>4, <1>1 DEF Up, Queues
      <3> QED BY <2>4, <3>1, <3>2
    <2>5. CASE c = 4
      <3>1. k \in Writers /\ s \in JobSlots(writers'[k].job)  BY <2>5, HolderWillBe
      <3>2. CASE k = w
        <4>1. s \in JobSlots(writer_queues[w][1])  BY <1>1, <3>1, <3>2
        <4>2. Holder(w, 1, s)  BY <1>1, <4>1, HolderIs
        <4> QED BY <2>5, <3>2, <4>2
      <3>3. CASE k # w
        <4>1. s \in JobSlots(writers[k].job)  BY <3>1, <3>3
        <4>2. Holder(c, k, s)  BY <2>5, <3>1, <4>1, HolderIs
        <4>3. k + Up(c, w, 1) = k /\ c # w  BY <2>5, <1>1 DEF Up
        <4> QED BY <2>5, <3>3, <4>2, <4>3
      <3> QED BY <3>2, <3>3
    <2> QED BY <2>1, <2>2, <2>3, <2>4, <2>5 DEF Queues
  <1>5. \A s : Holder(w, 1, s) => Holder(4, w, s)'
    <2> SUFFICES ASSUME NEW s, Holder(w, 1, s) PROVE Holder(4, w, s)'  OBVIOUS
    <2>1. s \in JobSlots(writer_queues[w][1])  BY <1>1, HolderIs
    <2>2. s \in JobSlots(writers'[w].job)  BY <1>1, <2>1
    <2> QED BY <2>2, HolderWillBe
  <1>6. \A c \in 0..4 : \A k \in Int : \A s :
            Holder(c, k, s) /\ ~(c = w /\ k = 1) => Holder(c, k - Up(c, w, 1), s)'
    <2> SUFFICES ASSUME NEW c \in 0..4, NEW k \in Int, NEW s, Holder(c, k, s),
                        ~(c = w /\ k = 1)
                 PROVE  Holder(c, k - Up(c, w, 1), s)'
      OBVIOUS
    <2>1. CASE c = w
      <3>1. k \in DOMAIN writer_queues[w] /\ s \in JobSlots(writer_queues[w][k])
        BY <1>1, <2>1, HolderIs
      <3>2. k - 1 \in DOMAIN writer_queues'[w] /\ s \in JobSlots(writer_queues'[w][k - 1])
        BY <1>3, <2>1, <3>1
      <3>3. Holder(w, k - 1, s)'  BY <1>1, <3>2, HolderWillBe
      <3>4. k - Up(c, w, 1) = k - 1  BY <2>1 DEF Up
      <3> QED BY <2>1, <3>3, <3>4
    <2>x. c # w => k - Up(c, w, 1) = k  BY DEF Up
    <2>q. 2 # w /\ 3 # w  BY <1>1 DEF Queues
    <2>2. CASE c \in Queues /\ c # w
      <3>1. k \in DOMAIN writer_queues[c] /\ s \in JobSlots(writer_queues[c][k])
        BY <2>2, HolderIs
      <3>2. writer_queues'[c] = writer_queues[c]  BY <1>1, <2>2
      <3>3. Holder(c, k, s)'  BY <2>2, <3>1, <3>2, HolderWillBe
      <3> QED BY <2>x, <2>2, <3>3
    <2>3. CASE c = 2
      <3>1. Holder(c, k, s)'  BY <2>3, HolderIs, HolderWillBe
      <3> QED BY <2>x, <2>q, <2>3, <3>1
    <2>4. CASE c = 3
      <3>1. Holder(c, k, s)'  BY <2>4, HolderIs, HolderWillBe
      <3> QED BY <2>x, <2>q, <2>4, <3>1
    <2>5. CASE c = 4
      <3>1. k \in Writers /\ s \in JobSlots(writers[k].job)  BY <2>5, HolderIs
      <3>2. k # w  BY <3>1
      <3>3. s \in JobSlots(writers'[k].job)  BY <3>1, <3>2
      <3> QED BY <1>1, <2>x, <2>5, <3>1, <3>3, HolderWillBe
    <2> QED BY <2>1, <2>2, <2>3, <2>4, <2>5 DEF Queues
  <1>7. 4 \in 0..4 /\ 1 \in Int /\ 1 \in {0, 1}  OBVIOUS
  <1>8. \A s \in Slots : slots'[s].st = "writing" <=> slots[s].st = "writing"
    OBVIOUS
  <1>9. JobMoves(w, 1, 4, w, 1)  BY <1>4, <1>5, <1>6 DEF JobMoves
  <1> QED BY <1>1, <1>7, <1>8, <1>9, SlotsMove

\* a writer sends its job back
LEMMA SlotsSent ==
    ASSUME SlotInv, TypeInv, TypeInv', mgr.pc \notin {"open", "dead"}, NEW w \in Writers,
           UNCHANGED <<slots, mgr, writer_queues>>,
           writers[w].job \in ToManager, mgr_queue' = Append(mgr_queue, writers[w].job),
           \A v \in Writers : v # w => writers'[v] = writers[v],
           writers'[w].job = NoJob
    PROVE  SlotInv'
  <1>n. PICK n \in Int : n = Len(mgr_queue) + 1
    <2>1. Len(mgr_queue) \in Nat  BY DEF TypeInv
    <2> QED BY <2>1
  <1>1. /\ DOMAIN mgr_queue' = DOMAIN mgr_queue \cup {n} /\ mgr_queue'[n] = writers[w].job
        /\ \A k \in DOMAIN mgr_queue : mgr_queue'[k] = mgr_queue[k]
        /\ n \notin DOMAIN mgr_queue /\ n \in Int
    <2>1. PICK jb \in ToManager : jb = writers[w].job  OBVIOUS
    <2>2. mgr_queue' = Append(mgr_queue, jb)  BY <2>1
    <2>3. /\ DOMAIN mgr_queue' = DOMAIN mgr_queue \cup {Len(mgr_queue) + 1}
          /\ mgr_queue'[Len(mgr_queue) + 1] = jb
          /\ \A k \in DOMAIN mgr_queue : mgr_queue'[k] = mgr_queue[k]
          /\ Len(mgr_queue) + 1 \notin DOMAIN mgr_queue /\ Len(mgr_queue) \in Nat
      BY <2>2, SentIs
    <2> QED BY <1>n, <2>1, <2>3
  <1>2. w \in Int  BY DEF Writers
  <1>3. JobSlots(NoJob) = {}  BY DEF JobSlots, NoJob
  <1>4. \A c \in 0..4 : \A k \in Int : k + Up(c, 4, 0) = k /\ k - Up(c, 4, 0) = k /\ k + 0 = k
    BY DEF Up
  <1>5. \A c \in 0..4 : \A k \in Int : \A s : Holder(c, k, s)' =>
            \/ c = 2 /\ k = n /\ Holder(4, w, s)
            \/ ~(c = 2 /\ k = n) /\ Holder(c, k, s) /\ ~(c = 4 /\ k = w)
    <2> SUFFICES ASSUME NEW c \in 0..4, NEW k \in Int, NEW s, Holder(c, k, s)'
                 PROVE  \/ c = 2 /\ k = n /\ Holder(4, w, s)
                        \/ ~(c = 2 /\ k = n) /\ Holder(c, k, s) /\ ~(c = 4 /\ k = w)
      OBVIOUS
    <2>1. CASE c \in Queues
      <3>1. Holder(c, k, s)  BY <2>1, HolderIs, HolderWillBe
      <3>2. c # 2 /\ c # 4  BY <2>1 DEF Queues
      <3> QED BY <3>1, <3>2
    <2>2. CASE c = 2
      <3>1. k \in DOMAIN mgr_queue' /\ s \in JobSlots(mgr_queue'[k])  BY <2>2, HolderWillBe
      <3>2. CASE k = n
        <4>1. s \in JobSlots(writers[w].job)  BY <1>1, <3>1, <3>2
        <4> QED BY <2>2, <3>2, <4>1, HolderIs
      <3>3. CASE k # n
        <4>1. k \in DOMAIN mgr_queue /\ s \in JobSlots(mgr_queue[k])  BY <1>1, <3>1, <3>3
        <4> QED BY <2>2, <3>3, <4>1, HolderIs
      <3> QED BY <3>2, <3>3
    <2>3. CASE c = 3  BY <2>3, HolderIs, HolderWillBe
    <2>4. CASE c = 4
      <3>1. k \in Writers /\ s \in JobSlots(writers'[k].job)  BY <2>4, HolderWillBe
      <3>2. k # w  BY <1>3, <3>1
      <3>3. s \in JobSlots(writers[k].job)  BY <3>1, <3>2
      <3> QED BY <2>4, <3>1, <3>2, <3>3, HolderIs
    <2> QED BY <2>1, <2>2, <2>3, <2>4 DEF Queues
  <1>6. \A s : Holder(4, w, s) => Holder(2, n, s)'
    <2> SUFFICES ASSUME NEW s, Holder(4, w, s) PROVE Holder(2, n, s)'  OBVIOUS
    <2>1. s \in JobSlots(writers[w].job)  BY HolderIs
    <2>2. n \in DOMAIN mgr_queue' /\ s \in JobSlots(mgr_queue'[n])  BY <1>1, <2>1
    <2> QED BY <2>2, HolderWillBe
  <1>7. \A c \in 0..4 : \A k \in Int : \A s :
            Holder(c, k, s) /\ ~(c = 4 /\ k = w) => Holder(c, k, s)'
    <2> SUFFICES ASSUME NEW c \in 0..4, NEW k \in Int, NEW s, Holder(c, k, s), ~(c = 4 /\ k = w)
                 PROVE  Holder(c, k, s)'
      OBVIOUS
    <2>1. CASE c \in Queues  BY <2>1, HolderIs, HolderWillBe
    <2>2. CASE c = 2
      <3>1. k \in DOMAIN mgr_queue /\ s \in JobSlots(mgr_queue[k])  BY <2>2, HolderIs
      <3>2. k \in DOMAIN mgr_queue' /\ s \in JobSlots(mgr_queue'[k])  BY <1>1, <3>1
      <3> QED BY <2>2, <3>2, HolderWillBe
    <2>3. CASE c = 3  BY <2>3, HolderIs, HolderWillBe
    <2>4. CASE c = 4
      <3>1. k \in Writers /\ s \in JobSlots(writers[k].job) /\ k # w  BY <2>4, HolderIs
      <3>2. s \in JobSlots(writers'[k].job)  BY <3>1
      <3> QED BY <2>4, <3>1, <3>2, HolderWillBe
    <2> QED BY <2>1, <2>2, <2>3, <2>4 DEF Queues
  <1>8. JobMoves(4, w, 2, n, 0)
    BY <1>4, <1>5, <1>6, <1>7 DEF JobMoves
  <1>9. \A s \in Slots : slots'[s].st = "writing" <=> slots[s].st = "writing"
    OBVIOUS
  <1>10. 4 \in 0..4 /\ 2 \in 0..4 /\ 0 \in {0, 1}  OBVIOUS
  <1> QED BY <1>1, <1>2, <1>8, <1>9, <1>10, SlotsMove

\* the manager takes the head of its queue
LEMMA SlotsReturned ==
    ASSUME SlotInv, TypeInv, TypeInv', mgr.pc \notin {"open", "dead"},
           UNCHANGED <<slots, writers, writer_queues>>,
           mgr_queue # <<>>, mgr_queue' = Tail(mgr_queue), mgr'.job = Head(mgr_queue),
           mgr.job = NoJob
    PROVE  SlotInv'
  <1>1. /\ Head(mgr_queue) = mgr_queue[1] /\ 1 \in DOMAIN mgr_queue
        /\ DOMAIN mgr_queue = 1..Len(mgr_queue) /\ Len(mgr_queue) \in Nat
        /\ DOMAIN mgr_queue' = 1..Len(mgr_queue) - 1
        /\ \A k \in DOMAIN mgr_queue' : mgr_queue'[k] = mgr_queue[k + 1]
    <2> DEFINE q == mgr_queue
    <2>1. q \in Seq(ToManager) /\ q # <<>>  BY DEF TypeInv
    <2> HIDE DEF q
    <2>2. /\ Head(q) = q[1] /\ 1 \in DOMAIN q
          /\ DOMAIN q = 1..Len(q) /\ Len(q) \in Nat
          /\ DOMAIN Tail(q) = 1..Len(q) - 1
          /\ \A k \in DOMAIN Tail(q) : Tail(q)[k] = q[k + 1]
      BY <2>1
    <2> QED BY <2>2 DEF q
  <1>3. JobSlots(NoJob) = {}  BY DEF JobSlots, NoJob
  <1>4. ASSUME NEW k \in Int, k \in DOMAIN mgr_queue, k # 1
        PROVE  k - 1 \in DOMAIN mgr_queue' /\ mgr_queue'[k - 1] = mgr_queue[k]
    <2>1. k - 1 \in DOMAIN mgr_queue'  BY <1>1, <1>4
    <2>2. k - 1 + 1 = k  OBVIOUS
    <2> QED BY <1>1, <2>1, <2>2
  <1>5. ASSUME NEW k \in Int, k \in DOMAIN mgr_queue'
        PROVE  k + 1 \in DOMAIN mgr_queue /\ mgr_queue'[k] = mgr_queue[k + 1] /\ k + 1 # 1
    BY <1>1, <1>5
  <1>u. \A c \in 0..4 : \A k \in Int :
            c # 2 => k + Up(c, 2, 1) = k /\ k - Up(c, 2, 1) = k
    BY DEF Up
  <1>v. \A k \in Int : k + Up(2, 2, 1) = k + 1 /\ k - Up(2, 2, 1) = k - 1  BY DEF Up
  <1>6. \A c \in 0..4 : \A k \in Int : \A s : Holder(c, k, s)' =>
            \/ c = 3 /\ k = 1 /\ Holder(2, 1, s)
            \/ /\ ~(c = 3 /\ k = 1) /\ Holder(c, k + Up(c, 2, 1), s)
               /\ ~(c = 2 /\ k + 1 = 1)
    <2> SUFFICES ASSUME NEW c \in 0..4, NEW k \in Int, NEW s, Holder(c, k, s)'
                 PROVE  \/ c = 3 /\ k = 1 /\ Holder(2, 1, s)
                        \/ /\ ~(c = 3 /\ k = 1) /\ Holder(c, k + Up(c, 2, 1), s)
                           /\ ~(c = 2 /\ k + 1 = 1)
      OBVIOUS
    <2>1. CASE c \in Queues
      <3>1. Holder(c, k, s)  BY <2>1, HolderIs, HolderWillBe
      <3>2. c # 2 /\ c # 3  BY <2>1 DEF Queues
      <3> QED BY <1>u, <3>1, <3>2
    <2>2. CASE c = 2
      <3>1. k \in DOMAIN mgr_queue' /\ s \in JobSlots(mgr_queue'[k])  BY <2>2, HolderWillBe
      <3>2. k + 1 \in DOMAIN mgr_queue /\ s \in JobSlots(mgr_queue[k + 1]) /\ k + 1 # 1
        BY <1>5, <3>1
      <3>3. Holder(2, k + 1, s)  BY <3>2, HolderIs
      <3> QED BY <1>v, <2>2, <3>2, <3>3
    <2>3. CASE c = 3
      <3>1. k = 1 /\ s \in JobSlots(mgr'.job)  BY <2>3, HolderWillBe
      <3>2. Holder(2, 1, s)  BY <1>1, <3>1, HolderIs
      <3> QED BY <2>3, <3>1, <3>2
    <2>4. CASE c = 4
      <3>1. Holder(c, k, s)  BY <2>4, HolderIs, HolderWillBe
      <3> QED BY <1>u, <2>4, <3>1
    <2> QED BY <2>1, <2>2, <2>3, <2>4 DEF Queues
  <1>7. \A s : Holder(2, 1, s) => Holder(3, 1, s)'
    <2> SUFFICES ASSUME NEW s, Holder(2, 1, s) PROVE Holder(3, 1, s)'  OBVIOUS
    <2>1. s \in JobSlots(mgr_queue[1])  BY HolderIs
    <2>2. s \in JobSlots(mgr'.job)  BY <1>1, <2>1
    <2> QED BY <2>2, HolderWillBe
  <1>8. \A c \in 0..4 : \A k \in Int : \A s :
            Holder(c, k, s) /\ ~(c = 2 /\ k = 1) => Holder(c, k - Up(c, 2, 1), s)'
    <2> SUFFICES ASSUME NEW c \in 0..4, NEW k \in Int, NEW s, Holder(c, k, s), ~(c = 2 /\ k = 1)
                 PROVE  Holder(c, k - Up(c, 2, 1), s)'
      OBVIOUS
    <2>1. CASE c \in Queues
      <3>1. Holder(c, k, s)'  BY <2>1, HolderIs, HolderWillBe
      <3>2. c # 2  BY <2>1 DEF Queues
      <3> QED BY <1>u, <3>1, <3>2
    <2>2. CASE c = 2
      <3>1. k \in DOMAIN mgr_queue /\ s \in JobSlots(mgr_queue[k])  BY <2>2, HolderIs
      <3>2. k - 1 \in DOMAIN mgr_queue' /\ s \in JobSlots(mgr_queue'[k - 1])
        BY <1>4, <2>2, <3>1
      <3>3. Holder(2, k - 1, s)'  BY <3>2, HolderWillBe
      <3> QED BY <1>v, <2>2, <3>3
    <2>3. CASE c = 3
      <3>1. s \in JobSlots(mgr.job)  BY <2>3, HolderIs
      <3> QED BY <1>3, <3>1
    <2>4. CASE c = 4
      <3>1. Holder(c, k, s)'  BY <2>4, HolderIs, HolderWillBe
      <3> QED BY <1>u, <2>4, <3>1
    <2> QED BY <2>1, <2>2, <2>3, <2>4 DEF Queues
  <1>9. JobMoves(2, 1, 3, 1, 1)
    BY <1>6, <1>7, <1>8 DEF JobMoves
  <1>10. \A s \in Slots : slots'[s].st = "writing" <=> slots[s].st = "writing"
    OBVIOUS
  <1>11. 3 \in 0..4 /\ 2 \in 0..4 /\ 1 \in {0, 1} /\ 1 \in Int  OBVIOUS
  <1> QED BY <1>9, <1>10, <1>11, SlotsMove

\* the manager hands slots that were full to a writer
LEMMA SlotsFilled ==
    ASSUME SlotInv, TypeInv, TypeInv', mgr.pc \notin {"open", "dead"}, NEW w \in Queues,
           NEW a \in Nat, NEW n \in Nat \ {0}, n <= ChunkSize,
           \A s \in a .. a + n - 1 : s \in Slots /\ slots[s].st = "full",
           slots' = Mark(a .. a + n - 1, "writing"),
           writer_queues' = [writer_queues EXCEPT ![w] = Append(@, WriteJob(w, a, n))],
           UNCHANGED <<mgr_queue, writers>>, mgr'.job = mgr.job
    PROVE  SlotInv'
  <1> DEFINE S == a .. a + n - 1
             m == Len(writer_queues[w]) + 1
             jb == WriteJob(w, a, n)
  <1>1. jb \in ToWriter /\ JobSlots(jb) = S
    <2>1. n \in 0..ChunkSize  BY SizeAssumption
    <2> QED BY <2>1 DEF WriteJob, ToWriter, WriteJobs, JobSlots
  <1> HIDE DEF jb
  <1>2. /\ \A p \in Queues : p # w => writer_queues'[p] = writer_queues[p]
        /\ DOMAIN writer_queues'[w] = DOMAIN writer_queues[w] \cup {m}
        /\ writer_queues'[w][m] = jb /\ m \notin DOMAIN writer_queues[w] /\ m \in Int
        /\ \A k \in DOMAIN writer_queues[w] : writer_queues'[w][k] = writer_queues[w][k]
    <2>1. writer_queues' = [writer_queues EXCEPT ![w] = Append(@, jb)]  BY DEF jb
    <2>2. /\ \A p \in Queues : p # w => writer_queues'[p] = writer_queues[p]
          /\ Len(writer_queues[w]) \in Nat
          /\ DOMAIN writer_queues[w] = 1..Len(writer_queues[w])
          /\ DOMAIN writer_queues'[w] = 1..Len(writer_queues[w]) + 1
          /\ writer_queues'[w][Len(writer_queues[w]) + 1] = jb
          /\ \A k \in DOMAIN writer_queues[w] : writer_queues'[w][k] = writer_queues[w][k]
      BY <1>1, <2>1, GrownIs, ZenonT(60)
    <2> QED BY <2>2
  <1>3. /\ w \in 0..4 /\ w # 2 /\ w # 3 /\ w # 4  BY DEF Queues
  <1> HIDE DEF m
  <1>4. \A s \in Slots : slots'[s].st = IF s \in S THEN "writing" ELSE slots[s].st
    <2>1. slots \in [Slots -> SlotStates] /\ "writing" \in Statuses
      BY DEF TypeInv, SlotStates, Statuses
    <2> QED BY <2>1, MarkIs
  <1>5. \A s \in S : s \in Slots /\ slots[s].st = "full"  OBVIOUS
  <1> HIDE DEF S
  <1>6. ASSUME NEW c \in 0..4, NEW k, NEW s
        PROVE  Holder(c, k, s)' <=> Holder(c, k, s) \/ (c = w /\ k = m /\ s \in S)
    <2>1. CASE c = w
      <3>1. Holder(c, k, s) <=> k \in DOMAIN writer_queues[w] /\ s \in JobSlots(writer_queues[w][k])
        BY <2>1, HolderIs
      <3>2. Holder(c, k, s)' <=> k \in DOMAIN writer_queues'[w] /\ s \in JobSlots(writer_queues'[w][k])
        BY <2>1, HolderWillBe
      <3>3. CASE k = m  BY <1>1, <1>2, <2>1, <3>1, <3>2, <3>3
      <3>4. CASE k # m  BY <1>2, <2>1, <3>1, <3>2, <3>4
      <3> QED BY <3>3, <3>4
    <2>2. CASE c \in Queues /\ c # w
      <3>1. Holder(c, k, s) <=> k \in DOMAIN writer_queues[c] /\ s \in JobSlots(writer_queues[c][k])
        BY <2>2, HolderIs
      <3>2. Holder(c, k, s)' <=> k \in DOMAIN writer_queues'[c] /\ s \in JobSlots(writer_queues'[c][k])
        BY <2>2, HolderWillBe
      <3> QED BY <1>2, <2>2, <3>1, <3>2
    <2>3. CASE c = 2  BY <1>3, <2>3, HolderIs, HolderWillBe
    <2>4. CASE c = 3  BY <1>3, <2>4, HolderIs, HolderWillBe
    <2>5. CASE c = 4  BY <1>3, <2>5, HolderIs, HolderWillBe
    <2> QED BY <2>1, <2>2, <2>3, <2>4, <2>5 DEF Queues
  <1>7. /\ \A c \in 0..4 : \A k, s : Holder(c, k, s) => s \in Slots /\ slots[s].st = "writing"
        /\ \A s \in Slots : slots[s].st = "writing" =>
              \E c \in 0..4 : \E k : Holder(c, k, s)
        /\ \A s \in Slots : \A c, e \in 0..4 : \A k, l :
              Holder(c, k, s) /\ Holder(e, l, s) => c = e /\ k = l
    BY DEF SlotInv, Holder
  <1>8. \A c \in 0..4 : \A k, s : Holder(c, k, s)' => s \in Slots /\ slots'[s].st = "writing"
    BY <1>4, <1>5, <1>6, <1>7
  <1>9. \A s \in Slots : slots'[s].st = "writing" => \E c \in 0..4 : \E k : Holder(c, k, s)'
    BY <1>3, <1>4, <1>6, <1>7
  <1>10. \A s \in Slots : \A c, e \in 0..4 : \A k, l :
              Holder(c, k, s)' /\ Holder(e, l, s)' => c = e /\ k = l
    BY <1>5, <1>6, <1>7
  <1>12. \A c \in 0..4 : \A k, s : Holder(c, k, s)' <=>
              k \in Index(c)' /\ s \in JobSlots(JobAt(c, k)')
    BY DEF Holder
  <1>13. /\ \A c \in 0..4 : \A k \in Index(c)' : \A s \in JobSlots(JobAt(c, k)') :
              s \in Slots /\ slots'[s].st = "writing"
         /\ \A s \in Slots : slots'[s].st = "writing" =>
              \E c \in 0..4 : \E k \in Index(c)' : Holder(c, k, s)'
         /\ \A s \in Slots : \A c, e \in 0..4 : \A k \in Index(c)', l \in Index(e)' :
              Holder(c, k, s)' /\ Holder(e, l, s)' => c = e /\ k = l
    BY <1>8, <1>9, <1>10, <1>12
  <1> QED BY <1>13 DEF SlotInv

\* the manager frees the slots of the job that came back
LEMMA SlotsFreed ==
    ASSUME SlotInv, TypeInv, mgr.pc \notin {"open", "dead"},
           slots' = Mark(JobSlots(mgr.job), "free"), mgr'.job = NoJob,
           UNCHANGED <<mgr_queue, writer_queues, writers>>
    PROVE  SlotInv'
  <1> DEFINE S == JobSlots(mgr.job)
  <1>1. \A s \in Slots : slots'[s].st = IF s \in S THEN "free" ELSE slots[s].st
    <2>1. slots \in [Slots -> SlotStates] /\ "free" \in Statuses
      BY DEF TypeInv, SlotStates, Statuses
    <2> QED BY <2>1, MarkIs
  <1>2. JobSlots(NoJob) = {}  BY DEF JobSlots, NoJob
  <1>3. \A k, s : Holder(3, k, s) <=> k = 1 /\ s \in S  BY HolderIs
  <1> HIDE DEF S
  <1>4. ASSUME NEW c \in 0..4, NEW k, NEW s
        PROVE  Holder(c, k, s)' <=> c # 3 /\ Holder(c, k, s)
    <2>1. CASE c \in Queues
      <3>1. c # 3  BY <2>1 DEF Queues
      <3> QED BY <2>1, <3>1, HolderIs, HolderWillBe
    <2>2. CASE c = 2  BY <2>2, HolderIs, HolderWillBe
    <2>3. CASE c = 3  BY <1>2, <2>3, HolderWillBe
    <2>4. CASE c = 4  BY <2>4, HolderIs, HolderWillBe
    <2> QED BY <2>1, <2>2, <2>3, <2>4 DEF Queues
  <1>7. /\ \A c \in 0..4 : \A k, s : Holder(c, k, s) => s \in Slots /\ slots[s].st = "writing"
        /\ \A s \in Slots : slots[s].st = "writing" =>
              \E c \in 0..4 : \E k : Holder(c, k, s)
        /\ \A s \in Slots : \A c, e \in 0..4 : \A k, l :
              Holder(c, k, s) /\ Holder(e, l, s) => c = e /\ k = l
    BY DEF SlotInv, Holder
  <1>8. \A c \in 0..4 : \A k, s : Holder(c, k, s)' => s \in Slots /\ slots'[s].st = "writing"
    <2> SUFFICES ASSUME NEW c \in 0..4, NEW k, NEW s, Holder(c, k, s)'
                 PROVE  s \in Slots /\ slots'[s].st = "writing"
      OBVIOUS
    <2>1. c # 3 /\ Holder(c, k, s) /\ s \in Slots /\ slots[s].st = "writing"  BY <1>4, <1>7
    <2>2. s \notin S
      <3>1. SUFFICES ASSUME s \in S PROVE FALSE  OBVIOUS
      <3>2. Holder(3, 1, s)  BY <1>3, <3>1
      <3> QED BY <1>7, <2>1, <3>2
    <2> QED BY <1>1, <2>1, <2>2
  <1>9. \A s \in Slots : slots'[s].st = "writing" => \E c \in 0..4 : \E k : Holder(c, k, s)'
    <2> SUFFICES ASSUME NEW s \in Slots, slots'[s].st = "writing"
                 PROVE  \E c \in 0..4 : \E k : Holder(c, k, s)'
      OBVIOUS
    <2>1. s \notin S /\ slots[s].st = "writing"  BY <1>1
    <2>2. PICK c \in 0..4 : \E k : Holder(c, k, s)  BY <1>7, <2>1
    <2>3. PICK k : Holder(c, k, s)  BY <2>2
    <2>4. c # 3  BY <1>3, <2>1, <2>3
    <2> QED BY <1>4, <2>3, <2>4
  <1>10. \A s \in Slots : \A c, e \in 0..4 : \A k, l :
              Holder(c, k, s)' /\ Holder(e, l, s)' => c = e /\ k = l
    BY <1>4, <1>7
  <1>12. \A c \in 0..4 : \A k, s : Holder(c, k, s)' <=>
              k \in Index(c)' /\ s \in JobSlots(JobAt(c, k)')
    BY DEF Holder
  <1>13. /\ \A c \in 0..4 : \A k \in Index(c)' : \A s \in JobSlots(JobAt(c, k)') :
              s \in Slots /\ slots'[s].st = "writing"
         /\ \A s \in Slots : slots'[s].st = "writing" =>
              \E c \in 0..4 : \E k \in Index(c)' : Holder(c, k, s)'
         /\ \A s \in Slots : \A c, e \in 0..4 : \A k \in Index(c)', l \in Index(e)' :
              Holder(c, k, s)' /\ Holder(e, l, s)' => c = e /\ k = l
    BY <1>8, <1>9, <1>10, <1>12
  <1> QED BY <1>13 DEF SlotInv

\* no job names a slot, and no slot is being written
LEMMA SlotsUnused ==
    ASSUME \A q \in Queues : writer_queues'[q] = <<>>, mgr_queue' = <<>>,
           JobSlots(mgr'.job) = {},
           \A v \in Writers : JobSlots(writers'[v].job) = {},
           \A s \in Slots : slots'[s].st # "writing"
    PROVE  SlotInv'
  <1>1. ASSUME NEW c \in 0..4, NEW k, NEW s PROVE ~Holder(c, k, s)'
    <2>1. CASE c \in Queues
      <3>1. DOMAIN writer_queues'[c] = {}  BY <2>1
      <3> QED BY <2>1, <3>1, HolderWillBe
    <2>2. CASE c = 2
      <3>1. DOMAIN mgr_queue' = {}  OBVIOUS
      <3> QED BY <2>2, <3>1, HolderWillBe
    <2>3. CASE c = 3  BY <2>3, HolderWillBe
    <2>4. CASE c = 4  BY <2>4, HolderWillBe
    <2> QED BY <2>1, <2>2, <2>3, <2>4 DEF Queues
  <1>2. \A c \in 0..4 : \A k, s : Holder(c, k, s)' <=>
              k \in Index(c)' /\ s \in JobSlots(JobAt(c, k)')
    BY DEF Holder
  <1>3. /\ \A c \in 0..4 : \A k \in Index(c)' : \A s \in JobSlots(JobAt(c, k)') :
              s \in Slots /\ slots'[s].st = "writing"
        /\ \A s \in Slots : slots'[s].st = "writing" =>
              \E c \in 0..4 : \E k \in Index(c)' : Holder(c, k, s)'
        /\ \A s \in Slots : \A c, e \in 0..4 : \A k \in Index(c)', l \in Index(e)' :
              Holder(c, k, s)' /\ Holder(e, l, s)' => c = e /\ k = l
    BY <1>1, <1>2
  <1> QED BY <1>3 DEF SlotInv

LEMMA SlotsOfWriters == ASSUME IInv, NEW w \in Writers, Writer(w) PROVE SlotInv'
  <1>0. /\ TypeInv /\ TypeInv' /\ SlotInv /\ WriterInv /\ CountInv
        /\ UNCHANGED <<mgr, slots>>
        /\ mgr.pc \notin {"open", "dead"}
    <2>1. Alive(w) /\ UNCHANGED <<mgr, slots>>  BY WriterEffects
    <2> QED BY <2>1, WriterType DEF IInv, FlowInv, Before
  <1>1. JobSlots(NoJob) = {}  BY DEF JobSlots, NoJob
  <1>2. \A j \in HandleJobs \cup CloseJobs : JobSlots(j) = {}
    BY DEF JobSlots, HandleJobs, CloseJobs
  <1>3. \A j \in WriteJobs : j.len = 0 => JobSlots(j) = {}
    <2> TAKE j \in WriteJobs
    <2>1. j.start \in Nat /\ j.type = "write"  BY DEF WriteJobs
    <2> QED BY <2>1 DEF JobSlots
  <1>4. \A s \in Slots : slots'[s].st = "writing" <=> slots[s].st = "writing"  BY <1>0
  <1>5. CASE NextHandle(w) \/ TakeAbort(w)
    <2>1. /\ writer_queues[w] # <<>> /\ Receive(w) /\ writers[w].pc = "take"
          /\ UNCHANGED mgr_queue /\ writers'[w].job = writers[w].job
          /\ \A v \in Writers : v # w => writers'[v] = writers[v]
          /\ JobSlots(Head(writer_queues[w])) = {}
      <3>1. CASE NextHandle(w)
        <4>1. Head(writer_queues[w]) \in HandleJobs  BY <1>0, <3>1, NextHandleIs
        <4>2. JobSlots(Head(writer_queues[w])) = {}  BY <1>2, <4>1
        <4>3. /\ writer_queues[w] # <<>> /\ Receive(w) /\ writers[w].pc = "take"
              /\ UNCHANGED mgr_queue /\ writers'[w].job = writers[w].job
              /\ \A v \in Writers : v # w => writers'[v] = writers[v]
          BY <1>0, <3>1, NextHandleIs
        <4> QED BY <4>2, <4>3
      <3>2. CASE TakeAbort(w)
        <4>1. Head(writer_queues[w]) \in WriteJobs /\ Head(writer_queues[w]).len = 0
          BY <1>0, <3>2, AbortIs
        <4>2. JobSlots(Head(writer_queues[w])) = {}  BY <1>3, <4>1
        <4>3. /\ writer_queues[w] # <<>> /\ Receive(w) /\ writers[w].pc = "take"
              /\ UNCHANGED mgr_queue /\ writers'[w].job = writers[w].job
              /\ \A v \in Writers : v # w => writers'[v] = writers[v]
          BY <1>0, <3>2, AbortIs
        <4> QED BY <4>2, <4>3
      <3> QED BY <1>5, <3>1, <3>2
    <2>2. writers[w].job = NoJob  BY <1>0, <2>1 DEF WriterInv
    <2>3. JobSlots(writers[w].job) = {}
          /\ JobSlots(writers'[w].job) = JobSlots(Head(writer_queues[w]))
      BY <1>1, <2>1, <2>2
    <2> QED BY <1>0, <2>1, <2>3, SlotsReceived
  <1>6. CASE TakeFits(w) \/ TakeAsks(w) \/ TakeSwitches(w)
    <2>1. /\ TakeJob(w) /\ Ready(w, "write") /\ writers'[w].job = Head(writer_queues[w])
          /\ \A v \in Writers : v # w => writers'[v] = writers[v]
      BY <1>0, <1>6, TakesIs
    <2>2. /\ writer_queues[w] # <<>> /\ Receive(w) /\ writers[w].job = NoJob
      BY <1>0, <2>1, Taken
    <2>3. \A k : \A s : (k \in DOMAIN mgr_queue' /\ s \in JobSlots(mgr_queue'[k]))
                          <=> (k \in DOMAIN mgr_queue /\ s \in JobSlots(mgr_queue[k]))
      <3>1. \/ UNCHANGED mgr_queue
            \/ \E j \in HandleJobs \cup CloseJobs : mgr_queue' = Append(mgr_queue, j)
        BY <1>0, <1>6, TakesIs, Zenon
      <3>2. ASSUME NEW j \in HandleJobs \cup CloseJobs, mgr_queue' = Append(mgr_queue, j),
                   NEW k, NEW s
            PROVE  (k \in DOMAIN mgr_queue' /\ s \in JobSlots(mgr_queue'[k]))
                     <=> (k \in DOMAIN mgr_queue /\ s \in JobSlots(mgr_queue[k]))
        <4>1. j \in ToManager /\ JobSlots(j) = {}  BY <1>2 DEF ToManager
        <4>2. /\ DOMAIN mgr_queue' = DOMAIN mgr_queue \cup {Len(mgr_queue) + 1}
              /\ mgr_queue'[Len(mgr_queue) + 1] = j
              /\ \A i \in DOMAIN mgr_queue : mgr_queue'[i] = mgr_queue[i]
              /\ Len(mgr_queue) + 1 \notin DOMAIN mgr_queue
          BY <1>0, <3>2, <4>1, SentIs
        <4>3. CASE k = Len(mgr_queue) + 1  BY <4>1, <4>2, <4>3
        <4>4. CASE k # Len(mgr_queue) + 1  BY <4>2, <4>4
        <4> QED BY <4>3, <4>4
      <3> QED BY <3>1, <3>2
    <2>4. JobSlots(writers[w].job) = {}
          /\ JobSlots(writers'[w].job) = JobSlots(Head(writer_queues[w]))
      BY <1>1, <2>1, <2>2
    <2> QED BY <1>0, <2>1, <2>2, <2>3, <2>4, SlotsReceived
  <1>7. CASE WriteBlock(w)
    <2>1. /\ writers[w].job \in WriteJobs /\ mgr_queue' = Append(mgr_queue, writers[w].job)
          /\ writers'[w].job = NoJob /\ UNCHANGED writer_queues
          /\ \A v \in Writers : v # w => writers'[v] = writers[v]
      BY <1>7, WriteIs
    <2>2. writers[w].job \in ToManager  BY <2>1 DEF ToManager
    <2> QED BY <1>0, <2>1, <2>2, SlotsSent
  <1>8. CASE WriteFails(w) \/ CloseFile(w)
    <2>1. /\ UNCHANGED <<mgr_queue, writer_queues>> /\ writers'[w].job = writers[w].job
          /\ \A v \in Writers : v # w => writers'[v] = writers[v]
      BY <1>0, <1>8, FailsIs, CloseIs
    <2>2. \A v \in Writers : writers'[v].job = writers[v].job  BY <2>1
    <2>3. JobSlots(mgr'.job) = JobSlots(mgr.job)  BY <1>0
    <2>4. \A q \in Queues : \A k : \A s :
              (k \in DOMAIN writer_queues'[q] /\ s \in JobSlots(writer_queues'[q][k]))
                <=> (k \in DOMAIN writer_queues[q] /\ s \in JobSlots(writer_queues[q][k]))
      BY <2>1
    <2> QED BY <1>0, <1>4, <2>1, <2>2, <2>3, <2>4, SlotsStay
  <1> QED BY <1>5, <1>6, <1>7, <1>8 DEF Writer

\* a job that names no slot is put in a queue
LEMMA SlotsQueued ==
    ASSUME TypeInv, NEW q \in Queues, NEW j \in ToWriter, JobSlots(j) = {},
           writer_queues' = [writer_queues EXCEPT ![q] = Append(@, j)]
    PROVE  \A p \in Queues : \A k : \A s :
              (k \in DOMAIN writer_queues'[p] /\ s \in JobSlots(writer_queues'[p][k]))
                <=> (k \in DOMAIN writer_queues[p] /\ s \in JobSlots(writer_queues[p][k]))
  <1>1. PICK n \in Int : n = Len(writer_queues[q]) + 1
    <2>1. Len(writer_queues[q]) \in Nat  BY GrownIs
    <2> QED BY <2>1
  <1>2. /\ \A p \in Queues : p # q => writer_queues'[p] = writer_queues[p]
        /\ Len(writer_queues[q]) \in Nat
        /\ DOMAIN writer_queues[q] = 1..Len(writer_queues[q])
        /\ DOMAIN writer_queues'[q] = 1..Len(writer_queues[q]) + 1
        /\ writer_queues'[q][Len(writer_queues[q]) + 1] = j
        /\ \A k \in DOMAIN writer_queues[q] : writer_queues'[q][k] = writer_queues[q][k]
    BY GrownIs
  <1>3. /\ DOMAIN writer_queues'[q] = DOMAIN writer_queues[q] \cup {n}
        /\ writer_queues'[q][n] = j /\ n \notin DOMAIN writer_queues[q]
    BY <1>1, <1>2
  <1> TAKE p \in Queues
  <1> TAKE k
  <1> TAKE s
  <1>4. CASE p # q  BY <1>2, <1>4
  <1>5. CASE p = q /\ k = n  BY <1>3, <1>5
  <1>6. CASE p = q /\ k # n  BY <1>2, <1>3, <1>6
  <1> QED BY <1>4, <1>5, <1>6

\* mlv_snd gives back slots that nobody writes
LEMMA SoundWrites ==
    ASSUME IInv, SoundStops
    PROVE  \A s \in Slots : slots'[s].st = "writing" <=> slots[s].st = "writing"
  <1>1. TypeInv /\ \A m \in meta : slots[m].st = "locked"  BY DEF IInv, SoundInv
  <1> QED BY <1>1, SoundStopsIs

LEMMA SlotsOfManager == ASSUME IInv, StartsClean, Manager PROVE SlotInv'
  <1>0. /\ TypeInv /\ TypeInv' /\ SlotInv /\ FlowInv /\ FlowInv' /\ mgr \in Managers
    <2>1. [Next]_vars  BY DEF Next
    <2> QED BY <2>1, TypeStep, FlowStep DEF IInv, TypeInv
  <1>1. JobSlots(NoJob) = {}  BY DEF JobSlots, NoJob
  <1>u. ASSUME mgr.pc \notin {"open", "dead"}, UNCHANGED mgr_queue,
               \A s \in Slots : slots'[s].st = "writing" <=> slots[s].st = "writing",
               JobSlots(mgr'.job) = JobSlots(mgr.job),
               UNCHANGED writers,
               \A q \in Queues : \A k : \A s :
                  (k \in DOMAIN writer_queues'[q] /\ s \in JobSlots(writer_queues'[q][k]))
                    <=> (k \in DOMAIN writer_queues[q] /\ s \in JobSlots(writer_queues[q][k]))
        PROVE  SlotInv'
    <2>2. \A v \in Writers : writers'[v].job = writers[v].job  BY <1>u
    <2> QED BY <1>0, <1>u, <2>2, SlotsStay
  <1>q. ASSUME UNCHANGED writer_queues
        PROVE  \A q \in Queues : \A k : \A s :
                  (k \in DOMAIN writer_queues'[q] /\ s \in JobSlots(writer_queues'[q][k]))
                    <=> (k \in DOMAIN writer_queues[q] /\ s \in JobSlots(writer_queues[q][k]))
    BY <1>q
  <1>2. CASE Prepare
    <2>1. CASE mgr' = [mgr EXCEPT !.pc = "open"]
      <3>1. mgr'.pc = "open"  BY <1>0, <2>1, MgrSet
      <3> QED BY <3>1 DEF SlotInv
    <2>2. CASE mgr' = [mgr EXCEPT !.pc = "cleanup"] /\ UNCHANGED slots
      <3>1. mgr'.job = mgr.job  BY <1>0, <2>2, MgrSet
      <3>2. mgr.pc = "prepare" /\ UNCHANGED <<mgr_queue, writer_queues, writers>>
        BY <1>2 DEF Prepare
      <3>3. mgr.pc \notin {"open", "dead"}  BY <3>2
      <3> QED BY <1>u, <1>q, <2>2, <3>1, <3>2, <3>3
    <2> QED BY <1>2, <2>1, <2>2 DEF Prepare
  <1>3. CASE OpenFiles
    <2>0. /\ mgr.pc = "open" /\ UNCHANGED <<slots, mgr_queue, writer_queues>>
          /\ \A s \in Slots : slots[s].st \in {"free", "locked"}
          /\ mgr_queue = <<>> /\ writer_queues = [q \in Queues |-> <<>>]
          /\ mgr.job = NoJob
      BY <1>0, <1>3 DEF OpenFiles, FlowInv
    <2>1. CASE mgr' = [mgr EXCEPT !.pc = "dead"]
      <3>1. mgr'.pc = "dead"  BY <1>0, <2>1, MgrSet
      <3> QED BY <3>1 DEF SlotInv
    <2>2. CASE /\ mgr' = [mgr EXCEPT !.pc = "begin"]
               /\ writers' = [w \in Writers |->
                     [Idle EXCEPT !.pc = "take", !.file = w + 1, !.num = w]]
      <3>1. mgr'.job = NoJob  BY <1>0, <2>0, <2>2, MgrSet
      <3>2. \A w \in Writers : writers'[w].job = NoJob  BY <2>2 DEF Idle
      <3>3. /\ \A q \in Queues : writer_queues'[q] = <<>>
            /\ mgr_queue' = <<>> /\ JobSlots(mgr'.job) = {}
            /\ \A v \in Writers : JobSlots(writers'[v].job) = {}
            /\ \A s \in Slots : slots'[s].st # "writing"
        BY <1>1, <2>0, <3>1, <3>2
      <3> QED BY <3>3, SlotsUnused
    <2> QED BY <1>3, <2>1, <2>2 DEF OpenFiles
  <1>4. CASE Begin
    <2>1. /\ mgr.pc = "begin" /\ UNCHANGED <<slots, mgr_queue, writer_queues, writers>>
          /\ mgr' = [mgr EXCEPT !.pc = "loop", !.used = FALSE, !.job = NoJob]
      BY <1>4 DEF Begin
    <2>2. mgr.job = NoJob  BY <1>0, <2>1 DEF FlowInv
    <2>3. mgr'.job = NoJob
      <3>1. mgr'.pc = "loop"  BY <1>0, <2>1 DEF Managers
      <3> QED BY <1>0, <3>1 DEF FlowInv
    <2>4. mgr.pc \notin {"open", "dead"}  BY <2>1
    <2> QED BY <1>u, <1>q, <2>1, <2>2, <2>3, <2>4
  <1>5. CASE MgrLoop
    <2>0. /\ mgr.pc = "loop" /\ UNCHANGED <<slots, writer_queues, writers>>
      BY <1>5 DEF MgrLoop
    <2>1. mgr.job = NoJob /\ mgr.pc \notin {"open", "dead"}  BY <1>0, <2>0 DEF FlowInv
    <2>2. \/ /\ UNCHANGED mgr_queue
             /\ \/ mgr' = [mgr EXCEPT !.pc = "stopping"]
                \/ mgr' = [mgr EXCEPT !.pc = "cleanup"]
          \/ UNCHANGED mgr_queue /\ mgr' = [mgr EXCEPT !.pc = "fill", !.at = 0, !.job = NoJob]
          \/ /\ mgr_queue # <<>> /\ mgr_queue' = Tail(mgr_queue)
             /\ mgr' = [mgr EXCEPT !.pc = "fill", !.at = 0, !.job = Head(mgr_queue)]
      BY <1>5, Zenon DEF MgrLoop
    <2>3. CASE /\ UNCHANGED mgr_queue
               /\ \/ mgr' = [mgr EXCEPT !.pc = "stopping"]
                  \/ mgr' = [mgr EXCEPT !.pc = "cleanup"]
      <3>1. mgr'.job = NoJob  BY <1>0, <2>1, <2>3, MgrSet, ZenonT(60)
      <3> QED BY <1>u, <1>q, <2>0, <2>1, <2>3, <3>1
    <2>4. CASE UNCHANGED mgr_queue /\ mgr' = [mgr EXCEPT !.pc = "fill", !.at = 0, !.job = NoJob]
      <3>1. mgr'.job = NoJob  BY <1>0, <2>4 DEF Managers
      <3> QED BY <1>u, <1>q, <2>0, <2>1, <2>4, <3>1
    <2>5. CASE /\ mgr_queue # <<>> /\ mgr_queue' = Tail(mgr_queue)
               /\ mgr' = [mgr EXCEPT !.pc = "fill", !.at = 0, !.job = Head(mgr_queue)]
      <3>1. mgr'.job = Head(mgr_queue)  BY <1>0, <2>5 DEF Managers
      <3> QED BY <1>0, <2>0, <2>1, <2>5, <3>1, SlotsReturned
    <2> QED BY <2>2, <2>3, <2>4, <2>5
  <1>6. CASE FillQueue
    <2>0. /\ mgr.pc = "fill" /\ FillNext /\ UNCHANGED <<mgr_queue, writers>>
          /\ mgr.pc \notin {"open", "dead"}
      BY <1>6 DEF FillQueue
    <2>1. mgr'.job = mgr.job
      <3>1. CASE mgr.at + 1 < NWriters
        <4>1. mgr' = [mgr EXCEPT !.at = mgr.at + 1]  BY <2>0, <3>1 DEF FillNext
        <4> QED BY <1>0, <4>1 DEF Managers
      <3>2. CASE ~(mgr.at + 1 < NWriters)
        <4>1. mgr' = [mgr EXCEPT !.pc = "handle"]  BY <2>0, <3>2 DEF FillNext
        <4> QED BY <1>0, <4>1, MgrSet
      <3> QED BY <3>1, <3>2
    <2>2. CASE BlocksFor(mgr.at) = {}
      <3>1. UNCHANGED <<slots, writer_queues>>  BY <1>6, <2>2 DEF FillQueue
      <3> QED BY <1>u, <1>q, <2>0, <2>1, <3>1
    <2>3. CASE BlocksFor(mgr.at) # {}
      <3>1. PICK b \in BlocksFor(mgr.at) : \E n \in Shortened(b[2]) :
                Enqueue(mgr.at, <<b[1], n>>)
        BY <1>6, <2>3 DEF FillQueue
      <3>2. PICK n \in Shortened(b[2]) : Enqueue(mgr.at, <<b[1], n>>)  BY <3>1
      <3>3. mgr.at \in Queues  BY MgrIs, <1>0 DEF Queues
      <3>4. /\ b[1] \in Nat /\ n \in Nat \ {0} /\ n <= ChunkSize
            /\ \A s \in b[1] .. b[1] + n - 1 : s \in Slots /\ slots[s].st = "full"
        BY <3>3, BlockFound
      <3>5. PICK w \in Queues, a \in Nat : w = mgr.at /\ a = b[1]  BY <3>3, <3>4
      <3>6. /\ slots' = Mark(a .. a + n - 1, "writing")
            /\ writer_queues' = [writer_queues EXCEPT ![w] = Append(@, WriteJob(w, a, n))]
        BY <3>2, <3>5 DEF Enqueue
      <3>7. \A s \in a .. a + n - 1 : s \in Slots /\ slots[s].st = "full"
        BY <3>4, <3>5
      <3> QED BY <1>0, <2>0, <2>1, <3>4, <3>6, <3>7, SlotsFilled
    <2> QED BY <2>2, <2>3
  <1>7. CASE NothingReturned \/ CloseWanted
    <2>1. /\ EndLoop /\ UNCHANGED <<slots, writer_queues, mgr_queue, writers>>
          /\ mgr.pc = "handle" /\ mgr.job.type \in {"none", "close"}
          /\ mgr.pc \notin {"open", "dead"}
      BY <1>7 DEF NothingReturned, CloseWanted, Returned
    <2>2. JobSlots(mgr.job) = {}  BY <2>1 DEF JobSlots
    <2>3. mgr'.job = NoJob  BY <1>0, <2>1, EndLoopIs
    <2> QED BY <1>1, <1>u, <1>q, <2>1, <2>2, <2>3
  <1>8. CASE WriteReturned
    <2>1. /\ EndLoop /\ slots' = Mark(JobSlots(mgr.job), "free")
          /\ UNCHANGED <<writer_queues, mgr_queue, writers>>
          /\ mgr.pc = "handle" /\ mgr.pc \notin {"open", "dead"}
      BY <1>8 DEF WriteReturned, Returned
    <2>2. mgr'.job = NoJob  BY <1>0, <2>1, EndLoopIs
    <2> QED BY <1>0, <2>1, <2>2, SlotsFreed
  <1>9. CASE HandleWanted
    <2>1. /\ EndLoop /\ UNCHANGED <<slots, mgr_queue, writers>>
          /\ mgr.pc = "handle" /\ mgr.job.type = "handle" /\ mgr.pc \notin {"open", "dead"}
      BY <1>9 DEF HandleWanted, Returned
    <2>2. JobSlots(mgr.job) = {}  BY <2>1 DEF JobSlots
    <2>3. mgr'.job = NoJob  BY <1>0, <2>1, EndLoopIs
    <2>4. \A q \in Queues : \A k : \A s :
              (k \in DOMAIN writer_queues'[q] /\ s \in JobSlots(writer_queues'[q][k]))
                <=> (k \in DOMAIN writer_queues[q] /\ s \in JobSlots(writer_queues[q][k]))
      <3>1. mgr.job \in HandleJobs  BY <1>0, <1>9, HandleSent
      <3>2. PICK q \in Queues : q = mgr.job.writer
        BY <3>1, QueueOne, WriterAssumption DEF HandleJobs
      <3>3. PICK j \in HandleJobs :
                writer_queues' = [writer_queues EXCEPT ![mgr.job.writer] = Append(@, j)]
        BY <1>0, <1>9, HandleSent
      <3>4. j \in ToWriter /\ writer_queues' = [writer_queues EXCEPT ![q] = Append(@, j)]
        BY <3>2, <3>3 DEF ToWriter
      <3>5. JobSlots(j) = {}  BY DEF JobSlots, HandleJobs
      <3> QED BY <1>0, <3>4, <3>5, SlotsQueued
    <2> QED BY <1>1, <1>u, <2>1, <2>2, <2>3, <2>4
  <1>10. CASE Stopping \/ Drain \/ CleanUp
    <2>1. /\ UNCHANGED <<writer_queues, mgr_queue, writers>>
          /\ mgr.pc \in {"stopping", "drain", "cleanup"} /\ mgr.pc \notin {"open", "dead"}
      BY <1>10 DEF Stopping, Drain, CleanUp
    <2>4. \A s \in Slots : slots'[s].st = "writing" <=> slots[s].st = "writing"
      <3>1. CASE SoundStops  BY <3>1, SoundWrites
      <3>2. CASE Drain  BY <3>2 DEF Drain
      <3> QED BY <1>10, <3>1, <3>2 DEF Stopping, CleanUp
    <2>2. mgr.job = NoJob  BY <1>0, <2>1 DEF FlowInv
    <2>3. mgr'.job = mgr.job
      <3>1. CASE mgr' = [mgr EXCEPT !.pc = "drain"] \/ mgr' = [mgr EXCEPT !.pc = "cleanup"]
        BY <1>0, <3>1, MgrSet
      <3>2. CASE mgr' = [mgr EXCEPT !.pc = "abort", !.at = 0]
                 \/ mgr' = [mgr EXCEPT !.pc = "off", !.used = FALSE]
        BY <1>0, <3>2 DEF Managers
      <3> QED BY <1>10, <3>1, <3>2 DEF Stopping, Drain, CleanUp
    <2> QED BY <1>u, <1>q, <2>1, <2>3, <2>4
  <1>11. CASE AbortWriters
    <2>1. /\ UNCHANGED <<slots, mgr_queue, writers>> /\ mgr.pc = "abort"
          /\ mgr.pc \notin {"open", "dead"}
          /\ mgr' = IF mgr.at = 0 THEN [mgr EXCEPT !.at = 1] ELSE [mgr EXCEPT !.pc = "flush"]
          /\ writer_queues' = [writer_queues EXCEPT ![mgr.at] = Append(@, AbortJob)]
      BY <1>11 DEF AbortWriters
    <2>2. mgr'.job = mgr.job
      <3>1. CASE mgr.at = 0  BY <3>1, <2>1, <1>0 DEF Managers
      <3>2. CASE mgr.at # 0  BY <3>2, <2>1, <1>0, MgrSet
      <3> QED BY <3>1, <3>2
    <2>3. \A q \in Queues : \A k : \A s :
              (k \in DOMAIN writer_queues'[q] /\ s \in JobSlots(writer_queues'[q][k]))
                <=> (k \in DOMAIN writer_queues[q] /\ s \in JobSlots(writer_queues[q][k]))
      <3>1. PICK q \in Queues, j \in ToWriter : q = mgr.at /\ j = AbortJob
        <4>1. mgr.at \in Queues  BY <1>0, MgrIs DEF Queues
        <4>2. AbortJob \in ToWriter
          BY SizeAssumption DEF AbortJob, WriteJob, ToWriter, WriteJobs, Queues, None
        <4> QED BY <4>1, <4>2
      <3>2. writer_queues' = [writer_queues EXCEPT ![q] = Append(@, j)]  BY <2>1, <3>1
      <3>3. JobSlots(j) = {}  BY <3>1 DEF JobSlots, AbortJob, WriteJob, None
      <3> QED BY <1>0, <3>2, <3>3, SlotsQueued
    <2> QED BY <1>u, <2>1, <2>2, <2>3
  <1>12. CASE Flush
    <2>1. /\ UNCHANGED <<slots, writers>> /\ mgr.pc = "flush"
          /\ mgr_queue' = <<>> /\ writer_queues' = [q \in Queues |-> <<>>]
          /\ mgr' = [mgr EXCEPT !.pc = "cleanup"]
      BY <1>12 DEF Flush
    <2>2. mgr.job = NoJob /\ (\A s \in Slots : slots[s].st # "writing")
          /\ mgr.pc \notin {"open", "dead"}
      BY <1>0, <2>1 DEF FlowInv
    <2>3. mgr'.job = NoJob  BY <1>0, <2>1, <2>2, MgrSet
    <2>4. \A v \in Writers : JobSlots(writers'[v].job) = {}
      <3>1. SUFFICES ASSUME NEW v \in Writers, NEW s, s \in JobSlots(writers[v].job)
                     PROVE  FALSE
        BY <2>1
      <3>2. Holder(4, v, s)  BY <3>1, HolderIs
      <3>3. s \in Slots /\ slots[s].st = "writing"
        BY <1>0, <2>2, <3>2 DEF SlotInv, Holder
      <3> QED BY <2>2, <3>3
    <2>5. /\ \A q \in Queues : writer_queues'[q] = <<>>
          /\ JobSlots(mgr'.job) = {} /\ \A s \in Slots : slots'[s].st # "writing"
      BY <1>0, <1>1, <2>1, <2>2, <2>3 DEF SlotInv
    <2> QED BY <2>1, <2>4, <2>5, SlotsUnused
  <1> QED BY <1>2, <1>3, <1>4, <1>5, <1>6, <1>7, <1>8, <1>9, <1>10, <1>11, <1>12 DEF Manager

LEMMA SlotStep == ASSUME IInv, StartsClean, [Next]_vars PROVE SlotInv'
  <1>0. /\ TypeInv /\ TypeInv' /\ SlotInv /\ FlowInv /\ mgr \in Managers
    BY TypeStep DEF IInv, TypeInv
  <1>1. CASE Manager  BY <1>1, SlotsOfManager
  <1>2. CASE \E w \in Writers : Writer(w)  BY <1>2, SlotsOfWriters
  <1>q. ASSUME mgr.pc \notin {"open", "dead"}, UNCHANGED <<mgr_queue, writer_queues, writers>>,
               mgr'.job = mgr.job,
               \A s \in Slots : slots'[s].st = "writing" <=> slots[s].st = "writing"
        PROVE  SlotInv'
    <2>1. \A v \in Writers : writers'[v].job = writers[v].job  BY <1>q
    <2>2. JobSlots(mgr'.job) = JobSlots(mgr.job)  BY <1>q
    <2>3. \A q \in Queues : \A k : \A s :
              (k \in DOMAIN writer_queues'[q] /\ s \in JobSlots(writer_queues'[q][k]))
                <=> (k \in DOMAIN writer_queues[q] /\ s \in JobSlots(writer_queues[q][k]))
      BY <1>q
    <2> QED BY <1>0, <1>q, <2>1, <2>2, <2>3, SlotsStay
  <1>3. CASE Camera \/ DmaDone \/ TakeSlot \/ ReleaseSlot
    <2>1. /\ UNCHANGED <<mgr, mgr_queue, writer_queues, writers>>
          /\ \A s \in Slots : slots'[s].st = "writing" <=> slots[s].st = "writing"
      BY <1>3, CameraSlots
    <2>2. CASE mgr.pc \in {"open", "dead"}  BY <2>1, <2>2 DEF SlotInv
    <2>3. CASE mgr.pc \notin {"open", "dead"}  BY <1>q, <2>1, <2>3
    <2> QED BY <2>2, <2>3
  <1>4. CASE PressRec
    <2>1. /\ UNCHANGED <<slots, mgr_queue, writer_queues, writers>>
          /\ state = "idle" => mgr' = [mgr EXCEPT !.pc = "prepare"]
          /\ state # "idle" => mgr' = mgr
      BY <1>4 DEF PressRec
    <2>2. state = "idle" => mgr.pc = "off"  BY <1>0 DEF FlowInv
    <2>3. CASE state = "idle"
      <3>1. mgr'.job = mgr.job /\ mgr.pc \notin {"open", "dead"}
        BY <1>0, <2>1, <2>2, <2>3, MgrSet
      <3>3. \A s \in Slots : slots'[s].st = "writing" <=> slots[s].st = "writing"  BY <2>1
      <3> QED BY <1>q, <2>1, <3>1, <3>3
    <2>4. CASE state # "idle" /\ mgr.pc \in {"open", "dead"}  BY <2>1, <2>4 DEF SlotInv
    <2>5. CASE state # "idle" /\ mgr.pc \notin {"open", "dead"}
      <3>3. \A s \in Slots : slots'[s].st = "writing" <=> slots[s].st = "writing"  BY <2>1
      <3> QED BY <1>q, <2>1, <2>5, <3>3
    <2> QED BY <2>3, <2>4, <2>5
  <1>5. CASE UNCHANGED vars
    <2>1. UNCHANGED <<slots, mgr, mgr_queue, writer_queues, writers>>
      BY <1>5 DEF vars
    <2> QED BY <1>0, <2>1 DEF SlotInv, Holder, Index, JobAt
  <1> QED BY <1>1, <1>2, <1>3, <1>4, <1>5 DEF Next

-----------------------------------------------------------------------------
(* Sound: the slots mlv_snd holds stay locked.                             *)

\* where these steps of the manager begin and end, the writers run or have run
LEMMA ManagerRuns ==
    ASSUME mgr \in Managers,
           \/ Begin \/ MgrLoop \/ FillQueue \/ NothingReturned \/ WriteReturned
           \/ HandleWanted \/ CloseWanted \/ Stopping \/ Drain \/ AbortWriters \/ Flush
    PROVE  mgr.pc \notin Before /\ mgr'.pc \notin Before
  <1>1. CASE Begin \/ MgrLoop
    <2>1. \E at, j, u : \/ mgr' = [mgr EXCEPT !.pc = "loop", !.used = u, !.job = j]
                        \/ mgr' = [mgr EXCEPT !.pc = "stopping"]
                        \/ mgr' = [mgr EXCEPT !.pc = "cleanup"]
                        \/ mgr' = [mgr EXCEPT !.pc = "fill", !.at = at, !.job = j]
      BY <1>1, Zenon DEF Begin, MgrLoop
    <2>2. mgr.pc \in {"begin", "loop"}  BY <1>1 DEF Begin, MgrLoop
    <2> QED BY <2>1, <2>2 DEF Managers, Before
  <1>2. CASE FillQueue
    <2>1. mgr.pc = "fill" /\ (mgr' = [mgr EXCEPT !.at = mgr.at + 1]
                                \/ mgr' = [mgr EXCEPT !.pc = "handle"])
      BY <1>2 DEF FillQueue, FillNext
    <2> QED BY <2>1 DEF Managers, Before
  <1>3. CASE NothingReturned \/ WriteReturned \/ HandleWanted \/ CloseWanted
    <2>1. EndLoop /\ mgr.pc = "handle"
      BY <1>3 DEF NothingReturned, WriteReturned, HandleWanted, CloseWanted, Returned
    <2> QED BY <2>1, EndLoopIs DEF Before
  <1>4. CASE Stopping \/ Drain \/ AbortWriters \/ Flush
    <2>1. /\ mgr.pc \in {"stopping", "drain", "abort", "flush"}
          /\ \/ mgr' = [mgr EXCEPT !.pc = "drain"] \/ mgr' = [mgr EXCEPT !.pc = "cleanup"]
             \/ mgr' = [mgr EXCEPT !.pc = "abort", !.at = 0] \/ mgr' = [mgr EXCEPT !.at = 1]
             \/ mgr' = [mgr EXCEPT !.pc = "flush"]
      BY <1>4 DEF Stopping, Drain, AbortWriters, Flush
    <2> QED BY <2>1 DEF Managers, Before
  <1> QED BY <1>1, <1>2, <1>3, <1>4

LEMMA SoundStep == ASSUME IInv, [Next]_vars PROVE SoundInv'
  <1>0. TypeInv /\ SoundInv /\ FlowInv /\ SlotInv /\ mgr \in Managers
        /\ slots \in [Slots -> SlotStates] /\ meta \subseteq Slots
    BY DEF IInv, TypeInv, SlotStates
  <1>m. ASSUME NEW B, slots' = Mark(B, "writing"), \A s \in B : slots[s].st = "full"
        PROVE  \A s \in Slots : slots[s].st = "locked" => slots'[s].st = "locked"
    <2>1. "writing" \in Statuses  BY DEF Statuses
    <2>2. \A s \in Slots : slots'[s].st = IF s \in B THEN "writing" ELSE slots[s].st
      BY <1>0, <1>m, <2>1, MarkIs
    <2> QED BY <1>m, <2>2
  <1>k. ASSUME UNCHANGED <<meta, owes>>, mgr'.pc \notin Before,
               \A s \in Slots : slots[s].st = "locked" => slots'[s].st = "locked"
        PROVE  SoundInv'
    BY <1>0, <1>k DEF SoundInv, Before
  <1>1. CASE Camera \/ DmaDone \/ TakeSlot \/ ReleaseSlot  BY <1>1, CameraSlots
  <1>2. CASE \E w \in Writers : Writer(w)
    <2>1. UNCHANGED <<mgr, slots, meta, owes>>  BY <1>2, WriterEffects
    <2> QED BY <1>0, <2>1 DEF SoundInv
  <1>3. CASE PressRec
    <2>1. /\ UNCHANGED <<slots, meta, owes>>
          /\ \/ mgr.pc = "off" /\ mgr' = [mgr EXCEPT !.pc = "prepare"]
             \/ UNCHANGED mgr
      BY <1>0, <1>3 DEF PressRec, FlowInv, metaVars
    <2>2. (mgr.pc = "off" /\ mgr'.pc = "prepare") \/ UNCHANGED mgr  BY <1>0, <2>1, MgrSet
    <2> QED BY <1>0, <2>1, <2>2 DEF SoundInv, Before
  <1>4. CASE Prepare
    <2>1. mgr.pc = "prepare" /\ UNCHANGED <<meta, owes>>  BY <1>4 DEF Prepare
    <2>2. meta' = {} /\ ~owes'  BY <1>0, <2>1 DEF SoundInv, Before
    <2> QED BY <2>2 DEF SoundInv
  <1>5. CASE OpenFiles
    <2>1. /\ mgr.pc = "open" /\ UNCHANGED <<slots, meta, owes>>
          /\ \/ mgr' = [mgr EXCEPT !.pc = "begin"]
             \/ mgr' = [mgr EXCEPT !.pc = "dead"]
      BY <1>5 DEF OpenFiles, metaVars
    <2>2. mgr'.pc \in {"begin", "dead"}  BY <1>0, <2>1, MgrSet
    <2>3. ~owes'  BY <1>0, <2>1 DEF SoundInv, Before
    <2> QED BY <1>0, <2>1, <2>2, <2>3 DEF SoundInv
  <1>6. CASE Stopping \/ CleanUp
    <2>1. meta' = {} /\ ~owes'  BY <1>0, <1>6, SoundStopsIs DEF Stopping, CleanUp
    <2> QED BY <2>1 DEF SoundInv
  <1>7. CASE Begin \/ MgrLoop \/ NothingReturned \/ HandleWanted \/ CloseWanted
             \/ Drain \/ AbortWriters \/ Flush
    <2>1. UNCHANGED <<slots, meta, owes>>
      BY <1>7 DEF Begin, MgrLoop, NothingReturned, HandleWanted, CloseWanted, Drain,
                  AbortWriters, Flush, metaVars
    <2>2. mgr'.pc \notin Before  BY <1>0, <1>7, ManagerRuns
    <2> QED BY <1>k, <2>1, <2>2
  <1>8. CASE FillQueue
    <2>1. UNCHANGED <<meta, owes>>  BY <1>8 DEF FillQueue, metaVars
    <2>2. mgr'.pc \notin Before  BY <1>0, <1>8, ManagerRuns
    <2>3. CASE BlocksFor(mgr.at) = {}
      <3>1. UNCHANGED slots  BY <1>8, <2>3 DEF FillQueue
      <3> QED BY <1>k, <2>1, <2>2, <3>1
    <2>4. CASE BlocksFor(mgr.at) # {}
      <3>1. PICK b \in BlocksFor(mgr.at) : \E n \in Shortened(b[2]) :
                Enqueue(mgr.at, <<b[1], n>>)
        BY <1>8, <2>4 DEF FillQueue
      <3>2. PICK n \in Shortened(b[2]) : Enqueue(mgr.at, <<b[1], n>>)  BY <3>1
      <3>3. mgr.at \in Queues  BY MgrIs, <1>0 DEF Queues
      <3>4. \A s \in b[1] .. b[1] + n - 1 : slots[s].st = "full"  BY <1>0, <3>3, BlockFound
      <3>5. slots' = Mark(b[1] .. b[1] + n - 1, "writing")  BY <3>2 DEF Enqueue
      <3>6. \A s \in Slots : slots[s].st = "locked" => slots'[s].st = "locked"
        BY <1>m, <3>4, <3>5
      <3> QED BY <1>k, <2>1, <2>2, <3>6
    <2> QED BY <2>3, <2>4
  <1>9. CASE WriteReturned
    <2>1. /\ mgr.pc = "handle" /\ slots' = Mark(JobSlots(mgr.job), "free")
          /\ UNCHANGED <<meta, owes>>
      BY <1>9 DEF WriteReturned, Returned, metaVars
    <2>2. mgr'.pc \notin Before  BY <1>0, <1>9, ManagerRuns
    <2>3. \A s \in JobSlots(mgr.job) : slots[s].st = "writing"
      <3>1. \A s : Holder(3, 1, s) <=> s \in JobSlots(mgr.job)  BY HolderIs
      <3> QED BY <1>0, <2>1, <3>1 DEF SlotInv, Holder
    <2>4. \A s \in Slots : slots[s].st = "locked" => slots'[s].st = "locked"
      BY <1>0, <2>1, <2>3, MarkIs DEF Statuses
    <2> QED BY <1>k, <2>1, <2>2, <2>4
  <1>10. CASE UNCHANGED vars
    <2>1. UNCHANGED <<mgr, slots, meta, owes>>  BY <1>10 DEF vars, metaVars
    <2> QED BY <1>0, <2>1 DEF SoundInv
  <1> QED BY <1>1, <1>2, <1>3, <1>4, <1>5, <1>6, <1>7, <1>8, <1>9, <1>10 DEF Next, Manager

-----------------------------------------------------------------------------
(* Files: a step makes no writer mean a file that another one means.       *)

\* a request about a file that its writer means already, or that is new and owner's
Known(j, owner) ==
    \/ j.file = None
    \/ Means(j.writer, j.file)
    \/ j.file = Len(files) + 1 /\ j.file <= Len(files') /\ j.writer = owner
Asking(j) == j.type \in {"handle", "close"}

LEMMA MeansIs ==
    ASSUME NEW w, NEW i
    PROVE  Means(w, i) <=>
              \/ i = writers[w].file \/ i = writers[w].next
              \/ \E q \in Queues : \E k \in DOMAIN writer_queues[q] :
                    /\ Asking(writer_queues[q][k])
                    /\ writer_queues[q][k].writer = w /\ writer_queues[q][k].file = i
              \/ \E k \in DOMAIN mgr_queue :
                    Asking(mgr_queue[k]) /\ mgr_queue[k].writer = w /\ mgr_queue[k].file = i
              \/ Asking(mgr.job) /\ mgr.job.writer = w /\ mgr.job.file = i
  <1> DEFINE At(c) == \E k \in Index(c) : /\ JobAt(c, k).type \in {"handle", "close"}
                                          /\ JobAt(c, k).writer = w /\ JobAt(c, k).file = i
  <1>1. (\E c \in 0..3 : At(c)) <=> (\E q \in Queues : At(q)) \/ At(2) \/ At(3)
    <2>1. \A c \in 0..3 : c \in Queues \/ c = 2 \/ c = 3  BY DEF Queues
    <2>2. \A c \in Queues \cup {2, 3} : c \in 0..3  BY DEF Queues
    <2> HIDE DEF At
    <2> QED BY <2>1, <2>2
  <1>2. \A q \in Queues : At(q) <=> \E k \in DOMAIN writer_queues[q] :
            /\ Asking(writer_queues[q][k])
            /\ writer_queues[q][k].writer = w /\ writer_queues[q][k].file = i
    BY DEF Index, JobAt, Asking, Queues
  <1>3. At(2) <=> \E k \in DOMAIN mgr_queue :
            Asking(mgr_queue[k]) /\ mgr_queue[k].writer = w /\ mgr_queue[k].file = i
    BY DEF Index, JobAt, Asking, Queues
  <1>4. At(3) <=> Asking(mgr.job) /\ mgr.job.writer = w /\ mgr.job.file = i
    BY DEF Index, JobAt, Asking, Queues
  <1>5. Means(w, i) <=> i = writers[w].file \/ i = writers[w].next \/ \E c \in 0..3 : At(c)
    BY DEF Means
  <1> HIDE DEF At
  <1> QED BY <1>1, <1>2, <1>3, <1>4, <1>5

LEMMA MeansWillBe ==
    ASSUME NEW w, NEW i
    PROVE  Means(w, i)' <=>
              \/ i = writers'[w].file \/ i = writers'[w].next
              \/ \E q \in Queues : \E k \in DOMAIN writer_queues'[q] :
                    /\ Asking(writer_queues'[q][k])
                    /\ writer_queues'[q][k].writer = w /\ writer_queues'[q][k].file = i
              \/ \E k \in DOMAIN mgr_queue' :
                    Asking(mgr_queue'[k]) /\ mgr_queue'[k].writer = w /\ mgr_queue'[k].file = i
              \/ Asking(mgr'.job) /\ mgr'.job.writer = w /\ mgr'.job.file = i
  <1> DEFINE At(c) == \E k \in Index(c)' : /\ JobAt(c, k)'.type \in {"handle", "close"}
                                           /\ JobAt(c, k)'.writer = w /\ JobAt(c, k)'.file = i
  <1>1. (\E c \in 0..3 : At(c)) <=> (\E q \in Queues : At(q)) \/ At(2) \/ At(3)
    <2>1. \A c \in 0..3 : c \in Queues \/ c = 2 \/ c = 3  BY DEF Queues
    <2>2. \A c \in Queues \cup {2, 3} : c \in 0..3  BY DEF Queues
    <2> HIDE DEF At
    <2> QED BY <2>1, <2>2
  <1>2. \A q \in Queues : At(q) <=> \E k \in DOMAIN writer_queues'[q] :
            /\ Asking(writer_queues'[q][k])
            /\ writer_queues'[q][k].writer = w /\ writer_queues'[q][k].file = i
    BY DEF Index, JobAt, Asking, Queues
  <1>3. At(2) <=> \E k \in DOMAIN mgr_queue' :
            Asking(mgr_queue'[k]) /\ mgr_queue'[k].writer = w /\ mgr_queue'[k].file = i
    BY DEF Index, JobAt, Asking, Queues
  <1>4. At(3) <=> Asking(mgr'.job) /\ mgr'.job.writer = w /\ mgr'.job.file = i
    BY DEF Index, JobAt, Asking, Queues
  <1>5. Means(w, i)' <=> i = writers'[w].file \/ i = writers'[w].next \/ \E c \in 0..3 : At(c)
    BY DEF Means
  <1> HIDE DEF At
  <1> QED BY <1>1, <1>2, <1>3, <1>4, <1>5

\* what the requests there are mean
LEMMA RequestsKnown ==
    ASSUME NEW owner
    PROVE  /\ \A q \in Queues : \A k \in DOMAIN writer_queues[q] :
                 Asking(writer_queues[q][k]) => Known(writer_queues[q][k], owner)
           /\ \A k \in DOMAIN mgr_queue : Asking(mgr_queue[k]) => Known(mgr_queue[k], owner)
           /\ Asking(mgr.job) => Known(mgr.job, owner)
           /\ \A w \in Writers : Means(w, writers[w].file) /\ Means(w, writers[w].next)
  <1>1. ASSUME NEW q \in Queues, NEW k \in DOMAIN writer_queues[q], Asking(writer_queues[q][k])
        PROVE  Known(writer_queues[q][k], owner)
    <2>1. Means(writer_queues[q][k].writer, writer_queues[q][k].file)
      <3>1. q \in 0..3 /\ k \in Index(q) /\ JobAt(q, k) = writer_queues[q][k]
        BY DEF Index, JobAt, Queues
      <3> QED BY <1>1, <3>1 DEF Means, Asking
    <2> QED BY <2>1 DEF Known
  <1>2. ASSUME NEW k \in DOMAIN mgr_queue, Asking(mgr_queue[k])
        PROVE  Known(mgr_queue[k], owner)
    <2>1. Means(mgr_queue[k].writer, mgr_queue[k].file)
      <3>1. 2 \in 0..3 /\ k \in Index(2) /\ JobAt(2, k) = mgr_queue[k]
        BY DEF Index, JobAt, Queues
      <3> QED BY <1>2, <3>1 DEF Means, Asking
    <2> QED BY <2>1 DEF Known
  <1>3. ASSUME Asking(mgr.job) PROVE Known(mgr.job, owner)
    <2>1. Means(mgr.job.writer, mgr.job.file)
      <3>1. 3 \in 0..3 /\ 1 \in Index(3) /\ JobAt(3, 1) = mgr.job
        BY DEF Index, JobAt, Queues
      <3> QED BY <1>3, <3>1 DEF Means, Asking
    <2> QED BY <2>1 DEF Known
  <1>4. \A w \in Writers : Means(w, writers[w].file) /\ Means(w, writers[w].next)
    BY DEF Means
  <1> QED BY <1>1, <1>2, <1>3, <1>4

LEMMA MeansBound ==
    ASSUME FileInv, TypeInv, mgr.pc \notin {"open", "dead"}, NEW w \in Writers, NEW i, Means(w, i)
    PROVE  i <= Len(files)
  <1>1. CASE i = writers[w].file \/ i = writers[w].next  BY <1>1 DEF FileInv
  <1>2. CASE \E c \in 0..3 : \E k \in Index(c) :
                /\ JobAt(c, k).type \in {"handle", "close"}
                /\ JobAt(c, k).writer = w /\ JobAt(c, k).file = i
    BY <1>2 DEF FileInv
  <1> QED BY <1>1, <1>2 DEF Means

LEMMA AskingTypes ==
    ASSUME NEW j \in ToManager \cup MgrJobs, Asking(j)
    PROVE  j.writer \in Writers /\ j.file \in Nat
  <1>1. j \in HandleJobs \cup CloseJobs
    BY DEF Asking, MgrJobs, ToManager, WriteJobs, NoJob
  <1> QED BY <1>1 DEF HandleJobs, CloseJobs

LEMMA FilesMove ==
    ASSUME FileInv, TypeInv, TypeInv', mgr.pc \notin {"open", "dead"},
           Len(files) <= Len(files'), NEW owner \in Writers,
           \A q \in Queues : \A k \in DOMAIN writer_queues'[q] :
              Asking(writer_queues'[q][k]) =>
                 /\ q \in Writers => writer_queues'[q][k].writer = q
                 /\ Known(writer_queues'[q][k], owner),
           \A k \in DOMAIN mgr_queue' : Asking(mgr_queue'[k]) => Known(mgr_queue'[k], owner),
           Asking(mgr'.job) => Known(mgr'.job, owner),
           \A w \in Writers : /\ writers'[w].file = None \/ Means(w, writers'[w].file)
                              /\ writers'[w].next = None \/ Means(w, writers'[w].next)
    PROVE  FileInv'
  <1>0. Len(files) \in Nat /\ Len(files') \in Nat  BY SMTT(30) DEF TypeInv
  <1>1. ASSUME NEW w \in Writers, NEW i \in Nat \ {0}, Means(w, i)'
        PROVE  Means(w, i) \/ (i = Len(files) + 1 /\ i <= Len(files') /\ w = owner)
    <2>1. CASE i = writers'[w].file \/ i = writers'[w].next  BY <2>1 DEF None
    <2>2. CASE \E q \in Queues : \E k \in DOMAIN writer_queues'[q] :
                    /\ Asking(writer_queues'[q][k])
                    /\ writer_queues'[q][k].writer = w /\ writer_queues'[q][k].file = i
      <3>1. PICK q \in Queues : \E k \in DOMAIN writer_queues'[q] :
                    /\ Asking(writer_queues'[q][k])
                    /\ writer_queues'[q][k].writer = w /\ writer_queues'[q][k].file = i
        BY <2>2
      <3>2. PICK k \in DOMAIN writer_queues'[q] :
                    /\ Asking(writer_queues'[q][k])
                    /\ writer_queues'[q][k].writer = w /\ writer_queues'[q][k].file = i
        BY <3>1
      <3>3. Known(writer_queues'[q][k], owner)  BY <3>2
      <3> QED BY <3>2, <3>3 DEF Known, None
    <2>3. CASE \E k \in DOMAIN mgr_queue' :
                    Asking(mgr_queue'[k]) /\ mgr_queue'[k].writer = w /\ mgr_queue'[k].file = i
      <3>1. PICK k \in DOMAIN mgr_queue' :
                    Asking(mgr_queue'[k]) /\ mgr_queue'[k].writer = w /\ mgr_queue'[k].file = i
        BY <2>3
      <3>2. Known(mgr_queue'[k], owner)  BY <3>1
      <3> QED BY <3>1, <3>2 DEF Known, None
    <2>4. CASE Asking(mgr'.job) /\ mgr'.job.writer = w /\ mgr'.job.file = i
      <3>1. Known(mgr'.job, owner)  BY <2>4
      <3> QED BY <2>4, <3>1 DEF Known, None
    <2> QED BY <1>1, <2>1, <2>2, <2>3, <2>4, MeansWillBe
  <1>2. ASSUME NEW w \in Writers, NEW i \in Nat \ {0}, Means(w, i)'
        PROVE  i <= Len(files')
    <2>1. CASE Means(w, i)
      <3>1. i <= Len(files)  BY <2>1, MeansBound
      <3> QED BY <1>0, <3>1
    <2> QED BY <1>1, <1>2, <2>1
  <1>3. ASSUME NEW v \in Writers, NEW w \in Writers, NEW i \in DOMAIN files',
               Means(v, i)', Means(w, i)'
        PROVE  v = w
    <2>0. DOMAIN files' = 1..Len(files') /\ DOMAIN files = 1..Len(files)
      <3>1. files' \in Seq(Files) /\ files \in Seq(Files)  BY DEF TypeInv
      <3> QED BY <3>1
    <2>1. i \in Nat \ {0}  BY <1>0, <2>0
    <2>2. /\ Means(v, i) \/ (i = Len(files) + 1 /\ v = owner)
          /\ Means(w, i) \/ (i = Len(files) + 1 /\ w = owner)
      BY <1>1, <1>3, <2>1
    <2>3. CASE Means(v, i) /\ Means(w, i)
      <3>1. i <= Len(files)  BY <2>3, MeansBound
      <3>2. i \in DOMAIN files  BY <1>0, <2>0, <2>1, <3>1
      <3> QED BY <2>3, <3>2 DEF FileInv
    <2>4. CASE ~(Means(v, i) /\ Means(w, i))
      <3>1. i = Len(files) + 1  BY <2>2, <2>4
      <3>2. ~Means(v, i) /\ ~Means(w, i)
        <4>1. ~(i <= Len(files))  BY <1>0, <3>1
        <4> QED BY <4>1, MeansBound
      <3> QED BY <2>2, <3>2
    <2> QED BY <2>3, <2>4
  <1>4. ASSUME NEW w \in Writers
        PROVE  writers'[w].file <= Len(files') /\ writers'[w].next <= Len(files')
    <2>1. writers'[w].file \in Nat /\ writers'[w].next \in Nat
      <3>1. writers'[w] \in WriterStates  BY DEF TypeInv
      <3> QED BY <3>1 DEF WriterStates
    <2>2. PICK a \in Nat, b \in Nat : a = writers'[w].file /\ b = writers'[w].next  BY <2>1
    <2>3. Means(w, a)' /\ Means(w, b)'  BY <2>2, MeansWillBe
    <2> QED BY <1>0, <1>2, <2>2, <2>3
  <1>5. ASSUME NEW c \in 0..3, NEW k, k \in Index(c)', Asking(JobAt(c, k)')
        PROVE  JobAt(c, k)'.file <= Len(files')
    <2>1. PICK j : j = JobAt(c, k)'  OBVIOUS
    <2>2. j \in ToManager \cup MgrJobs
      <3>1. CASE c \in Queues
        <4>1. j = writer_queues'[c][k] /\ k \in DOMAIN writer_queues'[c]
          BY <1>5, <2>1, <3>1 DEF JobAt, Index, Queues
        <4>2. writer_queues'[c] \in Seq(ToWriter)  BY <3>1 DEF TypeInv
        <4>3. j \in ToWriter  BY <4>1, <4>2
        <4> QED BY <4>3 DEF ToWriter, ToManager
      <3>2. CASE c = 2
        <4>1. j = mgr_queue'[k] /\ k \in DOMAIN mgr_queue'
          BY <1>5, <2>1, <3>2 DEF JobAt, Index, Queues
        <4>2. mgr_queue' \in Seq(ToManager)  BY DEF TypeInv
        <4> QED BY <4>1, <4>2
      <3>3. CASE c = 3
        <4>1. j = mgr'.job  BY <2>1, <3>3 DEF JobAt, Queues
        <4>2. mgr' \in Managers  BY DEF TypeInv
        <4> QED BY <4>1, <4>2 DEF Managers
      <3> QED BY <3>1, <3>2, <3>3 DEF Queues
    <2>3. j.writer \in Writers /\ j.file \in Nat  BY <1>5, <2>1, <2>2, AskingTypes
    <2>4. PICK w \in Writers, i \in Nat : w = j.writer /\ i = j.file  BY <2>3
    <2>5. Means(w, i)'  BY <1>5, <2>1, <2>4 DEF Means, Asking
    <2>6. i # 0 => i <= Len(files')  BY <1>2, <2>5
    <2> QED BY <1>0, <2>1, <2>4, <2>6
  <1>6. \A w \in Writers : \A k \in DOMAIN writer_queues'[w] :
            writer_queues'[w][k].type = "handle" => writer_queues'[w][k].writer = w
    BY QueueOne, WriterAssumption DEF Asking
  <1>7. \A c \in 0..3 : \A k \in Index(c)' :
            JobAt(c, k)'.type \in {"handle", "close"} => JobAt(c, k)'.file <= Len(files')
    BY <1>5 DEF Asking
  <1> QED BY <1>3, <1>4, <1>6, <1>7 DEF FileInv


\* no request is new: those there are were there
LEMMA FilesSame ==
    ASSUME FileInv, TypeInv, TypeInv', mgr.pc \notin {"open", "dead"},
           Len(files) <= Len(files'), UNCHANGED writers,
           \A q \in Queues : \A k \in DOMAIN writer_queues'[q] : Asking(writer_queues'[q][k]) =>
              \E l \in DOMAIN writer_queues[q] : writer_queues'[q][k] = writer_queues[q][l],
           \A k \in DOMAIN mgr_queue' : Asking(mgr_queue'[k]) =>
              \E l \in DOMAIN mgr_queue : mgr_queue'[k] = mgr_queue[l],
           Asking(mgr'.job) => \/ mgr'.job = mgr.job
                               \/ \E l \in DOMAIN mgr_queue : mgr'.job = mgr_queue[l]
    PROVE  FileInv'
  <1>1. PICK owner \in Writers : TRUE  BY QueueOne, WriterAssumption
  <1>2. /\ \A q \in Queues : \A k \in DOMAIN writer_queues[q] :
              Asking(writer_queues[q][k]) => Known(writer_queues[q][k], owner)
        /\ \A k \in DOMAIN mgr_queue : Asking(mgr_queue[k]) => Known(mgr_queue[k], owner)
        /\ Asking(mgr.job) => Known(mgr.job, owner)
        /\ \A w \in Writers : Means(w, writers[w].file) /\ Means(w, writers[w].next)
    BY RequestsKnown
  <1>3. ASSUME NEW q \in Queues, NEW k \in DOMAIN writer_queues'[q],
               Asking(writer_queues'[q][k])
        PROVE  /\ q \in Writers => writer_queues'[q][k].writer = q
               /\ Known(writer_queues'[q][k], owner)
    <2>1. PICK l \in DOMAIN writer_queues[q] : writer_queues'[q][k] = writer_queues[q][l]
      BY <1>3
    <2>2. writer_queues[q][l] \in ToWriter
      <3>1. writer_queues[q] \in Seq(ToWriter)  BY DEF TypeInv
      <3> QED BY <3>1
    <2>3. writer_queues[q][l].type = "handle"
      BY <1>3, <2>1, <2>2 DEF Asking, ToWriter, WriteJobs, HandleJobs
    <2>4. q \in Writers => writer_queues[q][l].writer = q  BY <2>3 DEF FileInv
    <2>5. Known(writer_queues[q][l], owner)  BY <1>2, <1>3, <2>1
    <2> QED BY <2>1, <2>4, <2>5
  <1>4. \A k \in DOMAIN mgr_queue' : Asking(mgr_queue'[k]) => Known(mgr_queue'[k], owner)
    <2> SUFFICES ASSUME NEW k \in DOMAIN mgr_queue', Asking(mgr_queue'[k])
                 PROVE  Known(mgr_queue'[k], owner)
      OBVIOUS
    <2>1. PICK l \in DOMAIN mgr_queue : mgr_queue'[k] = mgr_queue[l]  OBVIOUS
    <2>2. Asking(mgr_queue[l])  BY <2>1
    <2>3. Known(mgr_queue[l], owner)  BY <1>2, <2>2
    <2> QED BY <2>1, <2>3
  <1>5. Asking(mgr'.job) => Known(mgr'.job, owner)
    <2> SUFFICES ASSUME Asking(mgr'.job) PROVE Known(mgr'.job, owner)  OBVIOUS
    <2>1. CASE mgr'.job = mgr.job  BY <1>2, <2>1
    <2>2. CASE \E l \in DOMAIN mgr_queue : mgr'.job = mgr_queue[l]
      <3>1. PICK l \in DOMAIN mgr_queue : mgr'.job = mgr_queue[l]  BY <2>2
      <3>2. Asking(mgr_queue[l])  BY <3>1
      <3>3. Known(mgr_queue[l], owner)  BY <1>2, <3>2
      <3> QED BY <3>1, <3>3
    <2> QED BY <2>1, <2>2
  <1>6. \A w \in Writers : Means(w, writers'[w].file) /\ Means(w, writers'[w].next)
    BY <1>2
  <1> QED BY <1>3, <1>4, <1>5, <1>6, FilesMove

LEMMA FilesOfWriters == ASSUME IInv, NEW w \in Writers, Writer(w) PROVE FileInv'
  <1>0. /\ TypeInv /\ TypeInv' /\ FileInv /\ WriterInv /\ CountInv
        /\ mgr' = mgr /\ mgr.pc \notin {"open", "dead"}
        /\ \A v \in Writers : v # w => writers'[v] = writers[v]
        /\ w \in Queues
    <2>1. Alive(w) /\ UNCHANGED mgr /\ \A v \in Writers : v # w => writers'[v] = writers[v]
      BY WriterEffects
    <2>2. w \in Queues  BY QueueOne, WriterAssumption
    <2> QED BY <2>1, <2>2, WriterType DEF IInv, FlowInv, Before
  <1>1. /\ \A q \in Queues : \A k \in DOMAIN writer_queues[q] :
              Asking(writer_queues[q][k]) => Known(writer_queues[q][k], w)
        /\ \A k \in DOMAIN mgr_queue : Asking(mgr_queue[k]) => Known(mgr_queue[k], w)
        /\ Asking(mgr.job) => Known(mgr.job, w)
        /\ \A v \in Writers : Means(v, writers[v].file) /\ Means(v, writers[v].next)
    BY RequestsKnown
  <1>2. \A q \in Queues : \A k \in DOMAIN writer_queues[q] : Asking(writer_queues[q][k]) =>
            /\ q \in Writers => writer_queues[q][k].writer = q
            /\ Known(writer_queues[q][k], w)
    <2> SUFFICES ASSUME NEW q \in Queues, NEW k \in DOMAIN writer_queues[q],
                        Asking(writer_queues[q][k])
                 PROVE  /\ q \in Writers => writer_queues[q][k].writer = q
                        /\ Known(writer_queues[q][k], w)
      OBVIOUS
    <2>1. writer_queues[q] \in Seq(ToWriter)  BY <1>0 DEF TypeInv
    <2>2. writer_queues[q][k] \in ToWriter  BY <2>1
    <2>3. writer_queues[q][k].type = "handle"
      BY <2>2 DEF Asking, ToWriter, WriteJobs, HandleJobs
    <2>4. q \in Writers => writer_queues[q][k].writer = q  BY <1>0, <2>3 DEF FileInv
    <2> QED BY <1>1, <2>4
  <1>3. /\ UNCHANGED writer_queues \/ (writer_queues[w] # <<>> /\ Receive(w))
        /\ UNCHANGED mgr_queue \/ \E j \in ToManager :
              mgr_queue' = Append(mgr_queue, j) /\ (Asking(j) => Known(j, w))
        /\ Len(files') = Len(files)
        /\ writers'[w].file \in {writers[w].file, writers[w].next}
        /\ \/ writers'[w].next \in {None, writers[w].next}
           \/ /\ writer_queues[w] # <<>> /\ Head(writer_queues[w]).type = "handle"
              /\ writers'[w].next = Head(writer_queues[w]).file
    <2>1. CASE NextHandle(w)
      <3>1. /\ writer_queues[w] # <<>> /\ Receive(w) /\ Head(writer_queues[w]) \in HandleJobs
            /\ writers'[w].file = writers[w].file
            /\ writers'[w].next = Head(writer_queues[w]).file
            /\ UNCHANGED <<mgr_queue, files>>
        BY <1>0, <2>1, NextHandleIs
      <3>2. Head(writer_queues[w]).type = "handle"  BY <3>1 DEF HandleJobs
      <3> QED BY <3>1, <3>2
    <2>2. CASE TakeAbort(w)
      <3>1. /\ writer_queues[w] # <<>> /\ Receive(w)
            /\ writers'[w].file = writers[w].file /\ writers'[w].next = writers[w].next
            /\ UNCHANGED <<mgr_queue, files>>
        <4>1. UNCHANGED <<mgr_queue, files>>  BY <2>2 DEF TakeAbort
        <4> QED BY <1>0, <2>2, <4>1, AbortIs
      <3> QED BY <3>1
    <2>3. CASE TakeFits(w) \/ TakeAsks(w) \/ TakeSwitches(w)
      <3>1. TakeJob(w) /\ Ready(w, "write") /\ UNCHANGED files  BY <1>0, <2>3, TakesIs
      <3>2. writer_queues[w] # <<>> /\ Receive(w)  BY <1>0, <3>1, Taken
      <3>3. \/ /\ UNCHANGED mgr_queue
               /\ writers'[w].file = writers[w].file /\ writers'[w].next = writers[w].next
            \/ /\ \E n : mgr_queue' = Append(mgr_queue, [type |-> "handle", writer |-> w,
                                                         file |-> None, num |-> n])
                         /\ [type |-> "handle", writer |-> w, file |-> None, num |-> n]
                               \in HandleJobs
               /\ writers'[w].file = writers[w].file /\ writers'[w].next = writers[w].next
            \/ /\ \E n, c : mgr_queue' = Append(mgr_queue,
                              [type |-> "close", writer |-> w, file |-> writers[w].file,
                               num |-> n, frames |-> c])
                            /\ [type |-> "close", writer |-> w, file |-> writers[w].file,
                                num |-> n, frames |-> c] \in CloseJobs
               /\ \/ writers'[w].file = writers[w].file /\ writers'[w].next = None
                  \/ writers'[w].file = writers[w].next /\ writers'[w].next = None
        BY <1>0, <2>3, TakesIs, Zenon
      <3>4. ASSUME NEW n, mgr_queue' = Append(mgr_queue, [type |-> "handle", writer |-> w,
                                                          file |-> None, num |-> n]),
                   [type |-> "handle", writer |-> w, file |-> None, num |-> n] \in HandleJobs
            PROVE  \E j \in ToManager :
                      mgr_queue' = Append(mgr_queue, j) /\ (Asking(j) => Known(j, w))
        <4>1. PICK j \in HandleJobs :
                  j = [type |-> "handle", writer |-> w, file |-> None, num |-> n]
          BY <3>4
        <4>2. j \in ToManager /\ j.file = None /\ mgr_queue' = Append(mgr_queue, j)
          BY <3>4, <4>1 DEF ToManager
        <4>3. Known(j, w)  BY <4>2 DEF Known
        <4> QED BY <4>2, <4>3
      <3>5. ASSUME NEW n, NEW c, mgr_queue' = Append(mgr_queue,
                            [type |-> "close", writer |-> w, file |-> writers[w].file,
                             num |-> n, frames |-> c]),
                   [type |-> "close", writer |-> w, file |-> writers[w].file,
                    num |-> n, frames |-> c] \in CloseJobs
            PROVE  \E j \in ToManager :
                      mgr_queue' = Append(mgr_queue, j) /\ (Asking(j) => Known(j, w))
        <4>1. PICK j \in CloseJobs :
                  j = [type |-> "close", writer |-> w, file |-> writers[w].file,
                       num |-> n, frames |-> c]
          BY <3>5
        <4>2. j \in ToManager /\ j.file = writers[w].file /\ j.writer = w
              /\ mgr_queue' = Append(mgr_queue, j)
          BY <3>5, <4>1 DEF ToManager
        <4>3. Means(j.writer, j.file)  BY <1>1, <4>2
        <4>4. Known(j, w)  BY <4>3 DEF Known
        <4> QED BY <4>2, <4>4
      <3>6. UNCHANGED mgr_queue \/ \E j \in ToManager :
              mgr_queue' = Append(mgr_queue, j) /\ (Asking(j) => Known(j, w))
        BY <3>3, <3>4, <3>5, Zenon
      <3>7. /\ writers'[w].file \in {writers[w].file, writers[w].next}
            /\ writers'[w].next \in {None, writers[w].next}
        BY <3>3, Zenon
      <3>8. Len(files') = Len(files)  BY <3>1
      <3> QED BY <3>2, <3>6, <3>7, <3>8
    <2>4. CASE WriteBlock(w)
      <3>1. /\ writers[w].job \in WriteJobs /\ mgr_queue' = Append(mgr_queue, writers[w].job)
            /\ Len(files') = Len(files) /\ UNCHANGED writer_queues
            /\ writers'[w].file = writers[w].file /\ writers'[w].next = writers[w].next
        BY <2>4, WriteIs
      <3>2. PICK j \in ToManager : j = writers[w].job /\ ~Asking(j)
        BY <3>1 DEF ToManager, WriteJobs, Asking
      <3> QED BY <3>1, <3>2
    <2>5. CASE WriteFails(w) \/ CloseFile(w)
      <3>1. /\ Len(files') = Len(files) /\ UNCHANGED <<writer_queues, mgr_queue>>
            /\ writers'[w].file = writers[w].file /\ writers'[w].next = writers[w].next
        BY <1>0, <2>5, FailsIs, CloseIs
      <3> QED BY <3>1
    <2> QED BY <2>1, <2>2, <2>3, <2>4, <2>5 DEF Writer
  <1>4. ASSUME NEW q \in Queues, NEW k \in DOMAIN writer_queues'[q],
               Asking(writer_queues'[q][k])
        PROVE  /\ q \in Writers => writer_queues'[q][k].writer = q
               /\ Known(writer_queues'[q][k], w)
    <2>1. PICK l \in DOMAIN writer_queues[q] : writer_queues'[q][k] = writer_queues[q][l]
      <3>1. CASE UNCHANGED writer_queues  BY <3>1
      <3>2. CASE writer_queues[w] # <<>> /\ Receive(w)
        <4>1. /\ q # w => writer_queues'[q] = writer_queues[q]
              /\ \A i \in DOMAIN writer_queues'[w] :
                    i + 1 \in DOMAIN writer_queues[w]
                    /\ writer_queues'[w][i] = writer_queues[w][i + 1]
          BY <1>0, <3>2, ReceiveIs
        <4> QED BY <4>1
      <3> QED BY <1>3, <3>1, <3>2
    <2>2. Asking(writer_queues[q][l])  BY <1>4, <2>1
    <2>3. /\ q \in Writers => writer_queues[q][l].writer = q
          /\ Known(writer_queues[q][l], w)
      BY <1>2, <2>2
    <2> QED BY <2>1, <2>3
  <1>5. ASSUME NEW k \in DOMAIN mgr_queue', Asking(mgr_queue'[k])
        PROVE  Known(mgr_queue'[k], w)
    <2>1. CASE UNCHANGED mgr_queue
      <3>1. mgr_queue'[k] = mgr_queue[k] /\ k \in DOMAIN mgr_queue  BY <2>1
      <3>2. Known(mgr_queue[k], w)  BY <1>1, <1>5, <3>1
      <3> QED BY <3>1, <3>2
    <2>2. ASSUME NEW j \in ToManager, mgr_queue' = Append(mgr_queue, j),
                 Asking(j) => Known(j, w)
          PROVE  Known(mgr_queue'[k], w)
      <3>1. /\ DOMAIN mgr_queue' = DOMAIN mgr_queue \cup {Len(mgr_queue) + 1}
            /\ mgr_queue'[Len(mgr_queue) + 1] = j
            /\ \A i \in DOMAIN mgr_queue : mgr_queue'[i] = mgr_queue[i]
        BY <1>0, <2>2, SentIs
      <3>2. CASE k \in DOMAIN mgr_queue
        <4>1. mgr_queue'[k] = mgr_queue[k]  BY <3>1, <3>2
        <4>2. Known(mgr_queue[k], w)  BY <1>1, <1>5, <3>2, <4>1
        <4> QED BY <4>1, <4>2
      <3>3. CASE k = Len(mgr_queue) + 1
        <4>1. mgr_queue'[k] = j  BY <3>1, <3>3
        <4> QED BY <1>5, <2>2, <4>1
      <3> QED BY <3>1, <3>2, <3>3
    <2> QED BY <1>3, <2>1, <2>2
  <1>6. Asking(mgr'.job) => Known(mgr'.job, w)  BY <1>0, <1>1
  <1>7. \A v \in Writers : /\ writers'[v].file = None \/ Means(v, writers'[v].file)
                           /\ writers'[v].next = None \/ Means(v, writers'[v].next)
    <2> SUFFICES ASSUME NEW v \in Writers
                 PROVE  /\ writers'[v].file = None \/ Means(v, writers'[v].file)
                        /\ writers'[v].next = None \/ Means(v, writers'[v].next)
      OBVIOUS
    <2>1. CASE v # w
      <3>1. writers'[v] = writers[v]  BY <1>0, <2>1
      <3> QED BY <1>1, <3>1
    <2>2. CASE v = w
      <3>1. Means(w, writers'[w].file)  BY <1>1, <1>3
      <3>2. writers'[w].next = None \/ Means(w, writers'[w].next)
        <4>1. CASE writers'[w].next \in {None, writers[w].next}  BY <1>1, <4>1
        <4>2. CASE /\ writer_queues[w] # <<>> /\ Head(writer_queues[w]).type = "handle"
                   /\ writers'[w].next = Head(writer_queues[w]).file
          <5>1. writer_queues[w] \in Seq(ToWriter)  BY <1>0 DEF TypeInv
          <5>2. 1 \in DOMAIN writer_queues[w] /\ Head(writer_queues[w]) = writer_queues[w][1]
            BY <4>2, <5>1
          <5>3. Asking(writer_queues[w][1])  BY <4>2, <5>2 DEF Asking
          <5>4. writer_queues[w][1].writer = w
            BY <1>2, <1>0, <5>2, <5>3
          <5>5. Means(w, writer_queues[w][1].file)
            <6>1. \E q \in Queues : \E k \in DOMAIN writer_queues[q] :
                    /\ Asking(writer_queues[q][k])
                    /\ writer_queues[q][k].writer = w
                    /\ writer_queues[q][k].file = writer_queues[w][1].file
              BY <1>0, <5>2, <5>3, <5>4
            <6> QED BY <6>1, MeansIs
          <5> QED BY <4>2, <5>2, <5>5
        <4> QED BY <1>3, <4>1, <4>2
      <3> QED BY <2>2, <3>1, <3>2
    <2> QED BY <2>1, <2>2
  <1>8. Len(files) <= Len(files')
    <2>1. Len(files) \in Nat  BY <1>0 DEF TypeInv
    <2> QED BY <1>3, <2>1
  <1> QED BY <1>0, <1>4, <1>5, <1>6, <1>7, <1>8, FilesMove

\* the files that the writers start with
LEMMA FilesOpened ==
    ASSUME IInv, OpenFiles
    PROVE  FileInv'
  <1>0. /\ TypeInv /\ FlowInv /\ mgr \in Managers /\ TypeInv'
    <2>1. [Next]_vars  BY DEF Next, Manager
    <2> QED BY <2>1, TypeStep DEF IInv, TypeInv
  <1>1. /\ mgr.pc = "open" /\ UNCHANGED <<mgr_queue, writer_queues>>
        /\ mgr_queue = <<>> /\ writer_queues = [q \in Queues |-> <<>>]
        /\ mgr.job = NoJob
        /\ files' = [i \in 1..NWriters |-> [NewFile EXCEPT !.num = i - 1]]
    BY <1>0 DEF OpenFiles, FlowInv
  <1>2. CASE mgr' = [mgr EXCEPT !.pc = "dead"]
    <2>1. mgr'.pc = "dead"  BY <1>0, <1>2, MgrSet
    <2> QED BY <2>1 DEF FileInv
  <1>3. CASE /\ mgr' = [mgr EXCEPT !.pc = "begin"]
             /\ writers' = [w \in Writers |->
                   [Idle EXCEPT !.pc = "take", !.file = w + 1, !.num = w]]
    <2>1. mgr'.job = NoJob  BY <1>0, <1>1, <1>3, MgrSet
    <2>2. \A w \in Writers : writers'[w].file = w + 1 /\ writers'[w].next = 0
      BY <1>3 DEF Idle, None
    <2>3. Len(files') = NWriters /\ DOMAIN files' = 1..NWriters
      <3>1. files' \in Seq(Files)  BY <1>0 DEF TypeInv
      <3>2. DOMAIN files' = 1..NWriters  BY <1>1
      <3> QED BY <3>1, <3>2, WriterAssumption
    <2>4. \A w \in Writers : w \in Int /\ w + 1 <= NWriters
      BY WriterAssumption DEF Writers
    <2>5. (\A q \in Queues : writer_queues'[q] = <<>>) /\ mgr_queue' = <<>>  BY <1>1
    <2>6. ~Asking(mgr'.job)  BY <2>1 DEF Asking, NoJob
    <2>7. \A w, i : Means(w, i)' => i = writers'[w].file \/ i = writers'[w].next
      <3> SUFFICES ASSUME NEW w, NEW i, Means(w, i)'
                   PROVE  i = writers'[w].file \/ i = writers'[w].next
        OBVIOUS
      <3>1. \A q \in Queues : DOMAIN writer_queues'[q] = {}  BY <2>5
      <3>2. DOMAIN mgr_queue' = {}  BY <2>5
      <3> QED BY <2>6, <3>1, <3>2, MeansWillBe
    <2>8. \A v, w \in Writers : \A i \in DOMAIN files' : Means(v, i)' /\ Means(w, i)' => v = w
      <3> SUFFICES ASSUME NEW v \in Writers, NEW w \in Writers, NEW i \in DOMAIN files',
                          Means(v, i)', Means(w, i)'
                   PROVE  v = w
        OBVIOUS
      <3>1. i \in 1..NWriters  BY <2>3
      <3>2. i = v + 1 /\ i = w + 1
        <4>1. i # 0  BY <3>1, WriterAssumption
        <4> QED BY <2>2, <2>7, <4>1
      <3> QED BY <2>4, <3>2
    <2>9. \A w \in Writers : writers'[w].file <= Len(files') /\ writers'[w].next <= Len(files')
      BY <2>2, <2>3, <2>4, WriterAssumption
    <2>10. \A c \in 0..3 : \A k \in Index(c)' : JobAt(c, k)'.type \notin {"handle", "close"}
      <3> SUFFICES ASSUME NEW c \in 0..3, NEW k, k \in Index(c)'
                   PROVE  JobAt(c, k)'.type \notin {"handle", "close"}
        OBVIOUS
      <3>1. c \notin Queues
        <4>1. c \in Queues => Index(c)' = DOMAIN writer_queues'[c]  BY DEF Index, Queues
        <4>2. c \in Queues => DOMAIN writer_queues'[c] = {}  BY <2>5
        <4> QED BY <4>1, <4>2
      <3>2. c # 2
        <4>1. c = 2 => Index(c)' = {}  BY <2>5 DEF Index, Queues
        <4> QED BY <4>1
      <3>3. c = 3  BY <3>1, <3>2 DEF Queues
      <3>4. JobAt(c, k)' = mgr'.job  BY <3>3 DEF JobAt, Queues
      <3> QED BY <2>6, <3>4 DEF Asking
    <2>11. \A w \in Writers : DOMAIN writer_queues'[w] = {}
      <3>1. Writers \subseteq Queues  BY QueueOne, WriterAssumption
      <3> QED BY <2>5, <3>1
    <2> QED BY <2>8, <2>9, <2>10, <2>11 DEF FileInv
  <1> QED BY <1>2, <1>3 DEF OpenFiles

\* a file is made for a writer that asked for one
LEMMA FilesMade ==
    ASSUME IInv, HandleWanted
    PROVE  FileInv'
  <1>0. /\ TypeInv /\ TypeInv' /\ FileInv /\ mgr \in Managers
        /\ mgr.pc \notin {"open", "dead"}
        /\ EndLoop /\ UNCHANGED <<mgr_queue, writers>>
    <2>1. [Next]_vars  BY DEF Next, Manager
    <2>2. mgr.pc = "handle" /\ EndLoop /\ UNCHANGED <<mgr_queue, writers>>
      BY DEF HandleWanted, Returned
    <2> QED BY <2>1, <2>2, TypeStep DEF IInv, TypeInv
  <1>1. mgr.job \in HandleJobs  BY <1>0, HandleSent
  <1>2. PICK j \in HandleJobs :
            /\ writer_queues' = [writer_queues EXCEPT ![mgr.job.writer] = Append(@, j)]
            /\ j.writer = mgr.job.writer
            /\ \/ /\ j.file = Len(files) + 1 /\ j.num = mgr.job.num
                  /\ files' = Append(files, [NewFile EXCEPT !.num = Len(files)])
                  /\ UNCHANGED state
               \/ /\ j = mgr.job /\ state' = "finishing"
                  /\ files' = Append(files, [NewFile EXCEPT !.gone = TRUE])
    BY <1>0, HandleSent
  <1>3. PICK o \in Writers : o = mgr.job.writer  BY <1>1 DEF HandleJobs
  <1>4. o \in Queues /\ j \in ToWriter  BY QueueOne, WriterAssumption DEF ToWriter
  <1>5. Len(files') = Len(files) + 1 /\ Len(files) \in Nat
    <2>1. files \in Seq(Files)  BY <1>0 DEF TypeInv
    <2>2. \E f : files' = Append(files, f)  BY <1>2
    <2> QED BY <2>1, <2>2
  <1>6. /\ \A q \in Queues : \A k \in DOMAIN writer_queues[q] :
              Asking(writer_queues[q][k]) => Known(writer_queues[q][k], o)
        /\ \A k \in DOMAIN mgr_queue : Asking(mgr_queue[k]) => Known(mgr_queue[k], o)
        /\ Asking(mgr.job) => Known(mgr.job, o)
        /\ \A v \in Writers : Means(v, writers[v].file) /\ Means(v, writers[v].next)
    BY RequestsKnown
  <1>7. j.writer = o /\ Known(j, o)
    <2>1. CASE j.file = Len(files) + 1  BY <1>2, <1>3, <1>5, <2>1 DEF Known
    <2>2. CASE j = mgr.job
      <3>1. Asking(mgr.job)  BY <1>1 DEF Asking, HandleJobs
      <3> QED BY <1>3, <1>6, <2>2, <3>1
    <2> QED BY <1>2, <1>3, <2>1, <2>2
  <1>8. /\ \A p \in Queues : p # o => writer_queues'[p] = writer_queues[p]
        /\ DOMAIN writer_queues[o] = 1..Len(writer_queues[o])
        /\ DOMAIN writer_queues'[o] = 1..Len(writer_queues[o]) + 1
        /\ Len(writer_queues[o]) \in Nat
        /\ writer_queues'[o][Len(writer_queues[o]) + 1] = j
        /\ \A k \in DOMAIN writer_queues[o] : writer_queues'[o][k] = writer_queues[o][k]
    <2>1. writer_queues' = [writer_queues EXCEPT ![o] = Append(@, j)]  BY <1>2, <1>3
    <2> QED BY <1>0, <1>4, <2>1, GrownIs
  <1>9. ASSUME NEW q \in Queues, NEW k \in DOMAIN writer_queues'[q],
               Asking(writer_queues'[q][k])
        PROVE  /\ q \in Writers => writer_queues'[q][k].writer = q
               /\ Known(writer_queues'[q][k], o)
    <2>1. CASE k \in DOMAIN writer_queues[q]
      <3>1. writer_queues'[q][k] = writer_queues[q][k]  BY <1>8, <2>1
      <3>2. writer_queues[q] \in Seq(ToWriter)  BY <1>0 DEF TypeInv
      <3>3. writer_queues[q][k] \in ToWriter  BY <2>1, <3>2
      <3>4. writer_queues[q][k].type = "handle"
        BY <1>9, <3>1, <3>3 DEF Asking, ToWriter, WriteJobs, HandleJobs
      <3>5. q \in Writers => writer_queues[q][k].writer = q  BY <1>0, <2>1, <3>4 DEF FileInv
      <3>6. Known(writer_queues[q][k], o)  BY <1>6, <1>9, <2>1, <3>1
      <3> QED BY <3>1, <3>5, <3>6
    <2>2. CASE k \notin DOMAIN writer_queues[q]
      <3>1. q = o  BY <1>8, <1>9, <2>2
      <3>2. k = Len(writer_queues[o]) + 1  BY <1>8, <2>2, <3>1
      <3> QED BY <1>7, <1>8, <3>1, <3>2
    <2> QED BY <2>1, <2>2
  <1>10. ~Asking(mgr'.job)
    <2>1. mgr'.job = NoJob  BY <1>0, EndLoopIs
    <2> QED BY <2>1 DEF Asking, NoJob
  <1>11. \A k \in DOMAIN mgr_queue' : Asking(mgr_queue'[k]) => Known(mgr_queue'[k], o)
    <2>1. mgr_queue' = mgr_queue  BY <1>0
    <2>2. PICK m : m = mgr_queue  OBVIOUS
    <2>3. \A k \in DOMAIN m : Asking(m[k]) => Known(m[k], o)  BY <1>6, <2>2
    <2> QED BY <2>1, <2>2, <2>3
  <1>12. \A w \in Writers : Means(w, writers'[w].file) /\ Means(w, writers'[w].next)
    BY <1>0, <1>6
  <1>13. Len(files) <= Len(files')  BY <1>5
  <1> QED BY <1>0, <1>9, <1>10, <1>11, <1>12, <1>13, FilesMove

\* the jobs of the manager: the one in its hands, then those that wait
Post(k)   == IF k = 0 THEN mgr.job ELSE mgr_queue[k]
Posts     == 0..Len(mgr_queue)

\* the manager's jobs after a step are those before it, or the ones behind
PostsFrom(d) == \A k \in Posts' : Asking(Post(k)') => k + d \in Posts /\ Post(k)' = Post(k + d)
\* and no writer gets an answer
NoAnswer == \A q \in Queues : \A k \in DOMAIN writer_queues'[q] :
    Asking(writer_queues'[q][k]) =>
        k \in DOMAIN writer_queues[q] /\ writer_queues'[q][k] = writer_queues[q][k]

LEMMA PostsSame ==
    ASSUME TypeInv, UNCHANGED mgr_queue, mgr'.job = mgr.job \/ ~Asking(mgr'.job)
    PROVE  PostsFrom(0)
  <1> SUFFICES ASSUME NEW k \in Posts', Asking(Post(k)')
               PROVE  k + 0 \in Posts /\ Post(k)' = Post(k + 0)
    BY DEF PostsFrom
  <1>1. mgr_queue \in Seq(ToManager)  BY DEF TypeInv
  <1>2. Len(mgr_queue) \in Nat  BY <1>1
  <1>3. k \in 0..Len(mgr_queue)  BY DEF Posts
  <1>4. k + 0 = k /\ k \in Posts  BY <1>2, <1>3 DEF Posts
  <1>5. Post(k)' = Post(k)
    <2>1. CASE k = 0  BY <2>1 DEF Post
    <2>2. CASE k # 0  BY <2>2 DEF Post
    <2> QED BY <2>1, <2>2
  <1> QED BY <1>4, <1>5

LEMMA PostsTail ==
    ASSUME TypeInv, mgr_queue # <<>>, mgr_queue' = Tail(mgr_queue), mgr'.job = Head(mgr_queue)
    PROVE  PostsFrom(1)
  <1> SUFFICES ASSUME NEW k \in Posts'
               PROVE  k + 1 \in Posts /\ Post(k)' = Post(k + 1)
    BY DEF PostsFrom
  <1>1. PICK m \in Seq(ToManager) : m = mgr_queue  BY DEF TypeInv
  <1>2. /\ Len(m) \in Nat \ {0} /\ Len(Tail(m)) = Len(m) - 1 /\ Head(m) = m[1]
        /\ \A i \in 1..Len(m) - 1 : Tail(m)[i] = m[i + 1]
    BY <1>1
  <1>3. k \in 0..Len(m) - 1  BY <1>1, <1>2 DEF Posts
  <1>4. k + 1 \in 0..Len(m) /\ k + 1 # 0  BY <1>2, <1>3
  <1>5. k + 1 \in Posts /\ Post(k + 1) = m[k + 1]  BY <1>1, <1>4 DEF Posts, Post
  <1>6. Post(k)' = m[k + 1]
    <2>1. CASE k = 0
      <3>1. k + 1 = 1  BY <2>1
      <3> QED BY <1>1, <1>2, <2>1, <3>1 DEF Post
    <2>2. CASE k # 0
      <3>1. k \in 1..Len(m) - 1  BY <1>2, <1>3, <2>2
      <3>2. Post(k)' = Tail(m)[k]  BY <1>1, <2>2 DEF Post
      <3> QED BY <1>2, <3>1, <3>2
    <2> QED BY <2>1, <2>2
  <1> QED BY <1>5, <1>6

LEMMA NoneWaits ==
    ASSUME mgr_queue' = <<>>, ~Asking(mgr'.job)
    PROVE  PostsFrom(0)
  <1>1. Posts' = {0}  BY DEF Posts
  <1> QED BY <1>1 DEF PostsFrom, Post

\* the steps of the vsync handler, of modules and of the manager, but for the
\* opening of files
LEMMA QueuesMove ==
    ASSUME IInv, StartsClean, [Next]_vars, mgr.pc \notin {"open", "dead"},
           ~HandleWanted, \A w \in Writers : ~Writer(w)
    PROVE  /\ UNCHANGED writers /\ NoAnswer
           /\ \E d \in {0, 1} : PostsFrom(d)
  <1>0. /\ TypeInv /\ TypeInv' /\ FlowInv /\ FlowInv' /\ mgr \in Managers
        /\ 0 \in {0, 1} /\ 1 \in {0, 1} /\ ~OpenFiles
    BY TypeStep, FlowStep DEF IInv, TypeInv, OpenFiles
  <1>1. UNCHANGED writers  BY <1>0, FilesGrow
  <1>s. ASSUME UNCHANGED <<mgr_queue, writer_queues>>, mgr'.job = mgr.job \/ ~Asking(mgr'.job)
        PROVE  NoAnswer /\ \E d \in {0, 1} : PostsFrom(d)
    <2>1. NoAnswer  BY <1>s DEF NoAnswer
    <2> QED BY <1>0, <1>s, <2>1, PostsSame
  <1>a. ASSUME NEW q \in Queues, NEW j \in ToWriter, ~Asking(j), UNCHANGED mgr_queue,
               writer_queues' = [writer_queues EXCEPT ![q] = Append(@, j)], mgr'.job = mgr.job
        PROVE  NoAnswer /\ \E d \in {0, 1} : PostsFrom(d)
    <2>1. /\ \A p \in Queues : p # q => writer_queues'[p] = writer_queues[p]
          /\ DOMAIN writer_queues[q] = 1..Len(writer_queues[q])
          /\ DOMAIN writer_queues'[q] = 1..Len(writer_queues[q]) + 1
          /\ Len(writer_queues[q]) \in Nat
          /\ writer_queues'[q][Len(writer_queues[q]) + 1] = j
          /\ \A k \in DOMAIN writer_queues[q] : writer_queues'[q][k] = writer_queues[q][k]
      BY <1>0, <1>a, GrownIs
    <2>2. ASSUME NEW p \in Queues, NEW k \in DOMAIN writer_queues'[p],
                 Asking(writer_queues'[p][k])
          PROVE  k \in DOMAIN writer_queues[p] /\ writer_queues'[p][k] = writer_queues[p][k]
      <3>1. CASE p # q  BY <2>1, <2>2, <3>1
      <3>2. CASE p = q /\ k \in DOMAIN writer_queues[q]  BY <2>1, <3>2
      <3>3. CASE p = q /\ k \notin DOMAIN writer_queues[q]
        <4>1. k = Len(writer_queues[q]) + 1  BY <2>1, <2>2, <3>3
        <4> QED BY <1>a, <2>1, <2>2, <3>3, <4>1
      <3> QED BY <3>1, <3>2, <3>3
    <2>3. NoAnswer  BY <2>2 DEF NoAnswer
    <2> QED BY <1>0, <1>a, <2>3, PostsSame
  <1>2. CASE Camera \/ DmaDone \/ TakeSlot \/ ReleaseSlot
    <2>1. UNCHANGED <<mgr, mgr_queue, writer_queues>>  BY <1>2, CameraSlots
    <2> QED BY <1>1, <1>s, <2>1
  <1>3. CASE PressRec
    <2>1. UNCHANGED <<mgr_queue, writer_queues>>
          /\ (mgr' = mgr \/ mgr' = [mgr EXCEPT !.pc = "prepare"])
      BY <1>3 DEF PressRec
    <2>2. mgr'.job = mgr.job  BY <1>0, <2>1, MgrSet
    <2> QED BY <1>1, <1>s, <2>1, <2>2
  <1>4. CASE Prepare \/ Stopping \/ Drain \/ CleanUp
    <2>1. UNCHANGED <<mgr_queue, writer_queues>>
      BY <1>4 DEF Prepare, Stopping, Drain, CleanUp
    <2>2. mgr'.job = mgr.job
      <3>1. CASE \/ mgr' = [mgr EXCEPT !.pc = "drain"] \/ mgr' = [mgr EXCEPT !.pc = "cleanup"]
                 \/ mgr' = [mgr EXCEPT !.pc = "open"]
        BY <1>0, <3>1, MgrSet
      <3>2. CASE mgr' = [mgr EXCEPT !.pc = "abort", !.at = 0]
                 \/ mgr' = [mgr EXCEPT !.pc = "off", !.used = FALSE]
        BY <1>0, <3>2 DEF Managers
      <3> QED BY <1>4, <3>1, <3>2 DEF Prepare, Stopping, Drain, CleanUp
    <2> QED BY <1>1, <1>s, <2>1, <2>2
  <1>5. CASE Begin
    <2>1. /\ UNCHANGED <<mgr_queue, writer_queues>>
          /\ mgr' = [mgr EXCEPT !.pc = "loop", !.used = FALSE, !.job = NoJob]
      BY <1>5 DEF Begin
    <2>2. mgr'.job = NoJob
      <3>1. mgr'.pc = "loop"  BY <1>0, <2>1 DEF Managers
      <3> QED BY <1>0, <3>1 DEF FlowInv
    <2>3. ~Asking(mgr'.job)  BY <2>2 DEF Asking, NoJob
    <2> QED BY <1>1, <1>s, <2>1, <2>3
  <1>6. CASE NothingReturned \/ CloseWanted \/ WriteReturned
    <2>1. UNCHANGED <<mgr_queue, writer_queues>> /\ EndLoop
      BY <1>6 DEF NothingReturned, CloseWanted, WriteReturned
    <2>2. mgr'.job = NoJob  BY <1>0, <2>1, EndLoopIs
    <2>3. ~Asking(mgr'.job)  BY <2>2 DEF Asking, NoJob
    <2> QED BY <1>1, <1>s, <2>1, <2>3
  <1>7. CASE MgrLoop
    <2>0. mgr.pc = "loop" /\ UNCHANGED writer_queues  BY <1>7 DEF MgrLoop
    <2>2. \/ /\ UNCHANGED mgr_queue
             /\ \/ mgr' = [mgr EXCEPT !.pc = "stopping"]
                \/ mgr' = [mgr EXCEPT !.pc = "cleanup"]
          \/ UNCHANGED mgr_queue /\ mgr' = [mgr EXCEPT !.pc = "fill", !.at = 0, !.job = NoJob]
          \/ /\ mgr_queue # <<>> /\ mgr_queue' = Tail(mgr_queue)
             /\ mgr' = [mgr EXCEPT !.pc = "fill", !.at = 0, !.job = Head(mgr_queue)]
      BY <1>7, Zenon DEF MgrLoop
    <2>3. CASE /\ UNCHANGED mgr_queue
               /\ \/ mgr' = [mgr EXCEPT !.pc = "stopping"]
                  \/ mgr' = [mgr EXCEPT !.pc = "cleanup"]
      <3>1. mgr'.job = mgr.job  BY <1>0, <2>3, MgrSet
      <3> QED BY <1>1, <1>s, <2>0, <2>3, <3>1
    <2>4. CASE UNCHANGED mgr_queue /\ mgr' = [mgr EXCEPT !.pc = "fill", !.at = 0, !.job = NoJob]
      <3>1. mgr'.job = NoJob  BY <1>0, <2>4 DEF Managers
      <3>2. ~Asking(mgr'.job)  BY <3>1 DEF Asking, NoJob
      <3> QED BY <1>1, <1>s, <2>0, <2>4, <3>2
    <2>5. CASE /\ mgr_queue # <<>> /\ mgr_queue' = Tail(mgr_queue)
               /\ mgr' = [mgr EXCEPT !.pc = "fill", !.at = 0, !.job = Head(mgr_queue)]
      <3>1. mgr'.job = Head(mgr_queue)  BY <1>0, <2>5 DEF Managers
      <3>2. PostsFrom(1)  BY <1>0, <2>5, <3>1, PostsTail
      <3>3. NoAnswer  BY <2>0 DEF NoAnswer
      <3> QED BY <1>0, <1>1, <3>2, <3>3
    <2> QED BY <2>2, <2>3, <2>4, <2>5
  <1>8. CASE FillQueue
    <2>0. mgr.pc = "fill" /\ FillNext /\ UNCHANGED mgr_queue  BY <1>8 DEF FillQueue
    <2>1. mgr'.job = mgr.job
      <3>1. CASE mgr.at + 1 < NWriters
        <4>1. mgr' = [mgr EXCEPT !.at = mgr.at + 1]  BY <2>0, <3>1 DEF FillNext
        <4> QED BY <1>0, <4>1 DEF Managers
      <3>2. CASE ~(mgr.at + 1 < NWriters)
        <4>1. mgr' = [mgr EXCEPT !.pc = "handle"]  BY <2>0, <3>2 DEF FillNext
        <4> QED BY <1>0, <4>1, MgrSet
      <3> QED BY <3>1, <3>2
    <2>2. CASE BlocksFor(mgr.at) = {}
      <3>1. UNCHANGED writer_queues  BY <1>8, <2>2 DEF FillQueue
      <3> QED BY <1>1, <1>s, <2>0, <2>1, <3>1
    <2>3. CASE BlocksFor(mgr.at) # {}
      <3>1. PICK b \in BlocksFor(mgr.at) : \E n \in Shortened(b[2]) :
                Enqueue(mgr.at, <<b[1], n>>)
        BY <1>8, <2>3 DEF FillQueue
      <3>2. PICK n \in Shortened(b[2]) : Enqueue(mgr.at, <<b[1], n>>)  BY <3>1
      <3>3. mgr.at \in Queues  BY MgrIs, <1>0 DEF Queues
      <3>4. b[1] \in Nat /\ n \in Nat \ {0} /\ n <= ChunkSize  BY <1>0, <3>3, BlockFound
      <3>5. PICK q \in Queues, a \in Nat : q = mgr.at /\ a = b[1]  BY <3>3, <3>4
      <3>6. writer_queues' = [writer_queues EXCEPT ![q] = Append(@, WriteJob(q, a, n))]
        BY <3>2, <3>5 DEF Enqueue
      <3>7. WriteJob(q, a, n) \in ToWriter /\ ~Asking(WriteJob(q, a, n))
        <4>1. n \in 0..ChunkSize  BY <3>4, SizeAssumption
        <4> QED BY <4>1 DEF WriteJob, ToWriter, WriteJobs, Asking
      <3> QED BY <1>1, <1>a, <2>0, <2>1, <3>6, <3>7
    <2> QED BY <2>2, <2>3
  <1>9. CASE AbortWriters
    <2>1. /\ UNCHANGED mgr_queue
          /\ mgr' = IF mgr.at = 0 THEN [mgr EXCEPT !.at = 1] ELSE [mgr EXCEPT !.pc = "flush"]
          /\ writer_queues' = [writer_queues EXCEPT ![mgr.at] = Append(@, AbortJob)]
      BY <1>9 DEF AbortWriters
    <2>2. mgr'.job = mgr.job
      <3>1. CASE mgr.at = 0  BY <3>1, <2>1, <1>0 DEF Managers
      <3>2. CASE mgr.at # 0  BY <3>2, <2>1, <1>0, MgrSet
      <3> QED BY <3>1, <3>2
    <2>3. PICK q \in Queues : q = mgr.at  BY <1>0, MgrIs DEF Queues
    <2>4. AbortJob \in ToWriter /\ ~Asking(AbortJob)
      BY SizeAssumption DEF AbortJob, WriteJob, ToWriter, WriteJobs, Queues, None, Asking
    <2>5. writer_queues' = [writer_queues EXCEPT ![q] = Append(@, AbortJob)]  BY <2>1, <2>3
    <2> QED BY <1>1, <1>a, <2>1, <2>2, <2>4, <2>5
  <1>10. CASE Flush
    <2>1. /\ mgr_queue' = <<>> /\ writer_queues' = [q \in Queues |-> <<>>]
          /\ mgr' = [mgr EXCEPT !.pc = "cleanup"]
      BY <1>10 DEF Flush
    <2>2. mgr'.job = NoJob
      <3>1. mgr'.pc = "cleanup"  BY <1>0, <2>1, MgrSet
      <3> QED BY <1>0, <3>1 DEF FlowInv
    <2>3. ~Asking(mgr'.job)  BY <2>2 DEF Asking, NoJob
    <2>4. NoAnswer
      <3>1. \A q \in Queues : DOMAIN writer_queues'[q] = {}  BY <2>1
      <3> QED BY <3>1 DEF NoAnswer
    <2> QED BY <1>0, <1>1, <2>1, <2>3, <2>4, NoneWaits
  <1>11. CASE UNCHANGED vars
    <2>1. UNCHANGED <<mgr, mgr_queue, writer_queues>>  BY <1>11 DEF vars
    <2> QED BY <1>1, <1>s, <2>1
  <1> QED BY <1>0, <1>2, <1>3, <1>4, <1>5, <1>6, <1>7, <1>8, <1>9, <1>10, <1>11 DEF Next, Manager

LEMMA FilesStep == ASSUME IInv, StartsClean, [Next]_vars PROVE FileInv'
  <1>0. /\ TypeInv /\ TypeInv' /\ FlowInv /\ FlowInv' /\ FileInv /\ mgr \in Managers
    BY TypeStep, FlowStep DEF IInv, TypeInv
  <1>1. CASE \E w \in Writers : Writer(w)  BY <1>1, FilesOfWriters
  <1>2. CASE OpenFiles  BY <1>2, FilesOpened
  <1>3. CASE HandleWanted  BY <1>3, FilesMade
  <1> DEFINE Other == ~OpenFiles /\ ~HandleWanted /\ \A w \in Writers : ~Writer(w)
  <1>4. CASE mgr.pc \in {"open", "dead"} /\ Other
    <2>1. mgr'.pc = mgr.pc
      <3>1. CASE Camera \/ DmaDone \/ TakeSlot \/ ReleaseSlot
        BY <3>1, CameraSlots
      <3>2. CASE PressRec
        <4>1. mgr.pc # "off"  BY <1>4
        <4>2. state # "idle"  BY <1>0, <4>1 DEF FlowInv
        <4> QED BY <3>2, <4>2 DEF PressRec
      <3>3. CASE Manager
        BY <1>4, <3>3 DEF Manager, Prepare, Begin, MgrLoop, FillQueue, NothingReturned,
              WriteReturned, CloseWanted, Returned, Stopping, Drain, AbortWriters, Flush, CleanUp
      <3>4. CASE UNCHANGED vars  BY <3>4 DEF vars
      <3> QED BY <1>4, <3>1, <3>2, <3>3, <3>4 DEF Next
    <2> QED BY <1>4, <2>1 DEF FileInv
  <1>5. CASE mgr.pc \notin {"open", "dead"} /\ Other
    <2>1. UNCHANGED writers /\ Len(files) <= Len(files')  BY <1>5, FilesGrow
    <2>2. NoAnswer /\ \E d \in {0, 1} : PostsFrom(d)  BY <1>5, QueuesMove
    <2>3. PICK d \in {0, 1} : PostsFrom(d)  BY <2>2
    <2>4. \A q \in Queues : \A k \in DOMAIN writer_queues'[q] :
              Asking(writer_queues'[q][k]) =>
                  \E l \in DOMAIN writer_queues[q] : writer_queues'[q][k] = writer_queues[q][l]
      BY <2>2 DEF NoAnswer
    <2>5. mgr_queue \in Seq(ToManager) /\ mgr_queue' \in Seq(ToManager)  BY <1>0 DEF TypeInv
    <2>6. ASSUME NEW k \in Posts', Asking(Post(k)')
          PROVE  Post(k)' = mgr.job \/ \E l \in DOMAIN mgr_queue : Post(k)' = mgr_queue[l]
      <3>1. k + d \in Posts /\ Post(k)' = Post(k + d)  BY <2>3, <2>6 DEF PostsFrom
      <3>2. PICK l \in 0..Len(mgr_queue) : l = k + d  BY <3>1 DEF Posts
      <3>3. l # 0 => l \in DOMAIN mgr_queue  BY <2>5, <3>2
      <3> QED BY <3>1, <3>2, <3>3 DEF Post
    <2>7. Asking(mgr'.job) => \/ mgr'.job = mgr.job
                              \/ \E l \in DOMAIN mgr_queue : mgr'.job = mgr_queue[l]
      <3>1. 0 \in Posts'  BY <2>5 DEF Posts
      <3>2. Post(0)' = mgr'.job  BY DEF Post
      <3> QED BY <2>6, <3>1, <3>2
    <2>8. ASSUME NEW k \in DOMAIN mgr_queue', Asking(mgr_queue'[k])
          PROVE  \E l \in DOMAIN mgr_queue : mgr_queue'[k] = mgr_queue[l]
      <3>1. k \in Posts' /\ k \in Nat /\ k # 0  BY <2>5, <2>8 DEF Posts
      <3>2. Post(k)' = mgr_queue'[k]  BY <3>1 DEF Post
      <3>3. k + d \in Posts /\ Post(k)' = Post(k + d)  BY <2>3, <2>8, <3>1, <3>2 DEF PostsFrom
      <3>4. k + d # 0 /\ k + d \in 0..Len(mgr_queue)  BY <3>1, <3>3 DEF Posts
      <3>5. PICK l \in DOMAIN mgr_queue : l = k + d  BY <2>5, <3>1, <3>4
      <3>6. l # 0  BY <3>4, <3>5
      <3> QED BY <3>2, <3>3, <3>5, <3>6 DEF Post
    <2> QED BY <1>0, <1>5, <2>1, <2>4, <2>7, <2>8, FilesSame
  <1> QED BY <1>1, <1>2, <1>3, <1>4, <1>5

-----------------------------------------------------------------------------
(* The invariant holds                                                     *)

LEMMA InitInv == Init => IInv
  <1> SUFFICES ASSUME Init PROVE IInv  OBVIOUS
  <1>1. TypeInv  BY InitType
  <1>2. /\ \A q \in Queues : writer_queues[q] = <<>>
        /\ mgr_queue = <<>> /\ mgr.job = NoJob /\ mgr.pc = "off" /\ meta = {} /\ ~owes
        /\ files = <<>> /\ pool = NJobs /\ state = "idle" /\ dma_active = FALSE
        /\ \A s \in Slots : slots[s].st = "free"
        /\ \A w \in Writers : writers[w] = Idle
    BY DEF Init
  <1>3. /\ Idle.pc = "off" /\ Idle.job = NoJob /\ Idle.error = "no"
        /\ Idle.file = 0 /\ Idle.next = 0
    BY DEF Idle, None
  <1>4. FlowInv  BY <1>2, <1>3 DEF FlowInv, Before, Alive
  <1>s. SoundInv  BY <1>2 DEF SoundInv
  <1>5. WriterInv  BY <1>2, <1>3 DEF WriterInv, Alive
  <1>6. CountInv  BY <1>2, <1>3 DEF CountInv, CountOf
  <1>7. PoolInv
    <2>1. Backlog(0) = 0 /\ Backlog(1) = 0 /\ Len(mgr_queue) = 0
      BY <1>2 DEF Backlog, Queues
    <2>2. OnHand = 0  BY <1>2 DEF OnHand, NoJob
    <2>3. Carries(0) = 0 /\ Carries(1) = 0
      <3>1. \A w \in Writers : writers[w].job.type = "none"  BY <1>2, <1>3 DEF NoJob
      <3> QED BY <3>1 DEF Carries
    <2> QED BY <1>2, <2>1, <2>2, <2>3, SizeAssumption DEF PoolInv, Waiting, Carried
  <1>8. SlotInv
    <2>1. ASSUME NEW c \in 0..4, NEW k, NEW s PROVE ~Holder(c, k, s)
      <3>1. c \in Queues \/ c = 2 \/ c = 3 \/ c = 4  BY DEF Queues
      <3>2. /\ \A q \in Queues : DOMAIN writer_queues[q] = {}
            /\ DOMAIN mgr_queue = {} /\ JobSlots(mgr.job) = {}
            /\ \A w \in Writers : JobSlots(writers[w].job) = {}
        BY <1>2, <1>3 DEF JobSlots, NoJob
      <3>3. c \in Queues => ~Holder(c, k, s)
        <4>1. \A q \in Queues : Holder(q, k, s) => k \in DOMAIN writer_queues[q]  BY HolderIs
        <4> QED BY <3>2, <4>1
      <3>4. ~Holder(2, k, s)  BY <3>2, HolderIs
      <3>5. ~Holder(3, k, s)  BY <3>2, HolderIs
      <3>6. ~Holder(4, k, s)  BY <3>2, HolderIs
      <3> QED BY <3>1, <3>3, <3>4, <3>5, <3>6
    <2>2. \A c \in 0..4 : \A k \in Index(c) : JobSlots(JobAt(c, k)) = {}
      BY <2>1 DEF Holder
    <2> QED BY <1>2, <2>1, <2>2 DEF SlotInv
  <1>9. FileInv
    <2>1. ASSUME NEW c \in 0..3, NEW k, k \in Index(c)
          PROVE  JobAt(c, k).type \notin {"handle", "close"}
      <3>1. c \notin Queues
        <4>1. c \in Queues => Index(c) = DOMAIN writer_queues[c]  BY DEF Index, Queues
        <4>2. c \in Queues => DOMAIN writer_queues[c] = {}  BY <1>2
        <4> QED BY <2>1, <4>1, <4>2
      <3>2. c # 2
        <4>1. c = 2 => Index(c) = {}  BY <1>2 DEF Index, Queues
        <4> QED BY <2>1, <4>1
      <3>3. c = 3  BY <3>1, <3>2 DEF Queues
      <3>4. JobAt(c, k) = NoJob  BY <1>2, <3>3 DEF JobAt, Queues
      <3> QED BY <3>4 DEF NoJob
    <2>2. DOMAIN files = {} /\ Len(files) = 0  BY <1>2
    <2>3. \A w \in Writers : DOMAIN writer_queues[w] = {}
      <3>1. Writers \subseteq Queues  BY QueueOne, WriterAssumption
      <3> QED BY <1>2, <3>1
    <2>4. \A w \in Writers : writers[w].file <= Len(files) /\ writers[w].next <= Len(files)
      BY <1>2, <1>3, <2>2
    <2> QED BY <2>1, <2>2, <2>3, <2>4 DEF FileInv
  <1> QED BY <1>1, <1>4, <1>s, <1>5, <1>6, <1>7, <1>8, <1>9 DEF IInv

LEMMA InvStep == ASSUME IInv, StartsClean, [Next]_vars PROVE IInv'
  <1>1. TypeInv' /\ WriterInv' /\ CountInv'  BY TypeStep, WriterInvStep, CountStep
  <1>2. FlowInv' /\ SlotInv' /\ FileInv'  BY FlowStep, SlotStep, FilesStep
  <1>3. PoolInv' /\ SoundInv'  BY PoolStep, SoundStep
  <1> QED BY <1>1, <1>2, <1>3 DEF IInv

-----------------------------------------------------------------------------
(* The jobs in one sequence, as the properties see them                    *)

Named(s) == UNION {JobSlots(s[i]) : i \in DOMAIN s}
Apart(s) == \A i, j \in DOMAIN s : i # j => JobSlots(s[i]) \cap JobSlots(s[j]) = {}
Requests(s, w) == {s[i].file : i \in {k \in DOMAIN s :
                      s[k].type \in {"handle", "close"} /\ s[k].writer = w}}

\* where the jobs of two sequences are in the one made of both
LEMMA JoinedAt ==
    ASSUME NEW S, NEW s \in Seq(S), NEW t \in Seq(S)
    PROVE  /\ s \o t \in Seq(S)
           /\ Len(s) \in Nat
           /\ \A i \in DOMAIN s : i \in DOMAIN (s \o t) /\ (s \o t)[i] = s[i] /\ i <= Len(s)
           /\ \A i \in DOMAIN t : /\ Len(s) + i \in DOMAIN (s \o t)
                                  /\ (s \o t)[Len(s) + i] = t[i]
           /\ \A i \in DOMAIN (s \o t) :
                 i \in Int /\ IF i <= Len(s) THEN i \in DOMAIN s ELSE i - Len(s) \in DOMAIN t
  OBVIOUS

LEMMA JoinedNamed ==
    ASSUME NEW S, NEW s \in Seq(S), NEW t \in Seq(S)
    PROVE  Named(s \o t) = Named(s) \cup Named(t)
  <1>1. ASSUME NEW x \in Named(s \o t) PROVE x \in Named(s) \cup Named(t)
    <2>1. PICK i \in DOMAIN (s \o t) : x \in JobSlots((s \o t)[i])  BY DEF Named
    <2>2. CASE i <= Len(s)
      <3>1. i \in DOMAIN s /\ (s \o t)[i] = s[i]  BY <2>2, JoinedAt
      <3> QED BY <2>1, <3>1 DEF Named
    <2>3. CASE ~(i <= Len(s))
      <3>1. PICK k : k = i - Len(s)  OBVIOUS
      <3>2. k \in DOMAIN t /\ i \in Int /\ Len(s) \in Nat  BY <2>3, <3>1, JoinedAt
      <3>3. i = Len(s) + k  BY <3>1, <3>2
      <3>4. (s \o t)[i] = t[k]  BY <3>2, <3>3, JoinedAt
      <3> QED BY <2>1, <3>2, <3>4 DEF Named
    <2> QED BY <2>2, <2>3
  <1>2. ASSUME NEW x \in Named(s) PROVE x \in Named(s \o t)
    <2>1. PICK i \in DOMAIN s : x \in JobSlots(s[i])  BY DEF Named
    <2>2. i \in DOMAIN (s \o t) /\ (s \o t)[i] = s[i]  BY JoinedAt
    <2> QED BY <2>1, <2>2 DEF Named
  <1>3. ASSUME NEW x \in Named(t) PROVE x \in Named(s \o t)
    <2>1. PICK i \in DOMAIN t : x \in JobSlots(t[i])  BY DEF Named
    <2>2. Len(s) + i \in DOMAIN (s \o t) /\ (s \o t)[Len(s) + i] = t[i]  BY JoinedAt
    <2> QED BY <2>1, <2>2 DEF Named
  <1> QED BY <1>1, <1>2, <1>3

LEMMA JoinedApart ==
    ASSUME NEW S, NEW s \in Seq(S), NEW t \in Seq(S),
           Apart(s), Apart(t), Named(s) \cap Named(t) = {}
    PROVE  Apart(s \o t)
  <1> SUFFICES ASSUME NEW i \in DOMAIN (s \o t), NEW j \in DOMAIN (s \o t), NEW x,
                      x \in JobSlots((s \o t)[i]), x \in JobSlots((s \o t)[j])
               PROVE  i = j
    BY DEF Apart
  <1>1. PICK n \in Nat : n = Len(s)  BY JoinedAt
  <1>2. i \in Int /\ j \in Int  BY JoinedAt
  <1>3. ASSUME NEW k \in DOMAIN (s \o t), k <= n
        PROVE  k \in DOMAIN s /\ (s \o t)[k] = s[k]
    BY <1>1, <1>3, JoinedAt
  <1>4. ASSUME NEW k \in DOMAIN (s \o t), k \in Int, ~(k <= n)
        PROVE  k - n \in DOMAIN t /\ (s \o t)[k] = t[k - n]
    <2>1. k - n \in DOMAIN t  BY <1>1, <1>4, JoinedAt
    <2>2. PICK l \in DOMAIN t : l = k - n  BY <2>1
    <2>3. l \in Int  BY <1>4, <2>2
    <2>4. n + l = k  BY <1>4, <2>2
    <2>5. (s \o t)[n + l] = t[l]  BY <1>1, JoinedAt
    <2> QED BY <2>2, <2>4, <2>5
  <1>5. CASE i <= n /\ j <= n
    <2>1. i \in DOMAIN s /\ (s \o t)[i] = s[i] /\ j \in DOMAIN s /\ (s \o t)[j] = s[j]
      BY <1>3, <1>5
    <2> QED BY <2>1 DEF Apart
  <1>6. CASE i <= n /\ ~(j <= n)
    <2>1. i \in DOMAIN s /\ (s \o t)[i] = s[i]  BY <1>3, <1>6
    <2>2. j - n \in DOMAIN t /\ (s \o t)[j] = t[j - n]  BY <1>2, <1>4, <1>6
    <2>3. x \in Named(s) /\ x \in Named(t)  BY <2>1, <2>2 DEF Named
    <2> QED BY <2>3
  <1>7. CASE ~(i <= n) /\ j <= n
    <2>1. j \in DOMAIN s /\ (s \o t)[j] = s[j]  BY <1>3, <1>7
    <2>2. i - n \in DOMAIN t /\ (s \o t)[i] = t[i - n]  BY <1>2, <1>4, <1>7
    <2>3. x \in Named(s) /\ x \in Named(t)  BY <2>1, <2>2 DEF Named
    <2> QED BY <2>3
  <1>8. CASE ~(i <= n) /\ ~(j <= n)
    <2>1. /\ i - n \in DOMAIN t /\ (s \o t)[i] = t[i - n]
          /\ j - n \in DOMAIN t /\ (s \o t)[j] = t[j - n]
      BY <1>2, <1>4, <1>8
    <2>2. i - n = j - n  BY <2>1 DEF Apart
    <2> QED BY <1>2, <2>2
  <1> QED BY <1>5, <1>6, <1>7, <1>8

LEMMA JoinedRequests ==
    ASSUME NEW S, NEW s \in Seq(S), NEW t \in Seq(S), NEW w
    PROVE  Requests(s \o t, w) = Requests(s, w) \cup Requests(t, w)
  <1>1. ASSUME NEW x \in Requests(s \o t, w) PROVE x \in Requests(s, w) \cup Requests(t, w)
    <2>1. PICK i \in DOMAIN (s \o t) : /\ (s \o t)[i].type \in {"handle", "close"}
                                       /\ (s \o t)[i].writer = w /\ x = (s \o t)[i].file
      BY DEF Requests
    <2>2. CASE i <= Len(s)
      <3>1. i \in DOMAIN s /\ (s \o t)[i] = s[i]  BY <2>2, JoinedAt
      <3> QED BY <2>1, <3>1 DEF Requests
    <2>3. CASE ~(i <= Len(s))
      <3>1. PICK k : k = i - Len(s)  OBVIOUS
      <3>2. k \in DOMAIN t /\ i \in Int /\ Len(s) \in Nat  BY <2>3, <3>1, JoinedAt
      <3>3. i = Len(s) + k  BY <3>1, <3>2
      <3>4. (s \o t)[i] = t[k]  BY <3>2, <3>3, JoinedAt
      <3> QED BY <2>1, <3>2, <3>4 DEF Requests
    <2> QED BY <2>2, <2>3
  <1>2. ASSUME NEW x \in Requests(s, w) PROVE x \in Requests(s \o t, w)
    <2>1. PICK i \in DOMAIN s : s[i].type \in {"handle", "close"} /\ s[i].writer = w
                                /\ x = s[i].file
      BY DEF Requests
    <2>2. i \in DOMAIN (s \o t) /\ (s \o t)[i] = s[i]  BY JoinedAt
    <2> QED BY <2>1, <2>2 DEF Requests
  <1>3. ASSUME NEW x \in Requests(t, w) PROVE x \in Requests(s \o t, w)
    <2>1. PICK i \in DOMAIN t : t[i].type \in {"handle", "close"} /\ t[i].writer = w
                                /\ x = t[i].file
      BY DEF Requests
    <2>2. Len(s) + i \in DOMAIN (s \o t) /\ (s \o t)[Len(s) + i] = t[i]  BY JoinedAt
    <2> QED BY <2>1, <2>2 DEF Requests
  <1> QED BY <1>1, <1>2, <1>3

InHands == [i \in 1..NWriters |-> writers[i - 1].job]

\* the sequences that Jobs is made of
LEMMA JobsParts ==
    ASSUME TypeInv
    PROVE  /\ Jobs = writer_queues[0] \o writer_queues[1] \o mgr_queue \o <<mgr.job>> \o InHands
           /\ writer_queues[0] \in Seq(MgrJobs) /\ writer_queues[1] \in Seq(MgrJobs)
           /\ mgr_queue \in Seq(MgrJobs) /\ <<mgr.job>> \in Seq(MgrJobs)
           /\ InHands \in Seq(MgrJobs)
  <1>1. Jobs = writer_queues[0] \o writer_queues[1] \o mgr_queue \o <<mgr.job>> \o InHands
    BY DEF Jobs, InHands
  <1>2. ToWriter \subseteq MgrJobs /\ ToManager \subseteq MgrJobs /\ WriterJobs \subseteq MgrJobs
    BY DEF ToWriter, ToManager, MgrJobs, WriterJobs
  <1>3. writer_queues[0] \in Seq(MgrJobs) /\ writer_queues[1] \in Seq(MgrJobs)
    <2>1. writer_queues[0] \in Seq(ToWriter) /\ writer_queues[1] \in Seq(ToWriter)
      BY DEF TypeInv, Queues
    <2> QED BY <1>2, <2>1
  <1>4. mgr_queue \in Seq(MgrJobs)
    <2>1. mgr_queue \in Seq(ToManager)  BY DEF TypeInv
    <2> QED BY <1>2, <2>1
  <1>5. <<mgr.job>> \in Seq(MgrJobs)
    <2>1. mgr \in Managers  BY DEF TypeInv
    <2>2. mgr.job \in MgrJobs  BY <2>1, MgrIs
    <2> QED BY <2>2
  <1>6. InHands \in Seq(MgrJobs)
    <2>1. \A i \in 1..NWriters : i - 1 \in Writers  BY WriterAssumption DEF Writers
    <2>2. \A w \in Writers : writers[w].job \in WriterJobs
      <3>1. \A w \in Writers : writers[w] \in WriterStates  BY DEF TypeInv
      <3> QED BY <3>1, WriterFields
    <2>3. \A i \in 1..NWriters : writers[i - 1].job \in MgrJobs  BY <1>2, <2>1, <2>2
    <2>4. InHands \in [1..NWriters -> MgrJobs]  BY <2>3 DEF InHands
    <2>5. NWriters \in Nat  BY WriterAssumption
    <2> QED BY <2>4, <2>5
  <1> QED BY <1>1, <1>3, <1>4, <1>5, <1>6

\* the slots that the jobs of a place name
LEMMA NamedIs ==
    ASSUME NEW x
    PROVE  /\ \A q \in Queues : x \in Named(writer_queues[q]) <=> \E k : Holder(q, k, x)
           /\ x \in Named(mgr_queue) <=> \E k : Holder(2, k, x)
           /\ x \in Named(<<mgr.job>>) <=> \E k : Holder(3, k, x)
           /\ x \in Named(InHands) <=> \E k : Holder(4, k, x)
  <1>1. \A k : /\ \A q \in Queues : Holder(q, k, x) <=>
                     k \in DOMAIN writer_queues[q] /\ x \in JobSlots(writer_queues[q][k])
               /\ Holder(2, k, x) <=> k \in DOMAIN mgr_queue /\ x \in JobSlots(mgr_queue[k])
               /\ Holder(3, k, x) <=> k = 1 /\ x \in JobSlots(mgr.job)
               /\ Holder(4, k, x) <=> k \in Writers /\ x \in JobSlots(writers[k].job)
    BY HolderIs
  <1>2. \A q \in Queues : x \in Named(writer_queues[q]) <=> \E k : Holder(q, k, x)
    BY <1>1, ZenonT(60) DEF Named
  <1>3. x \in Named(mgr_queue) <=> \E k : Holder(2, k, x)  BY <1>1 DEF Named
  <1>4. x \in Named(<<mgr.job>>) <=> \E k : Holder(3, k, x)
    <2>1. x \in Named(<<mgr.job>>) <=> x \in JobSlots(mgr.job)
      <3>1. DOMAIN <<mgr.job>> = {1} /\ <<mgr.job>>[1] = mgr.job  OBVIOUS
      <3> QED BY <3>1 DEF Named
    <2> QED BY <1>1, <2>1
  <1>5. x \in Named(InHands) <=> \E k : Holder(4, k, x)
    <2>1. ASSUME x \in Named(InHands) PROVE \E k : Holder(4, k, x)
      <3>1. PICK i \in 1..NWriters : x \in JobSlots(writers[i - 1].job)
        BY <2>1 DEF Named, InHands
      <3>2. i - 1 \in Writers  BY WriterAssumption DEF Writers
      <3>3. Holder(4, i - 1, x)  BY <1>1, <3>1, <3>2
      <3> QED BY <3>3
    <2>2. ASSUME NEW k, Holder(4, k, x) PROVE x \in Named(InHands)
      <3>1. k \in Writers /\ x \in JobSlots(writers[k].job)  BY <1>1, <2>2
      <3>2. k + 1 \in 1..NWriters /\ k + 1 - 1 = k  BY <3>1, WriterAssumption DEF Writers
      <3>3. PICK j \in 1..NWriters : j = k + 1 /\ j - 1 = k
        <4>1. k \in Int  BY <3>1, WriterAssumption DEF Writers
        <4> QED BY <3>2, <4>1
      <3>4. j \in DOMAIN InHands /\ InHands[j] = writers[j - 1].job  BY DEF InHands
      <3>5. InHands[j] = writers[k].job  BY <3>3, <3>4
      <3> QED BY <3>1, <3>4, <3>5 DEF Named
    <2> QED BY <2>1, <2>2
  <1> QED BY <1>2, <1>3, <1>4, <1>5

\* the jobs own the slots that are being written
LEMMA SlotsOwned ==
    ASSUME IInv, Recording
    PROVE  /\ {s \in Slots : slots[s].st = "writing"} = Named(Jobs)
           /\ Apart(Jobs)
  <1> DEFINE s0 == writer_queues[0]
             s1 == writer_queues[1]
             s2 == mgr_queue
             s3 == <<mgr.job>>
  <1>0. TypeInv /\ SlotInv /\ mgr.pc \notin {"open", "dead"}  BY DEF IInv, Recording
  <1>1. /\ Jobs = s0 \o s1 \o s2 \o s3 \o InHands
        /\ s0 \in Seq(MgrJobs) /\ s1 \in Seq(MgrJobs) /\ s2 \in Seq(MgrJobs)
        /\ s3 \in Seq(MgrJobs) /\ InHands \in Seq(MgrJobs)
    BY <1>0, JobsParts
  <1>2. /\ \A c \in 0..4 : \A k, x : Holder(c, k, x) => x \in Slots /\ slots[x].st = "writing"
        /\ \A x \in Slots : slots[x].st = "writing" => \E c \in 0..4 : \E k : Holder(c, k, x)
        /\ \A c, d \in 0..4 : \A k, l, x : Holder(c, k, x) /\ Holder(d, l, x) => c = d /\ k = l
    <2>1. \A c \in 0..4 : \A k, x : Holder(c, k, x) => x \in Slots /\ slots[x].st = "writing"
      BY <1>0 DEF SlotInv, Holder
    <2>2. \A x \in Slots : slots[x].st = "writing" => \E c \in 0..4 : \E k : Holder(c, k, x)
      BY <1>0 DEF SlotInv
    <2>3. \A c, k, x : Holder(c, k, x) => k \in Index(c)  BY DEF Holder
    <2>4. \A c, d \in 0..4 : \A k, l, x : Holder(c, k, x) /\ Holder(d, l, x) => c = d /\ k = l
      BY <1>0, <2>1, <2>3 DEF SlotInv
    <2> QED BY <2>1, <2>2, <2>4
  <1>3. \A x : /\ x \in Named(s0) <=> \E k : Holder(0, k, x)
               /\ x \in Named(s1) <=> \E k : Holder(1, k, x)
               /\ x \in Named(s2) <=> \E k : Holder(2, k, x)
               /\ x \in Named(s3) <=> \E k : Holder(3, k, x)
               /\ x \in Named(InHands) <=> \E k : Holder(4, k, x)
    BY NamedIs DEF Queues
  <1>4. Apart(s0) /\ Apart(s1) /\ Apart(s2) /\ Apart(s3) /\ Apart(InHands)
    <2>1. ASSUME NEW q \in Queues PROVE Apart(writer_queues[q])
      <3>1. q \in 0..4  BY DEF Queues
      <3>2. \A k \in DOMAIN writer_queues[q] : \A x \in JobSlots(writer_queues[q][k]) :
                Holder(q, k, x)
        BY HolderIs
      <3> QED BY <1>2, <3>1, <3>2 DEF Apart
    <2>2. Apart(s2)
      <3>1. \A k \in DOMAIN mgr_queue : \A x \in JobSlots(mgr_queue[k]) : Holder(2, k, x)
        BY HolderIs
      <3> QED BY <1>2, <3>1 DEF Apart
    <2>3. Apart(s3)
      <3>1. DOMAIN <<mgr.job>> = {1}  OBVIOUS
      <3> QED BY <3>1 DEF Apart
    <2>4. Apart(InHands)
      <3>1. ASSUME NEW i \in 1..NWriters, NEW x \in JobSlots(InHands[i])
            PROVE  Holder(4, i - 1, x)
        <4>1. i - 1 \in Writers  BY WriterAssumption DEF Writers
        <4>2. InHands[i] = writers[i - 1].job  BY DEF InHands
        <4> QED BY <3>1, <4>1, <4>2, HolderIs
      <3>2. DOMAIN InHands = 1..NWriters  BY DEF InHands
      <3> SUFFICES ASSUME NEW i \in 1..NWriters, NEW j \in 1..NWriters, NEW x,
                          x \in JobSlots(InHands[i]), x \in JobSlots(InHands[j])
                   PROVE  i = j
        BY <3>2 DEF Apart
      <3>3. i - 1 = j - 1  BY <1>2, <3>1
      <3>4. i \in Int /\ j \in Int  OBVIOUS
      <3> QED BY <3>3, <3>4
    <2> QED BY <2>1, <2>2, <2>3, <2>4 DEF Queues
  <1>5. /\ Named(s0) \cap Named(s1) = {}
        /\ (Named(s0) \cup Named(s1)) \cap Named(s2) = {}
        /\ (Named(s0) \cup Named(s1) \cup Named(s2)) \cap Named(s3) = {}
        /\ (Named(s0) \cup Named(s1) \cup Named(s2) \cup Named(s3)) \cap Named(InHands) = {}
    <2>1. \A x : \A c, d \in 0..4 : c # d =>
              ~((\E k : Holder(c, k, x)) /\ (\E k : Holder(d, k, x)))
      BY <1>2
    <2> HIDE DEF s0, s1, s2, s3
    <2>2. Named(s0) \cap Named(s1) = {}  BY <1>3, <2>1
    <2>3. (Named(s0) \cup Named(s1)) \cap Named(s2) = {}  BY <1>3, <2>1
    <2>4. (Named(s0) \cup Named(s1) \cup Named(s2)) \cap Named(s3) = {}  BY <1>3, <2>1
    <2>5. (Named(s0) \cup Named(s1) \cup Named(s2) \cup Named(s3)) \cap Named(InHands) = {}
      BY <1>3, <2>1
    <2> QED BY <2>2, <2>3, <2>4, <2>5
  <1> HIDE DEF s0, s1, s2, s3
  <1>6. PICK t \in Seq(MgrJobs) : t = s0 \o s1  BY <1>1, JoinedAt
  <1>7. Named(t) = Named(s0) \cup Named(s1) /\ Apart(t)
    BY <1>1, <1>4, <1>5, <1>6, JoinedNamed, JoinedApart
  <1>8. PICK u \in Seq(MgrJobs) : u = t \o s2  BY <1>1, JoinedAt
  <1>9. Named(u) = Named(s0) \cup Named(s1) \cup Named(s2) /\ Apart(u)
    <2>1. Named(t) \cap Named(s2) = {}  BY <1>5, <1>7
    <2> QED BY <1>1, <1>4, <1>7, <1>8, <2>1, JoinedNamed, JoinedApart
  <1>10. PICK v \in Seq(MgrJobs) : v = u \o s3  BY <1>1, JoinedAt
  <1>11. Named(v) = Named(s0) \cup Named(s1) \cup Named(s2) \cup Named(s3) /\ Apart(v)
    <2>1. Named(u) \cap Named(s3) = {}  BY <1>5, <1>9
    <2> QED BY <1>1, <1>4, <1>9, <1>10, <2>1, JoinedNamed, JoinedApart
  <1>12. Jobs = v \o InHands  BY <1>1, <1>6, <1>8, <1>10
  <1>13. /\ Named(Jobs) = Named(s0) \cup Named(s1) \cup Named(s2) \cup Named(s3) \cup Named(InHands)
         /\ Apart(Jobs)
    <2>1. Named(v) \cap Named(InHands) = {}  BY <1>5, <1>11
    <2> QED BY <1>1, <1>4, <1>11, <1>12, <2>1, JoinedNamed, JoinedApart
  <1>14. \A x : x \in Named(Jobs) <=> \E c \in 0..4 : \E k : Holder(c, k, x)
    <2>1. \A c : c \in 0..4 <=> c = 0 \/ c = 1 \/ c = 2 \/ c = 3 \/ c = 4  OBVIOUS
    <2>2. \A x : x \in Named(Jobs) <=>
              \/ x \in Named(s0) \/ x \in Named(s1) \/ x \in Named(s2) \/ x \in Named(s3)
              \/ x \in Named(InHands)
      BY <1>13
    <2> QED BY <1>3, <2>1, <2>2
  <1> QED BY <1>2, <1>13, <1>14

\* the files that the writers and their requests mean
LEMMA FilesOwned ==
    ASSUME IInv, Recording, NEW w \in Writers, NEW i \in FilesOf(w)
    PROVE  i \in DOMAIN files /\ Means(w, i)
  <1> DEFINE s0 == writer_queues[0]
             s1 == writer_queues[1]
             s2 == mgr_queue
             s3 == <<mgr.job>>
  <1>0. TypeInv /\ FileInv /\ mgr.pc \notin {"open", "dead"}  BY DEF IInv, Recording
  <1>1. /\ Jobs = s0 \o s1 \o s2 \o s3 \o InHands
        /\ s0 \in Seq(MgrJobs) /\ s1 \in Seq(MgrJobs) /\ s2 \in Seq(MgrJobs)
        /\ s3 \in Seq(MgrJobs) /\ InHands \in Seq(MgrJobs)
    BY <1>0, JobsParts
  <1>2. i # None /\ (i \in {writers[w].file, writers[w].next} \/ i \in Requests(Jobs, w))
    BY DEF FilesOf, Requests
  <1> HIDE DEF s0, s1, s2, s3
  <1>3. Requests(Jobs, w) = Requests(s0, w) \cup Requests(s1, w) \cup Requests(s2, w)
                              \cup Requests(s3, w) \cup Requests(InHands, w)
    <2>1. PICK t \in Seq(MgrJobs) : t = s0 \o s1  BY <1>1, JoinedAt
    <2>2. PICK u \in Seq(MgrJobs) : u = t \o s2  BY <1>1, JoinedAt
    <2>3. PICK v \in Seq(MgrJobs) : v = u \o s3  BY <1>1, JoinedAt
    <2>4. Requests(t, w) = Requests(s0, w) \cup Requests(s1, w)  BY <1>1, <2>1, JoinedRequests
    <2>5. Requests(u, w) = Requests(t, w) \cup Requests(s2, w)  BY <1>1, <2>2, JoinedRequests
    <2>6. Requests(v, w) = Requests(u, w) \cup Requests(s3, w)  BY <1>1, <2>3, JoinedRequests
    <2>7. Jobs = v \o InHands  BY <1>1, <2>1, <2>2, <2>3
    <2>8. Requests(Jobs, w) = Requests(v, w) \cup Requests(InHands, w)
      BY <1>1, <2>7, JoinedRequests
    <2> QED BY <2>4, <2>5, <2>6, <2>8
  <1>4. Means(w, i)
    <2>1. CASE i \in {writers[w].file, writers[w].next}  BY <2>1, MeansIs
    <2>2. ASSUME NEW q \in Queues, i \in Requests(writer_queues[q], w) PROVE Means(w, i)
      <3>1. PICK k \in DOMAIN writer_queues[q] :
                /\ writer_queues[q][k].type \in {"handle", "close"}
                /\ writer_queues[q][k].writer = w /\ writer_queues[q][k].file = i
        BY <2>2 DEF Requests
      <3> QED BY <3>1, MeansIs DEF Asking
    <2>3. CASE i \in Requests(s2, w)
      <3>1. PICK k \in DOMAIN mgr_queue :
                /\ mgr_queue[k].type \in {"handle", "close"}
                /\ mgr_queue[k].writer = w /\ mgr_queue[k].file = i
        BY <2>3 DEF Requests, s2
      <3> QED BY <3>1, MeansIs DEF Asking
    <2>4. CASE i \in Requests(s3, w)
      <3>1. DOMAIN <<mgr.job>> = {1} /\ <<mgr.job>>[1] = mgr.job  OBVIOUS
      <3>2. /\ mgr.job.type \in {"handle", "close"} /\ mgr.job.writer = w /\ mgr.job.file = i
        BY <2>4, <3>1 DEF Requests, s3
      <3> QED BY <3>2, MeansIs DEF Asking
    <2>5. i \notin Requests(InHands, w)
      <3>1. SUFFICES ASSUME NEW k \in 1..NWriters, InHands[k].type \in {"handle", "close"}
                     PROVE  FALSE
        BY DEF Requests, InHands
      <3>2. InHands[k] = writers[k - 1].job /\ k - 1 \in Writers
        BY WriterAssumption DEF InHands, Writers
      <3>3. writers[k - 1] \in WriterStates  BY <1>0, <3>2 DEF TypeInv
      <3>4. InHands[k] \in WriterJobs  BY <3>2, <3>3, WriterFields
      <3> QED BY <3>1, <3>4 DEF WriterJobs, WriteJobs, NoJob
    <2> QED BY <1>2, <1>3, <2>1, <2>2, <2>3, <2>4, <2>5 DEF s0, s1, Queues
  <1>5. i \in Nat
    <2>1. CASE i \in {writers[w].file, writers[w].next}
      <3>1. writers[w] \in WriterStates  BY <1>0 DEF TypeInv
      <3> QED BY <2>1, <3>1, WriterFields
    <2>2. CASE i \in Requests(Jobs, w)
      <3>1. PICK k \in DOMAIN Jobs : /\ Jobs[k].type \in {"handle", "close"}
                                     /\ i = Jobs[k].file
        BY <2>2 DEF Requests
      <3>2. Jobs \in Seq(MgrJobs)
        <4>1. PICK t \in Seq(MgrJobs) : t = s0 \o s1  BY <1>1, JoinedAt
        <4>2. PICK u \in Seq(MgrJobs) : u = t \o s2  BY <1>1, JoinedAt
        <4>3. PICK v \in Seq(MgrJobs) : v = u \o s3  BY <1>1, JoinedAt
        <4>4. Jobs = v \o InHands  BY <1>1, <4>1, <4>2, <4>3
        <4> QED BY <1>1, <4>4, JoinedAt
      <3>3. Jobs[k] \in MgrJobs  BY <3>2
      <3> QED BY <3>1, <3>3, AskingTypes DEF Asking
    <2> QED BY <1>2, <2>1, <2>2
  <1>6. i <= Len(files)  BY <1>0, <1>4, MeansBound
  <1>7. i \in DOMAIN files
    <2>1. files \in Seq(Files)  BY <1>0 DEF TypeInv
    <2> QED BY <1>2, <1>5, <1>6, <2>1 DEF None
  <1> QED BY <1>4, <1>7

LEMMA InvApart == IInv => WritersApart
  <1> SUFFICES ASSUME IInv PROVE WritersApart  OBVIOUS
  <1>0. TypeInv /\ WriterInv /\ PoolInv /\ FileInv  BY DEF IInv
  <1>1. TypeOK
    <2>1. pool \in 0..NJobs
      <3>1. PICK a \in Nat, b \in Nat, c \in Nat, d \in Nat, e \in Nat :
                a = pool /\ b = Waiting /\ c = Len(mgr_queue) /\ d = OnHand /\ e = Carried
        BY <1>0, Counted
      <3>2. a + b + c + d + e <= NJobs  BY <1>0, <3>1 DEF PoolInv
      <3>3. NJobs \in Nat  BY SizeAssumption
      <3>4. a <= NJobs  BY <3>2, <3>3
      <3> QED BY <3>1, <3>3, <3>4
    <2>2. ASSUME NEW w \in Writers
          PROVE  /\ job_count[w] \in -1..1 /\ writers[w].size \in 0..ChunkSize
                 /\ Alive(w) => writers[w].file \in 1..Len(files)
      <3>1. w \in Queues  BY QueueOne, WriterAssumption
      <3>2. job_count[w] \in -1..1  BY <1>0, <3>1 DEF TypeInv
      <3>3. writers[w] \in WriterStates  BY <1>0 DEF TypeInv
      <3>4. writers[w].size \in 0..ChunkSize
        <4>1. writers[w].size \in Nat /\ writers[w].size <= ChunkSize  BY <3>3, WriterFields
        <4> QED BY <4>1, SizeAssumption
      <3> QED BY <1>0, <3>2, <3>4 DEF WriterInv
    <2>3. /\ state \in {"idle", "preparing", "recording", "finishing"}
          /\ slots \in [Slots -> [st : Statuses, frame : 0..MaxFrames]]
          /\ frame_count \in 0..MaxFrames + 1
          /\ capture_slot \in Slots \cup {None} /\ meta \subseteq Slots
      BY <1>0 DEF TypeInv
    <2>4. frame_skips \in BOOLEAN  BY <1>0, Zenon DEF TypeInv
    <2> QED BY <2>1, <2>2, <2>3, <2>4 DEF TypeOK
  <1>2. JobsOwnSlots
    <2> SUFFICES ASSUME Recording
                 PROVE  /\ {s \in Slots : slots[s].st = "writing"} = Named(Jobs)
                        /\ Apart(Jobs)
      BY DEF JobsOwnSlots, Named, Apart
    <2> QED BY SlotsOwned
  <1>3. FilesApart
    <2> SUFFICES ASSUME Recording, NEW v \in Writers, NEW w \in Writers,
                        NEW i, i \in FilesOf(v), i \in FilesOf(w)
                 PROVE  v = w
      BY DEF FilesApart
    <2>1. i \in DOMAIN files /\ Means(v, i) /\ Means(w, i)  BY FilesOwned
    <2>2. mgr.pc \notin {"open", "dead"}  BY DEF Recording
    <2> QED BY <1>0, <2>1, <2>2 DEF FileInv
  <1> QED BY <1>1, <1>2, <1>3 DEF WritersApart

-----------------------------------------------------------------------------
(* The writers stay apart.                                                 *)

\* Before the second recording nothing is left of one before.
Clean == mgr_queue = <<>> /\ writer_queues = [q \in Queues |-> <<>>]
FirstInv == /\ runs \in Nat
            /\ runs = 0 => mgr.pc = "off" /\ Clean
            /\ StartsClean

\* before the writers run nobody sends a job
LEMMA QuietBefore ==
    ASSUME IInv, [Next]_vars, mgr.pc \in {"off", "prepare"}, ~Manager, ~PressRec
    PROVE  UNCHANGED <<mgr, mgr_queue, writer_queues, runs>>
  <1>0. FlowInv /\ TypeInv  BY DEF IInv
  <1>1. \A w \in Writers : ~Writer(w)
    <2>1. \A w \in Writers : ~Alive(w)  BY <1>0 DEF FlowInv, Before
    <2> QED BY <2>1, WriterEffects
  <1>2. CASE Camera \/ DmaDone \/ TakeSlot \/ ReleaseSlot  BY <1>2, CameraSlots
  <1>3. CASE UNCHANGED vars  BY <1>3 DEF vars
  <1> QED BY <1>1, <1>2, <1>3 DEF Next

LEMMA FirstStep ==
    ASSUME MaxRuns <= 1, IInv, FirstInv, [Next]_vars
    PROVE  FirstInv'
  <1>0. FlowInv /\ TypeInv /\ mgr \in Managers  BY DEF IInv, TypeInv
  <1>1. CASE PressRec
    <2>1. UNCHANGED <<mgr_queue, writer_queues>>  BY <1>1 DEF PressRec
    <2>2. CASE state = "idle"
      <3>1. runs < MaxRuns /\ runs' = runs + 1 /\ mgr' = [mgr EXCEPT !.pc = "prepare"]
        BY <1>1, <2>2 DEF PressRec
      <3>2. runs = 0 /\ runs' = 1  BY <3>1, BoundsNat DEF FirstInv
      <3>3. Clean  BY <3>2 DEF FirstInv
      <3>4. Clean'  BY <2>1, <3>3 DEF Clean
      <3> QED BY <3>2, <3>4 DEF FirstInv, StartsClean, Clean
    <2>3. CASE state # "idle"
      <3>1. UNCHANGED <<mgr, runs>>  BY <1>1, <2>3 DEF PressRec
      <3> QED BY <2>1, <3>1 DEF FirstInv, StartsClean, Clean
    <2> QED BY <2>2, <2>3
  <1>2. CASE Manager
    <2>1. UNCHANGED runs
      BY <1>2 DEF Manager, Prepare, OpenFiles, Begin, MgrLoop, FillQueue, NothingReturned,
            WriteReturned, HandleWanted, CloseWanted, Stopping, Drain, AbortWriters, Flush, CleanUp
    <2>2. mgr.pc # "off"
      BY <1>2 DEF Manager, Prepare, OpenFiles, Begin, MgrLoop, FillQueue, NothingReturned,
            WriteReturned, HandleWanted, CloseWanted, Returned, Stopping, Drain, AbortWriters,
            Flush, CleanUp
    <2>3. mgr'.pc # "prepare"
      <3>1. CASE Prepare
        <4>1. mgr' = [mgr EXCEPT !.pc = "open"] \/ mgr' = [mgr EXCEPT !.pc = "cleanup"]
          BY <3>1 DEF Prepare
        <4> QED BY <1>0, <4>1, MgrSet
      <3>2. CASE OpenFiles
        <4>1. mgr' = [mgr EXCEPT !.pc = "begin"] \/ mgr' = [mgr EXCEPT !.pc = "dead"]
          BY <3>2 DEF OpenFiles
        <4> QED BY <1>0, <4>1, MgrSet
      <3>3. CASE CleanUp
        <4>1. mgr' = [mgr EXCEPT !.pc = "off", !.used = FALSE]  BY <3>3 DEF CleanUp
        <4> QED BY <1>0, <4>1 DEF Managers
      <3>4. CASE ~Prepare /\ ~OpenFiles /\ ~CleanUp
        BY <1>0, <1>2, <3>4, ManagerRuns DEF Manager, Before
      <3> QED BY <3>1, <3>2, <3>3, <3>4
    <2> QED BY <2>1, <2>2, <2>3 DEF FirstInv, StartsClean
  <1>3. CASE ~Manager /\ ~PressRec /\ mgr.pc \in {"off", "prepare"}
    <2>1. UNCHANGED <<mgr, mgr_queue, writer_queues, runs>>
      BY <1>3, QuietBefore
    <2> QED BY <2>1 DEF FirstInv, StartsClean, Clean
  <1>4. CASE ~Manager /\ ~PressRec /\ mgr.pc \notin {"off", "prepare"}
    <2>1. UNCHANGED <<mgr, runs>>
      <3>1. CASE Camera \/ DmaDone \/ TakeSlot \/ ReleaseSlot  BY <3>1, CameraSlots
      <3>2. CASE \E w \in Writers : Writer(w)  BY <3>2, WriterEffects
      <3>3. CASE UNCHANGED vars  BY <3>3 DEF vars
      <3> QED BY <1>4, <3>1, <3>2, <3>3 DEF Next
    <2> QED BY <1>4, <2>1 DEF FirstInv, StartsClean
  <1> QED BY <1>1, <1>2, <1>3, <1>4

\* Two writers never work on the same slot and never on the same file, and the
\* slots that are being written are those of the jobs there are: in recordings
\* that find the queues empty when they start.  A
\* recording that fails can leave jobs behind (the writer that gave up takes
\* none, mlv_rec.c 3012-3019), and the next one would serve them.
THEOREM WritersStayApart == Spec /\ []StartsClean => []WritersApart
  <1>1. Init => IInv  BY InitInv
  <1>2. IInv /\ StartsClean /\ [Next]_vars => IInv'  BY InvStep
  <1>3. IInv => WritersApart  BY InvApart
  <1> QED BY <1>1, <1>2, <1>3, PTL DEF Spec

\* The first recording of a session always does: whatever fails in it, its
\* writers stay apart.
THEOREM FirstRecordingApart == ASSUME MaxRuns <= 1 PROVE Spec => []WritersApart
  <1>1. Init => IInv /\ FirstInv
    <2>1. Init => FirstInv  BY DEF Init, FirstInv, Clean, StartsClean
    <2> QED BY <2>1, InitInv
  <1>2. IInv /\ FirstInv /\ [Next]_vars => IInv' /\ FirstInv'
    <2>1. FirstInv => StartsClean  BY DEF FirstInv
    <2> QED BY <2>1, InvStep, FirstStep
  <1>3. IInv => WritersApart  BY InvApart
  <1> QED BY <1>1, <1>2, <1>3, PTL DEF Spec

-----------------------------------------------------------------------------
(* Headers: what is in a file, and what the writers and the requests under *)
(* way say of it.                                                          *)

Closes(k) == k \in Posts /\ Post(k).type = "close"
\* an answer on its way to a writer, with a file
Answer(w, k) == /\ k \in DOMAIN writer_queues[w] /\ writer_queues[w][k].type = "handle"
                /\ writer_queues[w][k].file # None

\* the manager opens files in the order of their numbers: a file that a writer
\* will get has a larger number than its own, one that it left a smaller
CloseOrder ==
    /\ \A k \in Posts : Post(k).type = "handle" => Post(k).file = None
    /\ \A k \in Posts : Closes(k) =>
          /\ Post(k).file # None /\ Post(k).file <= writers[Post(k).writer].file
          /\ Post(k).file = writers[Post(k).writer].file =>
                writers[Post(k).writer].error = "file"
    /\ \A k, l \in Posts : Closes(k) /\ Closes(l) /\ Post(k).file = Post(l).file => k = l
AnswerOrder == \A w \in Writers :
    /\ writers[w].next # None => writers[w].file < writers[w].next
    /\ \A k \in DOMAIN writer_queues[w] : Answer(w, k) =>
          /\ writers[w].file < writer_queues[w][k].file
          /\ writers[w].next < writer_queues[w][k].file
    /\ \A k, l \in DOMAIN writer_queues[w] : Answer(w, k) /\ Answer(w, l) /\ k < l =>
          writer_queues[w][k].file < writer_queues[w][l].file

\* the slots of the block that did not fit on the card
Loss(w)  == IF writers[w].error = "card" THEN writers[w].job.len ELSE 0
Blank(i) == files[i].closed = 0 /\ Len(files[i].data) = 0
WriterCounts(w) == Alive(w) =>
    /\ Len(files[writers[w].file].data) - writers[w].frames \in 0..Loss(w)
    /\ files[writers[w].file].closed <= (IF writers[w].error = "file" THEN 1 ELSE 0)
\* the writer found no next file and closed the file that the job is to close
ShutTwice(j) == /\ ~Alive(j.writer) /\ writers[j.writer].error = "file"
                /\ writers[j.writer].file = j.file
CloseCounts(k) == Closes(k) =>
    /\ Len(files[Post(k).file].data) = Post(k).frames
    /\ \/ files[Post(k).file].closed = 0
       \/ files[Post(k).file].closed = 1 /\ ShutTwice(Post(k))
FreshFiles == \A w \in Writers :
    /\ writers[w].next # None => Blank(writers[w].next)
    /\ \A k \in DOMAIN writer_queues[w] : Answer(w, k) => Blank(writer_queues[w][k].file)

\* what the header of a closed file says
Missing(i) == Len(files[i].data) - files[i].count
Uncounts(i) ==
    \/ Missing(i) = 0
    \/ \E w \in Writers : writers[w].error = "card" /\ writers[w].file = i
                          /\ Missing(i) \in 0..writers[w].job.len
Told(i) == files[i].closed > 0 =>
    /\ files[i].closed = 1 \/ (files[i].closed = 2 /\ ClosedTwice(i))
    /\ Uncounts(i)

HeadInv == /\ mgr.pc \notin {"open", "dead"} =>
                 /\ CloseOrder /\ AnswerOrder /\ FreshFiles
                 /\ \A w \in Writers : WriterCounts(w)
                 /\ \A k \in Posts : CloseCounts(k)
           /\ \A i \in DOMAIN files : Told(i)

LEMMA PostTypes ==
    ASSUME TypeInv, NEW k \in Posts
    PROVE  /\ Post(k) \in MgrJobs /\ k \in Nat /\ Len(mgr_queue) \in Nat
           /\ k # 0 => k \in DOMAIN mgr_queue /\ Post(k) = mgr_queue[k]
           /\ Closes(k) => Post(k) \in CloseJobs
  <1>1. mgr_queue \in Seq(ToManager) /\ mgr \in Managers  BY DEF TypeInv
  <1>2. Len(mgr_queue) \in Nat /\ DOMAIN mgr_queue = 1..Len(mgr_queue)  BY <1>1
  <1>3. k \in Nat /\ (k # 0 => k \in DOMAIN mgr_queue)  BY <1>2 DEF Posts
  <1>4. Post(k) \in MgrJobs
    <2>1. mgr.job \in MgrJobs  BY <1>1, MgrIs
    <2>2. k # 0 => mgr_queue[k] \in ToManager  BY <1>1, <1>3
    <2> QED BY <2>1, <2>2 DEF Post, MgrJobs
  <1>5. Closes(k) => Post(k) \in CloseJobs
    BY <1>4 DEF Closes, MgrJobs, ToManager, WriteJobs, HandleJobs, NoJob
  <1> QED BY <1>2, <1>3, <1>4, <1>5 DEF Post

\* who means the file of a request to close, and of an answer
LEMMA CloseKnown ==
    ASSUME TypeInv, FileInv, CloseOrder, mgr.pc \notin {"open", "dead"}, NEW k \in Posts, Closes(k)
    PROVE  /\ Post(k).writer \in Writers /\ Post(k).file \in 1..Len(files)
           /\ Post(k).frames \in Nat /\ Post(k).num \in Nat
           /\ Post(k).file \in DOMAIN files
           /\ Means(Post(k).writer, Post(k).file)
  <1>1. Post(k) \in CloseJobs  BY PostTypes
  <1>2. /\ Post(k).writer \in Writers /\ Post(k).file \in Nat /\ Post(k).frames \in Nat
        /\ Post(k).num \in Nat /\ Post(k).type = "close"
    BY <1>1 DEF CloseJobs
  <1>3. Means(Post(k).writer, Post(k).file)
    <2>1. CASE k = 0
      <3>1. Post(k) = mgr.job  BY <2>1 DEF Post
      <3> QED BY <1>2, <3>1, MeansIs DEF Asking
    <2>2. CASE k # 0
      <3>1. Post(k) = mgr_queue[k] /\ k \in DOMAIN mgr_queue  BY <2>2, PostTypes
      <3> QED BY <1>2, <3>1, MeansIs DEF Asking
    <2> QED BY <2>1, <2>2
  <1>4. Post(k).file # None  BY DEF CloseOrder
  <1>5. PICK w \in Writers, i \in Nat : w = Post(k).writer /\ i = Post(k).file  BY <1>2
  <1>6. i <= Len(files)  BY <1>3, <1>5, MeansBound
  <1>7. Len(files) \in Nat /\ DOMAIN files = 1..Len(files)
    <2>1. files \in Seq(Files)  BY DEF TypeInv
    <2> QED BY <2>1
  <1>8. i \in 1..Len(files)  BY <1>4, <1>5, <1>6, <1>7 DEF None
  <1> QED BY <1>2, <1>3, <1>5, <1>7, <1>8

LEMMA AnswerKnown ==
    ASSUME TypeInv, FileInv, mgr.pc \notin {"open", "dead"}, NEW w \in Writers, NEW k, Answer(w, k)
    PROVE  /\ writer_queues[w][k].file \in 1..Len(files)
           /\ writer_queues[w][k].file \in DOMAIN files
           /\ Means(w, writer_queues[w][k].file)
  <1>1. w \in Queues  BY QueueOne, WriterAssumption
  <1>2. writer_queues[w] \in Seq(ToWriter)  BY <1>1 DEF TypeInv
  <1>3. k \in DOMAIN writer_queues[w] /\ writer_queues[w][k].type = "handle"
        /\ writer_queues[w][k].file # None
    BY DEF Answer
  <1>4. writer_queues[w][k] \in ToWriter  BY <1>2, <1>3
  <1>5. writer_queues[w][k].file \in Nat  BY <1>3, <1>4 DEF ToWriter, WriteJobs, HandleJobs
  <1>6. writer_queues[w][k].writer = w  BY <1>3 DEF FileInv
  <1>7. Means(w, writer_queues[w][k].file)  BY <1>1, <1>3, <1>6, MeansIs DEF Asking
  <1>8. PICK i \in Nat : i = writer_queues[w][k].file  BY <1>5
  <1>9. i <= Len(files)  BY <1>7, <1>8, MeansBound
  <1>10. Len(files) \in Nat /\ DOMAIN files = 1..Len(files)
    <2>1. files \in Seq(Files)  BY DEF TypeInv
    <2> QED BY <2>1
  <1>11. i \in 1..Len(files)  BY <1>3, <1>8, <1>9, <1>10 DEF None
  <1> QED BY <1>7, <1>8, <1>10, <1>11

LEMMA OwnKnown ==
    ASSUME TypeInv, FileInv, WriterInv, mgr.pc \notin {"open", "dead"}, NEW w \in Writers
    PROVE  /\ Means(w, writers[w].file) /\ Means(w, writers[w].next)
           /\ Alive(w) => writers[w].file \in DOMAIN files
           /\ writers[w].next # None => writers[w].next \in DOMAIN files
           /\ DOMAIN files = 1..Len(files) /\ Len(files) \in Nat
           /\ writers[w].file \in Nat /\ writers[w].next \in Nat /\ writers[w].frames \in Nat
           /\ writers[w].file <= Len(files) /\ writers[w].next <= Len(files)
  <1>1. DOMAIN files = 1..Len(files) /\ Len(files) \in Nat
    <2>1. files \in Seq(Files)  BY DEF TypeInv
    <2> QED BY <2>1
  <1>2. writers[w].file \in Nat /\ writers[w].next \in Nat /\ writers[w].frames \in Nat
    <2>1. writers[w] \in WriterStates  BY WriterIs
    <2> QED BY <2>1, WriterFields
  <1>3. writers[w].file <= Len(files) /\ writers[w].next <= Len(files)  BY DEF FileInv
  <1>4. Alive(w) => writers[w].file \in DOMAIN files  BY <1>1 DEF WriterInv
  <1>5. writers[w].next # None => writers[w].next \in DOMAIN files
    BY <1>1, <1>2, <1>3 DEF None
  <1> QED BY <1>1, <1>2, <1>3, <1>4, <1>5 DEF Means

LEMMA OneOwner ==
    ASSUME FileInv, mgr.pc \notin {"open", "dead"}, NEW v \in Writers, NEW w \in Writers,
           NEW i \in DOMAIN files, Means(v, i), Means(w, i)
    PROVE  v = w
  BY DEF FileInv

LEMMA FileTypes ==
    ASSUME TypeInv, NEW i \in DOMAIN files
    PROVE  /\ Len(files[i].data) \in Nat /\ files[i].count \in Nat /\ files[i].closed \in Nat
           /\ files[i].data \in Seq(0..MaxFrames)
  <1>1. files \in Seq(Files)  BY DEF TypeInv
  <1>2. files[i] \in Files  BY <1>1
  <1> QED BY <1>2 DEF Files

LEMMA HeadersTold ==
    ASSUME TypeInv, WriterInv, \A i \in DOMAIN files : Told(i)
    PROVE  HeadersCount
  <1> SUFFICES ASSUME NEW i \in DOMAIN files, files[i].closed > 0
               PROVE  Len(files[i].data) - files[i].count \in 0 .. Max({0} \cup Uncounted(i))
    BY DEF HeadersCount, Told
  <1> DEFINE S == {0} \cup Uncounted(i)
  <1>0. ASSUME NEW w \in Writers, writers[w].error = "card"
        PROVE  writers[w].job.len \in 0..ChunkSize
    <2>1. writers[w].job.type = "write"  BY <1>0 DEF WriterInv
    <2>2. writers[w] \in WriterStates  BY WriterIs
    <2>3. writers[w].job \in WriterJobs  BY <2>2, WriterFields
    <2> QED BY <2>1, <2>3 DEF WriterJobs, NoJob, WriteJobs
  <1>1. ChunkSize \in Nat  BY SizeAssumption
  <1>2. S \subseteq 0..ChunkSize  BY <1>0, <1>1 DEF Uncounted
  <1>3. 0 \in S /\ \A w \in Writers : writers[w].error = "card" /\ writers[w].file = i =>
                        writers[w].job.len \in S
    BY DEF Uncounted
  <1> HIDE DEF S
  <1>4. Max(S) \in S /\ \A y \in S : y <= Max(S)  BY <1>1, <1>2, <1>3, MaxIn
  <1>5. Max(S) \in Nat
    <2>1. PICK m \in S : m = Max(S)  BY <1>4
    <2>2. m \in Nat  BY <1>1, <1>2
    <2> QED BY <2>1, <2>2
  <1>6. PICK n : n = Missing(i)  OBVIOUS
  <1>7. Uncounts(i)  BY DEF Told
  <1>8. n \in 0..Max(S)
    <2>1. CASE n = 0  BY <2>1, <1>5
    <2>2. CASE n # 0
      <3>1. PICK w \in Writers : /\ writers[w].error = "card" /\ writers[w].file = i
                                 /\ n \in 0..writers[w].job.len
        BY <1>6, <1>7, <2>2 DEF Uncounts
      <3>2. writers[w].job.len <= Max(S) /\ writers[w].job.len \in Nat
        BY <1>0, <1>1, <1>3, <1>4, <3>1
      <3>3. PICK l \in Nat : l = writers[w].job.len  BY <3>2
      <3>4. n \in 0..l /\ l <= Max(S)  BY <3>1, <3>2, <3>3
      <3> QED BY <1>5, <3>4
    <2> QED BY <2>1, <2>2
  <1> QED BY <1>6, <1>8 DEF S, Missing

\* the file is as it was, but for its name on the card
Kept(i) == /\ files'[i].data = files[i].data /\ files'[i].count = files[i].count
           /\ files'[i].closed = files[i].closed
\* a writer that failed stays with its file and its block
ErrorsStay == \A w \in Writers : writers[w].error # "no" =>
    /\ writers'[w].error = writers[w].error /\ writers'[w].file = writers[w].file
    /\ writers'[w].job = writers[w].job

LEMMA CountsKept ==
    ASSUME NEW w \in Writers, WriterCounts(w), Alive(w)' => Alive(w),
           writers'[w].file = writers[w].file, writers'[w].frames = writers[w].frames,
           writers'[w].error = writers[w].error,
           writers[w].error = "card" => writers'[w].job = writers[w].job,
           Alive(w) => Kept(writers[w].file)
    PROVE  WriterCounts(w)'
  <1> SUFFICES ASSUME Alive(w)'
               PROVE  /\ Len(files'[writers'[w].file].data) - writers'[w].frames \in 0..Loss(w)'
                      /\ files'[writers'[w].file].closed
                            <= (IF writers'[w].error = "file" THEN 1 ELSE 0)
    BY DEF WriterCounts
  <1>1. /\ Len(files[writers[w].file].data) - writers[w].frames \in 0..Loss(w)
        /\ files[writers[w].file].closed <= (IF writers[w].error = "file" THEN 1 ELSE 0)
    BY DEF WriterCounts
  <1>2. Loss(w)' = Loss(w)  BY DEF Loss
  <1>3. Kept(writers[w].file)  OBVIOUS
  <1> QED BY <1>1, <1>2, <1>3 DEF Kept

LEMMA CloseKept ==
    ASSUME NEW k, NEW l, Closes(k)' => Closes(l) /\ Post(k)' = Post(l), CloseCounts(l),
           Closes(l) => Kept(Post(l).file),
           Closes(l) => \A j : j = Post(l) /\ ShutTwice(j) => ShutTwice(j)'
    PROVE  CloseCounts(k)'
  <1> SUFFICES ASSUME Closes(k)'
               PROVE  /\ Len(files'[Post(k)'.file].data) = Post(k)'.frames
                      /\ \/ files'[Post(k)'.file].closed = 0
                         \/ files'[Post(k)'.file].closed = 1 /\ ShutTwice(Post(k))'
    BY DEF CloseCounts
  <1>1. PICK j : j = Post(l)  OBVIOUS
  <1>2. Post(k)' = j /\ Kept(j.file)  BY <1>1
  <1>3. /\ Len(files[j.file].data) = j.frames
        /\ files[j.file].closed = 0 \/ (files[j.file].closed = 1 /\ ShutTwice(j))
    BY <1>1 DEF CloseCounts
  <1>4. ShutTwice(j) => ShutTwice(j)'  BY <1>1
  <1>5. ShutTwice(j)' => ShutTwice(Post(k))'  BY <1>2 DEF ShutTwice, Alive
  <1> QED BY <1>2, <1>3, <1>4, <1>5 DEF Kept

LEMMA ToldKept ==
    ASSUME NEW i, Told(i), Kept(i), ErrorsStay
    PROVE  Told(i)'
  <1>1. /\ files'[i].data = files[i].data /\ files'[i].count = files[i].count
        /\ files'[i].closed = files[i].closed
    BY DEF Kept
  <1>2. Missing(i)' = Missing(i)  BY <1>1 DEF Missing
  <1>3. ClosedTwice(i) => ClosedTwice(i)'  BY DEF ClosedTwice, ErrorsStay
  <1>4. ASSUME Uncounts(i) PROVE Uncounts(i)'
    <2>1. PICK n : n = Missing(i)  OBVIOUS
    <2>2. CASE n = 0  BY <1>2, <2>1, <2>2 DEF Uncounts
    <2>3. CASE n # 0
      <3>1. PICK w \in Writers : /\ writers[w].error = "card" /\ writers[w].file = i
                                 /\ n \in 0..writers[w].job.len
        BY <1>4, <2>1, <2>3 DEF Uncounts
      <3>2. writers'[w].error = "card" /\ writers'[w].file = i
            /\ n \in 0..writers'[w].job.len
        BY <3>1 DEF ErrorsStay
      <3>3. Missing(i)' = n  BY <1>2, <2>1
      <3> QED BY <3>2, <3>3 DEF Uncounts
    <2> QED BY <2>2, <2>3
  <1> QED BY <1>1, <1>3, <1>4 DEF Told

\* the requests and the answers after a step of the vsync handler, a module or
\* the manager
LEMMA OrderKept ==
    ASSUME TypeInv, TypeInv', UNCHANGED writers, NoAnswer, NEW d \in {0, 1}, PostsFrom(d),
           CloseOrder, AnswerOrder
    PROVE  CloseOrder' /\ AnswerOrder'
  <1>1. ASSUME NEW k \in Posts', Asking(Post(k)')
        PROVE  /\ k + d \in Posts /\ Post(k)' = Post(k + d)
               /\ Closes(k)' <=> Closes(k + d)
    <2>1. k + d \in Posts /\ Post(k)' = Post(k + d)  BY <1>1 DEF PostsFrom
    <2> QED BY <2>1 DEF Closes
  <1>2. ASSUME NEW k \in Posts', Closes(k)'
        PROVE  Asking(Post(k)')
    BY <1>2 DEF Closes, Asking
  <1>3. \A k \in Posts' : Post(k)'.type = "handle" => Post(k)'.file = None
    <2> SUFFICES ASSUME NEW k \in Posts', Post(k)'.type = "handle"
                 PROVE  Post(k)'.file = None
      OBVIOUS
    <2>1. Asking(Post(k)')  BY DEF Asking
    <2>2. k + d \in Posts /\ Post(k)' = Post(k + d)  BY <1>1, <2>1
    <2> QED BY <2>2 DEF CloseOrder
  <1>4. ASSUME NEW k \in Posts', Closes(k)'
        PROVE  /\ Post(k)'.file # None /\ Post(k)'.file <= writers'[Post(k)'.writer].file
               /\ Post(k)'.file = writers'[Post(k)'.writer].file =>
                     writers'[Post(k)'.writer].error = "file"
    <2>1. k + d \in Posts /\ Post(k)' = Post(k + d) /\ Closes(k + d)  BY <1>1, <1>2, <1>4
    <2>2. PICK l \in Posts : l = k + d  BY <2>1
    <2>3. Post(k)' = Post(l) /\ Closes(l)  BY <2>1, <2>2
    <2> QED BY <2>3 DEF CloseOrder
  <1>5. ASSUME NEW k \in Posts', NEW l \in Posts', Closes(k)', Closes(l)',
               Post(k)'.file = Post(l)'.file
        PROVE  k = l
    <2>1. k + d \in Posts /\ Post(k)' = Post(k + d) /\ Closes(k + d)  BY <1>1, <1>2, <1>5
    <2>2. l + d \in Posts /\ Post(l)' = Post(l + d) /\ Closes(l + d)  BY <1>1, <1>2, <1>5
    <2>3. PICK a \in Posts, b \in Posts : a = k + d /\ b = l + d  BY <2>1, <2>2
    <2>4. a = b
      <3>1. Closes(a) /\ Closes(b) /\ Post(a).file = Post(b).file  BY <1>5, <2>1, <2>2, <2>3
      <3> QED BY <3>1 DEF CloseOrder
    <2>5. k \in Nat /\ l \in Nat
      <3>1. mgr_queue' \in Seq(ToManager)  BY DEF TypeInv
      <3>2. Len(mgr_queue') \in Nat  BY <3>1
      <3> QED BY <3>2 DEF Posts
    <2> QED BY <2>3, <2>4, <2>5
  <1>6. CloseOrder'  BY <1>3, <1>4, <1>5 DEF CloseOrder
  <1>7. ASSUME NEW w \in Writers, NEW k \in DOMAIN writer_queues'[w], Answer(w, k)'
        PROVE  /\ k \in DOMAIN writer_queues[w] /\ Answer(w, k)
               /\ writer_queues'[w][k] = writer_queues[w][k]
    <2>1. w \in Queues  BY QueueOne, WriterAssumption
    <2>2. Asking(writer_queues'[w][k]) /\ writer_queues'[w][k].file # None
          /\ writer_queues'[w][k].type = "handle"
      BY <1>7 DEF Answer, Asking
    <2>3. k \in DOMAIN writer_queues[w] /\ writer_queues'[w][k] = writer_queues[w][k]
      BY <2>1, <2>2 DEF NoAnswer
    <2> QED BY <2>2, <2>3 DEF Answer
  <1>8. AnswerOrder'
    <2>1. ASSUME NEW w \in Writers
          PROVE  writers'[w].next # None => writers'[w].file < writers'[w].next
      BY DEF AnswerOrder
    <2>2. ASSUME NEW w \in Writers, NEW k \in DOMAIN writer_queues'[w], Answer(w, k)'
          PROVE  /\ writers'[w].file < writer_queues'[w][k].file
                 /\ writers'[w].next < writer_queues'[w][k].file
      BY <1>7, <2>2 DEF AnswerOrder
    <2>3. ASSUME NEW w \in Writers, NEW k \in DOMAIN writer_queues'[w],
                 NEW l \in DOMAIN writer_queues'[w], Answer(w, k)', Answer(w, l)', k < l
          PROVE  writer_queues'[w][k].file < writer_queues'[w][l].file
      BY <1>7, <2>3 DEF AnswerOrder
    <2> QED BY <2>1, <2>2, <2>3 DEF AnswerOrder
  <1> QED BY <1>6, <1>8

LEMMA HeadsAlike ==
    ASSUME TypeInv, TypeInv', FileInv, WriterInv, mgr.pc \notin {"open", "dead"},
           UNCHANGED writers, NoAnswer, NEW d \in {0, 1}, PostsFrom(d),
           HeadInv, DOMAIN files' = DOMAIN files, \A i \in DOMAIN files : Kept(i)
    PROVE  HeadInv'
  <1>0. /\ CloseOrder /\ AnswerOrder /\ FreshFiles /\ \A w \in Writers : WriterCounts(w)
        /\ \A k \in Posts : CloseCounts(k)
        /\ \A i \in DOMAIN files : Told(i)
    BY DEF HeadInv
  <1>1. CloseOrder' /\ AnswerOrder'  BY <1>0, OrderKept
  <1>2. ErrorsStay  BY DEF ErrorsStay
  <1>3. \A i \in DOMAIN files' : Told(i)'  BY <1>0, <1>2, ToldKept
  <1>4. ASSUME NEW w \in Writers PROVE WriterCounts(w)'
    <2>1. Alive(w) => Kept(writers[w].file)  BY OwnKnown
    <2>2. Alive(w)' => Alive(w)  BY DEF Alive
    <2> QED BY <1>0, <2>1, <2>2, CountsKept
  <1>5. ASSUME NEW k \in Posts' PROVE CloseCounts(k)'
    <2>1. CASE ~Closes(k)'  BY <2>1 DEF CloseCounts
    <2>2. CASE Closes(k)'
      <3>1. Asking(Post(k)')  BY <2>2 DEF Closes, Asking
      <3>2. k + d \in Posts /\ Post(k)' = Post(k + d)  BY <3>1 DEF PostsFrom
      <3>3. PICK l \in Posts : l = k + d  BY <3>2
      <3>4. Closes(l) /\ Post(k)' = Post(l)  BY <2>2, <3>2, <3>3 DEF Closes
      <3>5. Kept(Post(l).file)  BY <1>0, <3>4, CloseKnown
      <3>6. \A j : ShutTwice(j) => ShutTwice(j)'  BY DEF ShutTwice, Alive
      <3> QED BY <1>0, <3>4, <3>5, <3>6, CloseKept
    <2> QED BY <2>1, <2>2
  <1>6. FreshFiles'
    <2>0. \A i \in DOMAIN files : Blank(i) => Blank(i)'  BY DEF Blank, Kept
    <2>1. ASSUME NEW w \in Writers, writers'[w].next # None
          PROVE  Blank(writers[w].next)'
      <3>1. writers[w].next \in DOMAIN files  BY <2>1, OwnKnown
      <3>2. PICK i \in DOMAIN files : i = writers[w].next  BY <3>1
      <3>3. Blank(i)  BY <1>0, <2>1, <3>2 DEF FreshFiles
      <3>4. Blank(i)'  BY <2>0, <3>3
      <3>5. writers[w].next' = i  BY <3>2
      <3> QED BY <3>4, <3>5 DEF Blank
    <2>2. ASSUME NEW w \in Writers, NEW k \in DOMAIN writer_queues'[w], Answer(w, k)'
          PROVE  Blank(writer_queues[w][k].file)'
      <3>1. w \in Queues  BY QueueOne, WriterAssumption
      <3>2. Asking(writer_queues'[w][k])  BY <2>2 DEF Answer, Asking
      <3>3. k \in DOMAIN writer_queues[w] /\ writer_queues'[w][k] = writer_queues[w][k]
        BY <3>1, <3>2 DEF NoAnswer
      <3>4. Answer(w, k)  BY <2>2, <3>3 DEF Answer
      <3>5. writer_queues[w][k].file \in DOMAIN files  BY <3>4, AnswerKnown
      <3>6. PICK i \in DOMAIN files : i = writer_queues[w][k].file  BY <3>5
      <3>7. Blank(i)  BY <1>0, <3>3, <3>4, <3>6 DEF FreshFiles
      <3>8. Blank(i)'  BY <2>0, <3>7
      <3>9. writer_queues'[w][k].file = i  BY <3>3, <3>6
      <3> QED BY <3>8, <3>9 DEF Blank
    <2> QED BY <2>1, <2>2 DEF FreshFiles
  <1> QED BY <1>1, <1>3, <1>4, <1>5, <1>6 DEF HeadInv

\* the header of a file is written
LEMMA FileClosed ==
    ASSUME TypeInv, NEW x \in DOMAIN files, NEW n \in Nat, NEW c \in Nat, files' = Closed(x, n, c)
    PROVE  /\ DOMAIN files' = DOMAIN files
           /\ \A i \in DOMAIN files : i # x => files'[i] = files[i]
           /\ files'[x].data = files[x].data /\ files'[x].count = c
           /\ files'[x].closed = files[x].closed + 1 /\ files'[x].gone = files[x].gone
  <1>1. files \in Seq(Files)  BY DEF TypeInv
  <1>2. x \in Nat  BY <1>1
  <1>3. PICK g : g = files'  OBVIOUS
  <1>4. g = Closed(x, n, c)  BY <1>3
  <1>5. ClosedAs(g, x, n, c)  BY <1>1, <1>2, <1>4, ClosedIs
  <1> QED BY <1>3, <1>5 DEF ClosedAs

\* the manager closes a file
LEMMA HeadsClosed ==
    ASSUME IInv, StartsClean, CloseWanted, HeadInv
    PROVE  HeadInv'
  <1>0. /\ TypeInv /\ TypeInv' /\ FileInv /\ WriterInv /\ mgr \in Managers
        /\ mgr.pc = "handle" /\ mgr.job.type = "close"
        /\ mgr.pc \notin {"open", "dead"}
        /\ UNCHANGED <<mgr_queue, writer_queues, writers>> /\ EndLoop
        /\ files' = Closed(mgr.job.file, mgr.job.num, mgr.job.frames)
    <2>1. [Next]_vars  BY DEF Next, Manager
    <2> QED BY <2>1, TypeStep DEF IInv, TypeInv, CloseWanted, Returned
  <1>1. /\ CloseOrder /\ AnswerOrder /\ FreshFiles /\ \A w \in Writers : WriterCounts(w)
        /\ \A k \in Posts : CloseCounts(k)
        /\ \A i \in DOMAIN files : Told(i)
    BY <1>0 DEF HeadInv
  <1>2. mgr'.job = NoJob  BY <1>0, EndLoopIs
  <1>3. ~Asking(mgr'.job)  BY <1>2 DEF Asking, NoJob
  <1>4. PostsFrom(0)  BY <1>0, <1>3, PostsSame
  <1>5. NoAnswer  BY <1>0 DEF NoAnswer
  <1>6. CloseOrder' /\ AnswerOrder'
    <2>1. 0 \in {0, 1}  OBVIOUS
    <2> QED BY <1>0, <1>1, <1>4, <1>5, <2>1, OrderKept
  <1>7. 0 \in Posts /\ Post(0) = mgr.job /\ Closes(0)
    <2>1. mgr_queue \in Seq(ToManager)  BY <1>0 DEF TypeInv
    <2>2. Len(mgr_queue) \in Nat  BY <2>1
    <2> QED BY <1>0, <2>2 DEF Posts, Post, Closes
  <1>8. /\ mgr.job.writer \in Writers /\ mgr.job.file \in DOMAIN files
        /\ mgr.job.frames \in Nat /\ mgr.job.num \in Nat
        /\ Means(mgr.job.writer, mgr.job.file) /\ mgr.job.file \in 1..Len(files)
    BY <1>0, <1>1, <1>7, CloseKnown
  <1>9. PICK x \in DOMAIN files, o \in Writers, c \in Nat, n \in Nat :
            x = mgr.job.file /\ o = mgr.job.writer /\ c = mgr.job.frames /\ n = mgr.job.num
            /\ x \in Nat
    <2>1. mgr.job.file \in Nat
      <3>1. Len(files) \in Nat
        <4>1. files \in Seq(Files)  BY <1>0 DEF TypeInv
        <4> QED BY <4>1
      <3> QED BY <1>8, <3>1
    <2> QED BY <1>8, <2>1
  <1>10. /\ DOMAIN files' = DOMAIN files
         /\ \A i \in DOMAIN files : i # x => files'[i] = files[i]
         /\ files'[x].data = files[x].data /\ files'[x].count = c
         /\ files'[x].closed = files[x].closed + 1
    <2>1. files' = Closed(x, n, c)  BY <1>0, <1>9
    <2> QED BY <1>0, <2>1, FileClosed
  <1>11. \A i \in DOMAIN files : i # x => Kept(i)  BY <1>10 DEF Kept
  <1>12. /\ Len(files[x].data) = c
         /\ files[x].closed = 0 \/ (files[x].closed = 1 /\ ShutTwice(mgr.job))
    <2>1. CloseCounts(0)  BY <1>1, <1>7
    <2> QED BY <1>7, <1>9, <2>1 DEF CloseCounts
  <1>13. /\ x <= writers[o].file
         /\ x = writers[o].file => writers[o].error = "file"
    BY <1>1, <1>7, <1>9 DEF CloseOrder
  <1>14. ErrorsStay  BY <1>0 DEF ErrorsStay
  <1>15. ASSUME NEW i \in DOMAIN files' PROVE Told(i)'
    <2>1. CASE i # x
      <3>1. Told(i) /\ Kept(i)  BY <1>1, <1>10, <1>11, <2>1
      <3> QED BY <3>1, <1>14, ToldKept
    <2>2. CASE i = x
      <3>1. Missing(x)' = 0
        <4>1. Len(files[x].data) \in Nat  BY <1>0, FileTypes
        <4> QED BY <1>10, <1>12, <4>1 DEF Missing
      <3>2. Uncounts(x)'  BY <3>1 DEF Uncounts
      <3>3. files'[x].closed = 1 \/ (files'[x].closed = 2 /\ ClosedTwice(x)')
        <4>1. CASE files[x].closed = 0  BY <1>10, <4>1
        <4>2. CASE files[x].closed = 1 /\ ShutTwice(mgr.job)
          <5>1. writers[o].error = "file" /\ writers[o].file = x
            BY <1>9, <4>2 DEF ShutTwice
          <5>2. ClosedTwice(x)'  BY <1>0, <5>1 DEF ClosedTwice
          <5> QED BY <1>10, <4>2, <5>2
        <4> QED BY <1>12, <4>1, <4>2
      <3> QED BY <2>2, <3>2, <3>3 DEF Told
    <2> QED BY <2>1, <2>2
  <1>16. ASSUME NEW w \in Writers PROVE WriterCounts(w)'
    <2>1. CASE ~Alive(w)  BY <1>0, <2>1 DEF WriterCounts, Alive
    <2>2. CASE Alive(w) /\ writers[w].file # x
      <3>1. writers[w].file \in DOMAIN files  BY <1>0, <2>2, OwnKnown
      <3>2. Kept(writers[w].file)  BY <1>11, <2>2, <3>1
      <3> QED BY <1>0, <1>1, <2>2, <3>2, CountsKept DEF Alive
    <2>3. CASE Alive(w) /\ writers[w].file = x
      <3>1. Means(w, x) /\ Means(o, x)  BY <1>0, <1>8, <1>9, <2>3, OwnKnown
      <3>2. w = o  BY <1>0, <1>9, <3>1, OneOwner
      <3>3. writers[w].error = "file"  BY <1>13, <2>3, <3>2
      <3>4. files[x].closed = 0  BY <1>9, <1>12, <2>3, <3>2 DEF ShutTwice
      <3>5. Len(files[x].data) - writers[w].frames \in 0..Loss(w)  BY <1>1, <2>3 DEF WriterCounts
      <3>6. Loss(w)' = Loss(w) /\ writers' = writers  BY <1>0 DEF Loss
      <3>7. Len(files'[writers'[w].file].data) - writers'[w].frames \in 0..Loss(w)'
        BY <1>10, <2>3, <3>5, <3>6
      <3>8. files'[writers'[w].file].closed = 1  BY <1>10, <2>3, <3>4, <3>6
      <3> QED BY <3>3, <3>6, <3>7, <3>8 DEF WriterCounts
    <2> QED BY <2>1, <2>2, <2>3
  <1>17. ASSUME NEW k \in Posts' PROVE CloseCounts(k)'
    <2>1. CASE ~Closes(k)'  BY <2>1 DEF CloseCounts
    <2>2. CASE Closes(k)'
      <3>1. Asking(Post(k)')  BY <2>2 DEF Closes, Asking
      <3>2. k # 0  BY <1>3, <3>1 DEF Post
      <3>3. k + 0 \in Posts /\ Post(k)' = Post(k + 0)  BY <1>4, <3>1 DEF PostsFrom
      <3>4. k \in Nat
        <4>1. mgr_queue' \in Seq(ToManager)  BY <1>0 DEF TypeInv
        <4>2. Len(mgr_queue') \in Nat  BY <4>1
        <4> QED BY <4>2 DEF Posts
      <3>5. PICK l \in Posts : l = k  BY <3>3, <3>4
      <3>6. Closes(l) /\ Post(k)' = Post(l)  BY <2>2, <3>3, <3>4, <3>5 DEF Closes
      <3>7. Post(l).file # x
        <4>1. Post(l).file = Post(0).file => l = 0  BY <1>1, <1>7, <3>6 DEF CloseOrder
        <4> QED BY <1>7, <1>9, <3>2, <3>5, <4>1
      <3>8. Kept(Post(l).file)
        <4>1. Post(l).file \in DOMAIN files  BY <1>0, <1>1, <3>6, CloseKnown
        <4> QED BY <1>11, <3>7, <4>1
      <3>9. \A j : ShutTwice(j) => ShutTwice(j)'  BY <1>0 DEF ShutTwice, Alive
      <3> QED BY <1>1, <3>6, <3>8, <3>9, CloseKept
    <2> QED BY <2>1, <2>2
  <1>18. FreshFiles'
    <2>0. \A i \in DOMAIN files : i # x /\ Blank(i) => Blank(i)'  BY <1>10 DEF Blank
    <2>1. ASSUME NEW w \in Writers, writers[w].next # None
          PROVE  Blank(writers[w].next)'
      <3>1. PICK i \in DOMAIN files : i = writers[w].next  BY <1>0, <2>1, OwnKnown
      <3>2. i # x
        <4> SUFFICES ASSUME i = x PROVE FALSE  OBVIOUS
        <4>1. Means(w, x) /\ Means(o, x)  BY <1>0, <1>8, <1>9, <3>1, OwnKnown
        <4>2. w = o  BY <1>0, <1>9, <4>1, OneOwner
        <4>3. writers[w].file < i /\ i <= writers[w].file
          BY <1>1, <1>13, <2>1, <3>1, <4>2 DEF AnswerOrder
        <4>4. writers[w].file \in Nat /\ x \in Nat  BY <1>0, <1>9, OwnKnown
        <4> QED BY <4>3, <4>4
      <3>3. Blank(i)  BY <1>1, <2>1, <3>1 DEF FreshFiles
      <3>4. Blank(i)'  BY <2>0, <3>2, <3>3
      <3>5. writers[w].next' = i  BY <1>0, <3>1
      <3> QED BY <3>4, <3>5 DEF Blank
    <2>2. ASSUME NEW w \in Writers, NEW k \in DOMAIN writer_queues[w], Answer(w, k)
          PROVE  Blank(writer_queues[w][k].file)'
      <3>1. PICK i \in DOMAIN files : i = writer_queues[w][k].file /\ Means(w, i)
        BY <1>0, <2>2, AnswerKnown
      <3>2. i # x
        <4> SUFFICES ASSUME i = x PROVE FALSE  OBVIOUS
        <4>1. Means(w, x) /\ Means(o, x)  BY <1>8, <1>9, <3>1
        <4>2. w = o  BY <1>0, <1>9, <4>1, OneOwner
        <4>3. writers[w].file < i /\ i <= writers[w].file
          BY <1>1, <1>13, <2>2, <3>1, <4>2 DEF AnswerOrder
        <4>4. writers[w].file \in Nat /\ x \in Nat  BY <1>0, <1>9, OwnKnown
        <4> QED BY <4>3, <4>4
      <3>3. Blank(i)  BY <1>1, <2>2, <3>1 DEF FreshFiles
      <3>4. Blank(i)'  BY <2>0, <3>2, <3>3
      <3>5. writer_queues[w][k].file' = i  BY <1>0, <3>1
      <3> QED BY <3>4, <3>5 DEF Blank
    <2>3. ASSUME NEW w \in Writers, NEW k \in DOMAIN writer_queues'[w], Answer(w, k)'
          PROVE  k \in DOMAIN writer_queues[w] /\ Answer(w, k)
      BY <1>0, <2>3 DEF Answer
    <2> QED BY <1>0, <2>1, <2>2, <2>3 DEF FreshFiles
  <1> QED BY <1>6, <1>15, <1>16, <1>17, <1>18 DEF HeadInv

\* the manager opens a file
LEMMA HeadsMade ==
    ASSUME IInv, StartsClean, HandleWanted, HeadInv
    PROVE  HeadInv'
  <1>0. /\ TypeInv /\ TypeInv' /\ FileInv /\ WriterInv /\ mgr \in Managers
        /\ mgr.pc \notin {"open", "dead"} /\ mgr.pc = "handle"
        /\ UNCHANGED <<mgr_queue, writers>> /\ EndLoop
    <2>1. [Next]_vars  BY DEF Next, Manager
    <2>2. mgr.pc = "handle" /\ EndLoop /\ UNCHANGED <<mgr_queue, writers>>
      BY DEF HandleWanted, Returned
    <2> QED BY <2>1, <2>2, TypeStep DEF IInv, TypeInv
  <1>1. /\ CloseOrder /\ AnswerOrder /\ FreshFiles /\ \A w \in Writers : WriterCounts(w)
        /\ \A k \in Posts : CloseCounts(k)
        /\ \A i \in DOMAIN files : Told(i)
    BY <1>0 DEF HeadInv
  <1>2. mgr'.job = NoJob  BY <1>0, EndLoopIs
  <1>3. ~Asking(mgr'.job)  BY <1>2 DEF Asking, NoJob
  <1>4. PostsFrom(0)  BY <1>0, <1>3, PostsSame
  <1>5. mgr.job \in HandleJobs  BY <1>0, HandleSent
  <1>6. PICK j \in HandleJobs :
            /\ writer_queues' = [writer_queues EXCEPT ![mgr.job.writer] = Append(@, j)]
            /\ j.writer = mgr.job.writer
            /\ \/ /\ j.file = Len(files) + 1
                  /\ files' = Append(files, [NewFile EXCEPT !.num = Len(files)])
               \/ /\ j = mgr.job
                  /\ files' = Append(files, [NewFile EXCEPT !.gone = TRUE])
    BY <1>0, HandleSent
  <1>7. PICK o \in Writers : o = mgr.job.writer  BY <1>5 DEF HandleJobs
  <1>8. o \in Queues /\ j \in ToWriter  BY QueueOne, WriterAssumption DEF ToWriter
  <1>9. /\ Len(files) \in Nat /\ DOMAIN files = 1..Len(files)
        /\ DOMAIN files' = 1..Len(files) + 1
        /\ \A i \in DOMAIN files : files'[i] = files[i]
        /\ files'[Len(files) + 1].closed = 0 /\ files'[Len(files) + 1].data = <<>>
    <2>1. files \in Seq(Files)  BY <1>0 DEF TypeInv
    <2>2. PICK f : files' = Append(files, f) /\ f.closed = 0 /\ f.data = <<>>
      BY <1>6 DEF NewFile
    <2> QED BY <2>1, <2>2
  <1>10. mgr.job.file = None
    <2>1. 0 \in Posts
      <3>1. mgr_queue \in Seq(ToManager)  BY <1>0 DEF TypeInv
      <3>2. Len(mgr_queue) \in Nat  BY <3>1
      <3> QED BY <3>2 DEF Posts
    <2>2. mgr.job.type = "handle"  BY <1>5 DEF HandleJobs
    <2> QED BY <1>1, <2>1, <2>2 DEF CloseOrder, Post
  <1>11. /\ \A p \in Queues : p # o => writer_queues'[p] = writer_queues[p]
         /\ DOMAIN writer_queues[o] = 1..Len(writer_queues[o])
         /\ DOMAIN writer_queues'[o] = 1..Len(writer_queues[o]) + 1
         /\ Len(writer_queues[o]) \in Nat
         /\ writer_queues'[o][Len(writer_queues[o]) + 1] = j
         /\ \A k \in DOMAIN writer_queues[o] : writer_queues'[o][k] = writer_queues[o][k]
    <2>1. writer_queues' = [writer_queues EXCEPT ![o] = Append(@, j)]  BY <1>6, <1>7
    <2> QED BY <1>0, <1>8, <2>1, GrownIs
  \* an answer is one that was there, or the last one, about the new file
  <1>12. ASSUME NEW w \in Writers, NEW k \in DOMAIN writer_queues'[w], Answer(w, k)'
         PROVE  \/ /\ k \in DOMAIN writer_queues[w] /\ Answer(w, k)
                   /\ writer_queues'[w][k] = writer_queues[w][k]
                \/ /\ w = o /\ k = Len(writer_queues[o]) + 1
                   /\ writer_queues'[w][k].file = Len(files) + 1
    <2>0. w \in Queues  BY QueueOne, WriterAssumption
    <2>1. CASE k \in DOMAIN writer_queues[w]
      <3>1. writer_queues'[w][k] = writer_queues[w][k]  BY <1>11, <2>0, <2>1
      <3> QED BY <1>12, <2>1, <3>1 DEF Answer
    <2>2. CASE k \notin DOMAIN writer_queues[w]
      <3>1. w = o  BY <1>11, <1>12, <2>0, <2>2
      <3>2. k = Len(writer_queues[o]) + 1  BY <1>11, <1>12, <2>2, <3>1
      <3>3. j.file # None  BY <1>11, <1>12, <3>1, <3>2 DEF Answer
      <3>4. j.file = Len(files) + 1  BY <1>6, <1>10, <3>3
      <3> QED BY <1>11, <3>1, <3>2, <3>4
    <2> QED BY <2>1, <2>2
  <1>13. \A w \in Writers : /\ writers[w].file < Len(files) + 1 /\ writers[w].next < Len(files) + 1
                            /\ \A k \in DOMAIN writer_queues[w] : Answer(w, k) =>
                                  writer_queues[w][k].file < Len(files) + 1
    <2> SUFFICES ASSUME NEW w \in Writers
                 PROVE  /\ writers[w].file < Len(files) + 1 /\ writers[w].next < Len(files) + 1
                        /\ \A k \in DOMAIN writer_queues[w] : Answer(w, k) =>
                              writer_queues[w][k].file < Len(files) + 1
      OBVIOUS
    <2>1. writers[w].file \in Nat /\ writers[w].next \in Nat
          /\ writers[w].file <= Len(files) /\ writers[w].next <= Len(files)
      BY <1>0, OwnKnown
    <2>2. \A k \in DOMAIN writer_queues[w] : Answer(w, k) =>
              writer_queues[w][k].file \in 1..Len(files)
      BY <1>0, AnswerKnown
    <2> QED BY <1>9, <2>1, <2>2
  <1>14. AnswerOrder'
    <2>1. ASSUME NEW w \in Writers, writers'[w].next # None
          PROVE  writers'[w].file < writers'[w].next
      BY <1>0, <1>1, <2>1 DEF AnswerOrder
    <2>2. ASSUME NEW w \in Writers, NEW k \in DOMAIN writer_queues'[w], Answer(w, k)'
          PROVE  /\ writers'[w].file < writer_queues'[w][k].file
                 /\ writers'[w].next < writer_queues'[w][k].file
      <3>1. CASE /\ k \in DOMAIN writer_queues[w] /\ Answer(w, k)
                 /\ writer_queues'[w][k] = writer_queues[w][k]
        BY <1>0, <1>1, <3>1 DEF AnswerOrder
      <3>2. CASE writer_queues'[w][k].file = Len(files) + 1
        BY <1>0, <1>13, <3>2
      <3> QED BY <1>12, <2>2, <3>1, <3>2
    <2>3. ASSUME NEW w \in Writers, NEW k \in DOMAIN writer_queues'[w],
                 NEW l \in DOMAIN writer_queues'[w], Answer(w, k)', Answer(w, l)', k < l
          PROVE  writer_queues'[w][k].file < writer_queues'[w][l].file
      <3>0. w \in Queues  BY QueueOne, WriterAssumption
      <3>1. CASE k \in DOMAIN writer_queues[w] /\ l \in DOMAIN writer_queues[w]
        <4>1. writer_queues'[w][k] = writer_queues[w][k] /\ writer_queues'[w][l] = writer_queues[w][l]
          BY <1>11, <3>0, <3>1
        <4>2. Answer(w, k) /\ Answer(w, l)  BY <2>3, <3>1, <4>1 DEF Answer
        <4> QED BY <1>1, <2>3, <3>1, <4>1, <4>2 DEF AnswerOrder
      <3>2. CASE l \notin DOMAIN writer_queues[w] /\ k \in DOMAIN writer_queues[w]
        <4>1. writer_queues'[w][k] = writer_queues[w][k]  BY <1>11, <3>0, <3>2
        <4>2. Answer(w, k)  BY <2>3, <3>2, <4>1 DEF Answer
        <4>3. writer_queues'[w][l].file = Len(files) + 1  BY <1>12, <2>3, <3>2
        <4> QED BY <1>13, <3>2, <4>1, <4>2, <4>3
      <3>3. CASE k \notin DOMAIN writer_queues[w]
        <4>1. w = o /\ k = Len(writer_queues[o]) + 1  BY <1>12, <2>3, <3>3
        <4>2. l \in 1..Len(writer_queues[o]) + 1  BY <1>11, <4>1
        <4> QED BY <1>11, <2>3, <4>1, <4>2
      <3> QED BY <3>1, <3>2, <3>3
    <2> QED BY <2>1, <2>2, <2>3 DEF AnswerOrder
  <1>15. CloseOrder'
    <2>0. \A k \in Posts' : Asking(Post(k)') => k \in Posts /\ Post(k)' = Post(k) /\ k # 0
      <3> SUFFICES ASSUME NEW k \in Posts', Asking(Post(k)')
                   PROVE  k \in Posts /\ Post(k)' = Post(k) /\ k # 0
        OBVIOUS
      <3>1. k # 0  BY <1>3 DEF Post
      <3> QED BY <1>0, <3>1 DEF Posts, Post
    <2>1. \A k \in Posts' : Post(k)'.type = "handle" => Post(k)'.file = None
      BY <1>1, <2>0 DEF CloseOrder, Asking
    <2>2. \A k \in Posts' : Closes(k)' => k \in Posts /\ Post(k)' = Post(k) /\ Closes(k)
      BY <2>0 DEF Closes, Asking
    <2> QED BY <1>0, <1>1, <2>1, <2>2 DEF CloseOrder
  <1>16. ErrorsStay /\ \A i \in DOMAIN files : Kept(i)
    BY <1>0, <1>9 DEF ErrorsStay, Kept
  <1>17. ASSUME NEW i \in DOMAIN files' PROVE Told(i)'
    <2>1. CASE i \in DOMAIN files  BY <1>1, <1>16, <2>1, ToldKept
    <2>2. CASE i \notin DOMAIN files
      <3>1. i = Len(files) + 1  BY <1>9, <2>2
      <3> QED BY <1>9, <3>1 DEF Told
    <2> QED BY <2>1, <2>2
  <1>18. ASSUME NEW w \in Writers PROVE WriterCounts(w)'
    <2>1. Alive(w) => Kept(writers[w].file)  BY <1>0, <1>16, OwnKnown
    <2>2. Alive(w)' => Alive(w)  BY <1>0 DEF Alive
    <2> QED BY <1>0, <1>1, <2>1, <2>2, CountsKept
  <1>19. ASSUME NEW k \in Posts' PROVE CloseCounts(k)'
    <2>1. CASE ~Closes(k)'  BY <2>1 DEF CloseCounts
    <2>2. CASE Closes(k)'
      <3>1. Asking(Post(k)')  BY <2>2 DEF Closes, Asking
      <3>2. k + 0 \in Posts /\ Post(k)' = Post(k + 0)  BY <1>4, <3>1 DEF PostsFrom
      <3>3. PICK l \in Posts : l = k + 0  BY <3>2
      <3>4. Closes(l) /\ Post(k)' = Post(l)  BY <2>2, <3>2, <3>3 DEF Closes
      <3>5. Kept(Post(l).file)  BY <1>0, <1>1, <1>16, <3>4, CloseKnown
      <3>6. \A i : ShutTwice(i) => ShutTwice(i)'  BY <1>0 DEF ShutTwice, Alive
      <3> QED BY <1>1, <3>4, <3>5, <3>6, CloseKept
    <2> QED BY <2>1, <2>2
  <1>20. FreshFiles'
    <2>0. \A i \in DOMAIN files : Blank(i) => Blank(i)'  BY <1>9 DEF Blank
    <2>1. ASSUME NEW w \in Writers, writers'[w].next # None
          PROVE  Blank(writers[w].next)'
      <3>1. PICK i \in DOMAIN files : i = writers[w].next  BY <1>0, <2>1, OwnKnown
      <3>2. Blank(i)  BY <1>0, <1>1, <2>1, <3>1 DEF FreshFiles
      <3>3. Blank(i)'  BY <2>0, <3>2
      <3>4. writers[w].next' = i  BY <1>0, <3>1
      <3> QED BY <3>3, <3>4 DEF Blank
    <2>2. ASSUME NEW w \in Writers, NEW k \in DOMAIN writer_queues'[w], Answer(w, k)'
          PROVE  Blank(writer_queues[w][k].file)'
      <3>1. CASE /\ k \in DOMAIN writer_queues[w] /\ Answer(w, k)
                 /\ writer_queues'[w][k] = writer_queues[w][k]
        <4>1. PICK i \in DOMAIN files : i = writer_queues[w][k].file  BY <1>0, <3>1, AnswerKnown
        <4>2. Blank(i)  BY <1>1, <3>1, <4>1 DEF FreshFiles
        <4>3. Blank(i)'  BY <2>0, <4>2
        <4>4. writer_queues'[w][k].file = i  BY <3>1, <4>1
        <4> QED BY <4>3, <4>4 DEF Blank
      <3>2. CASE writer_queues'[w][k].file = Len(files) + 1
        BY <1>9, <3>2 DEF Blank
      <3> QED BY <1>12, <2>2, <3>1, <3>2
    <2> QED BY <2>1, <2>2 DEF FreshFiles
  <1> QED BY <1>14, <1>15, <1>17, <1>18, <1>19, <1>20 DEF HeadInv

\* a writer has room for a block or it has not
LEMMA FitsNotSwitches ==
    ASSUME IInv, NEW w \in Writers, TakeFits(w) \/ TakeAsks(w)
    PROVE  ~TakeSwitches(w)
  <1>0. TypeInv /\ WriterInv /\ CountInv  BY DEF IInv
  <1>1. TakeJob(w) /\ Ready(w, "write")  BY <1>0, TakesIs
  <1>2. JobLen(w) \in Nat  BY <1>0, <1>1, Taken DEF JobLen
  <1>3. writers[w].size \in Nat
    <2>1. writers[w] \in WriterStates  BY <1>0, WriterIs
    <2> QED BY <2>1, WriterFields
  <1>4. Room(w) \in Int  BY <1>3, SizeAssumption DEF Room
  <1>5. PICK r \in Int, l \in Int : r = Room(w) /\ l = JobLen(w)  BY <1>2, <1>4
  <1>6. r >= l  BY <1>5 DEF TakeFits, TakeAsks
  <1>7. ~(r < l)  BY <1>6
  <1> QED BY <1>5, <1>7 DEF TakeSwitches

\* what a step of a writer does to its file and to the next one
LEMMA WriterFile ==
    ASSUME IInv, NEW w \in Writers, Writer(w)
    PROVE  /\ TakeSwitches(w) => writers[w].error = "no" /\ UNCHANGED files
           /\ \/ /\ ~TakeSwitches(w)
                 /\ writers'[w].file = writers[w].file
                 /\ \/ writers'[w].error = writers[w].error
                    \/ writers[w].error = "no" /\ writers'[w].error = "card"
                 /\ writers'[w].next = writers[w].next \/ NextHandle(w)
              \/ /\ TakeSwitches(w) /\ writers[w].next = None
                 /\ writers'[w].file = writers[w].file /\ writers'[w].next = None
                 /\ writers'[w].error = "file" /\ writers'[w].frames = writers[w].frames
              \/ /\ TakeSwitches(w) /\ writers[w].next # None
                 /\ writers'[w].file = writers[w].next /\ writers'[w].next = None
                 /\ writers'[w].error = "no" /\ writers'[w].frames = 0
  <1>0. TypeInv /\ WriterInv /\ CountInv  BY DEF IInv
  <1>1. CASE TakeSwitches(w)
    <2>1. writers[w].error = "no"
      <3>1. TakeJob(w) /\ Ready(w, "write")  BY <1>0, <1>1, TakesIs
      <3> QED BY <1>0, <3>1, Taken
    <2>2. UNCHANGED files  BY <1>1 DEF TakeSwitches
    <2>3. ~TakeFits(w) /\ ~TakeAsks(w)  BY <1>1, FitsNotSwitches
    <2>4. \/ /\ writers[w].next = None
             /\ writers'[w].file = writers[w].file /\ writers'[w].next = None
             /\ writers'[w].error = "file" /\ writers'[w].frames = writers[w].frames
          \/ /\ writers[w].next # None
             /\ writers'[w].file = writers[w].next /\ writers'[w].next = None
             /\ writers'[w].error = "no" /\ writers'[w].frames = 0
      BY <1>0, <1>1, <2>3, TakesIs
    <2> QED BY <1>1, <2>1, <2>2, <2>4
  <1>2. CASE ~TakeSwitches(w) /\ (TakeFits(w) \/ TakeAsks(w))
    <2>1. writers[w].error = "no"
      <3>1. TakeJob(w) /\ Ready(w, "write")  BY <1>0, <1>2, TakesIs
      <3> QED BY <1>0, <3>1, Taken
    <2>2. /\ writers'[w].file = writers[w].file /\ writers'[w].next = writers[w].next
          /\ writers'[w].error = "no"
      BY <1>0, <1>2, TakesIs
    <2> QED BY <1>2, <2>1, <2>2
  <1>3. CASE ~TakeSwitches(w) /\ NextHandle(w)
    <2>1. writers'[w].file = writers[w].file /\ writers'[w].error = writers[w].error
      BY <1>0, <1>3, NextHandleIs
    <2> QED BY <1>3, <2>1
  <1>4. CASE ~TakeSwitches(w) /\ TakeAbort(w)
    <2>1. writers'[w].file = writers[w].file /\ writers'[w].error = writers[w].error
          /\ writers'[w].next = writers[w].next
      BY <1>0, <1>4, AbortIs
    <2> QED BY <1>4, <2>1
  <1>5. CASE ~TakeSwitches(w) /\ WriteBlock(w)
    <2>1. writers'[w].file = writers[w].file /\ writers'[w].error = "no"
          /\ writers'[w].next = writers[w].next /\ writers[w].error = "no"
      BY <1>5, WriteIs
    <2> QED BY <1>5, <2>1
  <1>6. CASE ~TakeSwitches(w) /\ WriteFails(w)
    <2>1. writers'[w].file = writers[w].file /\ writers'[w].error = "card"
          /\ writers'[w].next = writers[w].next /\ writers[w].error = "no"
      BY <1>6, FailsIs
    <2> QED BY <1>6, <2>1
  <1>7. CASE ~TakeSwitches(w) /\ CloseFile(w)
    <2>1. writers'[w].file = writers[w].file /\ writers'[w].error = writers[w].error
          /\ writers'[w].next = writers[w].next
      BY <1>0, <1>7, CloseIs
    <2> QED BY <1>7, <2>1
  <1> QED BY <1>1, <1>2, <1>3, <1>4, <1>5, <1>6, <1>7 DEF Writer

\* a writer that failed only closes its file
LEMMA FailedCloses ==
    ASSUME IInv, NEW w \in Writers, Writer(w), writers[w].error # "no"
    PROVE  CloseFile(w)
  <1>0. WriterInv  BY DEF IInv
  <1>1. writers[w].pc \notin {"take", "write"}  BY <1>0 DEF WriterInv
  <1> QED BY <1>1 DEF Writer, NextHandle, TakeAbort, TakeFits, TakeAsks, TakeSwitches, TakeJob,
                      Ready, WriteBlock, WriteFails

LEMMA WriterErrors == ASSUME IInv, NEW w \in Writers, Writer(w) PROVE ErrorsStay
  <1>1. \A v \in Writers : v # w => writers'[v] = writers[v]  BY WriterEffects
  <1>2. ASSUME writers[w].error # "no"
        PROVE  /\ writers'[w].error = writers[w].error /\ writers'[w].file = writers[w].file
               /\ writers'[w].job = writers[w].job
    <2>1. CloseFile(w)  BY <1>2, FailedCloses
    <2> QED BY <2>1, CloseIs DEF IInv
  <1> QED BY <1>1, <1>2 DEF ErrorsStay

\* the requests after a step of a writer
LEMMA WriterPosts ==
    ASSUME IInv, CloseOrder, NEW w \in Writers, Writer(w)
    PROVE  /\ \A k \in Posts' : Post(k)'.type = "handle" => Post(k)'.file = None
           /\ \A k \in Posts' : Closes(k)' =>
                 \/ k \in Posts /\ Closes(k) /\ Post(k)' = Post(k)
                 \/ /\ TakeSwitches(w) /\ k = Len(mgr_queue) + 1 /\ k \notin Posts
                    /\ Post(k)'.writer = w /\ Post(k)'.file = writers[w].file
                    /\ Post(k)'.frames = writers[w].frames
  <1>0. TypeInv /\ WriterInv /\ CountInv /\ UNCHANGED mgr  BY WriterEffects DEF IInv
  <1>1. ASSUME UNCHANGED mgr_queue
        PROVE  /\ \A k \in Posts' : Post(k)'.type = "handle" => Post(k)'.file = None
               /\ \A k \in Posts' : Closes(k)' => k \in Posts /\ Closes(k) /\ Post(k)' = Post(k)
    <2>1. Posts' = Posts /\ \A k : Post(k)' = Post(k)  BY <1>0, <1>1 DEF Posts, Post
    <2> QED BY <2>1 DEF CloseOrder, Closes
  <1>2. ASSUME NEW j \in ToManager, mgr_queue' = Append(mgr_queue, j)
        PROVE  \A k \in Posts' : \/ k \in Posts /\ Post(k)' = Post(k)
                                 \/ k = Len(mgr_queue) + 1 /\ k \notin Posts /\ Post(k)' = j
    <2> SUFFICES ASSUME NEW k \in Posts'
                 PROVE  \/ k \in Posts /\ Post(k)' = Post(k)
                        \/ k = Len(mgr_queue) + 1 /\ k \notin Posts /\ Post(k)' = j
      OBVIOUS
    <2>1. /\ Len(mgr_queue') = Len(mgr_queue) + 1 /\ Len(mgr_queue) \in Nat
          /\ mgr_queue'[Len(mgr_queue) + 1] = j
          /\ \A i \in DOMAIN mgr_queue : mgr_queue'[i] = mgr_queue[i]
      BY <1>0, <1>2, SentIs
    <2>2. DOMAIN mgr_queue = 1..Len(mgr_queue)
      <3>1. mgr_queue \in Seq(ToManager)  BY <1>0 DEF TypeInv
      <3> QED BY <3>1
    <2>3. k \in 0..Len(mgr_queue) + 1  BY <2>1 DEF Posts
    <2>4. CASE k = Len(mgr_queue) + 1
      <3>1. k # 0 /\ k \notin 0..Len(mgr_queue)  BY <2>1, <2>4
      <3> QED BY <2>1, <2>4, <3>1 DEF Post, Posts
    <2>5. CASE k # Len(mgr_queue) + 1
      <3>1. k \in 0..Len(mgr_queue) /\ (k # 0 => k \in 1..Len(mgr_queue))  BY <2>1, <2>3, <2>5
      <3>2. Post(k)' = Post(k)
        <4>1. CASE k = 0  BY <1>0, <4>1 DEF Post
        <4>2. CASE k # 0  BY <2>1, <2>2, <3>1, <4>2 DEF Post
        <4> QED BY <4>1, <4>2
      <3> QED BY <3>1, <3>2 DEF Posts
    <2> QED BY <2>4, <2>5
  <1>3. \A k \in Posts : Post(k).type = "handle" => Post(k).file = None  BY DEF CloseOrder
  <1>4. CASE NextHandle(w) \/ TakeAbort(w) \/ TakeFits(w) \/ WriteFails(w) \/ CloseFile(w)
    <2>1. UNCHANGED mgr_queue
      BY <1>4 DEF NextHandle, TakeAbort, TakeFits, WriteFails, CloseFile
    <2> QED BY <1>1, <2>1
  <1>5. CASE TakeAsks(w)
    <2>1. PICK j : j = [type |-> "handle", writer |-> w, file |-> None, num |-> writers[w].num]
      OBVIOUS
    <2>2. writers[w].num \in Nat
      <3>1. writers[w] \in WriterStates  BY <1>0, WriterIs
      <3> QED BY <3>1, WriterFields
    <2>3. j \in ToManager /\ j.type = "handle" /\ j.file = None
      BY <2>1, <2>2 DEF ToManager, HandleJobs, None
    <2>4. mgr_queue' = Append(mgr_queue, j)  BY <1>5, <2>1 DEF TakeAsks
    <2>5. \A k \in Posts' : \/ k \in Posts /\ Post(k)' = Post(k)
                            \/ k = Len(mgr_queue) + 1 /\ k \notin Posts /\ Post(k)' = j
      BY <1>2, <2>3, <2>4
    <2> QED BY <1>3, <2>3, <2>5 DEF Closes
  <1>6. CASE WriteBlock(w)
    <2>1. PICK j \in WriteJobs : j = writers[w].job  BY <1>6, WriteIs
    <2>2. mgr_queue' = Append(mgr_queue, j) /\ j \in ToManager /\ j.type = "write"
      BY <1>6, <2>1, WriteIs DEF ToManager, WriteJobs
    <2>5. \A k \in Posts' : \/ k \in Posts /\ Post(k)' = Post(k)
                            \/ k = Len(mgr_queue) + 1 /\ k \notin Posts /\ Post(k)' = j
      BY <1>2, <2>2
    <2> QED BY <1>3, <2>2, <2>5 DEF Closes
  <1>7. CASE TakeSwitches(w)
    <2>1. PICK j : j = [type |-> "close", writer |-> w, file |-> writers[w].file,
                        num |-> writers[w].num, frames |-> writers[w].frames]
      OBVIOUS
    <2>2. writers[w].num \in Nat /\ writers[w].frames \in Nat /\ writers[w].file \in Nat
      <3>1. writers[w] \in WriterStates  BY <1>0, WriterIs
      <3> QED BY <3>1, WriterFields
    <2>3. j \in ToManager  BY <2>1, <2>2 DEF ToManager, CloseJobs
    <2>4. /\ j.type = "close" /\ j.writer = w /\ j.file = writers[w].file
          /\ j.frames = writers[w].frames
      BY <2>1
    <2>5. mgr_queue' = Append(mgr_queue, j)  BY <1>7, <2>1 DEF TakeSwitches
    <2>6. \A k \in Posts' : \/ k \in Posts /\ Post(k)' = Post(k)
                            \/ k = Len(mgr_queue) + 1 /\ k \notin Posts /\ Post(k)' = j
      BY <1>2, <2>3, <2>5
    <2> QED BY <1>3, <1>7, <2>4, <2>6 DEF Closes
  <1> QED BY <1>4, <1>5, <1>6, <1>7 DEF Writer

\* the answers after it
AnswersFrom(w, d) ==
    /\ \A v \in Writers : v # w => writer_queues'[v] = writer_queues[v]
    /\ \A k \in DOMAIN writer_queues'[w] :
          k \in Nat /\ k + d \in DOMAIN writer_queues[w]
          /\ writer_queues'[w][k] = writer_queues[w][k + d]
    /\ NextHandle(w) => /\ d = 1 /\ 1 \in DOMAIN writer_queues[w]
                        /\ writer_queues[w][1].type = "handle"
                        /\ writers'[w].next = writer_queues[w][1].file

LEMMA WriterAnswers ==
    ASSUME IInv, NEW w \in Writers, Writer(w)
    PROVE  \E d \in {0, 1} : AnswersFrom(w, d)
  <1>0. TypeInv /\ WriterInv /\ CountInv /\ w \in Queues /\ Writers \subseteq Queues
    BY QueueOne, WriterAssumption DEF IInv
  <1>1. ASSUME UNCHANGED writer_queues, ~NextHandle(w)
        PROVE  AnswersFrom(w, 0)
    <2>1. writer_queues[w] \in Seq(ToWriter)  BY <1>0 DEF TypeInv
    <2>2. \A k \in DOMAIN writer_queues[w] : k \in Nat /\ k + 0 = k  BY <2>1
    <2> QED BY <1>1, <2>2 DEF AnswersFrom
  <1>2. ASSUME writer_queues[w] # <<>>, Receive(w),
               NextHandle(w) => /\ Head(writer_queues[w]).type = "handle"
                                /\ writers'[w].next = Head(writer_queues[w]).file
        PROVE  AnswersFrom(w, 1)
    <2>1. /\ writer_queues' \in [Queues -> Seq(ToWriter)]
          /\ Head(writer_queues[w]) = writer_queues[w][1]
          /\ \A q \in Queues : q # w => writer_queues'[q] = writer_queues[q]
          /\ \A k \in DOMAIN writer_queues'[w] :
                k + 1 \in DOMAIN writer_queues[w]
                /\ writer_queues'[w][k] = writer_queues[w][k + 1]
          /\ 1 \in DOMAIN writer_queues[w]
      BY <1>0, <1>2, ReceiveIs
    <2>2. \A k \in DOMAIN writer_queues'[w] : k \in Nat
      <3>1. writer_queues'[w] \in Seq(ToWriter)  BY <1>0, <2>1
      <3> QED BY <3>1
    <2> QED BY <1>0, <1>2, <2>1, <2>2 DEF AnswersFrom
  <1>3. CASE NextHandle(w)
    <2>1. /\ writer_queues[w] # <<>> /\ Receive(w) /\ Head(writer_queues[w]) \in HandleJobs
          /\ writers'[w].next = Head(writer_queues[w]).file
      BY <1>0, <1>3, NextHandleIs
    <2>2. Head(writer_queues[w]).type = "handle"  BY <2>1 DEF HandleJobs
    <2> QED BY <1>2, <2>1, <2>2
  <1>4. CASE ~NextHandle(w) /\ TakeAbort(w)
    <2>1. writer_queues[w] # <<>> /\ Receive(w)  BY <1>0, <1>4, AbortIs
    <2> QED BY <1>2, <1>4, <2>1
  <1>5. CASE ~NextHandle(w) /\ (TakeFits(w) \/ TakeAsks(w) \/ TakeSwitches(w))
    <2>1. TakeJob(w) /\ Ready(w, "write")  BY <1>0, <1>5, TakesIs
    <2>2. writer_queues[w] # <<>> /\ Receive(w)  BY <1>0, <2>1, Taken
    <2> QED BY <1>2, <1>5, <2>2
  <1>6. CASE ~NextHandle(w) /\ (WriteBlock(w) \/ WriteFails(w) \/ CloseFile(w))
    <2>1. UNCHANGED writer_queues  BY <1>6 DEF WriteBlock, WriteFails, CloseFile
    <2> QED BY <1>1, <1>6, <2>1
  <1> QED BY <1>3, <1>4, <1>5, <1>6 DEF Writer

LEMMA WriterRuns ==
    ASSUME IInv, NEW w \in Writers, Writer(w)
    PROVE  /\ TypeInv /\ FileInv /\ WriterInv /\ CountInv /\ Alive(w) /\ UNCHANGED mgr
           /\ mgr.pc \notin {"open", "dead"} /\ writers[w].file \in DOMAIN files
           /\ \A v \in Writers : v # w => writers'[v] = writers[v]
  <1>1. TypeInv /\ FileInv /\ WriterInv /\ CountInv /\ FlowInv  BY DEF IInv
  <1>2. Alive(w) /\ UNCHANGED mgr /\ \A v \in Writers : v # w => writers'[v] = writers[v]
    BY WriterEffects
  <1>3. mgr.pc \notin {"open", "dead"}  BY <1>1, <1>2 DEF FlowInv, Before
  <1> QED BY <1>1, <1>2, <1>3, OwnKnown

\* the file of a writer is not one that any writer will get, nor another's
LEMMA NotOwn ==
    ASSUME TypeInv, FileInv, WriterInv, AnswerOrder, mgr.pc \notin {"open", "dead"},
           NEW w \in Writers, NEW v \in Writers, writers[w].file \in DOMAIN files
    PROVE  /\ Alive(v) /\ v # w => writers[v].file # writers[w].file
           /\ writers[v].next # None => writers[v].next # writers[w].file
           /\ \A k : Answer(v, k) => writer_queues[v][k].file # writers[w].file
  <1>1. PICK i \in DOMAIN files : i = writers[w].file  OBVIOUS
  <1>2. i \in Nat /\ Means(w, i)  BY <1>1, OwnKnown
  <1>3. Alive(v) /\ v # w => writers[v].file # i
    <2> SUFFICES ASSUME writers[v].file = i PROVE v = w  OBVIOUS
    <2>1. Means(v, i)  BY OwnKnown
    <2> QED BY <1>2, <2>1, OneOwner
  <1>4. ASSUME writers[v].next # None, writers[v].next = i PROVE FALSE
    <2>1. Means(v, i)  BY <1>4, OwnKnown
    <2>2. v = w  BY <1>2, <2>1, OneOwner
    <2>3. writers[w].file < writers[w].next  BY <1>4, <2>2 DEF AnswerOrder
    <2> QED BY <1>1, <1>2, <1>4, <2>2, <2>3
  <1>5. ASSUME NEW k, Answer(v, k), writer_queues[v][k].file = i PROVE FALSE
    <2>1. Means(v, i)  BY <1>5, AnswerKnown
    <2>2. v = w  BY <1>2, <2>1, OneOwner
    <2>3. writers[w].file < writer_queues[w][k].file
      <3>1. k \in DOMAIN writer_queues[w]  BY <1>5, <2>2 DEF Answer
      <3> QED BY <1>5, <2>2, <3>1 DEF AnswerOrder
    <2> QED BY <1>1, <1>2, <1>5, <2>2, <2>3
  <1> QED BY <1>1, <1>3, <1>4, <1>5

\* what a step of a writer does to the files
LEMMA WriterFiles ==
    ASSUME IInv, NEW w \in Writers, Writer(w)
    PROVE  /\ DOMAIN files' = DOMAIN files
           /\ \A i \in DOMAIN files : i # writers[w].file => Kept(i)
           /\ \/ /\ NextHandle(w) \/ TakeAbort(w) \/ TakeFits(w) \/ TakeAsks(w) \/ TakeSwitches(w)
                 /\ Kept(writers[w].file)
              \/ /\ WriteBlock(w)
                 /\ files'[writers[w].file].closed = files[writers[w].file].closed
                 /\ Len(files'[writers[w].file].data)
                       = Len(files[writers[w].file].data) + writers[w].job.len
              \/ /\ WriteFails(w)
                 /\ files'[writers[w].file].closed = files[writers[w].file].closed
                 /\ Len(files'[writers[w].file].data) - Len(files[writers[w].file].data)
                       \in 0..writers[w].job.len
              \/ /\ CloseFile(w)
                 /\ files'[writers[w].file].data = files[writers[w].file].data
                 /\ files'[writers[w].file].count = writers[w].frames
                 /\ files'[writers[w].file].closed = files[writers[w].file].closed + 1
  <1>0. TypeInv /\ WriterInv /\ writers[w].file \in DOMAIN files /\ files \in Seq(Files)
    BY WriterRuns DEF TypeInv
  <1>1. PICK x \in DOMAIN files : x = writers[w].file  BY <1>0
  <1>2. x \in Nat /\ files[x].data \in Seq(0..MaxFrames)  BY <1>0, FileTypes
  <1>3. CASE NextHandle(w) \/ TakeAbort(w) \/ TakeFits(w) \/ TakeAsks(w) \/ TakeSwitches(w)
    <2>1. UNCHANGED files
      BY <1>3 DEF NextHandle, TakeAbort, TakeFits, TakeAsks, TakeSwitches
    <2>2. \A i \in DOMAIN files : Kept(i)  BY <2>1 DEF Kept
    <2> QED BY <1>0, <1>3, <2>1, <2>2
  <1>4. CASE WriteBlock(w)
    <2>1. PICK d \in Seq(0..MaxFrames) : d = FramesOf(writers[w].job)  BY <1>4, WriteIs
    <2>2. Len(d) = writers[w].job.len  BY <1>4, <2>1, WriteIs
    <2>3. files' = [files EXCEPT ![x].data = @ \o d]  BY <1>1, <1>4, <2>1, WriteIs
    <2>4. /\ DOMAIN files' = DOMAIN files
          /\ \A k \in DOMAIN files : k # x => files'[k] = files[k]
          /\ files'[x].data = files[x].data \o d /\ files'[x].closed = files[x].closed
      BY <1>0, <1>2, <2>3, DataStep
    <2>5. Len(files'[x].data) = Len(files[x].data) + Len(d)  BY <1>2, <2>4
    <2> QED BY <1>1, <1>4, <2>2, <2>4, <2>5 DEF Kept
  <1>5. CASE WriteFails(w)
    <2>1. PICK d \in Seq(0..MaxFrames) :
              /\ Len(d) <= writers[w].job.len
              /\ files' = [files EXCEPT ![writers[w].file].data = @ \o d]
      BY <1>5, FailsIs
    <2>2. files' = [files EXCEPT ![x].data = @ \o d]  BY <1>1, <2>1
    <2>3. writers[w].job.len \in Nat  BY <1>5, FailsIs
    <2>4. /\ DOMAIN files' = DOMAIN files
          /\ \A k \in DOMAIN files : k # x => files'[k] = files[k]
          /\ files'[x].data = files[x].data \o d /\ files'[x].closed = files[x].closed
      BY <1>0, <1>2, <2>2, DataStep
    <2>5. Len(files'[x].data) = Len(files[x].data) + Len(d) /\ Len(d) \in Nat
          /\ Len(files[x].data) \in Nat
      BY <1>2, <2>4
    <2>6. Len(files'[x].data) - Len(files[x].data) \in 0..writers[w].job.len
      <3>1. PICK a \in Nat, b \in Nat, c, m \in Nat :
                /\ a = Len(files[x].data) /\ b = Len(d) /\ c = Len(files'[x].data)
                /\ m = writers[w].job.len
        BY <2>3, <2>5
      <3>2. c = a + b /\ b <= m  BY <2>1, <2>5, <3>1
      <3>3. c - a \in 0..m  BY <3>2
      <3> QED BY <3>1, <3>3
    <2> QED BY <1>1, <1>5, <2>4, <2>6 DEF Kept
  <1>6. CASE CloseFile(w)
    <2>1. PICK n \in Nat, c \in Nat : n = writers[w].num /\ c = writers[w].frames
      BY <1>0, <1>6, CloseIs
    <2>2. files' = Closed(x, n, c)  BY <1>0, <1>1, <1>6, <2>1, CloseIs
    <2>3. /\ DOMAIN files' = DOMAIN files
          /\ \A i \in DOMAIN files : i # x => files'[i] = files[i]
          /\ files'[x].data = files[x].data /\ files'[x].count = c
          /\ files'[x].closed = files[x].closed + 1
      BY <1>0, <2>2, FileClosed
    <2> QED BY <1>1, <1>6, <2>1, <2>3 DEF Kept
  <1> QED BY <1>3, <1>4, <1>5, <1>6 DEF Writer

\* the answers after a step of a writer
LEMMA OrderOfWriters ==
    ASSUME IInv, AnswerOrder, NEW w \in Writers, Writer(w)
    PROVE  AnswerOrder'
  <1>0. /\ TypeInv /\ FileInv /\ WriterInv /\ mgr.pc \notin {"open", "dead"}
        /\ \A v \in Writers : v # w => writers'[v] = writers[v]
        /\ writers[w].file \in Nat /\ writers[w].next \in Nat
    BY WriterRuns, OwnKnown
  <1>1. PICK d \in {0, 1} : AnswersFrom(w, d)  BY WriterAnswers
  <1>2. ASSUME NEW k \in DOMAIN writer_queues'[w], Answer(w, k)'
        PROVE  /\ k \in Nat /\ Answer(w, k + d)
               /\ writer_queues'[w][k] = writer_queues[w][k + d]
               /\ writer_queues'[w][k].file \in Nat /\ writer_queues'[w][k].file # 0
    <2>1. k \in Nat /\ k + d \in DOMAIN writer_queues[w]
          /\ writer_queues'[w][k] = writer_queues[w][k + d]
      BY <1>1 DEF AnswersFrom
    <2>2. PICK l : l = k + d  OBVIOUS
    <2>3. Answer(w, l)  BY <1>2, <2>1, <2>2 DEF Answer
    <2>4. writer_queues[w][l].file \in 1..Len(files) /\ Len(files) \in Nat
      <3>1. files \in Seq(Files)  BY <1>0 DEF TypeInv
      <3> QED BY <1>0, <2>3, <3>1, AnswerKnown
    <2> QED BY <2>1, <2>2, <2>3, <2>4
  \* the next file, if there is one, is the one that was, or the one of the answer
  <1>3. \/ writers'[w].next = writers[w].next /\ writers'[w].file = writers[w].file
        \/ writers'[w].next = None /\ writers'[w].file = writers[w].file
        \/ /\ writers'[w].next = None /\ writers[w].next # None
           /\ writers'[w].file = writers[w].next
        \/ /\ NextHandle(w) /\ writers'[w].file = writers[w].file /\ d = 1
           /\ 1 \in DOMAIN writer_queues[w]
           /\ writer_queues[w][1].type = "handle"
           /\ writers'[w].next = writer_queues[w][1].file
    BY <1>1, WriterFile DEF AnswersFrom
  <1>4. ASSUME writers'[w].next # None
        PROVE  writers'[w].file < writers'[w].next
    <2>1. CASE writers'[w].next = writers[w].next /\ writers'[w].file = writers[w].file
      BY <1>4, <2>1 DEF AnswerOrder
    <2>2. CASE /\ writers'[w].file = writers[w].file
               /\ 1 \in DOMAIN writer_queues[w]
               /\ writer_queues[w][1].type = "handle"
               /\ writers'[w].next = writer_queues[w][1].file
      <3>1. Answer(w, 1)  BY <1>4, <2>2 DEF Answer
      <3> QED BY <2>2, <3>1 DEF AnswerOrder
    <2> QED BY <1>3, <1>4, <2>1, <2>2
  <1>5. ASSUME NEW k \in DOMAIN writer_queues'[w], Answer(w, k)'
        PROVE  /\ writers'[w].file < writer_queues'[w][k].file
               /\ writers'[w].next < writer_queues'[w][k].file
    <2>1. PICK l, f \in Nat : /\ l = k + d /\ Answer(w, l) /\ f = writer_queues[w][l].file
                              /\ f # 0 /\ f = writer_queues'[w][k].file
      BY <1>2, <1>5
    <2>2. writers[w].file < f /\ writers[w].next < f  BY <2>1 DEF AnswerOrder, Answer
    <2>3. CASE writers'[w].next = writers[w].next /\ writers'[w].file = writers[w].file
      BY <2>1, <2>2, <2>3
    <2>4. CASE writers'[w].next = None /\ writers'[w].file = writers[w].file
      BY <2>1, <2>2, <2>4 DEF None
    <2>5. CASE writers'[w].next = None /\ writers'[w].file = writers[w].next
      BY <2>1, <2>2, <2>5 DEF None
    <2>6. CASE /\ writers'[w].file = writers[w].file /\ d = 1
               /\ 1 \in DOMAIN writer_queues[w]
               /\ writer_queues[w][1].type = "handle"
               /\ writers'[w].next = writer_queues[w][1].file
      <3>1. CASE writer_queues[w][1].file = None  BY <2>1, <2>2, <2>6, <3>1 DEF None
      <3>2. CASE writer_queues[w][1].file # None
        <4>1. Answer(w, 1)  BY <2>6, <3>2 DEF Answer
        <4>2. k \in Nat /\ k # 0
          <5>1. w \in Queues  BY QueueOne, WriterAssumption
          <5>2. writer_queues' \in [Queues -> Seq(ToWriter)]
            <6>1. TypeInv'
              <7>1. [Next]_vars  BY DEF Next
              <7> QED BY <7>1, TypeStep
            <6> QED BY <6>1 DEF TypeInv
          <5>3. writer_queues'[w] \in Seq(ToWriter)  BY <5>1, <5>2
          <5> QED BY <5>3
        <4>3. 1 < l  BY <2>1, <2>6, <4>2
        <4>4. writer_queues[w][1].file < f
          <5>1. l \in DOMAIN writer_queues[w]  BY <2>1 DEF Answer
          <5> QED BY <2>1, <2>6, <4>1, <4>3, <5>1 DEF AnswerOrder
        <4> QED BY <2>1, <2>2, <2>6, <4>4
      <3> QED BY <3>1, <3>2
    <2> QED BY <1>3, <2>3, <2>4, <2>5, <2>6
  <1>6. ASSUME NEW k \in DOMAIN writer_queues'[w], NEW l \in DOMAIN writer_queues'[w],
               Answer(w, k)', Answer(w, l)', k < l
        PROVE  writer_queues'[w][k].file < writer_queues'[w][l].file
    <2>1. /\ k \in Nat /\ l \in Nat /\ Answer(w, k + d) /\ Answer(w, l + d)
          /\ writer_queues'[w][k] = writer_queues[w][k + d]
          /\ writer_queues'[w][l] = writer_queues[w][l + d]
      BY <1>2, <1>6
    <2>2. PICK a, b : a = k + d /\ b = l + d  OBVIOUS
    <2>3. a < b  BY <1>6, <2>1, <2>2
    <2>4. /\ Answer(w, a) /\ Answer(w, b) /\ writer_queues'[w][k] = writer_queues[w][a]
          /\ writer_queues'[w][l] = writer_queues[w][b]
          /\ a \in DOMAIN writer_queues[w] /\ b \in DOMAIN writer_queues[w]
      BY <2>1, <2>2 DEF Answer
    <2> QED BY <2>3, <2>4 DEF AnswerOrder
  <1>7. ASSUME NEW v \in Writers, v # w
        PROVE  writers'[v] = writers[v] /\ writer_queues'[v] = writer_queues[v]
    BY <1>0, <1>1, <1>7 DEF AnswersFrom
  <1>8. ASSUME NEW v \in Writers
        PROVE  writers'[v].next # None => writers'[v].file < writers'[v].next
    BY <1>4, <1>7 DEF AnswerOrder
  <1>9. ASSUME NEW v \in Writers, NEW k \in DOMAIN writer_queues'[v], Answer(v, k)'
        PROVE  /\ writers'[v].file < writer_queues'[v][k].file
               /\ writers'[v].next < writer_queues'[v][k].file
    <2>1. CASE v = w  BY <1>5, <1>9, <2>1
    <2>2. CASE v # w
      <3>1. writers'[v] = writers[v] /\ writer_queues'[v] = writer_queues[v]  BY <1>7, <2>2
      <3>2. k \in DOMAIN writer_queues[v] /\ Answer(v, k)  BY <1>9, <3>1 DEF Answer
      <3> QED BY <3>1, <3>2 DEF AnswerOrder
    <2> QED BY <2>1, <2>2
  <1>10. ASSUME NEW v \in Writers, NEW k \in DOMAIN writer_queues'[v],
                NEW l \in DOMAIN writer_queues'[v], Answer(v, k)', Answer(v, l)', k < l
         PROVE  writer_queues'[v][k].file < writer_queues'[v][l].file
    <2>1. CASE v = w  BY <1>6, <1>10, <2>1
    <2>2. CASE v # w
      <3>1. writer_queues'[v] = writer_queues[v]  BY <1>7, <2>2
      <3>2. /\ k \in DOMAIN writer_queues[v] /\ Answer(v, k)
            /\ l \in DOMAIN writer_queues[v] /\ Answer(v, l)
        BY <1>10, <3>1 DEF Answer
      <3> QED BY <1>10, <3>1, <3>2 DEF AnswerOrder
    <2> QED BY <2>1, <2>2
  <1> QED BY <1>8, <1>9, <1>10 DEF AnswerOrder

\* a request to close the file of a writer that has not ended is its own, from
\* when it found no next file
LEMMA OwnClose ==
    ASSUME TypeInv, FileInv, WriterInv, CloseOrder, mgr.pc \notin {"open", "dead"},
           NEW w \in Writers, NEW k \in Posts, Closes(k),
           writers[w].file \in DOMAIN files, Post(k).file = writers[w].file
    PROVE  Post(k).writer = w /\ writers[w].error = "file"
  <1>1. PICK i \in DOMAIN files, v \in Writers : i = Post(k).file /\ v = Post(k).writer
    BY CloseKnown
  <1>2. Means(v, i)  BY <1>1, CloseKnown
  <1>3. Means(w, i)  BY <1>1, OwnKnown
  <1>4. v = w  BY <1>2, <1>3, OneOwner
  <1> QED BY <1>1, <1>4 DEF CloseOrder

LEMMA ClosesOfWriters ==
    ASSUME IInv, AnswerOrder, CloseOrder, NEW w \in Writers, Writer(w)
    PROVE  CloseOrder'
  <1>0. /\ TypeInv /\ FileInv /\ WriterInv /\ mgr.pc \notin {"open", "dead"}
        /\ \A v \in Writers : v # w => writers'[v] = writers[v]
        /\ writers[w].file \in Nat /\ writers[w].next \in Nat
        /\ writers[w].file \in DOMAIN files /\ DOMAIN files = 1..Len(files)
    BY WriterRuns, OwnKnown
  <1>1. /\ \A k \in Posts' : Post(k)'.type = "handle" => Post(k)'.file = None
        /\ \A k \in Posts' : Closes(k)' =>
              \/ k \in Posts /\ Closes(k) /\ Post(k)' = Post(k)
              \/ /\ TakeSwitches(w) /\ k = Len(mgr_queue) + 1 /\ k \notin Posts
                 /\ Post(k)'.writer = w /\ Post(k)'.file = writers[w].file
                 /\ Post(k)'.frames = writers[w].frames
    BY WriterPosts
  <1>2. ErrorsStay  BY WriterErrors
  \* the file of the writer after the step
  <1>3. /\ writers'[w].file \in Nat
        /\ \/ writers'[w].file = writers[w].file
           \/ writers[w].file < writers'[w].file
        /\ TakeSwitches(w) /\ writers'[w].file = writers[w].file => writers'[w].error = "file"
    <2>1. writers[w].next # None => writers[w].file < writers[w].next  BY DEF AnswerOrder
    <2>2. CASE writers'[w].file = writers[w].file /\ (TakeSwitches(w) => writers'[w].error = "file")
      BY <1>0, <2>2
    <2>3. CASE writers[w].next # None /\ writers'[w].file = writers[w].next
      BY <1>0, <2>1, <2>3
    <2> QED BY <2>2, <2>3, WriterFile
  <1>4. ASSUME NEW k \in Posts', Closes(k)'
        PROVE  /\ Post(k)'.file # None /\ Post(k)'.file <= writers'[Post(k)'.writer].file
               /\ Post(k)'.file = writers'[Post(k)'.writer].file =>
                     writers'[Post(k)'.writer].error = "file"
    <2>1. CASE k \in Posts /\ Closes(k) /\ Post(k)' = Post(k)
      <3>1. PICK i \in Nat, v \in Writers : i = Post(k).file /\ v = Post(k).writer
        <4>1. Len(files) \in Nat
          <5>1. files \in Seq(Files)  BY <1>0 DEF TypeInv
          <5> QED BY <5>1
        <4> QED BY <1>0, <2>1, <4>1, CloseKnown
      <3>2. i # None /\ i <= writers[v].file /\ (i = writers[v].file => writers[v].error = "file")
        BY <2>1, <3>1 DEF CloseOrder
      <3>3. i <= writers'[v].file /\ (i = writers'[v].file => writers'[v].error = "file")
        <4>1. CASE v # w  BY <1>0, <3>2, <4>1
        <4>2. CASE v = w /\ writers'[w].file = writers[w].file
          BY <1>2, <3>2, <4>2 DEF ErrorsStay
        <4>3. CASE v = w /\ writers[w].file < writers'[w].file
          BY <1>0, <1>3, <3>2, <4>3
        <4> QED BY <1>3, <4>1, <4>2, <4>3
      <3> QED BY <2>1, <3>1, <3>2, <3>3
    <2>2. CASE /\ TakeSwitches(w) /\ Post(k)'.writer = w /\ Post(k)'.file = writers[w].file
      <3>1. writers[w].file # None
        <4>1. Len(files) \in Nat
          <5>1. files \in Seq(Files)  BY <1>0 DEF TypeInv
          <5> QED BY <5>1
        <4> QED BY <1>0, <4>1 DEF None
      <3> QED BY <1>0, <1>3, <2>2, <3>1
    <2> QED BY <1>1, <1>4, <2>1, <2>2
  <1>5. ASSUME NEW k \in Posts, Closes(k), Post(k).file = writers[w].file, TakeSwitches(w)
        PROVE  FALSE
    <2>1. writers[w].error = "file"  BY <1>0, <1>5, OwnClose
    <2>2. writers[w].error = "no"  BY <1>5, WriterFile
    <2> QED BY <2>1, <2>2
  <1>6. ASSUME NEW k \in Posts', NEW l \in Posts', Closes(k)', Closes(l)',
               Post(k)'.file = Post(l)'.file
        PROVE  k = l
    <2>1. CASE /\ k \in Posts /\ Closes(k) /\ Post(k)' = Post(k)
               /\ l \in Posts /\ Closes(l) /\ Post(l)' = Post(l)
      BY <1>6, <2>1 DEF CloseOrder
    <2>2. CASE /\ k \in Posts /\ Closes(k) /\ Post(k)' = Post(k)
               /\ TakeSwitches(w) /\ Post(l)'.file = writers[w].file
      BY <1>5, <1>6, <2>2
    <2>3. CASE /\ l \in Posts /\ Closes(l) /\ Post(l)' = Post(l)
               /\ TakeSwitches(w) /\ Post(k)'.file = writers[w].file
      BY <1>5, <1>6, <2>3
    <2>4. CASE k = Len(mgr_queue) + 1 /\ l = Len(mgr_queue) + 1  BY <2>4
    <2> QED BY <1>1, <1>6, <2>1, <2>2, <2>3, <2>4
  <1> QED BY <1>1, <1>4, <1>6 DEF CloseOrder

\* the files that writers will get have nothing in them
LEMMA FreshOfWriters ==
    ASSUME IInv, AnswerOrder, FreshFiles, NEW w \in Writers, Writer(w)
    PROVE  FreshFiles'
  <1>0. /\ TypeInv /\ FileInv /\ WriterInv /\ mgr.pc \notin {"open", "dead"}
        /\ \A v \in Writers : v # w => writers'[v] = writers[v]
        /\ writers[w].file \in DOMAIN files
    BY WriterRuns
  <1>1. PICK d \in {0, 1} : AnswersFrom(w, d)  BY WriterAnswers
  <1>2. ASSUME NEW i \in DOMAIN files, i # writers[w].file, Blank(i)
        PROVE  Blank(i)'
    <2>1. Kept(i)  BY <1>2, WriterFiles
    <2> QED BY <1>2, <2>1 DEF Kept, Blank
  \* an answer that was there
  <1>3. ASSUME NEW v \in Writers, NEW k, Answer(v, k), NEW i, i = writer_queues[v][k].file
        PROVE  Blank(i)'
    <2>1. i \in DOMAIN files  BY <1>0, <1>3, AnswerKnown
    <2>2. i # writers[w].file  BY <1>0, <1>3, NotOwn
    <2>3. Blank(i)
      <3>1. k \in DOMAIN writer_queues[v]  BY <1>3 DEF Answer
      <3> QED BY <1>3, <3>1 DEF FreshFiles
    <2> QED BY <1>2, <2>1, <2>2, <2>3
  <1>4. ASSUME NEW v \in Writers, writers[v].next # None, NEW i, i = writers[v].next
        PROVE  Blank(i)'
    <2>1. i \in DOMAIN files  BY <1>0, <1>4, OwnKnown
    <2>2. i # writers[w].file  BY <1>0, <1>4, NotOwn
    <2>3. Blank(i)  BY <1>4 DEF FreshFiles
    <2> QED BY <1>2, <2>1, <2>2, <2>3
  <1>5. ASSUME NEW v \in Writers, writers'[v].next # None
        PROVE  Blank(writers[v].next)'
    <2>1. PICK i : i = writers'[v].next  OBVIOUS
    <2>2. Blank(i)'
      <3>1. CASE writers'[v].next = writers[v].next  BY <1>4, <1>5, <2>1, <3>1
      <3>2. CASE /\ v = w /\ NextHandle(w)
        <4>1. /\ 1 \in DOMAIN writer_queues[w] /\ writer_queues[w][1].type = "handle"
              /\ writers'[w].next = writer_queues[w][1].file
          BY <1>1, <3>2 DEF AnswersFrom
        <4>2. Answer(w, 1)  BY <1>5, <3>2, <4>1 DEF Answer
        <4> QED BY <1>3, <2>1, <3>2, <4>1, <4>2
      <3>3. CASE v # w  BY <1>0, <3>1, <3>3
      <3> QED BY <1>5, <3>1, <3>2, <3>3, WriterFile
    <2> QED BY <2>1, <2>2 DEF Blank
  <1>6. ASSUME NEW v \in Writers, NEW k \in DOMAIN writer_queues'[v], Answer(v, k)'
        PROVE  Blank(writer_queues[v][k].file)'
    <2>1. PICK l : Answer(v, l) /\ writer_queues'[v][k] = writer_queues[v][l]
      <3>1. CASE v # w
        <4>1. writer_queues'[v] = writer_queues[v]  BY <1>1, <3>1 DEF AnswersFrom
        <4> QED BY <1>6, <4>1 DEF Answer
      <3>2. CASE v = w
        <4>1. k + d \in DOMAIN writer_queues[w]
              /\ writer_queues'[w][k] = writer_queues[w][k + d]
          BY <1>1, <1>6, <3>2 DEF AnswersFrom
        <4>2. PICK l : l = k + d  OBVIOUS
        <4>3. Answer(w, l)  BY <1>6, <3>2, <4>1, <4>2 DEF Answer
        <4> QED BY <3>2, <4>1, <4>2, <4>3
      <3> QED BY <3>1, <3>2
    <2>2. PICK i : i = writer_queues[v][l].file  OBVIOUS
    <2>3. Blank(i)'  BY <1>3, <2>1, <2>2
    <2>4. writer_queues'[v][k].file = i  BY <2>1, <2>2
    <2> QED BY <2>3, <2>4 DEF Blank
  <1> QED BY <1>5, <1>6 DEF FreshFiles

\* what a writer counts in its file
LEMMA CountsOfWriters ==
    ASSUME IInv, AnswerOrder, FreshFiles, \A v \in Writers : WriterCounts(v),
           NEW w \in Writers, Writer(w), NEW v \in Writers
    PROVE  WriterCounts(v)'
  <1>0. /\ TypeInv /\ FileInv /\ WriterInv /\ CountInv /\ mgr.pc \notin {"open", "dead"}
        /\ Alive(w) /\ writers[w].file \in DOMAIN files
    BY WriterRuns
  <1>1. /\ \A i \in DOMAIN files : i # writers[w].file => Kept(i)
        /\ \A u \in Writers : u # w => writers'[u] = writers[u]
    BY WriterFiles, WriterRuns
  <1>2. /\ Len(files[writers[w].file].data) - writers[w].frames \in 0..Loss(w)
        /\ files[writers[w].file].closed <= (IF writers[w].error = "file" THEN 1 ELSE 0)
    BY <1>0 DEF WriterCounts
  <1>3. /\ Len(files[writers[w].file].data) \in Nat /\ writers[w].frames \in Nat
        /\ files[writers[w].file].closed \in Nat
    BY <1>0, FileTypes, OwnKnown
  <1>4. PICK x \in DOMAIN files, a, f, c \in Nat :
            /\ x = writers[w].file /\ a = Len(files[x].data) /\ f = writers[w].frames
            /\ c = files[x].closed
    BY <1>0, <1>3
  <1>5. ASSUME writers[w].error = "no" PROVE a = f /\ c = 0
    <2>1. Loss(w) = 0  BY <1>5 DEF Loss
    <2> QED BY <1>2, <1>4, <1>5, <2>1
  <1>6. CASE v # w
    <2>1. writers'[v] = writers[v]  BY <1>1, <1>6
    <2>2. Alive(v) => Kept(writers[v].file)
      <3> SUFFICES ASSUME Alive(v) PROVE Kept(writers[v].file)  OBVIOUS
      <3>1. writers[v].file \in DOMAIN files  BY <1>0, OwnKnown
      <3>2. writers[v].file # writers[w].file  BY <1>0, <1>6, NotOwn
      <3> QED BY <1>1, <3>1, <3>2
    <2> QED BY <2>1, <2>2, CountsKept DEF Alive
  <1>7. CASE v = w /\ (NextHandle(w) \/ TakeAbort(w))
    <2>1. /\ writers'[w].file = writers[w].file /\ writers'[w].frames = writers[w].frames
          /\ writers'[w].error = writers[w].error /\ writers'[w].job = writers[w].job
      BY <1>0, <1>7, NextHandleIs, AbortIs
    <2>2. UNCHANGED files  BY <1>7 DEF NextHandle, TakeAbort
    <2>3. Kept(writers[w].file)  BY <2>2 DEF Kept
    <2> QED BY <1>0, <1>7, <2>1, <2>3, CountsKept
  <1>8. CASE v = w /\ (TakeFits(w) \/ TakeAsks(w))
    <2>1. writers[w].error = "no"
      <3>1. TakeJob(w) /\ Ready(w, "write")  BY <1>0, <1>8, TakesIs
      <3> QED BY <1>0, <3>1, Taken
    <2>2. UNCHANGED files  BY <1>8 DEF TakeFits, TakeAsks
    <2>3. \/ /\ writers'[w].file = writers[w].file /\ writers'[w].frames = writers[w].frames
             /\ writers'[w].error = "no"
          \/ TakeSwitches(w)
      BY <1>0, <1>8, TakesIs
    <2>4. ~TakeSwitches(w)  BY <1>8, FitsNotSwitches
    <2>5. Kept(writers[w].file)  BY <2>2 DEF Kept
    <2>6. writers'[w].error = writers[w].error /\ writers[w].error # "card"  BY <2>1, <2>3, <2>4
    <2> QED BY <1>0, <1>8, <2>3, <2>4, <2>5, <2>6, CountsKept
  <1>9. CASE v = w /\ TakeSwitches(w)
    <2>1. writers[w].error = "no" /\ UNCHANGED files  BY <1>9, WriterFile
    <2>2. CASE /\ writers'[w].file = writers[w].file /\ writers'[w].error = "file"
               /\ writers'[w].frames = writers[w].frames
      <3>1. Loss(w)' = 0  BY <2>2 DEF Loss
      <3>2. Len(files'[writers'[w].file].data) = a /\ files'[writers'[w].file].closed = c
            /\ writers'[w].frames = f
        BY <1>4, <2>1, <2>2
      <3>3. a - f = 0 /\ c = 0  BY <1>4, <1>5, <2>1
      <3> QED BY <1>9, <2>2, <3>1, <3>2, <3>3 DEF WriterCounts
    <2>3. CASE /\ writers[w].next # None /\ writers'[w].file = writers[w].next
               /\ writers'[w].error = "no" /\ writers'[w].frames = 0
      <3>1. Loss(w)' = 0  BY <2>3 DEF Loss
      <3>2. Blank(writers[w].next)  BY <2>3 DEF FreshFiles
      <3>3. Len(files'[writers'[w].file].data) = 0 /\ files'[writers'[w].file].closed = 0
        BY <2>1, <2>3, <3>2 DEF Blank
      <3> QED BY <1>9, <2>3, <3>1, <3>3 DEF WriterCounts
    <2> QED BY <1>9, <2>2, <2>3, WriterFile
  <1>10. CASE v = w /\ WriteBlock(w)
    <2>1. /\ writers'[w].file = x /\ writers'[w].error = "no" /\ writers[w].error = "no"
          /\ writers'[w].frames = f + writers[w].job.len
          /\ writers[w].job.len \in Nat
      BY <1>4, <1>10, WriteIs
    <2>2. files'[x].closed = c /\ Len(files'[x].data) = a + writers[w].job.len
      <3>1. PICK d \in Seq(0..MaxFrames) : d = FramesOf(writers[w].job)  BY <1>10, WriteIs
      <3>2. Len(d) = writers[w].job.len  BY <1>10, <3>1, WriteIs
      <3>3. files' = [files EXCEPT ![x].data = @ \o d]  BY <1>4, <1>10, <3>1, WriteIs
      <3>4. files \in Seq(Files) /\ x \in Nat /\ files[x].data \in Seq(0..MaxFrames)
        BY <1>0, <1>4, FileTypes DEF TypeInv
      <3>5. files'[x].data = files[x].data \o d /\ files'[x].closed = files[x].closed
        BY <3>3, <3>4, DataStep
      <3>6. Len(files'[x].data) = Len(files[x].data) + Len(d)  BY <3>4, <3>5
      <3> QED BY <1>4, <3>2, <3>5, <3>6
    <2>3. Loss(w)' = 0  BY <2>1 DEF Loss
    <2>4. a = f /\ c = 0  BY <1>5, <2>1
    <2>5. PICK m \in Nat : m = writers[w].job.len  BY <2>1
    <2>6. Len(files'[writers'[w].file].data) - writers'[w].frames = 0
      BY <1>4, <2>1, <2>2, <2>4, <2>5
    <2> QED BY <1>10, <2>1, <2>2, <2>3, <2>4, <2>6 DEF WriterCounts
  <1>11. CASE v = w /\ WriteFails(w)
    <2>1. /\ writers'[w].file = x /\ writers'[w].error = "card" /\ writers[w].error = "no"
          /\ writers'[w].frames = f /\ writers'[w].job = writers[w].job
          /\ writers[w].pc = "write"
      BY <1>4, <1>11, FailsIs
    <2>2. ~CloseFile(w) /\ ~(NextHandle(w) \/ TakeAbort(w) \/ TakeFits(w) \/ TakeAsks(w)
              \/ TakeSwitches(w))
      BY <2>1 DEF CloseFile, NextHandle, TakeAbort, TakeFits, TakeAsks, TakeSwitches, TakeJob, Ready
    <2>3. ~WriteBlock(w)
      <3> SUFFICES ASSUME WriteBlock(w) PROVE FALSE  OBVIOUS
      <3>1. writers'[w].error = "no"  BY WriteIs
      <3> QED BY <2>1, <3>1
    <2>4. /\ files'[x].closed = c /\ Len(files'[x].data) - a \in 0..writers[w].job.len
      BY <1>4, <2>2, <2>3, WriterFiles
    <2>5. Loss(w)' = writers[w].job.len  BY <2>1 DEF Loss
    <2>6. a = f /\ c = 0  BY <1>5, <2>1
    <2> QED BY <1>11, <2>1, <2>4, <2>5, <2>6 DEF WriterCounts
  <1>12. CASE v = w /\ CloseFile(w)
    <2>1. writers'[w].pc = "off"  BY <1>0, <1>12, CloseIs
    <2> QED BY <1>12, <2>1 DEF WriterCounts, Alive
  <1> QED BY <1>6, <1>7, <1>8, <1>9, <1>10, <1>11, <1>12 DEF Writer

\* a request to close a file has the number of slots in it
LEMMA RequestsOfWriters ==
    ASSUME IInv, AnswerOrder, CloseOrder, \A v \in Writers : WriterCounts(v),
           \A k \in Posts : CloseCounts(k), NEW w \in Writers, Writer(w), NEW k \in Posts'
    PROVE  CloseCounts(k)'
  <1>0. /\ TypeInv /\ FileInv /\ WriterInv /\ mgr.pc \notin {"open", "dead"}
        /\ Alive(w) /\ writers[w].file \in DOMAIN files
        /\ \A v \in Writers : v # w => writers'[v] = writers[v]
    BY WriterRuns
  <1>1. \A i \in DOMAIN files : i # writers[w].file => Kept(i)  BY WriterFiles
  <1>2. CASE ~Closes(k)'  BY <1>2 DEF CloseCounts
  <1>3. CASE k \in Posts /\ Closes(k) /\ Post(k)' = Post(k) /\ Post(k).file # writers[w].file
    <2>1. Kept(Post(k).file)
      <3>1. Post(k).file \in DOMAIN files  BY <1>0, <1>3, CloseKnown
      <3> QED BY <1>1, <1>3, <3>1
    <2>2. \A j : j = Post(k) /\ ShutTwice(j) => ShutTwice(j)'
      <3> SUFFICES ASSUME NEW j, j = Post(k), ShutTwice(j) PROVE ShutTwice(j)'  OBVIOUS
      <3>1. PICK v \in Writers : v = j.writer  BY <1>0, <1>3, CloseKnown
      <3>2. v # w  BY <1>0, <3>1 DEF ShutTwice
      <3>3. writers'[v] = writers[v]  BY <1>0, <3>2
      <3> QED BY <3>1, <3>3 DEF ShutTwice, Alive
    <2> QED BY <1>3, <2>1, <2>2, CloseKept
  <1>4. CASE k \in Posts /\ Closes(k) /\ Post(k)' = Post(k) /\ Post(k).file = writers[w].file
    <2>1. Post(k).writer = w /\ writers[w].error = "file"  BY <1>0, <1>4, OwnClose
    <2>2. CloseFile(w)  BY <2>1, FailedCloses
    <2>3. PICK x \in DOMAIN files : x = writers[w].file  BY <1>0
    <2>4. /\ Len(files[x].data) = Post(k).frames
          /\ files[x].closed = 0 \/ (files[x].closed = 1 /\ ShutTwice(Post(k)))
      BY <1>4, <2>3 DEF CloseCounts
    <2>5. files[x].closed = 0  BY <1>0, <2>1, <2>4 DEF ShutTwice
    <2>6. writers[w].pc = "close"  BY <2>2 DEF CloseFile
    <2>7. files'[x].data = files[x].data /\ files'[x].closed = files[x].closed + 1
      <3>1. PICK n \in Nat, c \in Nat : n = writers[w].num /\ c = writers[w].frames
        BY <1>0, <2>2, CloseIs
      <3>2. files' = Closed(x, n, c)  BY <1>0, <2>2, <2>3, <3>1, CloseIs
      <3> QED BY <1>0, <3>2, FileClosed
    <2>8. /\ writers'[w].pc = "off" /\ writers'[w].error = "file"
          /\ writers'[w].file = writers[w].file
      BY <1>0, <2>1, <2>2, CloseIs
    <2>9. ShutTwice(Post(k))'  BY <1>4, <2>1, <2>8 DEF ShutTwice, Alive
    <2>10. Post(k)'.file = x /\ Post(k)'.frames = Post(k).frames  BY <1>4, <2>3
    <2>11. Len(files'[x].data) = Post(k)'.frames /\ files'[x].closed = 1
      BY <2>4, <2>5, <2>7, <2>10
    <2> QED BY <2>9, <2>10, <2>11 DEF CloseCounts
  <1>5. CASE /\ TakeSwitches(w) /\ Post(k)'.file = writers[w].file
             /\ Post(k)'.frames = writers[w].frames
    <2>1. writers[w].error = "no" /\ UNCHANGED files  BY <1>5, WriterFile
    <2>2. /\ Len(files[writers[w].file].data) - writers[w].frames \in 0..0
          /\ files[writers[w].file].closed <= 0
      BY <1>0, <2>1 DEF WriterCounts, Loss
    <2>3. /\ Len(files[writers[w].file].data) \in Nat /\ writers[w].frames \in Nat
          /\ files[writers[w].file].closed \in Nat
      BY <1>0, FileTypes, OwnKnown
    <2>4. PICK a \in Nat, f \in Nat, c \in Nat :
              /\ a = Len(files[writers[w].file].data) /\ f = writers[w].frames
              /\ c = files[writers[w].file].closed
      BY <2>3
    <2>5. a = f /\ c = 0  BY <2>2, <2>4
    <2> QED BY <1>5, <2>1, <2>4, <2>5 DEF CloseCounts
  <1> QED BY <1>2, <1>3, <1>4, <1>5, WriterPosts

\* what the header of a closed file says
LEMMA ToldOfWriters ==
    ASSUME IInv, \A v \in Writers : WriterCounts(v), NEW w \in Writers, Writer(w),
           NEW i \in DOMAIN files, Told(i)
    PROVE  Told(i)'
  <1>0. /\ TypeInv /\ FileInv /\ WriterInv /\ mgr.pc \notin {"open", "dead"}
        /\ Alive(w) /\ writers[w].file \in DOMAIN files
    BY WriterRuns
  <1>1. ErrorsStay  BY WriterErrors
  <1>2. CASE Kept(i)  BY <1>1, <1>2, ToldKept
  <1>3. CASE i = writers[w].file /\ (WriteBlock(w) \/ WriteFails(w))
             /\ files'[i].closed = files[i].closed
    <2>1. writers[w].error = "no"  BY <1>3, WriteIs, FailsIs
    <2>2. files[i].closed <= 0  BY <1>0, <1>3, <2>1 DEF WriterCounts
    <2>3. files[i].closed \in Nat  BY <1>0, FileTypes
    <2> QED BY <1>3, <2>2, <2>3 DEF Told
  <1>4. CASE /\ i = writers[w].file /\ CloseFile(w)
             /\ files'[i].data = files[i].data /\ files'[i].count = writers[w].frames
             /\ files'[i].closed = files[i].closed + 1
    <2>1. /\ Len(files[i].data) - writers[w].frames \in 0..Loss(w)
          /\ files[i].closed <= (IF writers[w].error = "file" THEN 1 ELSE 0)
      BY <1>0, <1>4 DEF WriterCounts
    <2>2. /\ writers'[w].file = i /\ writers'[w].error = writers[w].error
          /\ writers'[w].job = writers[w].job
      BY <1>0, <1>4, CloseIs
    <2>3. files[i].closed \in Nat  BY <1>0, FileTypes
    <2>4. files'[i].closed = 1 \/ (files'[i].closed = 2 /\ ClosedTwice(i)')
      <3>1. CASE writers[w].error = "file"
        <4>1. ClosedTwice(i)'  BY <2>2, <3>1 DEF ClosedTwice
        <4>2. files[i].closed \in {0, 1}  BY <2>1, <2>3, <3>1
        <4> QED BY <1>4, <4>1, <4>2
      <3>2. CASE writers[w].error # "file"  BY <1>4, <2>1, <2>3, <3>2
      <3> QED BY <3>1, <3>2
    <2>5. Missing(i)' = Len(files[i].data) - writers[w].frames  BY <1>4 DEF Missing
    <2>6. Uncounts(i)'
      <3>1. CASE writers[w].error = "card"
        <4>1. Missing(i)' \in 0..writers'[w].job.len  BY <2>1, <2>2, <2>5, <3>1 DEF Loss
        <4> QED BY <2>2, <3>1, <4>1 DEF Uncounts
      <3>2. CASE writers[w].error # "card"
        <4>1. Missing(i)' = 0  BY <2>1, <2>5, <3>2 DEF Loss
        <4> QED BY <4>1 DEF Uncounts
      <3> QED BY <3>1, <3>2
    <2> QED BY <2>4, <2>6 DEF Told
  <1> QED BY <1>2, <1>3, <1>4, WriterFiles

LEMMA HeadsOfWriters ==
    ASSUME IInv, HeadInv, NEW w \in Writers, Writer(w)
    PROVE  HeadInv'
  <1>0. mgr.pc \notin {"open", "dead"} /\ UNCHANGED mgr  BY WriterRuns
  <1>1. /\ CloseOrder /\ AnswerOrder /\ FreshFiles /\ \A v \in Writers : WriterCounts(v)
        /\ \A k \in Posts : CloseCounts(k)
        /\ \A i \in DOMAIN files : Told(i)
    BY <1>0 DEF HeadInv
  <1>2. CloseOrder' /\ AnswerOrder'  BY <1>1, OrderOfWriters, ClosesOfWriters
  <1>3. FreshFiles'  BY <1>1, FreshOfWriters
  <1>4. \A v \in Writers : WriterCounts(v)'  BY <1>1, CountsOfWriters
  <1>5. \A k \in Posts' : CloseCounts(k)'  BY <1>1, RequestsOfWriters
  <1>6. DOMAIN files' = DOMAIN files  BY WriterFiles
  <1>7. \A i \in DOMAIN files' : Told(i)'  BY <1>1, <1>6, ToldOfWriters
  <1> QED BY <1>2, <1>3, <1>4, <1>5, <1>7 DEF HeadInv

\* the files of a recording are opened
LEMMA HeadsOpened ==
    ASSUME IInv, OpenFiles
    PROVE  HeadInv'
  <1>0. TypeInv /\ FlowInv /\ mgr \in Managers  BY DEF IInv, TypeInv
  <1>1. /\ mgr.pc = "open" /\ UNCHANGED <<mgr_queue, writer_queues>>
        /\ mgr_queue = <<>> /\ writer_queues = [q \in Queues |-> <<>>]
        /\ mgr.job = NoJob
        /\ files' = [i \in 1..NWriters |-> [NewFile EXCEPT !.num = i - 1]]
    BY <1>0 DEF OpenFiles, FlowInv
  <1>2. DOMAIN files' = 1..NWriters
        /\ \A i \in DOMAIN files' : files'[i].closed = 0 /\ files'[i].data = <<>>
    BY <1>1 DEF NewFile
  <1>3. \A i \in DOMAIN files' : Told(i)'  BY <1>2 DEF Told
  <1>4. CASE mgr' = [mgr EXCEPT !.pc = "dead"]
    <2>1. mgr'.pc = "dead"  BY <1>0, <1>4, MgrSet
    <2> QED BY <1>3, <2>1 DEF HeadInv
  <1>5. CASE /\ mgr' = [mgr EXCEPT !.pc = "begin"]
             /\ writers' = [w \in Writers |->
                   [Idle EXCEPT !.pc = "take", !.file = w + 1, !.num = w]]
    <2>1. mgr'.job = NoJob  BY <1>0, <1>1, <1>5, MgrSet
    <2>2. \A w \in Writers : /\ writers'[w].file = w + 1 /\ writers'[w].next = None
                             /\ writers'[w].frames = 0 /\ writers'[w].error = "no"
      BY <1>5 DEF Idle
    <2>3. \A w \in Writers : w + 1 \in DOMAIN files'  BY <1>2, WriterAssumption DEF Writers
    <2>4. ASSUME NEW w \in Writers PROVE DOMAIN writer_queues'[w] = {}
      <3>1. w \in Queues  BY QueueOne, WriterAssumption
      <3> QED BY <1>1, <3>1
    <2>5. \A k \in Posts' : Post(k)' = NoJob
      <3>1. Posts' = {0}  BY <1>1 DEF Posts
      <3> QED BY <2>1, <3>1 DEF Post
    <2>6. \A k \in Posts' : ~Asking(Post(k)')  BY <2>5 DEF Asking, NoJob
    <2>7. CloseOrder'  BY <2>6 DEF CloseOrder, Closes, Asking
    <2>8. AnswerOrder' /\ FreshFiles'  BY <2>2, <2>4 DEF AnswerOrder, FreshFiles
    <2>9. ASSUME NEW w \in Writers PROVE WriterCounts(w)'
      <3>1. Loss(w)' = 0  BY <2>2 DEF Loss
      <3>2. Len(files'[writers'[w].file].data) = 0 /\ files'[writers'[w].file].closed = 0
        BY <1>2, <2>2, <2>3
      <3> QED BY <2>2, <3>1, <3>2 DEF WriterCounts
    <2>10. \A k \in Posts' : CloseCounts(k)'  BY <2>6 DEF CloseCounts, Closes, Asking
    <2> QED BY <1>3, <2>7, <2>8, <2>9, <2>10 DEF HeadInv
  <1> QED BY <1>4, <1>5 DEF OpenFiles

\* all other steps leave what is in the files
LEMMA FilesAlike ==
    ASSUME IInv, [Next]_vars, ~OpenFiles, ~HandleWanted, ~CloseWanted,
           \A w \in Writers : ~Writer(w)
    PROVE  DOMAIN files' = DOMAIN files /\ \A i \in DOMAIN files : Kept(i)
  <1>0. files \in Seq(Files)  BY DEF IInv, TypeInv
  <1>1. CASE Camera \/ DmaDone \/ TakeSlot \/ ReleaseSlot \/ PressRec \/ UNCHANGED vars
    <2>1. UNCHANGED files
      BY <1>1 DEF Camera, VsyncBusy, SettingsChanged, CaptureFrame, SkipFrame, DmaDone,
                  TakeSlot, ReleaseSlot, PressRec, vars
    <2> QED BY <2>1 DEF Kept
  <1>2. CASE Prepare \/ Begin \/ MgrLoop \/ CleanUp \/ FillQueue \/ NothingReturned
             \/ WriteReturned \/ Drain \/ AbortWriters \/ Flush
    <2>1. UNCHANGED files
      BY <1>2 DEF Prepare, Begin, MgrLoop, CleanUp, FillQueue, NothingReturned,
                  WriteReturned, Drain, AbortWriters, Flush
    <2> QED BY <2>1 DEF Kept
  <1>3. CASE Stopping
    <2>1. files' = [i \in DOMAIN files |->
              [files[i] EXCEPT !.gone = @ \/ (i > 1 /\ files[i].data = <<>>)]]
      BY <1>3 DEF Stopping
    <2>2. ASSUME NEW i \in DOMAIN files PROVE Kept(i)
      <3>1. files[i] \in Files  BY <1>0
      <3>2. PICK g : g = (files[i].gone \/ (i > 1 /\ files[i].data = <<>>))  OBVIOUS
      <3>3. files'[i] = [files[i] EXCEPT !.gone = g]  BY <2>1, <3>2
      <3> QED BY <3>1, <3>3 DEF Kept, Files
    <2> QED BY <2>1, <2>2
  <1> QED BY <1>1, <1>2, <1>3 DEF Next, Manager

LEMMA HeadStep == ASSUME IInv, StartsClean, HeadInv, [Next]_vars PROVE HeadInv'
  <1>0. /\ TypeInv /\ TypeInv' /\ FlowInv /\ FileInv /\ WriterInv /\ mgr \in Managers
    BY TypeStep DEF IInv, TypeInv
  <1>1. CASE \E w \in Writers : Writer(w)  BY <1>1, HeadsOfWriters
  <1>2. CASE OpenFiles  BY <1>2, HeadsOpened
  <1>3. CASE HandleWanted  BY <1>3, HeadsMade
  <1>4. CASE CloseWanted  BY <1>4, HeadsClosed
  <1> DEFINE Other == /\ ~OpenFiles /\ ~HandleWanted /\ ~CloseWanted
                      /\ \A w \in Writers : ~Writer(w)
  <1>5. CASE mgr.pc \in {"open", "dead"} /\ Other
    <2>1. mgr'.pc = mgr.pc
      <3>1. CASE Camera \/ DmaDone \/ TakeSlot \/ ReleaseSlot
        BY <3>1, CameraSlots
      <3>2. CASE PressRec
        <4>1. mgr.pc # "off"  BY <1>5
        <4>2. state # "idle"  BY <1>0, <4>1 DEF FlowInv
        <4> QED BY <3>2, <4>2 DEF PressRec
      <3>3. CASE Manager
        BY <1>5, <3>3 DEF Manager, Prepare, Begin, MgrLoop, FillQueue, NothingReturned,
              WriteReturned, Returned, Stopping, Drain, AbortWriters, Flush, CleanUp
      <3>4. CASE UNCHANGED vars  BY <3>4 DEF vars
      <3> QED BY <1>5, <3>1, <3>2, <3>3, <3>4 DEF Next
    <2>2. DOMAIN files' = DOMAIN files /\ \A i \in DOMAIN files : Kept(i)  BY <1>5, FilesAlike
    <2>3. UNCHANGED writers  BY <1>5, FilesGrow
    <2>4. ErrorsStay  BY <2>3 DEF ErrorsStay
    <2>5. \A i \in DOMAIN files' : Told(i)'  BY <2>2, <2>4, ToldKept DEF HeadInv
    <2> QED BY <1>5, <2>1, <2>5 DEF HeadInv
  <1>6. CASE mgr.pc \notin {"open", "dead"} /\ Other
    <2>1. DOMAIN files' = DOMAIN files /\ \A i \in DOMAIN files : Kept(i)  BY <1>6, FilesAlike
    <2>2. UNCHANGED writers /\ NoAnswer /\ \E d \in {0, 1} : PostsFrom(d)
      BY <1>6, QueuesMove
    <2>3. PICK d \in {0, 1} : PostsFrom(d)  BY <2>2
    <2> QED BY <1>0, <1>6, <2>1, <2>2, <2>3, HeadsAlike
  <1> QED BY <1>1, <1>2, <1>3, <1>4, <1>5, <1>6

LEMMA InitHead == ASSUME Init PROVE HeadInv
  <1>0. \A w \in Writers : writers[w] = Idle  BY DEF Init
  <1>1. /\ \A w \in Writers : writers[w].next = None /\ ~Alive(w)
        /\ files = <<>> /\ mgr_queue = <<>> /\ mgr.job = NoJob
    BY <1>0 DEF Init, Idle, Alive
  <1>2. ASSUME NEW w \in Writers PROVE DOMAIN writer_queues[w] = {}
    <2>1. w \in Queues  BY QueueOne, WriterAssumption
    <2> QED BY <2>1 DEF Init
  <1>3. \A k \in Posts : Post(k) = NoJob
    <2>1. Posts = {0}  BY <1>1 DEF Posts
    <2> QED BY <1>1, <2>1 DEF Post
  <1>4. \A k \in Posts : ~Asking(Post(k))  BY <1>3 DEF Asking, NoJob
  <1>5. CloseOrder  BY <1>4 DEF CloseOrder, Closes, Asking
  <1>6. AnswerOrder /\ FreshFiles  BY <1>1, <1>2 DEF AnswerOrder, FreshFiles
  <1>7. \A w \in Writers : WriterCounts(w)  BY <1>1 DEF WriterCounts
  <1>8. \A k \in Posts : CloseCounts(k)  BY <1>4 DEF CloseCounts, Closes, Asking
  <1>9. \A i \in DOMAIN files : Told(i)  BY <1>1
  <1> QED BY <1>5, <1>6, <1>7, <1>8, <1>9 DEF HeadInv

LEMMA HeadHolds == IInv /\ HeadInv => HeadersCount
  BY HeadersTold DEF IInv, HeadInv

\* A file is closed once and its header tells how many slots it holds, however
\* late the manager gets to it: in recordings that start with nothing left over.
THEOREM HeadersStayRight == Spec /\ []StartsClean => []HeadersCount
  <1>1. Init => IInv /\ HeadInv  BY InitInv, InitHead
  <1>2. IInv /\ HeadInv /\ StartsClean /\ [Next]_vars => IInv' /\ HeadInv'
    BY InvStep, HeadStep
  <1>3. IInv /\ HeadInv => HeadersCount  BY HeadHolds
  <1> QED BY <1>1, <1>2, <1>3, PTL DEF Spec

\* In the first recording of a session nothing is left over: its headers are
\* right whatever fails.
THEOREM FirstHeadersRight == ASSUME MaxRuns <= 1 PROVE Spec => []HeadersCount
  <1>1. Init => IInv /\ HeadInv /\ FirstInv
    <2>1. Init => FirstInv  BY DEF Init, FirstInv, Clean, StartsClean
    <2> QED BY <2>1, InitInv, InitHead
  <1>2. IInv /\ HeadInv /\ FirstInv /\ [Next]_vars => IInv' /\ HeadInv' /\ FirstInv'
    <2>1. FirstInv => StartsClean  BY DEF FirstInv
    <2> QED BY <2>1, InvStep, HeadStep, FirstStep
  <1>3. IInv /\ HeadInv => HeadersCount  BY HeadHolds
  <1> QED BY <1>1, <1>2, <1>3, PTL DEF Spec
=============================================================================
