--------------------------- MODULE MlvSoundProofs ---------------------------
(* Theorems about MlvSound, for any number and size of slots and any pace  *)
(* of the writer.                                                          *)
EXTENDS MlvSound, SubsequencesProofs, SequenceTheorems

-----------------------------------------------------------------------------
(* What holds in every recording, also in one that found the state or a    *)
(* writer of the last one                                                  *)

Real == [slot : Slots, block : 1..Blocks, frame : Nat]

Hosts   == {"idle", "preparing", "recording", "stopping", "waiting", "flushing", "saving",
            "freed"}
Writers == {"none", "loop", "receiving", "handling", "requeueing", "exiting"}
Owners  == {"free", "sound", "queued"}

Types ==
    /\ state \in States /\ host \in Hosts /\ memory \in BOOLEAN
    /\ empty \in Seq(Real) /\ done \in Seq(Real)
    /\ current \in Real \cup {NoEntry} /\ next \in Real \cup {NoEntry}
    /\ hand \in [Tasks -> Real \cup {NoEntry}] /\ writer \in [Tasks -> Writers]
    /\ frameNumber \in Nat /\ framesQueued \in Nat /\ framesSaved \in Nat
    /\ declared \in Int /\ runs \in 0..MaxRuns
    /\ trouble \in SUBSET (TroubleKinds \cup {"leftover"})
    /\ owner \in [Slots -> Owners] /\ queue \in Seq(Slots)
    /\ block \in [Slots -> [1..Blocks -> Nat]] /\ audio \in Seq(Nat)

(* Works(w): the task w has not been told to exit. *)
Works(w) == writer[w] \notin {"none", "exiting"}

TasksInv ==
    /\ \A w \in Tasks : hand[w] # NoEntry <=> writer[w] = "handling"
    /\ \A w \in Tasks : w > runs => writer[w] = "none"
    /\ current = NoEntry => next = NoEntry
    /\ state = "RUNNING" => next # NoEntry
    /\ state = "STOP_ASIF" => next = NoEntry
    /\ state = "STOP_TASK" => current = NoEntry
    /\ current # NoEntry \/ state = "READY" => \E w \in Tasks : Works(w)
    /\ state = "IDLE" /\ (\A w \in Tasks : writer[w] = "none") => NothingLeft

HostInv ==
    /\ memory => host \notin {"idle", "freed"}
    /\ host \in {"preparing", "recording", "saving"} => memory
    /\ host # "idle" => runs \in Tasks

Common == Types /\ TasksInv /\ HostInv

-----------------------------------------------------------------------------
(* A recording that began properly and got to its first frame.  The blocks *)
(* sound has form a line: the one the writer handles, those filled, the    *)
(* two ASIF knows of, the empty ones.  They are the blocks from number p   *)
(* of slot a on and all those of slot b, 0 if there is none.               *)

Fine == trouble \subseteq {"starved"}
Me   == writer[runs]

One(e)   == IF e = NoEntry THEN <<>> ELSE <<e>>
Filled   == One(hand[runs]) \o done
Unfilled == One(current) \o (One(next) \o empty)

Stands(e, k, a, b, p) ==
    IF k <= Blocks - p + 1 THEN e.slot = a /\ e.block = p + k - 1
                           ELSE e.slot = b /\ e.block = p + k - 1 - Blocks

Rest(a, b, p) == (IF a = 0 THEN 0 ELSE Blocks - p + 1) + (IF b = 0 THEN 0 ELSE Blocks)

Laid(f, u, a, b, p) ==
    /\ a \in 0..NSlots /\ b \in 0..NSlots /\ p \in 1..Blocks
    /\ a = 0 => b = 0 /\ p = 1
    /\ a # 0 => a # b
    /\ Len(f) + Len(u) = Rest(a, b, p)
    /\ \A k \in 1..Len(f) : Stands(f[k], k, a, b, p)
    /\ \A k \in 1..Len(u) : Stands(u[k], Len(f) + k, a, b, p)

(* The blocks lo + 1 to hi are in a slot, and NULL blocks fill it up. *)
Row(r, lo, hi) == \A y \in 1..Blocks : r[y] = IF lo + y <= hi THEN lo + y ELSE 0

(* put blocks are in slots, top of them in slots that were handed back. *)
Framed(f, put) == \A k \in 1..Len(f) : f[k].frame = put + k - 1

Numbered(f, put, top, blk, a, b, p) ==
    /\ Framed(f, put)
    /\ put \in Nat /\ put \in top..(top + p - 1)
    /\ a # 0 => Row(blk[a], top, put)
    /\ b # 0 => Row(blk[b], put, put)

(* The slots in the queue go on where the file ends: t[i] blocks are in the
   file or in the slots before the i-th. *)
Chained(q, t, own, blk) ==
    /\ t \in Seq(Nat) /\ Len(t) = Len(q) + 1
    /\ \A i \in 1..Len(q) : /\ t[i + 1] \in t[i]..(t[i] + Blocks)
                            /\ Row(blk[q[i]], t[i], t[i + 1])
                            /\ own[q[i]] = "queued"
    /\ \A i, j \in 1..Len(q) : q[i] = q[j] => i = j

Owned(own, a, b) == \A s \in Slots : own[s] = "sound" <=> s \in {a, b}

Line(f, u, q, t, put, own, blk, a, b, p) ==
    /\ Laid(f, u, a, b, p) /\ Owned(own, a, b)
    /\ Chained(q, t, own, blk) /\ Numbered(f, put, t[Len(q) + 1], blk, a, b, p)

Put == frameNumber - Len(Filled)

(* Until the last blocks are given up, what is in slots are whole blocks one
   after the other. *)
Books(t, a, b, p) ==
    /\ Line(Filled, Unfilled, queue, t, Put, owner, block, a, b, p)
    /\ t[1] = Len(audio)
    /\ Me = "requeueing" => b = 0 /\ p = 1
    /\ host # "flushing" \/ done # <<>> => Put = t[Len(queue) + 1] + p - 1
    /\ host # "flushing" => framesQueued = t[Len(queue) + 1]
    /\ host = "flushing" => /\ framesQueued \in t[Len(queue) + 1]..Put
                            /\ done = <<>> => framesQueued = Put
    /\ declared = framesSaved

Kept == \E t \in Seq(Nat), a, b \in 0..NSlots, p \in 1..Blocks : Books(t, a, b, p)

Phases ==
    /\ \A w \in Tasks : w # runs => writer[w] = "none"
    /\ host = "preparing" => state = "READY"
    /\ state = "READY" => /\ host \in {"preparing", "recording"} /\ Me = "loop"
                          /\ current = NoEntry /\ done = <<>>
    /\ state = "RUNNING" => host \in {"recording", "stopping"}
    /\ state = "STOPPING" => host \in {"waiting", "flushing"}
    /\ state = "STOPPED" => Me = "none"
    /\ state = "IDLE" => /\ host = "saving" /\ current = NoEntry /\ NothingLeft
                         /\ Me \in {"none", "loop"}
    /\ host = "flushing" => /\ state \in {"STOPPED", "STOPPING", "STOP_ASIF"}
                            /\ current = NoEntry /\ Me \in {"none", "loop"}

(* When sound stops, a filled block is left for the flush. *)
LastBlock ==
    host \in {"recording", "stopping", "waiting"} /\ state \notin {"READY", "RUNNING"} =>
        Len(done) + Len(One(current) \o One(next)) > IF Me = "receiving" THEN 1 ELSE 0

Live == Fine /\ memory => Phases /\ LastBlock /\ Kept

(* What is left when the slots are gone *)
Ended ==
    /\ Fine => \A k \in 1..Len(audio) : audio[k] = k
    /\ Fine /\ host = "freed" => declared = Len(audio)

-----------------------------------------------------------------------------
(* A writer in time never lets the empty blocks run out. *)
InTime == MaxBacklog + 2 <= Blocks

OnLine   == Len(Filled) + Len(Unfilled)
Supplied == OnLine > IF Me = "requeueing" THEN 0 ELSE Blocks

Fed ==
    trouble = {} =>
        /\ memory =>
            /\ host \notin {"saving", "flushing"} => Supplied
            /\ host = "saving" => state = "IDLE"
            /\ host \in {"recording", "stopping"} => state \in {"READY", "RUNNING"}
            /\ host = "waiting" /\ state = "STOPPING" => next # NoEntry
            /\ host = "waiting" /\ state = "STOP_ASIF" => current # NoEntry
        /\ host = "freed" => /\ frameNumber = Len(audio) /\ state = "IDLE"
                             /\ current = NoEntry
                             /\ \A w \in Tasks : writer[w] \in {"none", "loop"}
        /\ host \in {"stopping", "waiting", "flushing"} => memory

-----------------------------------------------------------------------------
(* Types                                                                   *)

LEMMA Sizes == /\ NSlots \in Nat /\ NSlots >= 2 /\ Blocks \in Nat /\ Blocks >= 1
               /\ MaxBacklog \in Nat /\ MaxFrames \in Nat /\ MaxRuns \in Nat
               /\ Troubles \subseteq TroubleKinds
  <1>1. MaxBacklog \in Nat /\ MaxFrames \in Nat /\ MaxRuns \in Nat
    BY SoundAssumption
  <1>2. Blocks \in Nat /\ Blocks >= 1
    BY SizeAssumption
  <1> QED BY <1>1, <1>2, SizeAssumption, SoundAssumption

LEMMA RealFacts ==
    /\ \A e \in Real : /\ e.slot \in Slots /\ e.block \in 1..Blocks /\ e.frame \in Nat
                       /\ e # NoEntry /\ e \in EntryType
    /\ \A e \in Real, n \in Nat : /\ [e EXCEPT !.frame = n] \in Real
                                  /\ [e EXCEPT !.frame = n].slot = e.slot
                                  /\ [e EXCEPT !.frame = n].block = e.block
                                  /\ [e EXCEPT !.frame = n].frame = n
    /\ NoEntry \in EntryType /\ NoEntry \notin Real
  <1>0. NSlots \in Nat /\ Blocks \in Nat
    BY Sizes
  <1>1. \A s \in Slots : s # 0 /\ s \in 0..NSlots
    BY <1>0 DEF Slots
  <1>2. \A y \in 1..Blocks : y \in 0..Blocks
    BY <1>0
  <1>3. \A e \in Real : e.slot \in Slots /\ e.block \in 1..Blocks /\ e.frame \in Nat
    BY DEF Real
  <1>4. NoEntry.slot = 0
    BY DEF NoEntry
  <1>5. \A e \in Real : e # NoEntry
    BY <1>1, <1>3, <1>4
  <1>6. \A e \in Real : e \in EntryType
    BY <1>1, <1>2 DEF Real, EntryType
  <1>7. NoEntry \in EntryType
    BY <1>0 DEF NoEntry, EntryType
  <1>8. \A e \in Real, n \in Nat : /\ [e EXCEPT !.frame = n] \in Real
                                   /\ [e EXCEPT !.frame = n].slot = e.slot
                                   /\ [e EXCEPT !.frame = n].block = e.block
                                   /\ [e EXCEPT !.frame = n].frame = n
    BY DEF Real
  <1> QED BY <1>3, <1>5, <1>6, <1>7, <1>8

LEMMA EntriesFacts ==
    ASSUME NEW s \in Slots
    PROVE  /\ Entries(s) \in Seq(Real) /\ Len(Entries(s)) = Blocks
           /\ \A y \in 1..Blocks : Entries(s)[y].slot = s /\ Entries(s)[y].block = y
  <1>0. Blocks \in Nat
    BY Sizes
  <1>1. \A y \in 1..Blocks : [slot |-> s, block |-> y, frame |-> 0] \in Real
    BY DEF Real
  <1>2. Entries(s) \in [1..Blocks -> Real]
    BY <1>1 DEF Entries
  <1>3. Entries(s) \in Seq(Real) /\ Len(Entries(s)) = Blocks
    BY <1>0, <1>2
  <1>4. \A y \in 1..Blocks : Entries(s)[y] = [slot |-> s, block |-> y, frame |-> 0]
    BY DEF Entries
  <1> QED BY <1>3, <1>4

LEMMA NullBlocksType == NullBlocks \in [1..Blocks -> Nat]
  BY DEF NullBlocks

LEMMA HeadTail ==
    ASSUME NEW X, NEW q \in Seq(X), q # <<>>
    PROVE  /\ Head(q) \in X /\ Tail(q) \in Seq(X) /\ Len(Tail(q)) = Len(q) - 1
           /\ Len(q) >= 1 /\ Head(q) = q[1]
           /\ \A k \in 1..Len(Tail(q)) : Tail(q)[k] = q[k + 1]
  OBVIOUS

(* What happens to the slots when a block has been handled *)
LEMMA ReleaseTypes ==
    ASSUME Types, NEW e \in Real, NEW n \in Nat, ReleaseOf(e),
           block' = IF memory THEN [block EXCEPT ![e.slot][e.block] = n] ELSE block
    PROVE  /\ owner' \in [Slots -> Owners] /\ queue' \in Seq(Slots)
           /\ block' \in [Slots -> [1..Blocks -> Nat]]
  <1>1. e.slot \in Slots /\ e.block \in 1..Blocks
    BY RealFacts
  <1>2. block \in [Slots -> [1..Blocks -> Nat]] /\ owner \in [Slots -> Owners] /\ queue \in Seq(Slots)
    BY DEF Types
  <1>3. block' \in [Slots -> [1..Blocks -> Nat]]
    BY <1>1, <1>2
  <1>4. owner' \in [Slots -> Owners]
    BY <1>1, <1>2 DEF ReleaseOf, Owners
  <1>5. queue' \in Seq(Slots)
    BY <1>1, <1>2 DEF ReleaseOf
  <1> QED BY <1>3, <1>4, <1>5

LEMMA InitCommon == Init => Common
  <1> SUFFICES ASSUME Init PROVE Common
    OBVIOUS
  <1>1. MaxRuns \in Nat
    BY Sizes
  <1>2. block \in [Slots -> [1..Blocks -> Nat]]
    BY NullBlocksType DEF Init
  <1>2a. /\ writer \in [Tasks -> Writers] /\ hand \in [Tasks -> Real \cup {NoEntry}]
         /\ owner \in [Slots -> Owners]
    BY DEF Init, Writers, Owners
  <1>2b. state \in States /\ host \in Hosts /\ runs \in 0..MaxRuns
    BY <1>1 DEF Init, States, Hosts
  <1>2c. /\ empty \in Seq(Real) /\ done \in Seq(Real) /\ queue \in Seq(Slots)
         /\ audio \in Seq(Nat)
    BY DEF Init
  <1>2e. memory \in BOOLEAN
    BY Zenon DEF Init
  <1>2d. /\ current \in Real \cup {NoEntry}
         /\ next \in Real \cup {NoEntry} /\ trouble \in SUBSET (TroubleKinds \cup {"leftover"})
         /\ frameNumber \in Nat /\ framesQueued \in Nat /\ framesSaved \in Nat /\ declared \in Int
    BY DEF Init
  <1>3. Types
    BY <1>2, <1>2a, <1>2b, <1>2c, <1>2d, <1>2e DEF Types
  <1>4. TasksInv
    BY DEF Init, TasksInv, NothingLeft, Works
  <1>5. HostInv
    BY DEF Init, HostInv
  <1> QED BY <1>3, <1>4, <1>5 DEF Common

LEMMA StartingTypes == Types /\ Starting => Types'
  <1> SUFFICES ASSUME Types, Starting PROVE Types'
    OBVIOUS
  <1>0. 1 \in Slots /\ 2 \in Slots
    BY Sizes DEF Slots
  <1>1. /\ Entries(1) \in Seq(Real) /\ Entries(2) \in Seq(Real)
        /\ NullBlocks \in [1..Blocks -> Nat]
    BY <1>0, EntriesFacts, NullBlocksType
  <1>2. empty' \in Seq(Real) /\ queue' \in Seq(Slots) /\ audio' \in Seq(Nat)
    <2>1. /\ queue' = <<>> /\ audio' = <<>> /\ empty \in Seq(Real)
          /\ empty' = empty \o Entries(1) \o Entries(2) \/ empty' = empty
      BY DEF Types, Starting
    <2>2. empty \o Entries(1) \in Seq(Real)
      BY <1>1, <2>1
    <2>3. empty \o Entries(1) \o Entries(2) \in Seq(Real)
      BY <1>1, <2>2
    <2>4. empty' \in Seq(Real)
      BY <2>1, <2>3, Zenon
    <2>5. queue' \in Seq(Slots) /\ audio' \in Seq(Nat)
      BY <2>1
    <2> QED BY <2>4, <2>5
  <1>3. owner' \in [Slots -> Owners] /\ block' \in [Slots -> [1..Blocks -> Nat]]
    BY <1>1 DEF Types, Starting, Owners
  <1>4. writer' \in [Tasks -> Writers]
    BY DEF Types, Starting, Writers
  <1>5. state' \in States /\ host' \in Hosts
    BY DEF Types, Starting, States, Hosts
  <1>6. runs' \in 0..MaxRuns /\ declared' \in Int
    BY Sizes DEF Types, Starting
  <1>7. frameNumber' \in Nat /\ framesQueued' \in Nat /\ framesSaved' \in Nat
    BY DEF Types, Starting, ResetCounters, countVars
  <1>8. trouble' \in SUBSET (TroubleKinds \cup {"leftover"})
    BY DEF Starting
  <1>9. memory' \in BOOLEAN
    BY Zenon DEF Starting
  <1>10. done' \in Seq(Real) /\ current' \in Real \cup {NoEntry} /\ next' \in Real \cup {NoEntry}
    BY DEF Types, Starting
  <1>11. hand' \in [Tasks -> Real \cup {NoEntry}]
    BY DEF Types, Starting
  <1> QED BY <1>2, <1>3, <1>4, <1>5, <1>6, <1>7, <1>8, <1>9, <1>10, <1>11 DEF Types

(* Actions that leave the lists, the slots and the file alone *)
Lists == <<empty, done, queue, owner, block, audio>>

LEMMA StatesTypes ==
    ASSUME Types, UNCHANGED <<Lists, frameNumber, hand>>, runs' = runs,
           state' \in States, host' \in Hosts, memory' \in BOOLEAN,
           current' \in Real \cup {NoEntry}, next' \in Real \cup {NoEntry},
           writer' \in [Tasks -> Writers],
           framesQueued' = framesQueued, framesSaved' \in Nat, declared' \in Int,
           trouble' \in SUBSET (TroubleKinds \cup {"leftover"})
    PROVE  Types'
  BY DEF Types, Lists

LEMMA HostTypes == Types /\ Host => Types'
  <1> SUFFICES ASSUME Types, Host PROVE Types'
    OBVIOUS
  <1>0. /\ memory \in BOOLEAN /\ trouble \in SUBSET (TroubleKinds \cup {"leftover"})
        /\ writer \in [Tasks -> Writers] /\ declared \in Int /\ framesSaved \in Nat
        /\ framesQueued \in Nat /\ state \in States
        /\ current \in Real \cup {NoEntry} /\ next \in Real \cup {NoEntry}
    BY DEF Types
  <1>1. CASE Starting
    BY <1>1, StartingTypes
  <1>2. CASE Enabled
    BY <1>0, <1>2, StatesTypes
    DEF Enabled, Lists, asifVars, countVars, taskVars, slotVars, fileVars, Hosts
  <1>3. CASE Aborted
    <2>1. memory' \in BOOLEAN
      BY <1>3, Zenon DEF Aborted
    <2>2. trouble' \in SUBSET (TroubleKinds \cup {"leftover"})
      BY <1>0, <1>3 DEF Aborted, TroubleKinds
    <2> QED BY <1>0, <1>3, <2>1, <2>2, StatesTypes
        DEF Aborted, Lists, asifVars, countVars, taskVars, slotVars, fileVars, Hosts
  <1>4. CASE Started
    <2>1. /\ empty \in Seq(Real) /\ Len(empty) >= 2
          /\ current' = empty[1] /\ next' = empty[2]
          /\ empty' = SubSeq(empty, 3, Len(empty))
      BY <1>4 DEF Started, Types
    <2>2. current' \in Real /\ next' \in Real /\ empty' \in Seq(Real)
      BY <2>1
    <2>3. state' \in States /\ memory' = memory
      BY <1>4 DEF Started, States
    <2> QED BY <1>0, <1>4, <2>2, <2>3
        DEF Started, Types, asifVars, countVars, taskVars, slotVars, fileVars
  <1>5. CASE Stopping
    <2>1. trouble' \in SUBSET (TroubleKinds \cup {"leftover"}) /\ memory' = memory
      BY <1>0, <1>5 DEF Stopping, TroubleKinds
    <2> QED BY <1>0, <1>5, <2>1, StatesTypes
        DEF Stopping, Lists, asifVars, countVars, taskVars, slotVars, fileVars, Hosts
  <1>6. CASE Stopped
    BY <1>0, <1>6, StatesTypes
    DEF Stopped, Lists, asifVars, countVars, taskVars, slotVars, fileVars, Hosts
  <1>7. CASE StopBegins
    BY <1>0, <1>7, StatesTypes
    DEF StopBegins, Lists, asifVars, countVars, taskVars, slotVars, fileVars, Hosts, States
  <1>8. CASE StopWaited
    BY <1>0, <1>8, StatesTypes
    DEF StopWaited, Lists, asifVars, countVars, taskVars, slotVars, fileVars, Hosts
  <1>9. CASE FlushDone
    <2> DEFINE e == Head(done)
    <2>1. e \in Real /\ done' \in Seq(Real) /\ e.frame \in Nat /\ e.frame + 1 \in Nat
      <3>1. done \in Seq(Real) /\ done # <<>> /\ done' = Tail(done)
        BY <1>9 DEF FlushDone, Types
      <3>2. e \in Real /\ Tail(done) \in Seq(Real)
        BY <3>1, HeadTail
      <3>3. e.frame \in Nat
        BY <3>2, RealFacts
      <3> QED BY <3>1, <3>2, <3>3
    <2> HIDE DEF e
    <2>2. /\ ReleaseOf(e) /\ framesQueued' = Larger(framesQueued, e.frame + 1)
          /\ block' = IF memory THEN [block EXCEPT ![e.slot][e.block] = e.frame + 1] ELSE block
      BY <1>9 DEF FlushDone, e
    <2>3. /\ owner' \in [Slots -> Owners] /\ queue' \in Seq(Slots)
          /\ block' \in [Slots -> [1..Blocks -> Nat]]
      BY <2>1, <2>2, ReleaseTypes
    <2>4. framesQueued' \in Nat
      BY <1>0, <2>1, <2>2 DEF Larger
    <2>5. /\ UNCHANGED <<state, empty, asifVars, framesSaved, taskVars, host, memory, fileVars,
                         trouble, runs>>
      BY <1>9 DEF FlushDone
    <2> QED BY <2>1, <2>3, <2>4, <2>5 DEF Types, asifVars, taskVars, fileVars
  <1>10. CASE FlushEmpty
    <2> DEFINE e == Head(empty)
    <2>1. e \in Real /\ empty' \in Seq(Real)
      <3>1. empty \in Seq(Real) /\ empty # <<>> /\ empty' = Tail(empty)
        BY <1>10 DEF FlushEmpty, Types
      <3> QED BY <3>1, HeadTail
    <2> HIDE DEF e
    <2>2. /\ ReleaseOf(e)
          /\ block' = IF memory THEN [block EXCEPT ![e.slot][e.block] = 0] ELSE block
      BY <1>10 DEF FlushEmpty, e
    <2>3. /\ owner' \in [Slots -> Owners] /\ queue' \in Seq(Slots)
          /\ block' \in [Slots -> [1..Blocks -> Nat]]
      BY <2>1, <2>2, ReleaseTypes
    <2>5. /\ UNCHANGED <<state, done, asifVars, countVars, taskVars, host, memory, fileVars,
                         trouble, runs>>
      BY <1>10 DEF FlushEmpty
    <2> QED BY <2>1, <2>3, <2>5 DEF Types, asifVars, countVars, taskVars, fileVars
  <1>11. CASE StopReturns
    BY <1>0, <1>11, StatesTypes
    DEF StopReturns, Lists, asifVars, countVars, taskVars, slotVars, fileVars, Hosts, States
  <1>12. CASE HostSaves
    <2>1. queue \in Seq(Slots) /\ queue # <<>> /\ queue' = Tail(queue)
      BY <1>12 DEF HostSaves, Types
    <2>2. Head(queue) \in Slots /\ queue' \in Seq(Slots)
      BY <2>1, HeadTail
    <2>3. owner' \in [Slots -> Owners]
      BY <1>12, <2>2 DEF HostSaves, Types, Owners
    <2>4. block[Head(queue)] \in Seq(Nat)
      <3>1. block[Head(queue)] \in [1..Blocks -> Nat] /\ Blocks \in Nat
        BY <2>2, Sizes DEF Types
      <3> QED BY <3>1
    <2>5. Keeping(block[Head(queue)], Nat \ {0}) \in Seq(Nat)
      <3>1. Keeping(block[Head(queue)], Nat \ {0}) \in Seq(Nat \cap (Nat \ {0}))
        BY <2>4, KeepingType
      <3> QED BY <3>1
    <2>6. audio' \in Seq(Nat)
      BY <1>12, <2>5 DEF HostSaves, Types
    <2>7. UNCHANGED <<state, empty, done, asifVars, countVars, taskVars, host, memory, block,
                      declared, trouble, runs>>
      BY <1>12 DEF HostSaves
    <2> QED BY <2>2, <2>3, <2>6, <2>7 DEF Types, asifVars, countVars, taskVars
  <1>13. CASE HostNextChunk
    BY <1>0, <1>13, StatesTypes
    DEF HostNextChunk, CountChunk, Lists, asifVars, taskVars, slotVars, Types
  <1>14. CASE HostFinishes
    <2>1. memory' \in BOOLEAN
      BY <1>14, Zenon DEF HostFinishes
    <2>2. declared' \in Int /\ framesSaved' \in Nat
      BY <1>0, <1>14 DEF HostFinishes, CountChunk
    <2> QED BY <1>0, <1>14, <2>1, <2>2, StatesTypes
        DEF HostFinishes, Lists, asifVars, taskVars, slotVars, Hosts
  <1> QED BY <1>1, <1>2, <1>3, <1>4, <1>5, <1>6, <1>7, <1>8, <1>9, <1>10, <1>11, <1>12, <1>13,
             <1>14 DEF Host

LEMMA AsifTypes == Types /\ AsifBlockFilled => Types'
  <1> SUFFICES ASSUME Types, AsifBlockFilled PROVE Types'
    OBVIOUS
  <1>1. /\ current \in Real /\ next \in Real \cup {NoEntry} /\ empty \in Seq(Real) /\ done \in Seq(Real)
        /\ frameNumber \in Nat /\ state \in States
    BY DEF Types, AsifBlockFilled
  <1>2. [current EXCEPT !.frame = frameNumber] \in Real
    BY <1>1, RealFacts
  <1>3. done' \in Seq(Real) /\ current' \in Real \cup {NoEntry} /\ frameNumber' \in Nat
    BY <1>1, <1>2 DEF AsifBlockFilled
  <1>4. next' \in Real \cup {NoEntry} /\ empty' \in Seq(Real)
    <2>1. CASE state = "RUNNING" /\ empty # <<>>
      BY <1>1, <2>1, HeadTail DEF AsifBlockFilled
    <2>2. CASE ~(state = "RUNNING" /\ empty # <<>>)
      BY <1>1, <2>2 DEF AsifBlockFilled
    <2> QED BY <2>1, <2>2
  <1>5. state' \in States
    BY <1>1 DEF AsifBlockFilled, AfterBlock, States
  <1>6. UNCHANGED <<countVars, taskVars, host, memory, slotVars, fileVars, trouble, runs>>
    BY DEF AsifBlockFilled
  <1> QED BY <1>3, <1>4, <1>5, <1>6 DEF Types, countVars, taskVars, slotVars, fileVars

LEMMA WriterTypes ==
    ASSUME Types, NEW w \in Tasks, TasksInv,
           \/ WriterLooks(w) \/ WriterReceives(w) \/ WriterHandles(w)
           \/ WriterRequeues(w) \/ WriterExits(w)
    PROVE  Types'
  <1>0. /\ writer \in [Tasks -> Writers] /\ hand \in [Tasks -> Real \cup {NoEntry}]
        /\ state \in States /\ done \in Seq(Real) /\ empty \in Seq(Real)
    BY DEF Types
  <1>1. CASE WriterLooks(w)
    <2>1. writer' \in [Tasks -> Writers]
      BY <1>0, <1>1 DEF WriterLooks, Writers
    <2> QED BY <1>1, <2>1
        DEF WriterLooks, Types, asifVars, countVars, slotVars, fileVars
  <1>2. CASE WriterReceives(w)
    <2>1. writer' \in [Tasks -> Writers]
      BY <1>0, <1>2 DEF WriterReceives, Writers
    <2>2. hand' \in [Tasks -> Real \cup {NoEntry}] /\ done' \in Seq(Real)
      <3>1. CASE done = <<>>
        BY <1>0, <1>2, <3>1 DEF WriterReceives
      <3>2. CASE done # <<>>
        <4>1. Head(done) \in Real /\ Tail(done) \in Seq(Real)
          BY <1>0, <3>2, HeadTail
        <4> QED BY <1>0, <1>2, <3>2, <4>1 DEF WriterReceives
      <3> QED BY <3>1, <3>2
    <2> QED BY <1>2, <2>1, <2>2
        DEF WriterReceives, Types, asifVars, countVars, slotVars, fileVars
  <1>3. CASE WriterHandles(w)
    <2> DEFINE e == hand[w]
    <2>1. e \in Real /\ e.frame \in Nat /\ e.frame + 1 \in Nat
      <3>1. e \in Real
        BY <1>0, <1>3 DEF WriterHandles, TasksInv
      <3>2. e.frame \in Nat
        BY <3>1, RealFacts
      <3> QED BY <3>1, <3>2
    <2> HIDE DEF e
    <2>2. /\ ReleaseOf(e)
          /\ block' = IF memory THEN [block EXCEPT ![e.slot][e.block] = e.frame + 1] ELSE block
          /\ framesQueued' = IF IsEnd(e) THEN e.frame + 1 ELSE framesQueued
          /\ writer' = [writer EXCEPT ![w] = IF IsEnd(e) THEN "requeueing" ELSE "loop"]
          /\ hand' = [hand EXCEPT ![w] = NoEntry]
      BY <1>3 DEF WriterHandles, e, CountThrough
    <2>3. /\ owner' \in [Slots -> Owners] /\ queue' \in Seq(Slots)
          /\ block' \in [Slots -> [1..Blocks -> Nat]]
      BY <2>1, <2>2, ReleaseTypes
    <2>4. framesQueued' \in Nat
      BY <2>1, <2>2 DEF Types
    <2>5. writer' \in [Tasks -> Writers]
      BY <1>0, <2>2 DEF Writers
    <2>6. hand' \in [Tasks -> Real \cup {NoEntry}]
      BY <1>0, <2>2
    <2>7. UNCHANGED <<state, empty, done, asifVars, framesSaved, host, memory, fileVars,
                      trouble, runs>>
      BY <1>3 DEF WriterHandles
    <2> QED BY <2>3, <2>4, <2>5, <2>6, <2>7 DEF Types, asifVars, fileVars
  <1>4. CASE WriterRequeues(w)
    <2>1. writer' \in [Tasks -> Writers]
      BY <1>0, <1>4 DEF WriterRequeues, Writers
    <2>2. /\ owner' \in [Slots -> Owners] /\ block' \in [Slots -> [1..Blocks -> Nat]]
          /\ empty' \in Seq(Real) /\ trouble' \in SUBSET (TroubleKinds \cup {"leftover"})
      <3>1. CASE \E s \in FreeSlots : /\ owner' = [owner EXCEPT ![s] = "sound"]
                                      /\ block' = [block EXCEPT ![s] = NullBlocks]
                                      /\ empty' = empty \o Entries(s)
                                      /\ UNCHANGED trouble
        <4>1. PICK s \in FreeSlots : /\ owner' = [owner EXCEPT ![s] = "sound"]
                                     /\ block' = [block EXCEPT ![s] = NullBlocks]
                                     /\ empty' = empty \o Entries(s)
                                     /\ UNCHANGED trouble
          BY <3>1
        <4>2. s \in Slots
          BY DEF FreeSlots
        <4>3. owner' \in [Slots -> Owners]
          BY <4>1 DEF Types, Owners
        <4>4. block' \in [Slots -> [1..Blocks -> Nat]]
          BY <4>1, NullBlocksType DEF Types
        <4>5. empty' \in Seq(Real)
          BY <1>0, <4>1, <4>2, EntriesFacts
        <4> QED BY <4>1, <4>3, <4>4, <4>5 DEF Types
      <3>2. CASE trouble' = trouble \cup {"starved"} /\ UNCHANGED <<owner, block, empty>>
        BY <3>2 DEF Types, TroubleKinds
      <3> QED BY <1>4, <3>1, <3>2 DEF WriterRequeues
    <2>3. UNCHANGED <<state, done, asifVars, countVars, hand, host, memory, queue, fileVars, runs>>
      BY <1>4 DEF WriterRequeues
    <2> QED BY <2>1, <2>2, <2>3 DEF Types, asifVars, countVars, fileVars
  <1>5. CASE WriterExits(w)
    <2>1. writer' \in [Tasks -> Writers] /\ state' \in States
      BY <1>0, <1>5 DEF WriterExits, Writers, States
    <2> QED BY <1>5, <2>1
        DEF WriterExits, Types, asifVars, countVars, slotVars, fileVars
  <1> QED BY <1>1, <1>2, <1>3, <1>4, <1>5

LEMMA TypesStep == Types /\ TasksInv /\ [Next]_vars => Types'
  <1>1. CASE UNCHANGED vars
    BY <1>1 DEF Types, vars, asifVars, countVars, taskVars, slotVars, fileVars
  <1>2. CASE Next
    BY <1>2, HostTypes, AsifTypes, WriterTypes DEF Next, Writer
  <1> QED BY <1>1, <1>2

(* What is known of the tasks and of the recorder *)
LEMMA HostStep == Common /\ [Next]_vars => HostInv'
  <1> SUFFICES ASSUME Common, [Next]_vars PROVE HostInv'
    OBVIOUS
  <1>0. HostInv /\ Types /\ MaxRuns \in Nat
    BY Sizes DEF Common
  <1>1. memory' => host' \notin {"idle", "freed"}
    <2>1. CASE Starting
      BY <2>1 DEF Starting
    <2>2. CASE HostFinishes \/ Aborted
      BY <2>2 DEF HostFinishes, Aborted
    <2>3. CASE StopReturns
      BY <1>0, <2>3 DEF StopReturns, HostInv
    <2>4. CASE Enabled \/ Started \/ Stopping \/ Stopped \/ StopBegins \/ StopWaited
      BY <1>0, <2>4 DEF Enabled, Started, Stopping, Stopped, StopBegins, StopWaited, HostInv
    <2>5. CASE UNCHANGED <<host, memory>>
      BY <1>0, <2>5 DEF HostInv
    <2>6. CASE FlushDone \/ FlushEmpty \/ HostSaves \/ HostNextChunk \/ AsifBlockFilled \/ Writer
      <3>1. UNCHANGED <<host, memory>>
        BY <2>6 DEF FlushDone, FlushEmpty, HostSaves, HostNextChunk, AsifBlockFilled, Writer,
           WriterLooks, WriterReceives, WriterHandles, WriterRequeues, WriterExits
      <3> QED BY <2>5, <3>1
    <2> QED BY <2>1, <2>2, <2>3, <2>4, <2>5, <2>6 DEF Next, Host, vars
  <1>2. host' \in {"preparing", "recording", "saving"} => memory'
    <2>1. CASE Starting
      BY <2>1 DEF Starting
    <2>2. CASE HostFinishes \/ Aborted
      BY <2>2 DEF HostFinishes, Aborted
    <2>3. CASE StopReturns
      BY <1>0, <2>3 DEF StopReturns, HostInv
    <2>4. CASE Enabled \/ Started \/ Stopping \/ Stopped \/ StopBegins \/ StopWaited
      BY <1>0, <2>4 DEF Enabled, Started, Stopping, Stopped, StopBegins, StopWaited, HostInv
    <2>5. CASE UNCHANGED <<host, memory>>
      BY <1>0, <2>5 DEF HostInv
    <2>6. CASE FlushDone \/ FlushEmpty \/ HostSaves \/ HostNextChunk \/ AsifBlockFilled \/ Writer
      <3>1. UNCHANGED <<host, memory>>
        BY <2>6 DEF FlushDone, FlushEmpty, HostSaves, HostNextChunk, AsifBlockFilled, Writer,
           WriterLooks, WriterReceives, WriterHandles, WriterRequeues, WriterExits
      <3> QED BY <2>5, <3>1
    <2> QED BY <2>1, <2>2, <2>3, <2>4, <2>5, <2>6 DEF Next, Host, vars
  <1>3. host' # "idle" => runs' \in Tasks
    <2>1. CASE Starting
      <3>1. runs \in Nat /\ runs < MaxRuns /\ runs' = runs + 1
        BY <1>0, <2>1 DEF Starting, Types
      <3> QED BY <1>0, <3>1 DEF Tasks
    <2>2. CASE ~Starting
      <3>1. runs' = runs /\ (host = "idle" => host' = "idle")
        BY <2>2 DEF Next, Host, Enabled, Aborted, Started, Stopping, Stopped, StopBegins, StopWaited,
           FlushDone, FlushEmpty, StopReturns, HostSaves, HostNextChunk, HostFinishes,
           AsifBlockFilled, Writer, WriterLooks, WriterReceives, WriterHandles, WriterRequeues,
           WriterExits, vars
      <3> QED BY <1>0, <3>1 DEF HostInv
    <2> QED BY <2>1, <2>2
  <1> QED BY <1>1, <1>2, <1>3 DEF HostInv

(* Tasks come into being when a recording starts, and end on "STOP_TASK". *)
LEMMA WorkersStay ==
    ASSUME Common, Next, ~Starting, NEW w \in Tasks, Works(w), ~Works(w)'
    PROVE  state = "STOP_TASK" /\ state' = state /\ current' = current
  <1>1. UNCHANGED writer => ~(Works(w) /\ ~Works(w)')
    BY DEF Works
  <1>2. Writer
    BY <1>1 DEF Next, Host, Enabled, Aborted, Started, Stopping, Stopped, StopBegins, StopWaited,
       FlushDone, FlushEmpty, StopReturns, HostSaves, HostNextChunk, HostFinishes,
       AsifBlockFilled, taskVars
  <1>3. PICK v \in Tasks : \/ WriterLooks(v) \/ WriterReceives(v) \/ WriterHandles(v)
                           \/ WriterRequeues(v) \/ WriterExits(v)
    BY <1>2 DEF Writer
  <1>4. writer \in [Tasks -> Writers]
    BY DEF Common, Types
  <1>5. CASE WriterLooks(v)
    BY <1>4, <1>5 DEF WriterLooks, Works, asifVars
  <1>6. CASE WriterReceives(v)
    BY <1>4, <1>6 DEF WriterReceives, Works
  <1>7. CASE WriterHandles(v)
    BY <1>4, <1>7 DEF WriterHandles, Works
  <1>8. CASE WriterRequeues(v)
    BY <1>4, <1>8 DEF WriterRequeues, Works
  <1>9. CASE WriterExits(v)
    BY <1>4, <1>9 DEF WriterExits, Works
  <1> QED BY <1>3, <1>5, <1>6, <1>7, <1>8, <1>9

LEMMA TasksStep == Common /\ [Next]_vars => TasksInv'
  <1> SUFFICES ASSUME Common, Next PROVE TasksInv'
    BY DEF Common, TasksInv, vars, asifVars, taskVars, Works, NothingLeft
  <1>0. /\ TasksInv /\ Types /\ MaxRuns \in Nat
        /\ writer \in [Tasks -> Writers] /\ hand \in [Tasks -> Real \cup {NoEntry}]
        /\ NoEntry \notin Real /\ runs \in 0..MaxRuns
    BY Sizes, RealFacts DEF Common, Types
  <1>1. (\A w \in Tasks : hand[w] # NoEntry <=> writer[w] = "handling")'
    <2>1. CASE Starting
      BY <1>0, <2>1 DEF Starting, TasksInv
    <2>2. CASE UNCHANGED <<hand, writer>>
      BY <1>0, <2>2 DEF TasksInv
    <2>3. ASSUME NEW v \in Tasks,
                 \/ WriterLooks(v) \/ WriterReceives(v) \/ WriterHandles(v)
                 \/ WriterRequeues(v) \/ WriterExits(v)
          PROVE  \A w \in Tasks : hand'[w] # NoEntry <=> writer'[w] = "handling"
      <3>1. CASE WriterLooks(v)
        BY <1>0, <3>1 DEF WriterLooks, TasksInv
      <3>2. CASE WriterReceives(v)
        <4>1. done # <<>> => Head(done) # NoEntry
          BY <1>0, HeadTail, RealFacts DEF Types
        <4> QED BY <1>0, <3>2, <4>1 DEF WriterReceives, TasksInv
      <3>3. CASE WriterHandles(v)
        BY <1>0, <3>3 DEF WriterHandles, TasksInv
      <3>4. CASE WriterRequeues(v)
        BY <1>0, <3>4 DEF WriterRequeues, TasksInv
      <3>5. CASE WriterExits(v)
        BY <1>0, <3>5 DEF WriterExits, TasksInv
      <3> QED BY <2>3, <3>1, <3>2, <3>3, <3>4, <3>5
    <2>4. CASE Writer
      BY <2>3, <2>4 DEF Writer
    <2>5. CASE ~Starting /\ ~Writer
      <3>1. UNCHANGED <<hand, writer>>
        BY <2>5 DEF Next, Host, Enabled, Aborted, Started, Stopping, Stopped, StopBegins, StopWaited,
           FlushDone, FlushEmpty, StopReturns, HostSaves, HostNextChunk, HostFinishes,
           AsifBlockFilled, taskVars
      <3> QED BY <2>2, <3>1
    <2> QED BY <2>1, <2>4, <2>5
  <1>2. (\A w \in Tasks : w > runs => writer[w] = "none")'
    <2>1. CASE Starting
      <3>1. runs' = runs + 1 /\ \A w \in Tasks : w > runs + 1 => w # runs + 1 /\ w > runs
        BY <1>0, <2>1 DEF Starting, Tasks
      <3> QED BY <1>0, <2>1, <3>1 DEF Starting, TasksInv
    <2>2. CASE UNCHANGED <<runs, writer>>
      BY <1>0, <2>2 DEF TasksInv
    <2>3. ASSUME NEW v \in Tasks,
                 \/ WriterLooks(v) \/ WriterReceives(v) \/ WriterHandles(v)
                 \/ WriterRequeues(v) \/ WriterExits(v)
          PROVE  \A w \in Tasks : w > runs' => writer'[w] = "none"
      <3>1. runs' = runs /\ writer[v] # "none" /\ \A w \in Tasks : w # v => writer'[w] = writer[w]
        BY <1>0, <2>3 DEF WriterLooks, WriterReceives, WriterHandles, WriterRequeues, WriterExits
      <3> QED BY <1>0, <3>1 DEF TasksInv
    <2>4. CASE Writer
      BY <2>3, <2>4 DEF Writer
    <2>5. CASE ~Starting /\ ~Writer
      <3>1. UNCHANGED <<runs, writer>>
        BY <2>5 DEF Next, Host, Enabled, Aborted, Started, Stopping, Stopped, StopBegins, StopWaited,
           FlushDone, FlushEmpty, StopReturns, HostSaves, HostNextChunk, HostFinishes,
           AsifBlockFilled, taskVars
      <3> QED BY <2>2, <3>1
    <2> QED BY <2>1, <2>4, <2>5
  <1>3. /\ current' = NoEntry => next' = NoEntry
        /\ state' = "RUNNING" => next' # NoEntry
        /\ state' = "STOP_ASIF" => next' = NoEntry
        /\ state' = "STOP_TASK" => current' = NoEntry
    <2>1. CASE AsifBlockFilled
      <3>1. state = "RUNNING" /\ empty # <<>> => next' # NoEntry
        <4>1. empty \in Seq(Real)
          BY <1>0 DEF Types
        <4>2. empty # <<>> => Head(empty) \in Real
          BY <4>1, HeadTail
        <4> QED BY <2>1, <4>2, RealFacts DEF AsifBlockFilled
      <3>2. /\ current # NoEntry /\ current' = next
            /\ current = NoEntry => next = NoEntry
            /\ state = "RUNNING" => next # NoEntry
            /\ state = "STOP_ASIF" => next = NoEntry
            /\ state = "STOP_TASK" => current = NoEntry
        BY <1>0, <2>1 DEF TasksInv, AsifBlockFilled
      <3>3. CASE state = "RUNNING" /\ empty # <<>>
        <4>1. state' = state
          BY <2>1, <3>3 DEF AsifBlockFilled
        <4> QED BY <3>1, <3>2, <3>3, <4>1
      <3>4. CASE ~(state = "RUNNING" /\ empty # <<>>)
        <4>1. next' = NoEntry /\ state' = IF state = "RUNNING" THEN "STOP_ASIF" ELSE AfterBlock(state)
          BY <2>1, <3>4 DEF AsifBlockFilled
        <4>2. /\ state' # "RUNNING"
              /\ state' = "STOP_TASK" => state \in {"STOP_ASIF", "STOP_TASK"}
          BY <4>1 DEF AfterBlock
        <4> QED BY <3>2, <4>1, <4>2
      <3> QED BY <3>3, <3>4
    <2>2. CASE Started
      <3>1. empty[1] # NoEntry /\ empty[2] # NoEntry
        <4>1. empty \in Seq(Real) /\ Len(empty) >= 2
          BY <2>2 DEF Started, Common, Types
        <4>2. empty[1] \in Real /\ empty[2] \in Real
          BY <4>1
        <4> QED BY <4>2, RealFacts
      <3> QED BY <2>2, <3>1 DEF Started
    <2>3. CASE Starting
      BY <1>0, <2>3 DEF Starting, TasksInv
    <2>4. CASE ~AsifBlockFilled /\ ~Started /\ ~Starting
      <3>1. /\ UNCHANGED <<current, next>>
            /\ state' = state \/ state' \in {"STOPPING", "IDLE", "STOPPED"}
        BY <2>4 DEF Next, Host, Enabled, Aborted, Stopping, Stopped, StopBegins, StopWaited,
           FlushDone, FlushEmpty, StopReturns, HostSaves, HostNextChunk, HostFinishes,
           Writer, WriterLooks, WriterReceives, WriterHandles, WriterRequeues,
           WriterExits, asifVars
      <3> QED BY <1>0, <3>1 DEF TasksInv
    <2> QED BY <2>1, <2>2, <2>3, <2>4
  <1>4. current' # NoEntry \/ state' = "READY" => \E w \in Tasks : Works(w)'
    <2>1. CASE Starting
      <3>1. CASE state = "IDLE"
        <4>1. runs + 1 \in Tasks
          BY <1>0, <2>1 DEF Starting, Tasks
        <4>2. writer'[runs + 1] = "loop"
          BY <1>0, <2>1, <3>1, <4>1 DEF Starting
        <4> QED BY <4>1, <4>2 DEF Works
      <3>2. CASE state # "IDLE"
        <4>1. UNCHANGED <<writer, current, state>>
          BY <2>1, <3>2 DEF Starting
        <4> QED BY <1>0, <4>1 DEF TasksInv, Works
      <3> QED BY <3>1, <3>2
    <2>2. CASE ~Starting
      <3> SUFFICES ASSUME current' # NoEntry \/ state' = "READY"
                   PROVE  \E w \in Tasks : Works(w)'
        OBVIOUS
      <3>1. current # NoEntry \/ state = "READY"
        <4>1. CASE AsifBlockFilled \/ Started
          BY <4>1 DEF AsifBlockFilled, Started
        <4>2. CASE ~AsifBlockFilled /\ ~Started
          <5>1. current' = current /\ (state' = state \/ state' \in {"STOPPING", "IDLE", "STOPPED"})
            BY <2>2, <4>2 DEF Next, Host, Enabled, Aborted, Stopping, Stopped, StopBegins, StopWaited,
               FlushDone, FlushEmpty, StopReturns, HostSaves, HostNextChunk, HostFinishes,
               Writer, WriterLooks, WriterReceives, WriterHandles, WriterRequeues,
               WriterExits, asifVars
          <5> QED BY <5>1
        <4> QED BY <4>1, <4>2
      <3>2. PICK w \in Tasks : Works(w)
        BY <1>0, <3>1 DEF TasksInv
      <3>3. Works(w)'
        <4> SUFFICES ASSUME ~Works(w)' PROVE FALSE
          OBVIOUS
        <4>1. state = "STOP_TASK" /\ state' = state /\ current' = current
          BY <2>2, <3>2, WorkersStay
        <4> QED BY <1>0, <4>1 DEF TasksInv
      <3> QED BY <3>3
    <2> QED BY <2>1, <2>2
  <1>5. state' = "IDLE" /\ (\A w \in Tasks : writer'[w] = "none") => NothingLeft'
    <2> SUFFICES ASSUME state' = "IDLE", \A w \in Tasks : writer'[w] = "none" PROVE NothingLeft'
      OBVIOUS
    <2>0. state' = "IDLE" /\ \A w \in Tasks : writer'[w] = "none"
      OBVIOUS
    <2>1. CASE StopReturns
      BY <2>1 DEF StopReturns, NothingLeft
    <2>2. CASE ~StopReturns
      <3>1. state = "IDLE" /\ ~Starting
        BY <2>2 DEF Next, Host, Starting, Enabled, Aborted, Started, Stopping, Stopped, StopBegins,
           StopWaited, FlushDone, FlushEmpty, HostSaves, HostNextChunk, HostFinishes,
           AsifBlockFilled, AfterBlock, Writer, WriterLooks, WriterReceives, WriterHandles,
           WriterRequeues, WriterExits
      <3>2. ~Writer
        <4> SUFFICES ASSUME NEW v \in Tasks,
                            \/ WriterLooks(v) \/ WriterReceives(v) \/ WriterHandles(v)
                            \/ WriterRequeues(v) \/ WriterExits(v)
                     PROVE  writer'[v] # "none" \/ state' # "IDLE"
          BY <2>0 DEF Writer
        <4> QED BY <1>0 DEF WriterLooks, WriterReceives, WriterHandles, WriterRequeues, WriterExits
      <3>3. writer' = writer
        BY <3>1, <3>2 DEF Next, Host, Enabled, Aborted, Started, Stopping, Stopped, StopBegins,
           StopWaited, FlushDone, FlushEmpty, StopReturns, HostSaves, HostNextChunk, HostFinishes,
           AsifBlockFilled, taskVars
      <3>4. NothingLeft /\ \A w \in Tasks : ~Works(w)
        BY <1>0, <2>0, <3>1, <3>3 DEF TasksInv, Works
      <3>5. ~AsifBlockFilled /\ ~FlushDone /\ ~FlushEmpty /\ ~Started
        BY <1>0, <3>1, <3>4 DEF TasksInv, AsifBlockFilled, FlushDone, FlushEmpty, Started, NothingLeft
      <3>6. UNCHANGED <<done, empty>>
        BY <2>2, <3>1, <3>2, <3>5 DEF Next, Host, Enabled, Aborted, Stopping, Stopped, StopBegins,
           StopWaited, HostSaves, HostNextChunk, HostFinishes
      <3> QED BY <3>4, <3>6 DEF NothingLeft
    <2> QED BY <2>1, <2>2
  <1> QED BY <1>1, <1>2, <1>3, <1>4, <1>5 DEF TasksInv

(* Types, and how the state, the tasks and the recorder go together, in every
   recording, however it began. *)
THEOREM CommonHolds == Spec => []Common
  <1>1. Common /\ [Next]_vars => Common'
    BY TypesStep, TasksStep, HostStep DEF Common
  <1> QED BY InitCommon, <1>1, PTL DEF Spec

LEMMA TypesGiveTypeOK == Types => TypeOK
  <1> SUFFICES ASSUME Types PROVE TypeOK
    OBVIOUS
  <1>1. \A e \in Real \cup {NoEntry} : e \in EntryType
    BY RealFacts
  <1>2. empty \in Seq(EntryType) /\ done \in Seq(EntryType)
    <2>1. Real \subseteq EntryType
      BY <1>1
    <2> QED BY <2>1 DEF Types
  <1>3. {current, next} \subseteq EntryType /\ hand \in [Tasks -> EntryType]
    BY <1>1 DEF Types
  <1>4. {frameNumber, framesQueued, framesSaved, runs} \subseteq Nat
    BY Sizes DEF Types
  <1> QED BY <1>2, <1>3, <1>4 DEF Types, TypeOK, Hosts, Writers, Owners

-----------------------------------------------------------------------------
(* Lemmas about the line of blocks                                         *)

LEMMA AppendFacts ==
    ASSUME NEW X, NEW q \in Seq(X), NEW e \in X
    PROVE  /\ Append(q, e) \in Seq(X) /\ Len(Append(q, e)) = Len(q) + 1 /\ Len(q) \in Nat
           /\ \A k \in 1..Len(q) : Append(q, e)[k] = q[k]
           /\ Append(q, e)[Len(q) + 1] = e
  OBVIOUS

LEMMA StandsShift ==
    ASSUME NEW e, NEW a, NEW b, NEW k \in Nat, NEW p \in 1..Blocks, k >= 1,
           Stands(e, k + 1, a, b, p)
    PROVE  /\ p # Blocks => Stands(e, k, a, b, p + 1)
           /\ p = Blocks /\ k <= Blocks => Stands(e, k, b, 0, 1)
  <1>0. Blocks \in Nat
    BY Sizes
  <1>1. CASE k + 1 <= Blocks - p + 1
    <2>1. e.slot = a /\ e.block = p + (k + 1) - 1
      BY <1>1 DEF Stands
    <2>2. k <= Blocks - (p + 1) + 1 /\ p + (k + 1) - 1 = (p + 1) + k - 1 /\ p # Blocks
      BY <1>0, <1>1
    <2> QED BY <2>1, <2>2 DEF Stands
  <1>2. CASE ~(k + 1 <= Blocks - p + 1)
    <2>1. e.slot = b /\ e.block = p + (k + 1) - 1 - Blocks
      BY <1>2 DEF Stands
    <2>2. p # Blocks => /\ ~(k <= Blocks - (p + 1) + 1)
                        /\ p + (k + 1) - 1 - Blocks = (p + 1) + k - 1 - Blocks
      BY <1>0, <1>2
    <2>3. p = Blocks /\ k <= Blocks => /\ k <= Blocks - 1 + 1
                                       /\ p + (k + 1) - 1 - Blocks = 1 + k - 1
      BY <1>0
    <2> QED BY <2>1, <2>2, <2>3 DEF Stands
  <1> QED BY <1>1, <1>2

(* The block that comes first is number p of slot a. *)
First(f, u) == IF f # <<>> THEN Head(f) ELSE Head(u)

LEMMA FirstFacts ==
    ASSUME NEW f \in Seq(Real), NEW u \in Seq(Real), f # <<>> \/ u # <<>>,
           NEW a, NEW b, NEW p, Laid(f, u, a, b, p)
    PROVE  /\ a \in Slots /\ p \in 1..Blocks /\ a # 0
           /\ First(f, u).slot = a /\ First(f, u).block = p
           /\ f # <<>> => First(f, u) = f[1]
  <1>0. Blocks \in Nat /\ NSlots \in Nat /\ Len(f) \in Nat /\ Len(u) \in Nat
    BY Sizes
  <1>1. p \in 1..Blocks /\ a \in 0..NSlots /\ 1 <= Blocks - p + 1
    BY <1>0 DEF Laid
  <1>2. a # 0
    BY <1>0, HeadTail DEF Laid, Rest
  <1>3. a \in Slots
    BY <1>0, <1>1, <1>2 DEF Slots
  <1>4. CASE f # <<>>
    <2>1. First(f, u) = f[1] /\ 1 \in 1..Len(f)
      BY <1>4, HeadTail DEF First
    <2>2. Stands(f[1], 1, a, b, p)
      BY <2>1 DEF Laid
    <2> QED BY <1>0, <1>1, <1>2, <1>3, <2>1, <2>2 DEF Stands
  <1>5. CASE f = <<>>
    <2>1. First(f, u) = u[1] /\ 1 \in 1..Len(u) /\ Len(f) = 0
      BY <1>5, HeadTail DEF First
    <2>2. Stands(u[1], 1, a, b, p)
      <3>1. Stands(u[1], Len(f) + 1, a, b, p)
        BY <2>1 DEF Laid
      <3> QED BY <2>1, <3>1
    <2> QED BY <1>0, <1>1, <1>2, <1>3, <1>5, <2>1, <2>2 DEF Stands
  <1> QED BY <1>4, <1>5

(* The line without its first block *)
LEMMA DropFirst ==
    ASSUME NEW f, NEW u, NEW g, NEW v,
           f \in Seq(Real), u \in Seq(Real), g \in Seq(Real), v \in Seq(Real),
           NEW a, NEW b, NEW p, Laid(f, u, a, b, p),
           \/ f # <<>> /\ g = Tail(f) /\ v = u
           \/ f = <<>> /\ u # <<>> /\ g = f /\ v = Tail(u)
    PROVE  /\ p # Blocks => Laid(g, v, a, b, p + 1)
           /\ p = Blocks => Laid(g, v, b, 0, 1)
  <1>0. Blocks \in Nat /\ NSlots \in Nat /\ Len(f) \in Nat /\ Len(u) \in Nat /\ Blocks >= 1
    BY Sizes
  <1>1. /\ a \in 0..NSlots /\ b \in 0..NSlots /\ p \in 1..Blocks
        /\ a # b /\ a # 0
        /\ Len(f) + Len(u) = Rest(a, b, p)
        /\ \A k \in 1..Len(f) : Stands(f[k], k, a, b, p)
        /\ \A k \in 1..Len(u) : Stands(u[k], Len(f) + k, a, b, p)
    <2>1. a # 0
      BY FirstFacts
    <2> QED BY <2>1 DEF Laid
  <1>2. Len(g) \in Nat /\ Len(v) \in Nat /\ Len(g) + Len(v) = Len(f) + Len(u) - 1
    <2>1. Len(g) \in Nat /\ Len(v) \in Nat
      OBVIOUS
    <2>2. CASE f # <<>> /\ g = Tail(f) /\ v = u
      <3>1. Len(g) = Len(f) - 1 /\ Len(v) = Len(u)
        BY <2>2, HeadTail
      <3> QED BY ONLY <1>0, <2>1, <3>1
    <2>3. CASE f = <<>> /\ u # <<>> /\ g = f /\ v = Tail(u)
      <3>1. Len(v) = Len(u) - 1 /\ Len(g) = Len(f)
        BY <2>3, HeadTail
      <3> QED BY ONLY <1>0, <2>1, <3>1
    <2>4. \/ f # <<>> /\ g = Tail(f) /\ v = u
          \/ f = <<>> /\ u # <<>> /\ g = f /\ v = Tail(u)
      OBVIOUS
    <2> QED BY <2>1, <2>2, <2>3, <2>4, Zenon
  <1>3. Len(g) + Len(v) = (Blocks - p) + (IF b = 0 THEN 0 ELSE Blocks)
    <2>1. Rest(a, b, p) = (Blocks - p + 1) + (IF b = 0 THEN 0 ELSE Blocks)
      BY <1>1 DEF Rest
    <2>2. PICK m : m \in Nat /\ m = IF b = 0 THEN 0 ELSE Blocks
      BY <1>0
    <2>3. Len(f) + Len(u) = (Blocks - p + 1) + m
      BY <1>1, <2>1, <2>2
    <2>4. Len(g) + Len(v) = (Blocks - p) + m
      <3>1. /\ p \in Int /\ Len(f) \in Int /\ Len(u) \in Int
            /\ Len(g) \in Int /\ Len(v) \in Int /\ Blocks \in Int /\ m \in Int
        BY <1>0, <1>1, <1>2, <2>2
      <3> QED BY ONLY <1>2, <2>3, <3>1
    <2> QED BY <2>2, <2>4
  <1>4. \A k \in 1..Len(g) : Stands(g[k], k + 1, a, b, p)
    <2>1. CASE f # <<>> /\ g = Tail(f)
      BY <1>0, <1>1, <2>1, HeadTail
    <2>2. CASE f = <<>> /\ g = f
      BY <2>2
    <2> QED BY <2>1, <2>2
  <1>5. \A k \in 1..Len(v) : Stands(v[k], Len(g) + k + 1, a, b, p)
    <2>1. CASE f # <<>> /\ g = Tail(f) /\ v = u
      <3>1. Len(g) + 1 = Len(f) /\ \A k \in 1..Len(u) : Len(g) + k + 1 = Len(f) + k
        BY <1>0, <2>1, HeadTail
      <3> QED BY <1>1, <2>1, <3>1
    <2>2. CASE f = <<>> /\ u # <<>> /\ g = f /\ v = Tail(u)
      <3>1. Len(f) = 0 /\ Len(g) = 0
        BY <2>2
      <3>2. \A k \in 1..Len(v) : v[k] = u[k + 1] /\ k + 1 \in 1..Len(u)
        BY <1>0, <2>2, HeadTail
      <3>3. \A k \in 1..Len(v) : Len(g) + k + 1 = Len(f) + (k + 1)
        BY <3>1
      <3> QED BY <1>1, <3>2, <3>3
    <2> QED BY <2>1, <2>2
  <1>6. CASE p # Blocks
    <2>1. p + 1 \in 1..Blocks
      BY <1>0, <1>1, <1>6
    <2>2. Len(g) + Len(v) = Rest(a, b, p + 1)
      BY <1>0, <1>1, <1>3 DEF Rest
    <2>3. \A k \in 1..Len(g) : Stands(g[k], k, a, b, p + 1)
      <3> SUFFICES ASSUME NEW k \in 1..Len(g) PROVE Stands(g[k], k, a, b, p + 1)
        OBVIOUS
      <3>1. k \in Nat /\ k >= 1
        OBVIOUS
      <3> QED BY <1>1, <1>4, <1>6, <3>1, StandsShift
    <2>4. \A k \in 1..Len(v) : Stands(v[k], Len(g) + k, a, b, p + 1)
      <3> SUFFICES ASSUME NEW k \in 1..Len(v) PROVE Stands(v[k], Len(g) + k, a, b, p + 1)
        OBVIOUS
      <3>1. PICK n \in Nat : n = Len(g) + k
        BY <1>2
      <3>2. n >= 1 /\ Stands(v[k], n + 1, a, b, p)
        BY <1>2, <1>5, <3>1
      <3> QED BY <1>1, <1>6, <3>1, <3>2, StandsShift
    <2> QED BY <1>1, <1>6, <2>1, <2>2, <2>3, <2>4 DEF Laid
  <1>7. CASE p = Blocks
    <2>1. 1 \in 1..Blocks /\ 0 \in 0..NSlots /\ (b = 0 => 0 = 0) /\ (b # 0 => b # 0)
      BY <1>0
    <2>2. Len(g) + Len(v) = Rest(b, 0, 1) /\ Len(g) + Len(v) <= Blocks
      BY <1>0, <1>1, <1>3, <1>7 DEF Rest
    <2>3. \A k \in 1..Len(g) : Stands(g[k], k, b, 0, 1)
      <3> SUFFICES ASSUME NEW k \in 1..Len(g) PROVE Stands(g[k], k, b, 0, 1)
        OBVIOUS
      <3>1. k \in Nat /\ k >= 1 /\ k <= Blocks
        BY <1>0, <1>2, <2>2
      <3> QED BY <1>1, <1>4, <1>7, <3>1, StandsShift
    <2>4. \A k \in 1..Len(v) : Stands(v[k], Len(g) + k, b, 0, 1)
      <3> SUFFICES ASSUME NEW k \in 1..Len(v) PROVE Stands(v[k], Len(g) + k, b, 0, 1)
        OBVIOUS
      <3>1. PICK n \in Nat : n = Len(g) + k
        BY <1>2
      <3>2. n >= 1 /\ n <= Blocks /\ Stands(v[k], n + 1, a, b, p)
        BY <1>0, <1>2, <1>5, <2>2, <3>1
      <3> QED BY <1>1, <1>7, <3>1, <3>2, StandsShift
    <2> QED BY <1>1, <1>7, <2>1, <2>2, <2>3, <2>4 DEF Laid
  <1> QED BY <1>6, <1>7

(* ASIF fills the first empty block. *)
LEMMA FillLaid ==
    ASSUME NEW f \in Seq(Real), NEW u \in Seq(Real), u # <<>>, NEW e \in Real,
           e.slot = Head(u).slot, e.block = Head(u).block,
           NEW a, NEW b, NEW p, Laid(f, u, a, b, p)
    PROVE  Laid(Append(f, e), Tail(u), a, b, p)
  <1>0. Blocks \in Nat /\ Len(f) \in Nat /\ Len(u) \in Nat /\ p \in 1..Blocks
    BY Sizes DEF Laid
  <1>1. /\ Len(Append(f, e)) = Len(f) + 1 /\ Len(Tail(u)) = Len(u) - 1 /\ Len(u) >= 1
        /\ Head(u) = u[1]
        /\ \A k \in 1..Len(f) : Append(f, e)[k] = f[k]
        /\ Append(f, e)[Len(f) + 1] = e
        /\ \A k \in 1..Len(Tail(u)) : Tail(u)[k] = u[k + 1]
    BY AppendFacts, HeadTail
  <1>2. Stands(e, Len(f) + 1, a, b, p)
    <2>1. Stands(u[1], Len(f) + 1, a, b, p)
      BY <1>0, <1>1 DEF Laid
    <2> QED BY <1>1, <2>1 DEF Stands
  <1>3. \A k \in 1..(Len(f) + 1) : Stands(Append(f, e)[k], k, a, b, p)
    <2>1. \A k \in 1..(Len(f) + 1) : k \in 1..Len(f) \/ k = Len(f) + 1
      BY <1>0
    <2> QED BY <1>1, <1>2, <2>1 DEF Laid
  <1>4. \A k \in 1..Len(Tail(u)) : Stands(Tail(u)[k], Len(Append(f, e)) + k, a, b, p)
    <2> SUFFICES ASSUME NEW k \in 1..Len(Tail(u))
                 PROVE  Stands(Tail(u)[k], Len(Append(f, e)) + k, a, b, p)
      OBVIOUS
    <2>1. k + 1 \in 1..Len(u) /\ Len(f) + (k + 1) = Len(Append(f, e)) + k
      BY <1>0, <1>1
    <2>2. Stands(u[k + 1], Len(f) + (k + 1), a, b, p)
      BY <2>1 DEF Laid
    <2> QED BY <1>1, <2>1, <2>2
  <1>5. Len(Append(f, e)) + Len(Tail(u)) = Len(f) + Len(u)
    BY <1>0, <1>1
  <1> QED BY <1>1, <1>3, <1>4, <1>5 DEF Laid

(* The writer adds a slot when there is at most one whole. *)
LEMMA ExtendLaid ==
    ASSUME NEW f \in Seq(Real), NEW u \in Seq(Real), NEW a, Laid(f, u, a, 0, 1),
           NEW s \in Slots, s # a
    PROVE  IF a = 0 THEN Laid(f, u \o Entries(s), s, 0, 1)
                    ELSE Laid(f, u \o Entries(s), a, s, 1)
  <1>0. /\ Blocks \in Nat /\ Blocks >= 1 /\ NSlots \in Nat
        /\ Len(f) \in Nat /\ Len(u) \in Nat /\ a \in 0..NSlots
        /\ s \in 0..NSlots /\ s # 0
    BY Sizes DEF Laid, Slots
  <1>1. /\ Entries(s) \in Seq(Real) /\ Len(Entries(s)) = Blocks
        /\ \A y \in 1..Blocks : Entries(s)[y].slot = s /\ Entries(s)[y].block = y
    BY EntriesFacts
  <1>2. /\ Len(u \o Entries(s)) = Len(u) + Blocks
        /\ \A k \in 1..Len(u) : (u \o Entries(s))[k] = u[k]
        /\ \A y \in 1..Blocks : (u \o Entries(s))[Len(u) + y] = Entries(s)[y]
    BY <1>1, JoinedElements
  <1>3. /\ Len(f) + Len(u) = IF a = 0 THEN 0 ELSE Blocks
        /\ \A k \in 1..Len(f) : Stands(f[k], k, a, 0, 1)
        /\ \A k \in 1..Len(u) : Stands(u[k], Len(f) + k, a, 0, 1)
    BY <1>0 DEF Laid, Rest
  <1>4. \A k \in 1..(Len(u) + Blocks) : k \in 1..Len(u) \/ \E y \in 1..Blocks : k = Len(u) + y
    <2> SUFFICES ASSUME NEW k \in 1..(Len(u) + Blocks), k \notin 1..Len(u)
                 PROVE  \E y \in 1..Blocks : k = Len(u) + y
      OBVIOUS
    <2>1. k - Len(u) \in 1..Blocks /\ k = Len(u) + (k - Len(u))
      BY <1>0
    <2> QED BY <2>1
  <1>5. CASE a = 0
    <2>1. Len(f) = 0 /\ Len(u) = 0
      BY <1>0, <1>3, <1>5
    <2>2. \A k \in 1..Blocks : Stands((u \o Entries(s))[k], Len(f) + k, s, 0, 1)
      <3> SUFFICES ASSUME NEW k \in 1..Blocks
                   PROVE  Stands((u \o Entries(s))[k], Len(f) + k, s, 0, 1)
        OBVIOUS
      <3>1. PICK e : e = (u \o Entries(s))[k]
        OBVIOUS
      <3>2. e.slot = s /\ e.block = k
        BY <1>1, <1>2, <2>1, <3>1
      <3>3. Len(f) + k = k /\ k <= Blocks - 1 + 1 /\ 1 + k - 1 = k
        BY <1>0, <2>1
      <3> QED BY <3>1, <3>2, <3>3 DEF Stands
    <2>3. Len(f) + Len(u \o Entries(s)) = Rest(s, 0, 1)
      BY <1>0, <1>2, <2>1 DEF Rest
    <2> QED BY <1>0, <1>2, <1>5, <2>1, <2>2, <2>3 DEF Laid
  <1>6. CASE a # 0
    <2>1. Len(f) + Len(u) = Blocks
      BY <1>3, <1>6
    <2>2. \A e, k : k \in Int /\ k <= Blocks /\ Stands(e, k, a, 0, 1) => Stands(e, k, a, s, 1)
      BY <1>0 DEF Stands
    <2>3. \A k \in 1..Len(f) : Stands(f[k], k, a, s, 1)
      BY <1>0, <1>3, <2>1, <2>2
    <2>4. \A k \in 1..(Len(u) + Blocks) : Stands((u \o Entries(s))[k], Len(f) + k, a, s, 1)
      <3> SUFFICES ASSUME NEW k \in 1..(Len(u) + Blocks)
                   PROVE  Stands((u \o Entries(s))[k], Len(f) + k, a, s, 1)
        OBVIOUS
      <3>1. CASE k \in 1..Len(u)
        <4>1. PICK n \in Int : n = Len(f) + k
          BY <1>0
        <4>2. n <= Blocks /\ Stands(u[k], n, a, 0, 1)
          BY <1>0, <1>3, <2>1, <3>1, <4>1
        <4>3. Stands(u[k], n, a, s, 1)
          BY <2>2, <4>1, <4>2
        <4> QED BY <1>2, <3>1, <4>1, <4>3
      <3>2. ASSUME NEW y \in 1..Blocks, k = Len(u) + y
            PROVE  Stands((u \o Entries(s))[k], Len(f) + k, a, s, 1)
        <4>1. PICK e : e = (u \o Entries(s))[k]
          OBVIOUS
        <4>2. e.slot = s /\ e.block = y
          BY <1>1, <1>2, <3>2, <4>1
        <4>3. Len(f) + k = Blocks + y
          BY <1>0, <2>1, <3>2
        <4>4. /\ ~(Blocks + y <= Blocks - 1 + 1)
              /\ y = 1 + (Blocks + y) - 1 - Blocks
          BY <1>0
        <4>5. Stands(e, Blocks + y, a, s, 1)
          BY <4>2, <4>4 DEF Stands
        <4> QED BY <4>1, <4>3, <4>5
      <3> QED BY <1>4, <3>1, <3>2
    <2>5. Len(f) + Len(u \o Entries(s)) = Rest(a, s, 1)
      <3>1. Rest(a, s, 1) = Blocks - 1 + 1 + Blocks
        BY <1>0, <1>6 DEF Rest
      <3>2. \A i, j, n \in Int : i + j = n => i + (j + n) = n - 1 + 1 + n
        OBVIOUS
      <3>3. Len(f) \in Int /\ Len(u) \in Int /\ Blocks \in Int
        BY <1>0
      <3>4. Len(f) + (Len(u) + Blocks) = Blocks - 1 + 1 + Blocks
        BY ONLY <2>1, <3>2, <3>3
      <3> QED BY <1>2, <3>1, <3>4, Zenon
    <2> QED BY <1>0, <1>2, <1>6, <2>3, <2>4, <2>5 DEF Laid
  <1> QED BY <1>5, <1>6

-----------------------------------------------------------------------------
(* Lemmas about what the slots hold                                        *)

Contents == [Slots -> [1..Blocks -> Nat]]

Written(blk, a, p, n) == [blk EXCEPT ![a][p] = n]

(* n is what a block becomes: the next in order, or NULL. *)
Marks(top, put, p, new, n) == \/ put = top + p - 1 /\ n = put + 1 /\ new = put + 1
                              \/ n = 0 /\ new = put

LEMMA BlankRow ==
    ASSUME NEW r, NEW x \in Int, NEW y \in Int
    PROVE  Row(r, x, x) => Row(r, y, y)
  BY Sizes DEF Row

LEMMA NullRow == ASSUME NEW x \in Int PROVE Row(NullBlocks, x, x)
  BY Sizes DEF Row, NullBlocks

(* The block after those in a slot is written, or it is filled up. *)
LEMMA RowWrite ==
    ASSUME NEW blk \in Contents, NEW a \in Slots, NEW p \in 1..Blocks, NEW n \in Nat,
           NEW top \in Nat, NEW put \in Nat, NEW new \in Nat,
           Row(blk[a], top, put), put \in top..(top + p - 1), Marks(top, put, p, new, n),
           NEW blk2, blk2 = Written(blk, a, p, n)
    PROVE  /\ Row(blk2[a], top, new)
           /\ \A s \in Slots : s # a => blk2[s] = blk[s]
  <1>0. Blocks \in Nat
    BY Sizes
  <1>1. /\ \A s \in Slots : s # a => blk2[s] = blk[s]
        /\ blk2[a] = [blk[a] EXCEPT ![p] = n]
        /\ blk[a] \in [1..Blocks -> Nat]
    BY DEF Contents, Written
  <1>2. \A y \in 1..Blocks : blk2[a][y] = IF y = p THEN n ELSE blk[a][y]
    BY <1>1
  <1>3. \A y \in 1..Blocks : blk2[a][y] = IF top + y <= new THEN top + y ELSE 0
    <2> SUFFICES ASSUME NEW y \in 1..Blocks
                 PROVE  blk2[a][y] = IF top + y <= new THEN top + y ELSE 0
      OBVIOUS
    <2>1. blk[a][y] = IF top + y <= put THEN top + y ELSE 0
      BY DEF Row
    <2>2. blk2[a][y] = IF y = p THEN n ELSE blk[a][y]
      BY <1>2
    <2>3. y \in Int /\ p \in Int
      BY <1>0
    <2>4. CASE put = top + p - 1 /\ n = put + 1 /\ new = put + 1
      <3>1. y = p => n = top + y /\ top + y <= new
        BY <2>4
      <3>2. y # p => (top + y <= put <=> top + y <= new)
        BY <2>3, <2>4
      <3> QED BY <2>1, <2>2, <3>1, <3>2
    <2>5. CASE n = 0 /\ new = put
      <3>1. y = p => ~(top + y <= new)
        BY <2>3, <2>5
      <3> QED BY <2>1, <2>2, <2>5, <3>1
    <2> QED BY <2>4, <2>5 DEF Marks
  <1> QED BY <1>1, <1>3 DEF Row

LEMMA ChainType ==
    ASSUME NEW q \in Seq(Slots), NEW t, NEW own, NEW blk, Chained(q, t, own, blk)
    PROVE  /\ Len(q) \in Nat /\ t[Len(q) + 1] \in Nat /\ t[1] \in Nat
           /\ \A i \in 1..Len(q) : t[i] \in Nat /\ t[i + 1] \in Nat
  <1>1. Len(q) \in Nat
    OBVIOUS
  <1>2. t \in Seq(Nat) /\ Len(t) = Len(q) + 1
    BY DEF Chained
  <1>3. \A i \in 1..(Len(q) + 1) : t[i] \in Nat
    BY <1>1, <1>2
  <1> QED BY <1>1, <1>3

(* What is written to a slot that is not in the queue *)
LEMMA ChainWrite ==
    ASSUME NEW q \in Seq(Slots), NEW t, NEW own, NEW blk, NEW own2, NEW blk2,
           Chained(q, t, own, blk), NEW a, own[a] # "queued",
           \A s \in Slots : s # a => blk2[s] = blk[s] /\ own2[s] = own[s]
    PROVE  Chained(q, t, own2, blk2)
  <1>1. \A i \in 1..Len(q) : q[i] \in Slots
    OBVIOUS
  <1>2. \A i \in 1..Len(q) : own[q[i]] = "queued"
    BY DEF Chained
  <1>3. \A i \in 1..Len(q) : own2[q[i]] = own[q[i]] /\ blk2[q[i]] = blk[q[i]]
    BY <1>1, <1>2
  <1> QED BY <1>3 DEF Chained

LEMMA ChainAppend ==
    ASSUME NEW q \in Seq(Slots), NEW t, NEW own \in [Slots -> Owners], NEW blk, NEW a \in Slots,
           Chained(q, t, own, blk), own[a] = "sound",
           NEW new \in Nat, new \in t[Len(q) + 1]..(t[Len(q) + 1] + Blocks),
           Row(blk[a], t[Len(q) + 1], new)
    PROVE  Chained(Append(q, a), Append(t, new), [own EXCEPT ![a] = "queued"], blk)
  <1> DEFINE q2 == Append(q, a)
             t2 == Append(t, new)
             o2 == [own EXCEPT ![a] = "queued"]
  <1>0. /\ Len(q) \in Nat /\ t \in Seq(Nat) /\ Len(t) = Len(q) + 1
        /\ \A i \in 1..Len(q) : /\ t[i + 1] \in t[i]..(t[i] + Blocks)
                                /\ Row(blk[q[i]], t[i], t[i + 1])
                                /\ own[q[i]] = "queued" /\ q[i] \in Slots
        /\ \A i, j \in 1..Len(q) : q[i] = q[j] => i = j
    BY DEF Chained
  <1>1. /\ q2 \in Seq(Slots) /\ Len(q2) = Len(q) + 1
        /\ \A i \in 1..Len(q) : q2[i] = q[i]
        /\ q2[Len(q) + 1] = a
    BY AppendFacts
  <1>2. /\ t2 \in Seq(Nat) /\ Len(t2) = Len(q2) + 1
        /\ \A i \in 1..(Len(q) + 1) : t2[i] = t[i]
        /\ t2[Len(q) + 2] = new
    BY <1>0, <1>1, AppendFacts
  <1>3. o2[a] = "queued" /\ \A s \in Slots : own[s] = "queued" => o2[s] = "queued"
    BY DEF Owners
  <1>4. \A i \in 1..Len(q2) : i \in 1..Len(q) \/ i = Len(q) + 1
    BY <1>0, <1>1
  <1> HIDE DEF q2, t2, o2
  <1>5. ASSUME NEW i \in 1..Len(q2)
        PROVE  /\ t2[i + 1] \in t2[i]..(t2[i] + Blocks)
               /\ Row(blk[q2[i]], t2[i], t2[i + 1])
               /\ o2[q2[i]] = "queued"
    <2>1. CASE i \in 1..Len(q)
      <3>1. i + 1 \in 1..(Len(q) + 1) /\ i \in 1..(Len(q) + 1)
        BY <1>0, <2>1
      <3>2. t2[i] = t[i] /\ t2[i + 1] = t[i + 1] /\ q2[i] = q[i]
        BY <1>1, <1>2, <2>1, <3>1
      <3> QED BY <1>0, <1>3, <2>1, <3>2
    <2>2. CASE i = Len(q) + 1
      <3>1. i + 1 = Len(q) + 2 /\ i \in 1..(Len(q) + 1)
        BY <1>0, <2>2
      <3>2. t2[i] = t[Len(q) + 1] /\ t2[i + 1] = new /\ q2[i] = a
        BY <1>1, <1>2, <2>2, <3>1
      <3> QED BY <1>3, <3>2
    <2> QED BY <1>4, <2>1, <2>2
  <1>6. ASSUME NEW i \in 1..Len(q2), NEW j \in 1..Len(q2), q2[i] = q2[j] PROVE i = j
    <2>1. \A k \in 1..Len(q) : q[k] # a
      BY <1>0
    <2>2. CASE i \in 1..Len(q) /\ j \in 1..Len(q)
      BY <1>0, <1>1, <1>6, <2>2
    <2>3. CASE i = Len(q) + 1 \/ j = Len(q) + 1
      BY <1>1, <1>4, <1>6, <2>1, <2>3
    <2> QED BY <1>4, <2>2, <2>3
  <1>7. Chained(q2, t2, o2, blk)
    BY <1>2, <1>5, <1>6 DEF Chained
  <1> QED BY <1>7 DEF q2, t2, o2

(* The recorder writes the first slot to the file. *)
LEMMA ChainTail ==
    ASSUME NEW q \in Seq(Slots), q # <<>>, NEW t, NEW own \in [Slots -> Owners], NEW blk,
           Chained(q, t, own, blk)
    PROVE  /\ Chained(Tail(q), Tail(t), [own EXCEPT ![Head(q)] = "free"], blk)
           /\ Tail(t)[Len(Tail(q)) + 1] = t[Len(q) + 1] /\ Tail(t)[1] = t[2]
           /\ Tail(t) \in Seq(Nat)
  <1> DEFINE q2 == Tail(q)
             t2 == Tail(t)
             o2 == [own EXCEPT ![Head(q)] = "free"]
  <1>0. /\ Len(q) \in Nat /\ t \in Seq(Nat) /\ Len(t) = Len(q) + 1
        /\ \A i \in 1..Len(q) : /\ t[i + 1] \in t[i]..(t[i] + Blocks)
                                /\ Row(blk[q[i]], t[i], t[i + 1])
                                /\ own[q[i]] = "queued" /\ q[i] \in Slots
        /\ \A i, j \in 1..Len(q) : q[i] = q[j] => i = j
    BY DEF Chained
  <1>1. /\ Len(q) >= 1 /\ Head(q) = q[1] /\ q2 \in Seq(Slots) /\ Len(q2) = Len(q) - 1
        /\ \A i \in 1..Len(q2) : q2[i] = q[i + 1]
    BY HeadTail
  <1>2. /\ t2 \in Seq(Nat) /\ Len(t2) = Len(q)
        /\ \A i \in 1..Len(q) : t2[i] = t[i + 1]
    <2>1. t # <<>>
      BY <1>0
    <2>2. t2 \in Seq(Nat) /\ Len(t2) = Len(t) - 1 /\ \A i \in 1..Len(t2) : t2[i] = t[i + 1]
      BY <1>0, <2>1, HeadTail
    <2> QED BY <1>0, <2>2
  <1> HIDE DEF q2, t2
  <1>3. \A s \in Slots : s # q[1] => o2[s] = own[s]
    BY <1>1
  <1> HIDE DEF o2
  <1>4. ASSUME NEW i \in 1..Len(q2)
        PROVE  /\ t2[i + 1] \in t2[i]..(t2[i] + Blocks)
               /\ Row(blk[q2[i]], t2[i], t2[i + 1])
               /\ o2[q2[i]] = "queued"
    <2>1. i + 1 \in 1..Len(q) /\ i \in 1..Len(q) /\ 1 \in 1..Len(q) /\ i + 1 # 1
      BY <1>0, <1>1
    <2>2. t2[i + 1] = t[(i + 1) + 1] /\ t2[i] = t[i + 1] /\ q2[i] = q[i + 1]
      BY <1>1, <1>2, <2>1
    <2>3. q[i + 1] # q[1]
      BY <1>0, <2>1
    <2> QED BY <1>0, <1>3, <2>1, <2>2, <2>3
  <1>5. ASSUME NEW i \in 1..Len(q2), NEW j \in 1..Len(q2), q2[i] = q2[j] PROVE i = j
    <2>1. i + 1 \in 1..Len(q) /\ j + 1 \in 1..Len(q)
      BY <1>0, <1>1
    <2>2. q[i + 1] = q[j + 1]
      BY <1>1, <1>5, Zenon
    <2>3. i + 1 = j + 1
      BY <1>0, <2>1, <2>2, Zenon
    <2> QED BY <2>3
  <1>6. Len(t2) = Len(q2) + 1
    BY <1>0, <1>1, <1>2
  <1>7. Chained(q2, t2, o2, blk)
    BY <1>2, <1>4, <1>5, <1>6 DEF Chained
  <1>8. t2[Len(q2) + 1] = t[Len(q) + 1] /\ t2[1] = t[2]
    <2>1. Len(q2) + 1 = Len(q) /\ Len(q) \in 1..Len(q) /\ 1 \in 1..Len(q) /\ 1 + 1 = 2
      BY <1>0, <1>1
    <2>2. t2[Len(q)] = t[Len(q) + 1] /\ t2[1] = t[1 + 1]
      BY <1>2, <2>1
    <2> QED BY <2>1, <2>2
  <1> QED BY <1>2, <1>7, <1>8 DEF q2, t2, o2

-----------------------------------------------------------------------------
(* Lemmas about the whole line                                             *)

(* Taken: the first block is handed over, as block number n - 1 if it was
   filled, as a NULL block if not. *)
Taken(f, u, top, put, p, g, v, new, n) ==
    \/ /\ f # <<>> /\ g = Tail(f) /\ v = u
       /\ put = top + p - 1 /\ n = put + 1 /\ new = put + 1
    \/ f = <<>> /\ u # <<>> /\ g = f /\ v = Tail(u) /\ n = 0 /\ new = put

LEMMA TakenFrames ==
    ASSUME NEW f, NEW u, NEW top, NEW put, NEW p, NEW g, NEW v, NEW new, NEW n,
           f \in Seq(Real), put \in Nat,
           Taken(f, u, top, put, p, g, v, new, n),
           Framed(f, put)
    PROVE  Framed(g, new)
  <1>1. CASE f # <<>> /\ g = Tail(f) /\ new = put + 1
    <2> SUFFICES ASSUME NEW k \in 1..Len(g) PROVE g[k].frame = new + k - 1
      BY DEF Framed
    <2>1. g[k] = f[k + 1] /\ k + 1 \in 1..Len(f)
      BY <1>1, HeadTail
    <2>2. f[k + 1].frame = put + (k + 1) - 1
      BY <2>1 DEF Framed
    <2>3. put + (k + 1) - 1 = new + k - 1
      <3>1. k \in Int /\ put \in Int /\ new = put + 1
        BY <1>1
      <3> QED BY ONLY <3>1
    <2> QED BY <2>1, <2>2, <2>3
  <1>2. CASE f = <<>> /\ g = f
    BY <1>2 DEF Framed
  <1> QED BY <1>1, <1>2 DEF Taken

LEMMA TakeMiddle ==
    ASSUME NEW f \in Seq(Real), NEW u \in Seq(Real), NEW g \in Seq(Real), NEW v \in Seq(Real),
           NEW q \in Seq(Slots), NEW t, NEW put, NEW own \in [Slots -> Owners],
           NEW blk \in Contents, NEW a, NEW b, NEW p, NEW new, NEW n,
           Line(f, u, q, t, put, own, blk, a, b, p), p # Blocks,
           Taken(f, u, t[Len(q) + 1], put, p, g, v, new, n),
           NEW blk2, blk2 = Written(blk, a, p, n)
    PROVE  Line(g, v, q, t, new, own, blk2, a, b, p + 1)
  <1> DEFINE top == t[Len(q) + 1]
  <1>0. /\ Blocks \in Nat /\ put \in Nat /\ top \in Nat /\ p \in 1..Blocks /\ a \in Slots
        /\ a # b /\ put \in top..(top + p - 1)
        /\ Row(blk[a], top, put) /\ (b # 0 => Row(blk[b], put, put))
        /\ Laid(f, u, a, b, p) /\ Owned(own, a, b) /\ Chained(q, t, own, blk)
        /\ Taken(f, u, top, put, p, g, v, new, n)
    <2>1. Laid(f, u, a, b, p) /\ Chained(q, t, own, blk) /\ Numbered(f, put, top, blk, a, b, p)
      BY DEF Line
    <2>2. f # <<>> \/ u # <<>>
      BY DEF Taken
    <2>3. a \in Slots /\ p \in 1..Blocks /\ a # 0
      BY <2>1, <2>2, FirstFacts
    <2> QED BY <2>1, <2>3, Sizes, ChainType DEF Line, Numbered, Laid
  <1> HIDE DEF top
  <1>a. Framed(f, put)
    BY DEF Line, Numbered
  <1>b. f \in Seq(Real) /\ blk2 = Written(blk, a, p, n) /\ blk \in Contents
    OBVIOUS
  <1>1. new \in Nat /\ n \in Nat /\ new \in put..(put + 1)
    BY <1>0 DEF Taken
  <1>2. Marks(top, put, p, new, n)
    BY DEF Taken, Marks, top
  <1>3. Row(blk2[a], top, new) /\ \A s \in Slots : s # a => blk2[s] = blk[s]
    <2>1. /\ a \in Slots /\ p \in 1..Blocks /\ top \in Nat /\ put \in Nat /\ Row(blk[a], top, put)
          /\ put \in top..(top + p - 1)
      BY <1>0
    <2>2. new \in Nat /\ n \in Nat
      BY <1>1
    <2> QED BY ONLY <2>1, <2>2, <1>2, <1>b, RowWrite
  <1>4. Laid(g, v, a, b, p + 1)
    <2>1. \/ f # <<>> /\ g = Tail(f) /\ v = u
          \/ f = <<>> /\ u # <<>> /\ g = f /\ v = Tail(u)
      BY DEF Taken
    <2> QED BY <1>0, <2>1, DropFirst
  <1>5. Chained(q, t, own, blk2)
    <2>1. own[a] = "sound"
      BY <1>0 DEF Owned
    <2> QED BY <1>0, <1>3, <2>1, ChainWrite
  <1>6. Numbered(g, new, top, blk2, a, b, p + 1)
    <2>1. Framed(g, new)
      BY ONLY <1>0, <1>a, <1>b, TakenFrames
    <2>2. new \in top..(top + (p + 1) - 1)
      BY <1>0, <1>1, <1>2 DEF Marks
    <2>3. b # 0 => Row(blk2[b], new, new)
      <3>1. b # 0 => b \in Slots
        BY <1>0, Sizes DEF Laid, Slots
      <3> QED BY <1>0, <1>1, <1>3, <3>1, BlankRow
    <2> QED BY <1>1, <1>3, <2>1, <2>2, <2>3 DEF Numbered
  <1> QED BY <1>0, <1>4, <1>5, <1>6 DEF Line, top

LEMMA TakeLast ==
    ASSUME NEW f \in Seq(Real), NEW u \in Seq(Real), NEW g \in Seq(Real), NEW v \in Seq(Real),
           NEW q \in Seq(Slots), NEW t, NEW put, NEW own \in [Slots -> Owners],
           NEW blk \in Contents, NEW a, NEW b, NEW p, NEW new, NEW n,
           Line(f, u, q, t, put, own, blk, a, b, p), p = Blocks,
           Taken(f, u, t[Len(q) + 1], put, p, g, v, new, n),
           NEW blk2, blk2 = Written(blk, a, p, n)
    PROVE  Line(g, v, Append(q, a), Append(t, new), new, [own EXCEPT ![a] = "queued"],
                blk2, b, 0, 1)
  <1> DEFINE top == t[Len(q) + 1]
             q2  == Append(q, a)
             t2  == Append(t, new)
             o2  == [own EXCEPT ![a] = "queued"]
  <1>0. /\ Blocks \in Nat /\ put \in Nat /\ top \in Nat /\ p \in 1..Blocks /\ a \in Slots
        /\ a # b /\ put \in top..(top + p - 1)
        /\ Row(blk[a], top, put) /\ (b # 0 => Row(blk[b], put, put))
        /\ Laid(f, u, a, b, p) /\ Owned(own, a, b) /\ Chained(q, t, own, blk)
        /\ Taken(f, u, top, put, p, g, v, new, n)
    <2>1. Laid(f, u, a, b, p) /\ Chained(q, t, own, blk) /\ Numbered(f, put, top, blk, a, b, p)
      BY DEF Line
    <2>2. f # <<>> \/ u # <<>>
      BY DEF Taken
    <2>3. a \in Slots /\ p \in 1..Blocks /\ a # 0
      BY <2>1, <2>2, FirstFacts
    <2> QED BY <2>1, <2>3, Sizes, ChainType DEF Line, Numbered, Laid
  <1>a. Framed(f, put)
    BY DEF Line, Numbered
  <1>b. f \in Seq(Real) /\ blk2 = Written(blk, a, p, n) /\ blk \in Contents
    OBVIOUS
  <1>1. new \in Nat /\ n \in Nat /\ new \in put..(put + 1)
    BY <1>0 DEF Taken
  <1>2. Marks(top, put, p, new, n)
    BY DEF Taken, Marks
  <1>3. Row(blk2[a], top, new) /\ \A s \in Slots : s # a => blk2[s] = blk[s]
    <2> HIDE DEF top
    <2>1. /\ a \in Slots /\ p \in 1..Blocks /\ top \in Nat /\ put \in Nat /\ Row(blk[a], top, put)
          /\ put \in top..(top + p - 1)
      BY <1>0
    <2>2. new \in Nat /\ n \in Nat
      BY <1>1
    <2> QED BY ONLY <2>1, <2>2, <1>2, <1>b, RowWrite
  <1>4. Laid(g, v, b, 0, 1)
    <2>1. \/ f # <<>> /\ g = Tail(f) /\ v = u
          \/ f = <<>> /\ u # <<>> /\ g = f /\ v = Tail(u)
      BY DEF Taken
    <2> QED BY <1>0, <2>1, DropFirst
  <1>5. own[a] = "sound"
    BY <1>0 DEF Owned
  <1>6. Chained(q2, t2, o2, blk2)
    <2>1. Chained(q, t, own, blk2)
      <3>1. /\ own[a] # "queued"
            /\ \A s \in Slots : s # a => blk2[s] = blk[s] /\ own[s] = own[s]
        BY <1>3, <1>5
      <3> QED BY ONLY <1>0, <3>1, q \in Seq(Slots), ChainWrite
    <2>2. new \in top..(top + Blocks)
      <3> HIDE DEF top
      <3> QED BY <1>0, <1>1, <1>2 DEF Marks
    <2> QED BY <1>0, <1>1, <1>3, <1>5, <2>1, <2>2, ChainAppend
  <1>7. t2[Len(q2) + 1] = new
    <2>1. t \in Seq(Nat) /\ Len(t) = Len(q) + 1 /\ Len(q2) = Len(q) + 1 /\ Len(q) \in Nat
      BY <1>0, AppendFacts DEF Chained
    <2>2. Len(q2) + 1 = Len(t) + 1
      BY <2>1
    <2> HIDE DEF q2
    <2> QED BY <1>1, <2>1, <2>2, AppendFacts
  <1>8. Numbered(g, new, new, blk2, b, 0, 1)
    <2>1. Framed(g, new)
      BY ONLY <1>0, <1>a, <1>b, TakenFrames
    <2>2. new \in new..(new + 1 - 1)
      BY <1>1
    <2>3. b # 0 => Row(blk2[b], new, new)
      <3>1. b # 0 => b \in Slots
        BY <1>0, Sizes DEF Laid, Slots
      <3> QED BY <1>0, <1>1, <1>3, <3>1, BlankRow
    <2> QED BY <1>1, <2>1, <2>2, <2>3 DEF Numbered
  <1>9. Owned(o2, b, 0)
    <2>1. ASSUME NEW s \in Slots PROVE o2[s] = "sound" <=> s \in {b, 0}
      <3>1. s # 0
        BY Sizes DEF Slots
      <3>2. o2[s] = IF s = a THEN "queued" ELSE own[s]
        OBVIOUS
      <3> QED BY <1>0, <3>1, <3>2 DEF Owned
    <2> QED BY <2>1 DEF Owned
  <1> HIDE DEF o2
  <1>10. Numbered(g, new, t2[Len(q2) + 1], blk2, b, 0, 1)
    BY <1>7, <1>8
  <1>11. Line(g, v, q2, t2, new, o2, blk2, b, 0, 1)
    BY <1>4, <1>6, <1>9, <1>10 DEF Line
  <1> QED BY <1>11 DEF o2

LEMMA FillLine ==
    ASSUME NEW f \in Seq(Real), NEW u \in Seq(Real), u # <<>>, NEW e \in Real,
           NEW q, NEW t, NEW put \in Nat, NEW own, NEW blk, NEW a, NEW b, NEW p,
           Line(f, u, q, t, put, own, blk, a, b, p),
           e.slot = Head(u).slot, e.block = Head(u).block, e.frame = put + Len(f)
    PROVE  Line(Append(f, e), Tail(u), q, t, put, own, blk, a, b, p)
  <1>1. Laid(Append(f, e), Tail(u), a, b, p)
    BY FillLaid DEF Line
  <1>2. Framed(Append(f, e), put)
    <2>1. /\ Len(Append(f, e)) = Len(f) + 1 /\ Len(f) \in Nat
          /\ \A k \in 1..Len(f) : Append(f, e)[k] = f[k]
          /\ Append(f, e)[Len(f) + 1] = e
      BY AppendFacts
    <2>2. Framed(f, put)
      BY DEF Line, Numbered
    <2>3. \A k \in 1..(Len(f) + 1) : k \in 1..Len(f) \/ k = Len(f) + 1
      BY <2>1
    <2>4. put + Len(f) = put + (Len(f) + 1) - 1
      BY <2>1
    <2> QED BY <2>1, <2>2, <2>3, <2>4 DEF Framed
  <1> QED BY <1>1, <1>2 DEF Line, Numbered

LEMMA ExtendLine ==
    ASSUME NEW f \in Seq(Real), NEW u \in Seq(Real), NEW q \in Seq(Slots), NEW t, NEW put \in Nat,
           NEW own \in [Slots -> Owners], NEW blk \in Contents, NEW a,
           Line(f, u, q, t, put, own, blk, a, 0, 1), NEW s \in Slots, own[s] = "free",
           NEW own2, own2 = [own EXCEPT ![s] = "sound"],
           NEW blk2, blk2 = [blk EXCEPT ![s] = NullBlocks]
    PROVE  IF a = 0 THEN Line(f, u \o Entries(s), q, t, put, own2, blk2, s, 0, 1)
                    ELSE Line(f, u \o Entries(s), q, t, put, own2, blk2, a, s, 1)
  <1>0. /\ Laid(f, u, a, 0, 1) /\ Owned(own, a, 0) /\ Chained(q, t, own, blk)
        /\ Numbered(f, put, t[Len(q) + 1], blk, a, 0, 1)
    BY DEF Line
  <1>1. a \in 0..NSlots /\ s # a /\ s # 0 /\ (a # 0 => a \in Slots)
    <2>1. a \in 0..NSlots /\ s # 0 /\ (a # 0 => a \in Slots)
      BY <1>0, Sizes DEF Laid, Slots
    <2>2. a # 0 => own[a] = "sound"
      BY <1>0, <2>1 DEF Owned
    <2> QED BY <2>1, <2>2
  <1>2. IF a = 0 THEN Laid(f, u \o Entries(s), s, 0, 1) ELSE Laid(f, u \o Entries(s), a, s, 1)
    BY <1>0, <1>1, ExtendLaid
  <1>3. \A r \in Slots : r # s => blk2[r] = blk[r] /\ own2[r] = own[r]
    BY DEF Contents
  <1>4. blk2[s] = NullBlocks /\ own2[s] = "sound"
    BY DEF Contents
  <1>5. Chained(q, t, own2, blk2)
    <2>1. own[s] # "queued" /\ \A r \in Slots : r # s => blk2[r] = blk[r] /\ own2[r] = own[r]
      BY <1>3
    <2>2. Chained(q, t, own, blk) /\ q \in Seq(Slots)
      BY <1>0
    <2> QED BY ONLY <2>1, <2>2, ChainWrite
  <1>6. Owned(own2, a, s) /\ (a = 0 => Owned(own2, s, 0))
    <2>1. ASSUME NEW r \in Slots PROVE own2[r] = "sound" <=> r \in {a, s}
      <3>1. r # 0
        BY Sizes DEF Slots
      <3>2. CASE r = s
        BY <1>4, <3>2
      <3>3. CASE r # s
        BY <1>0, <1>3, <3>1, <3>3 DEF Owned
      <3> QED BY <3>2, <3>3
    <2>2. \A r \in Slots : r # 0
      BY Sizes DEF Slots
    <2> QED BY <2>1, <2>2 DEF Owned
  <1>7. Row(blk2[s], put, put)
    BY <1>4, NullRow
  <1>8. CASE a = 0
    <2>1. put = t[Len(q) + 1]
      BY <1>0, ChainType DEF Numbered
    <2>2. Numbered(f, put, t[Len(q) + 1], blk2, s, 0, 1)
      BY <1>0, <1>7, <2>1 DEF Numbered
    <2> QED BY <1>2, <1>5, <1>6, <1>8, <2>2 DEF Line
  <1>9. CASE a # 0
    <2>1. blk2[a] = blk[a]
      BY <1>1, <1>3, <1>9
    <2>2. Numbered(f, put, t[Len(q) + 1], blk2, a, s, 1)
      BY <1>0, <1>7, <1>9, <2>1 DEF Numbered
    <2> QED BY <1>2, <1>5, <1>6, <1>9, <2>2 DEF Line
  <1> QED BY <1>8, <1>9

LEMMA SaveLine ==
    ASSUME NEW f \in Seq(Real), NEW u \in Seq(Real), NEW q \in Seq(Slots), q # <<>>, NEW t, NEW put,
           NEW own \in [Slots -> Owners], NEW blk, NEW a, NEW b, NEW p,
           Line(f, u, q, t, put, own, blk, a, b, p)
    PROVE  Line(f, u, Tail(q), Tail(t), put, [own EXCEPT ![Head(q)] = "free"], blk, a, b, p)
  <1>0. /\ Laid(f, u, a, b, p) /\ Owned(own, a, b) /\ Chained(q, t, own, blk)
        /\ Numbered(f, put, t[Len(q) + 1], blk, a, b, p)
    BY DEF Line
  <1>1. /\ Chained(Tail(q), Tail(t), [own EXCEPT ![Head(q)] = "free"], blk)
        /\ Tail(t)[Len(Tail(q)) + 1] = t[Len(q) + 1]
    BY <1>0, ChainTail
  <1>2. own[Head(q)] = "queued" /\ Head(q) \in Slots
    <2>1. Head(q) = q[1] /\ 1 \in 1..Len(q) /\ Head(q) \in Slots
      BY HeadTail
    <2> QED BY <1>0, <2>1 DEF Chained
  <1>3. Owned([own EXCEPT ![Head(q)] = "free"], a, b)
    BY <1>0, <1>2 DEF Owned
  <1> QED BY <1>0, <1>1, <1>3 DEF Line

(* A slot of sound is saved without the NULL blocks. *)
LEMMA KeptRow ==
    ASSUME NEW r \in [1..Blocks -> Nat], NEW lo \in Nat, NEW hi \in Nat,
           hi \in lo..(lo + Blocks), Row(r, lo, hi)
    PROVE  /\ Keeping(r, Nat \ {0}) \in Seq(Nat) /\ Len(Keeping(r, Nat \ {0})) = hi - lo
           /\ \A k \in 1..(hi - lo) : Keeping(r, Nat \ {0})[k] = lo + k
  <1>0. Blocks \in Nat
    BY Sizes
  <1>1. PICK m \in Nat : m = hi - lo /\ m <= Blocks
    BY <1>0
  <1>2. r \in Seq(Nat) /\ DOMAIN r = 1..Blocks
    BY <1>0
  <1>3. Where(r, Nat \ {0}) = 1..m
    <2>1. \A y \in 1..Blocks : r[y] # 0 <=> y <= m
      BY <1>0, <1>1 DEF Row
    <2>2. \A y \in 1..Blocks : r[y] \in Nat
      OBVIOUS
    <2>3. \A y : y \in 1..m <=> y \in 1..Blocks /\ y <= m
      BY <1>0, <1>1
    <2> QED BY <1>2, <2>1, <2>2, <2>3 DEF Where
  <1>4. \A k \in 0..m : Cardinality(1..k) = k
    BY FS_Interval
  <1>5. \A k \in 1..m : Rank(1..m, k) = k
    <2> SUFFICES ASSUME NEW k \in 1..m PROVE Rank(1..m, k) = k
      OBVIOUS
    <2>1. {j \in 1..m : j <= k} = 1..k
      BY <1>1
    <2>2. Rank(1..m, k) = Cardinality(1..k)
      BY <2>1 DEF Rank
    <2>3. k \in 0..m
      BY <1>1
    <2> QED BY <1>4, <2>2, <2>3
  <1>6. 1..m \in SUBSET (1..m) /\ Cardinality(1..m) = m
    BY <1>4
  <1>7. \A k \in 1..m : Nth(1..m, k) = k
    BY <1>1, <1>5, <1>6, NthFacts
  <1>8. Keeping(r, Nat \ {0}) = [k \in 1..m |-> r[k]]
    BY <1>3, <1>6, <1>7 DEF Keeping, Chosen
  <1>9. \A k \in 1..m : r[k] = lo + k
    BY <1>0, <1>1 DEF Row
  <1>10. Keeping(r, Nat \ {0}) = [k \in 1..m |-> lo + k]
    BY <1>8, <1>9
  <1> QED BY <1>1, <1>10

-----------------------------------------------------------------------------
(* What the actions do to the line                                         *)

LEMMA HeadFirst ==
    ASSUME NEW X, NEW q \in Seq(X), q # <<>>
    PROVE  <<Head(q)>> \o Tail(q) = q
  <1>1. /\ Head(q) \in X /\ Tail(q) \in Seq(X) /\ Len(Tail(q)) = Len(q) - 1 /\ Len(q) >= 1
        /\ Head(q) = q[1] /\ \A k \in 1..Len(Tail(q)) : Tail(q)[k] = q[k + 1]
    BY HeadTail
  <1>2. <<Head(q)>> \in Seq(X) /\ Len(<<Head(q)>>) = 1 /\ <<Head(q)>>[1] = q[1]
    BY <1>1
  <1>3. Len(q) = 1 + Len(Tail(q))
    BY <1>1
  <1>4. \A k \in 1..1 : q[k] = <<Head(q)>>[k]
    BY <1>2
  <1>5. \A k \in 1..Len(Tail(q)) : q[1 + k] = Tail(q)[k]
    BY <1>1
  <1> QED BY <1>1, <1>2, <1>3, <1>4, <1>5, IsConcat

LEMMA OneFacts ==
    ASSUME NEW e \in Real \cup {NoEntry}
    PROVE  /\ One(e) \in Seq(Real)
           /\ e = NoEntry => One(e) = <<>> /\ Len(One(e)) = 0
           /\ e # NoEntry => e \in Real /\ One(e) = <<e>> /\ Len(One(e)) = 1
  BY DEF One

LEMMA EmptyConcat ==
    ASSUME NEW X, NEW q \in Seq(X)
    PROVE  <<>> \o q = q
  OBVIOUS

(* The task of this recording, and the line, are well formed. *)
LEMMA LineTypes ==
    ASSUME Common, memory
    PROVE  /\ runs \in Tasks /\ hand[runs] \in Real \cup {NoEntry}
           /\ hand[runs] # NoEntry <=> Me = "handling"
           /\ One(hand[runs]) \in Seq(Real) /\ done \in Seq(Real) /\ empty \in Seq(Real)
           /\ One(current) \in Seq(Real) /\ One(next) \in Seq(Real)
           /\ Filled \in Seq(Real) /\ Unfilled \in Seq(Real)
           /\ Len(Filled) = Len(One(hand[runs])) + Len(done)
           /\ Len(Unfilled) = Len(One(current)) + (Len(One(next)) + Len(empty))
           /\ hand[runs] = NoEntry => Filled = done
           /\ current = NoEntry => Unfilled = empty
  <1>1. runs \in Tasks
    BY DEF Common, HostInv
  <1>2. /\ hand \in [Tasks -> Real \cup {NoEntry}] /\ done \in Seq(Real) /\ empty \in Seq(Real)
        /\ current \in Real \cup {NoEntry} /\ next \in Real \cup {NoEntry}
    BY DEF Common, Types
  <1>3. hand[runs] \in Real \cup {NoEntry} /\ (hand[runs] # NoEntry <=> Me = "handling")
    BY <1>1, <1>2 DEF Common, TasksInv, Me
  <1>4. One(hand[runs]) \in Seq(Real) /\ One(current) \in Seq(Real) /\ One(next) \in Seq(Real)
    BY <1>2, <1>3, OneFacts
  <1>5. Filled \in Seq(Real) /\ Len(Filled) = Len(One(hand[runs])) + Len(done)
    BY <1>2, <1>4, JoinedElements DEF Filled
  <1>6. /\ One(next) \o empty \in Seq(Real)
        /\ Len(One(next) \o empty) = Len(One(next)) + Len(empty)
    BY <1>2, <1>4, JoinedElements
  <1>7. Unfilled \in Seq(Real) /\ Len(Unfilled) = Len(One(current)) + (Len(One(next)) + Len(empty))
    BY <1>4, <1>6, JoinedElements DEF Unfilled
  <1>8. hand[runs] = NoEntry => Filled = done
    BY <1>2, EmptyConcat DEF Filled, One
  <1>9. current = NoEntry => Unfilled = empty
    <2>1. current = NoEntry => next = NoEntry
      BY DEF Common, TasksInv
    <2> QED BY <1>2, <2>1, EmptyConcat DEF Unfilled, One
  <1> QED BY <1>1, <1>2, <1>3, <1>4, <1>5, <1>7, <1>8, <1>9

(* Only the task of this recording is there. *)
LEMMA OnlyMe ==
    ASSUME Common, memory, Phases, NEW w \in Tasks,
           \/ WriterLooks(w) \/ WriterReceives(w) \/ WriterHandles(w)
           \/ WriterRequeues(w) \/ WriterExits(w)
    PROVE  w = runs
  <1>1. writer[w] # "none"
    BY DEF WriterLooks, WriterReceives, WriterHandles, WriterRequeues, WriterExits
  <1> QED BY <1>1 DEF Phases

SameLine == UNCHANGED <<Filled, Unfilled, queue, owner, block, audio, frameNumber>>

LEMMA LineStays ==
    ASSUME Kept, SameLine, host # "flushing", host' # "flushing",
           framesQueued' = framesQueued, declared = framesSaved => declared' = framesSaved',
           Me' = "requeueing" => Me = "requeueing"
    PROVE  Kept'
  <1>1. PICK t \in Seq(Nat), a \in 0..NSlots, b \in 0..NSlots, p \in 1..Blocks : Books(t, a, b, p)
    BY DEF Kept
  <1>2. Put' = Put
    BY DEF SameLine, Put
  <1>3. Line(Filled, Unfilled, queue, t, Put, owner, block, a, b, p)'
    BY <1>1, <1>2 DEF Books, SameLine
  <1>4. Books(t, a, b, p)'
    BY <1>1, <1>2, <1>3 DEF Books, SameLine
  <1> QED BY <1>4 DEF Kept

(* The line after the steps of writer and ASIF that fill no block *)
LEMMA ReceivesSameLine ==
    ASSUME Common, memory, WriterReceives(runs)
    PROVE  SameLine
  <1>1. /\ runs \in Tasks /\ done \in Seq(Real) /\ hand \in [Tasks -> Real \cup {NoEntry}]
        /\ hand[runs] = NoEntry /\ Filled = done
    <2>1. Me # "handling"
      BY DEF WriterReceives, Me
    <2> QED BY <2>1, LineTypes DEF Common, Types
  <1>2. Filled' = Filled
    <2>1. CASE done = <<>>
      BY <2>1 DEF WriterReceives, Filled
    <2>2. CASE done # <<>>
      <3>1. hand'[runs] = Head(done) /\ done' = Tail(done) /\ runs' = runs
        BY <1>1, <2>2 DEF WriterReceives
      <3>2. Head(done) # NoEntry
        BY <1>1, <2>2, HeadTail, RealFacts
      <3>3. Filled' = <<Head(done)>> \o Tail(done)
        BY <3>1, <3>2 DEF Filled, One
      <3> QED BY <1>1, <2>2, <3>3, HeadFirst
    <2> QED BY <2>1, <2>2
  <1> QED BY <1>2 DEF WriterReceives, SameLine, Unfilled, asifVars, slotVars, fileVars

LEMMA StartedSameLine ==
    ASSUME Common, memory, current = NoEntry, Started
    PROVE  SameLine
  <1>1. empty \in Seq(Real) /\ Len(empty) >= 2 /\ Unfilled = empty
    BY LineTypes DEF Started
  <1>2. /\ empty[1] \in Real /\ empty[2] \in Real
        /\ empty[1] # NoEntry /\ empty[2] # NoEntry
    <2>1. empty[1] \in Real /\ empty[2] \in Real
      BY <1>1
    <2> QED BY <2>1, RealFacts
  <1>3. Unfilled' = <<empty[1]>> \o (<<empty[2]>> \o SubSeq(empty, 3, Len(empty)))
    BY <1>2 DEF Started, Unfilled, One
  <1>4. <<empty[1]>> \o (<<empty[2]>> \o SubSeq(empty, 3, Len(empty))) = empty
    <2>1. 1 \in 1..Len(empty) /\ 2 \in 1..Len(empty) /\ Len(empty) \in 2..Len(empty)
          /\ Len(empty) \in 1..Len(empty)
      BY <1>1
    <2>2. empty = <<empty[1]>> \o SubSeq(empty, 1 + 1, Len(empty))
      BY <1>1, <2>1, SubSeqFull, SubSeqRecursiveFirst
    <2>3. SubSeq(empty, 2, Len(empty)) = <<empty[2]>> \o SubSeq(empty, 2 + 1, Len(empty))
      BY <1>1, <2>1, SubSeqRecursiveFirst
    <2> QED BY <2>2, <2>3
  <1>5. Unfilled' = Unfilled
    BY <1>1, <1>3, <1>4
  <1> QED BY <1>5 DEF Started, SameLine, Filled, taskVars, slotVars, fileVars

(* Alive: a step within a recording that began properly *)
Alive == /\ Common /\ Fine /\ memory /\ Phases /\ LastBlock /\ Kept
         /\ Common' /\ Fine' /\ memory'

(* Steps that leave the line as it is *)
QuietHost == Enabled \/ Started \/ Stopping \/ StopBegins \/ HostNextChunk

LEMMA QuietHostKept == Alive /\ QuietHost => Kept'
  <1> SUFFICES ASSUME Alive, QuietHost PROVE Kept'
    OBVIOUS
  <1>1. /\ host # "flushing" /\ host' # "flushing" /\ framesQueued' = framesQueued
        /\ runs' = runs /\ writer' = writer
    BY DEF QuietHost, Enabled, Started, Stopping, StopBegins, HostNextChunk, countVars, taskVars
  <1>2. declared = framesSaved => declared' = framesSaved'
    <2>1. declared \in Int /\ framesSaved \in Nat /\ framesQueued \in Nat
      BY DEF Alive, Common, Types
    <2>2. CASE HostNextChunk
      BY <2>1, <2>2 DEF HostNextChunk, CountChunk
    <2>3. CASE ~HostNextChunk
      BY <2>3 DEF QuietHost, Enabled, Started, Stopping, StopBegins, countVars, fileVars
    <2> QED BY <2>2, <2>3
  <1>3. SameLine
    <2>1. CASE Started
      <3>1. current = NoEntry
        BY <2>1 DEF Alive, Phases, Started
      <3> QED BY <2>1, <3>1, StartedSameLine DEF Alive
    <2>2. CASE ~Started
      BY <2>2 DEF QuietHost, Enabled, Stopping, StopBegins, HostNextChunk, SameLine, Filled,
                  Unfilled, asifVars, taskVars, slotVars, fileVars
    <2> QED BY <2>1, <2>2
  <1>4. Me' = Me
    BY <1>1 DEF Me
  <1> QED BY <1>1, <1>2, <1>3, <1>4, LineStays DEF Alive

(* The steps of the writer that leave the line as it is; it finds no slot *)
Starves(w) == WriterRequeues(w) /\ owner' = owner /\ block' = block /\ empty' = empty

QuietWriter(w) == WriterLooks(w) \/ WriterReceives(w) \/ WriterExits(w) \/ Starves(w)

LEMMA QuietWriterKept == Alive /\ QuietWriter(runs) => Kept'
  <1> SUFFICES ASSUME Alive, QuietWriter(runs) PROVE Kept'
    OBVIOUS
  <1>0. runs \in Tasks /\ writer \in [Tasks -> Writers]
    BY DEF Alive, Common, HostInv, Types
  <1>1. host # "flushing"
    BY DEF Alive, Phases, Me, QuietWriter, Starves, WriterLooks, WriterReceives, WriterExits,
           WriterRequeues
  <1>2. /\ host' = host /\ framesQueued' = framesQueued /\ framesSaved' = framesSaved
        /\ declared' = declared /\ runs' = runs
    BY DEF QuietWriter, Starves, WriterLooks, WriterReceives, WriterExits,
           WriterRequeues, countVars, fileVars
  <1>3. Me' # "requeueing"
    <2>1. /\ runs' = runs
          /\ \E x \in Writers : x # "requeueing" /\ writer' = [writer EXCEPT ![runs] = x]
      BY DEF QuietWriter, Starves, WriterLooks, WriterReceives, WriterExits, WriterRequeues,
             Writers
    <2> QED BY <1>0, <2>1 DEF Me
  <1>4. SameLine
    <2>1. CASE WriterReceives(runs)
      BY <2>1, ReceivesSameLine DEF Alive
    <2>2. CASE ~WriterReceives(runs)
      BY <2>2 DEF QuietWriter, Starves, WriterLooks, WriterExits, WriterRequeues, SameLine, Filled,
                  Unfilled, asifVars, slotVars, fileVars
    <2> QED BY <2>1, <2>2
  <1> QED BY <1>1, <1>2, <1>3, <1>4, LineStays DEF Alive

(* The line of blocks after a step that takes block e off it: it ends a
   slot, or the next one is the first now. *)
Onwards(e, t, t2, a2, b2, p2) ==
    /\ Line(Filled, Unfilled, queue, t2, Put, owner, block, a2, b2, p2)'
    /\ t2[1] = t[1]
    /\ Filled # <<>> \/ IsEnd(e) => Put' = t2[Len(queue') + 1] + p2 - 1
    /\ IF IsEnd(e) THEN b2 = 0 /\ p2 = 1 /\ t2[Len(queue') + 1] = Put'
                   ELSE t2[Len(queue') + 1] = t[Len(queue) + 1]

LEMMA TakeStep ==
    ASSUME Common, Common', memory, NEW t \in Seq(Nat), NEW a \in 0..NSlots, NEW b \in 0..NSlots,
           NEW p \in 1..Blocks,
           Line(Filled, Unfilled, queue, t, Put, owner, block, a, b, p),
           NEW e, e = First(Filled, Unfilled), ReleaseOf(e), Filled' \in Seq(Real),
           Unfilled' \in Seq(Real), NEW n, block' = [block EXCEPT ![e.slot][e.block] = n],
           Taken(Filled, Unfilled, t[Len(queue) + 1], Put, p, Filled', Unfilled', Put', n)
    PROVE  \E t2 \in Seq(Nat), a2, b2 \in 0..NSlots, p2 \in 1..Blocks : Onwards(e, t, t2, a2, b2, p2)
  <1>0. /\ Filled \in Seq(Real) /\ Unfilled \in Seq(Real) /\ queue \in Seq(Slots)
        /\ owner \in [Slots -> Owners] /\ block \in Contents
    BY LineTypes DEF Common, Types, Contents
  <1>1. e.slot = a /\ e.block = p /\ a \in Slots
    <2>1. Filled # <<>> \/ Unfilled # <<>>
      BY DEF Taken
    <2>2. Laid(Filled, Unfilled, a, b, p)
      BY DEF Line
    <2> QED BY <1>0, <2>1, <2>2, FirstFacts
  <1>2. block' = Written(block, a, p, n)
    BY <1>1 DEF Written
  <1>3. IsEnd(e) <=> p = Blocks
    BY <1>1 DEF IsEnd
  <1>5a. PICK f, u, put, q, own, blk : /\ f = Filled /\ u = Unfilled /\ put = Put /\ q = queue
                                       /\ own = owner /\ blk = block
    OBVIOUS
  <1>5b. PICK g, v, new, blk2 : g = Filled' /\ v = Unfilled' /\ new = Put' /\ blk2 = block'
    OBVIOUS
  <1>a. /\ q \in Seq(Slots) /\ own \in [Slots -> Owners] /\ blk \in Contents
        /\ f \in Seq(Real) /\ u \in Seq(Real) /\ g \in Seq(Real) /\ v \in Seq(Real)
        /\ Line(f, u, q, t, put, own, blk, a, b, p)
        /\ Taken(f, u, t[Len(q) + 1], put, p, g, v, new, n)
        /\ blk2 = Written(blk, a, p, n)
    BY <1>0, <1>2, <1>5a, <1>5b
  <1> DEFINE top == t[Len(q) + 1]
  <1>5. CASE p # Blocks
    <2>1. queue' = queue /\ owner' = owner
      BY <1>3, <1>5 DEF ReleaseOf, Releases
    <2>2. Line(g, v, q, t, new, own, blk2, a, b, p + 1)
      BY ONLY <1>a, <1>5, TakeMiddle
    <2>3. p + 1 \in 1..Blocks
      <3>1. p \in 1..Blocks /\ Blocks \in Nat
        BY Sizes
      <3> QED BY ONLY <1>5, <3>1
    <2>4. f # <<>> => new = top + (p + 1) - 1
      <3>1. f # <<>> => put = top + p - 1 /\ new = put + 1
        BY <1>a DEF Taken
      <3>2. put \in Nat /\ top \in Nat /\ p \in 1..Blocks /\ Blocks \in Nat
        BY <1>a, ChainType, Sizes DEF Line, Numbered
      <3> QED BY <3>1, <3>2
    <2>5. Line(Filled, Unfilled, queue, t, Put, owner, block, a, b, p + 1)'
      BY <2>1, <2>2, <1>5a, <1>5b
    <2>6. Filled # <<>> => Put' = t[Len(queue') + 1] + (p + 1) - 1
      BY <2>1, <2>4, <1>5a, <1>5b
    <2>7. Onwards(e, t, t, a, b, p + 1)
      BY <1>3, <1>5, <2>1, <2>5, <2>6 DEF Onwards
    <2> QED BY <2>3, <2>7
  <1>6. CASE p = Blocks
    <2>1. queue' = Append(queue, a) /\ owner' = [owner EXCEPT ![a] = "queued"]
      BY <1>1, <1>3, <1>6 DEF ReleaseOf, Releases
    <2> DEFINE t2 == Append(t, new)
    <2>2. /\ Line(g, v, Append(q, a), t2, new, [own EXCEPT ![a] = "queued"], blk2, b, 0, 1)
          /\ t2 \in Seq(Nat) /\ t2[1] = t[1] /\ t2[Len(Append(q, a)) + 1] = new
      <3>1. Line(g, v, Append(q, a), Append(t, new), new, [own EXCEPT ![a] = "queued"], blk2,
                 b, 0, 1)
        BY ONLY <1>a, <1>6, TakeLast
      <3>2. t \in Seq(Nat) /\ Len(t) = Len(q) + 1 /\ Len(q) \in Nat /\ new \in Nat
        <4>1. Chained(q, t, own, blk)
          BY <1>a DEF Line
        <4>2. t \in Seq(Nat) /\ Len(t) = Len(q) + 1
          BY <4>1 DEF Chained
        <4>3. new \in Nat
          BY <3>1 DEF Line, Numbered
        <4>4. Len(q) \in Nat
          BY <1>a
        <4> QED BY <4>2, <4>3, <4>4
      <3>3. Len(Append(q, a)) + 1 = Len(t) + 1 /\ 1 \in 1..Len(t)
        <4>1. Len(Append(q, a)) = Len(q) + 1
          BY <1>a, <1>1, AppendFacts
        <4> QED BY <3>2, <4>1
      <3>4. t2 \in Seq(Nat) /\ t2[1] = t[1] /\ t2[Len(t) + 1] = new
        BY <3>2, <3>3, AppendFacts
      <3> QED BY <3>1, <3>3, <3>4
    <2>3. new = new + 1 - 1
      <3>1. new \in Nat
        BY <2>2 DEF Line, Numbered
      <3> QED BY <3>1
    <2> HIDE DEF t2
    <2>4. 1 \in 1..Blocks /\ 0 \in 0..NSlots
      BY Sizes
    <2>5. /\ Line(Filled, Unfilled, queue, t2, Put, owner, block, b, 0, 1)'
          /\ t2[Len(queue') + 1] = Put'
      BY <2>1, <2>2, <1>5a, <1>5b
    <2>6. Put' = t2[Len(queue') + 1] + 1 - 1
      BY <2>3, <2>5, <1>5b
    <2>7. Onwards(e, t, t2, b, 0, 1)
      BY <1>3, <1>6, <2>2, <2>5, <2>6 DEF Onwards
    <2> QED BY <2>2, <2>4, <2>7
  <1> QED BY <1>5, <1>6

LEMMA FirstFrame ==
    ASSUME NEW f \in Seq(Real), f # <<>>, NEW u, NEW put \in Nat, Framed(f, put)
    PROVE  First(f, u) = Head(f) /\ First(f, u) \in Real /\ First(f, u).frame = put
  <1>1. Head(f) \in Real /\ Head(f) = f[1] /\ 1 \in 1..Len(f)
    BY HeadTail
  <1>2. f[1].frame = put + 1 - 1
    BY <1>1 DEF Framed
  <1> QED BY <1>1, <1>2 DEF First

(* The first filled block is taken off the line, or the first empty one. *)
TakesFilled ==
    /\ Filled # <<>> /\ Filled' = Tail(Filled) /\ Unfilled' = Unfilled
    /\ frameNumber' = frameNumber
TakesEmpty ==
    /\ Filled = <<>> /\ Unfilled # <<>> /\ Filled' = Filled /\ Unfilled' = Tail(Unfilled)
    /\ frameNumber' = frameNumber

LEMMA TakesFacts ==
    ASSUME Common, memory, NEW t, NEW a, NEW b, NEW p, Books(t, a, b, p)
    PROVE  /\ Put \in Nat /\ Put' = frameNumber' - Len(Filled')
           /\ TakesFilled => /\ First(Filled, Unfilled) = Head(Filled)
                             /\ First(Filled, Unfilled) \in Real
                             /\ First(Filled, Unfilled).frame = Put /\ Put' = Put + 1
           /\ TakesEmpty => /\ First(Filled, Unfilled) = Head(Unfilled)
                            /\ First(Filled, Unfilled) \in Real /\ Put' = Put
  <1>1. Filled \in Seq(Real) /\ Unfilled \in Seq(Real) /\ frameNumber \in Nat
    BY LineTypes DEF Common, Types
  <1>2. Put \in Nat /\ Framed(Filled, Put)
    BY DEF Books, Line, Numbered
  <1>3. Put' = frameNumber' - Len(Filled')
    BY DEF Put
  <1>4. ASSUME TakesFilled
        PROVE  /\ First(Filled, Unfilled) = Head(Filled) /\ First(Filled, Unfilled) \in Real
               /\ First(Filled, Unfilled).frame = Put /\ Put' = Put + 1
    <2>1. Filled # <<>> /\ Filled' = Tail(Filled) /\ frameNumber' = frameNumber
      BY <1>4 DEF TakesFilled
    <2>2. /\ First(Filled, Unfilled) = Head(Filled) /\ First(Filled, Unfilled) \in Real
          /\ First(Filled, Unfilled).frame = Put
      BY <1>1, <1>2, <2>1, FirstFrame
    <2>3. Len(Tail(Filled)) = Len(Filled) - 1 /\ Len(Filled) \in Nat
      BY <1>1, <2>1, HeadTail
    <2>4. \A i, j \in Int : i - (j - 1) = i - j + 1
      OBVIOUS
    <2>5. Put' = Put + 1
      BY <1>1, <1>3, <2>1, <2>3, <2>4 DEF Put
    <2> QED BY <2>2, <2>5
  <1>5. ASSUME TakesEmpty
        PROVE  /\ First(Filled, Unfilled) = Head(Unfilled)
               /\ First(Filled, Unfilled) \in Real /\ Put' = Put
    <2>1. Head(Unfilled) \in Real
      BY <1>1, <1>5, HeadTail DEF TakesEmpty
    <2> QED BY <1>3, <1>5, <2>1 DEF TakesEmpty, First, Put
  <1> QED BY <1>2, <1>3, <1>4, <1>5

(* The books after such a step *)
LEMMA TakesKept ==
    ASSUME Alive, TakesFilled \/ TakesEmpty, NEW e, e = First(Filled, Unfilled), ReleaseOf(e),
           NEW t \in Seq(Nat), NEW a \in 0..NSlots, NEW b \in 0..NSlots, NEW p \in 1..Blocks,
           Books(t, a, b, p), TakesFilled => Put = t[Len(queue) + 1] + p - 1,
           block' = [block EXCEPT ![e.slot][e.block] = IF TakesFilled THEN e.frame + 1 ELSE 0],
           host' = host, audio' = audio, declared' = declared, framesSaved' = framesSaved,
           runs' = runs, Me' = "requeueing" => IsEnd(e),
           host' # "flushing" \/ done' # <<>> => TakesFilled,
           host # "flushing" => framesQueued' = IF IsEnd(e) THEN Put' ELSE framesQueued,
           host = "flushing" => framesQueued' = Put'
    PROVE  Kept'
  <1>0. Filled' \in Seq(Real) /\ Unfilled' \in Seq(Real)
    <2>1. Filled \in Seq(Real) /\ Unfilled \in Seq(Real)
      BY LineTypes DEF Alive
    <2> QED BY <2>1, HeadTail DEF TakesFilled, TakesEmpty
  <1> DEFINE n == IF TakesFilled THEN e.frame + 1 ELSE 0
  <1>1. Taken(Filled, Unfilled, t[Len(queue) + 1], Put, p, Filled', Unfilled', Put', n)
    <2>1. CASE TakesFilled
      <3>1. /\ Filled # <<>> /\ Filled' = Tail(Filled) /\ Unfilled' = Unfilled
            /\ Put = t[Len(queue) + 1] + p - 1
        BY <2>1 DEF TakesFilled
      <3>2. Put' = Put + 1 /\ n = Put + 1
        BY <2>1, TakesFacts DEF Alive
      <3> QED BY <3>1, <3>2 DEF Taken
    <2>2. CASE ~TakesFilled
      <3>1. TakesEmpty
        BY <2>2
      <3>2. n = 0 /\ Put' = Put
        BY <2>2, <3>1, TakesFacts DEF Alive
      <3> QED BY <3>1, <3>2 DEF Taken, TakesEmpty
    <2> QED BY <2>1, <2>2
  <1>2. /\ Line(Filled, Unfilled, queue, t, Put, owner, block, a, b, p)
        /\ t[1] = Len(audio) /\ declared = framesSaved
        /\ host # "flushing" => framesQueued = t[Len(queue) + 1]
    BY DEF Books
  <1>3. Common /\ Common' /\ memory /\ block' = [block EXCEPT ![e.slot][e.block] = n]
    BY DEF Alive
  <1> HIDE DEF n
  <1>4. PICK t2 \in Seq(Nat), a2 \in 0..NSlots, b2 \in 0..NSlots, p2 \in 1..Blocks :
            Onwards(e, t, t2, a2, b2, p2)
    BY <1>0, <1>1, <1>2, <1>3, TakeStep
  <1>5. Line(Filled, Unfilled, queue, t2, Put, owner, block, a2, b2, p2)' /\ t2[1] = Len(audio')
    BY <1>2, <1>4 DEF Onwards
  <1>6. Me' = "requeueing" => b2 = 0 /\ p2 = 1
    BY <1>4 DEF Onwards
  <1>7. host' # "flushing" \/ done' # <<>> => Put' = t2[Len(queue') + 1] + p2 - 1
    <2>1. TakesFilled => Filled # <<>>
      BY DEF TakesFilled
    <2> QED BY <1>4, <2>1 DEF Onwards
  <1>8. host' # "flushing" => framesQueued' = t2[Len(queue') + 1]
    BY <1>2, <1>4 DEF Onwards
  <1>9. host' = "flushing" => /\ framesQueued' \in t2[Len(queue') + 1]..Put'
                              /\ done' = <<>> => framesQueued' = Put'
    <2>1. Put' \in Nat /\ Put' \in t2[Len(queue') + 1]..(t2[Len(queue') + 1] + p2 - 1)
      BY <1>5 DEF Line, Numbered
    <2>2. t2[Len(queue') + 1] \in Nat
      <3>1. queue' \in Seq(Slots) /\ Chained(queue', t2, owner', block')
        BY <1>3, <1>5 DEF Line, Common, Types
      <3> QED BY <3>1, ChainType
    <2>3. Put' \in t2[Len(queue') + 1]..Put'
      BY <2>1, <2>2
    <2> QED BY <2>3
  <1>10. declared' = framesSaved'
    BY <1>2
  <1>11. Books(t2, a2, b2, p2)'
    BY <1>5, <1>6, <1>7, <1>8, <1>9, <1>10 DEF Books
  <1> QED BY <1>4, <1>11 DEF Kept

LEMMA HandlesKept == Alive /\ WriterHandles(runs) => Kept'
  <1> SUFFICES ASSUME Alive, WriterHandles(runs) PROVE Kept'
    OBVIOUS
  <1>0. /\ runs \in Tasks /\ hand \in [Tasks -> Real \cup {NoEntry}] /\ hand[runs] # NoEntry
        /\ hand[runs] \in Real /\ writer \in [Tasks -> Writers] /\ done \in Seq(Real) /\ memory
        /\ Common /\ Kept
    <2>1. Me = "handling" /\ Common /\ memory /\ Kept
      BY DEF Alive, WriterHandles, Me
    <2>2. hand[runs] # NoEntry /\ hand[runs] \in Real \cup {NoEntry}
      BY <2>1, LineTypes
    <2> QED BY <2>1, <2>2 DEF Common, HostInv, Types
  <1>1. PICK e : e = hand[runs]
    OBVIOUS
  <1>2. /\ ReleaseOf(e) /\ block' = [block EXCEPT ![e.slot][e.block] = e.frame + 1]
        /\ framesQueued' = IF IsEnd(e) THEN e.frame + 1 ELSE framesQueued
        /\ writer' = [writer EXCEPT ![runs] = IF IsEnd(e) THEN "requeueing" ELSE "loop"]
        /\ hand' = [hand EXCEPT ![runs] = NoEntry]
        /\ UNCHANGED <<state, empty, done, asifVars, framesSaved, host, memory, fileVars,
                       trouble, runs>>
    BY <1>0, <1>1 DEF WriterHandles, CountThrough
  <1>3. Filled = <<e>> \o done
    BY <1>0, <1>1 DEF Filled, One
  <1>4. Head(Filled) = e /\ Tail(Filled) = done /\ Filled # <<>>
    <2>1. e \in Real
      BY <1>0, <1>1
    <2>2. /\ <<e>> \o done \in Seq(Real) /\ Len(<<e>> \o done) = 1 + Len(done)
          /\ (<<e>> \o done)[1] = e
          /\ \A k \in 1..Len(done) : (<<e>> \o done)[1 + k] = done[k]
      BY <1>0, <2>1
    <2>3. Len(done) \in Nat
      BY <1>0
    <2> HIDE DEF Filled
    <2>4. Filled # <<>>
      <3>1. Len(Filled) # 0
        BY <1>3, <2>2, <2>3
      <3> QED BY <3>1
    <2>5. /\ Head(Filled) = e /\ Tail(Filled) \in Seq(Real)
          /\ Len(Tail(Filled)) = Len(done)
          /\ \A k \in 1..Len(done) : Tail(Filled)[k] = done[k]
      <3>1. /\ Filled \in Seq(Real) /\ Len(Filled) = 1 + Len(done) /\ Filled[1] = e
            /\ \A k \in 1..Len(done) : Filled[1 + k] = done[k]
        BY <1>3, <2>2
      <3>2. /\ Head(Filled) = Filled[1] /\ Tail(Filled) \in Seq(Real)
            /\ Len(Tail(Filled)) = Len(Filled) - 1
            /\ \A k \in 1..Len(Tail(Filled)) : Tail(Filled)[k] = Filled[k + 1]
        BY <3>1, <2>4, HeadTail
      <3>3. \A k \in 1..Len(done) : k + 1 = 1 + k
        BY <2>3
      <3> QED BY <2>3, <3>1, <3>2, <3>3
    <2>6. Tail(Filled) = done
      BY <1>0, <2>5, SameElements
    <2> QED BY <2>4, <2>5, <2>6
  <1>5. Filled' = done /\ Unfilled' = Unfilled
    <2>1. hand'[runs'] = NoEntry /\ done' = done
      BY <1>0, <1>2
    <2> QED BY <1>0, <1>2, <2>1, EmptyConcat DEF Filled, Unfilled, One, asifVars
  <1>6. TakesFilled
    BY <1>2, <1>4, <1>5 DEF TakesFilled, asifVars
  <1>7. e = First(Filled, Unfilled)
    BY <1>4 DEF First
  <1>8. host # "flushing" /\ host' = host
    BY <1>2 DEF Alive, Phases, WriterHandles, Me
  <1>9. PICK t \in Seq(Nat), a \in 0..NSlots, b \in 0..NSlots, p \in 1..Blocks : Books(t, a, b, p)
    BY <1>0 DEF Kept
  <1>10. Put = t[Len(queue) + 1] + p - 1
    BY <1>8, <1>9 DEF Books
  <1>11. e.frame = Put /\ Put' = Put + 1
    BY <1>0, <1>6, <1>7, <1>9, TakesFacts
  <1>12. Me' = "requeueing" => IsEnd(e)
    BY <1>0, <1>2 DEF Me
  <1>13. /\ audio' = audio /\ declared' = declared /\ framesSaved' = framesSaved /\ runs' = runs
    BY <1>2 DEF fileVars
  <1>14. framesQueued' = IF IsEnd(e) THEN Put' ELSE framesQueued
    BY <1>2, <1>11
  <1>15. block' = [block EXCEPT ![e.slot][e.block] = IF TakesFilled THEN e.frame + 1 ELSE 0]
    BY <1>2, <1>6
  <1> QED BY <1>2, <1>6, <1>7, <1>8, <1>9, <1>10, <1>12, <1>13, <1>14, <1>15, TakesKept

LEMMA FlushDoneKept == Alive /\ FlushDone => Kept'
  <1> SUFFICES ASSUME Alive, FlushDone PROVE Kept'
    OBVIOUS
  <1>0. /\ runs \in Tasks /\ hand[runs] = NoEntry /\ done \in Seq(Real) /\ memory
        /\ Common /\ Kept /\ done # <<>> /\ host = "flushing" /\ framesQueued \in Nat
    <2>1. Me # "handling" /\ Common /\ memory /\ Kept /\ done # <<>> /\ host = "flushing"
      BY DEF Alive, FlushDone, Phases
    <2> QED BY <2>1, LineTypes DEF Common, Types
  <1>1. PICK e : e = Head(done)
    OBVIOUS
  <1>2. /\ ReleaseOf(e) /\ block' = [block EXCEPT ![e.slot][e.block] = e.frame + 1]
        /\ framesQueued' = Larger(framesQueued, e.frame + 1) /\ done' = Tail(done)
        /\ UNCHANGED <<state, empty, asifVars, framesSaved, taskVars, host, memory, fileVars,
                       trouble, runs>>
    BY <1>0, <1>1 DEF FlushDone
  <1>3. Filled = done /\ Filled' = done'
    <2>1. Tail(done) \in Seq(Real)
      BY <1>0, HeadTail
    <2>2. hand'[runs'] = NoEntry
      BY <1>0, <1>2 DEF taskVars
    <2> QED BY <1>0, <1>2, <2>1, <2>2, EmptyConcat DEF Filled, One
  <1>4. TakesFilled
    BY <1>0, <1>2, <1>3 DEF TakesFilled, Unfilled, asifVars
  <1>5. e = First(Filled, Unfilled)
    BY <1>0, <1>1, <1>3 DEF First
  <1>6. PICK t \in Seq(Nat), a \in 0..NSlots, b \in 0..NSlots, p \in 1..Blocks : Books(t, a, b, p)
    BY <1>0 DEF Kept
  <1>7. Put = t[Len(queue) + 1] + p - 1 /\ framesQueued \in t[Len(queue) + 1]..Put
    BY <1>0, <1>6 DEF Books
  <1>8. e.frame = Put /\ Put' = Put + 1 /\ Put \in Nat
    BY <1>0, <1>4, <1>5, <1>6, TakesFacts
  <1>9. framesQueued' = Put'
    <2>1. framesQueued <= Put
      <3>1. t[Len(queue) + 1] \in Nat
        <4>1. queue \in Seq(Slots) /\ Chained(queue, t, owner, block)
          BY <1>0, <1>6 DEF Books, Line, Common, Types
        <4> QED BY <4>1, ChainType
      <3> QED BY <1>7, <1>8, <3>1
    <2> QED BY <1>0, <1>2, <1>8, <2>1 DEF Larger
  <1>10. Me' # "requeueing"
    <2>1. Me' = Me /\ Me \in {"none", "loop"}
      BY <1>0, <1>2 DEF Me, taskVars, Alive, Phases
    <2> QED BY <2>1
  <1>11. /\ audio' = audio /\ declared' = declared /\ framesSaved' = framesSaved /\ runs' = runs
         /\ host' = host
    BY <1>2 DEF fileVars
  <1>12. block' = [block EXCEPT ![e.slot][e.block] = IF TakesFilled THEN e.frame + 1 ELSE 0]
    BY <1>2, <1>4
  <1> QED BY <1>0, <1>2, <1>4, <1>5, <1>6, <1>7, <1>9, <1>10, <1>11, <1>12, TakesKept

LEMMA FlushEmptyKept == Alive /\ FlushEmpty => Kept'
  <1> SUFFICES ASSUME Alive, FlushEmpty PROVE Kept'
    OBVIOUS
  <1>0. /\ runs \in Tasks /\ hand[runs] = NoEntry /\ empty \in Seq(Real) /\ memory
        /\ Common /\ Kept /\ done = <<>> /\ empty # <<>> /\ host = "flushing"
        /\ current = NoEntry /\ next = NoEntry
    <2>1. /\ Me # "handling" /\ Common /\ memory /\ Kept /\ done = <<>> /\ empty # <<>>
          /\ host = "flushing" /\ current = NoEntry
      BY DEF Alive, FlushEmpty, Phases
    <2> QED BY <2>1, LineTypes DEF Common, Types, TasksInv
  <1>1. PICK e : e = Head(empty)
    OBVIOUS
  <1>2. /\ ReleaseOf(e) /\ block' = [block EXCEPT ![e.slot][e.block] = 0]
        /\ empty' = Tail(empty)
        /\ UNCHANGED <<state, done, asifVars, countVars, taskVars, host, memory, fileVars,
                       trouble, runs>>
    BY <1>0, <1>1 DEF FlushEmpty
  <1>3. Filled = <<>> /\ Filled' = <<>> /\ Unfilled = empty /\ Unfilled' = empty'
    <2>1. Tail(empty) \in Seq(Real)
      BY <1>0, HeadTail
    <2>2. hand'[runs'] = NoEntry /\ done' = <<>> /\ current' = NoEntry /\ next' = NoEntry
      BY <1>0, <1>2 DEF taskVars, asifVars
    <2>3. <<>> \o empty = empty /\ <<>> \o Tail(empty) = Tail(empty) /\ <<>> \o <<>> = <<>>
      BY <1>0, <2>1, EmptyConcat
    <2> QED BY <1>0, <1>2, <2>2, <2>3 DEF Filled, Unfilled, One
  <1>4. TakesEmpty
    BY <1>0, <1>2, <1>3 DEF TakesEmpty, asifVars
  <1>5. e = First(Filled, Unfilled)
    BY <1>0, <1>1, <1>3 DEF First
  <1>6. PICK t \in Seq(Nat), a \in 0..NSlots, b \in 0..NSlots, p \in 1..Blocks : Books(t, a, b, p)
    BY <1>0 DEF Kept
  <1>7. ~TakesFilled
    BY <1>3 DEF TakesFilled
  <1>8. framesQueued' = Put'
    <2>1. framesQueued = Put
      BY <1>0, <1>6 DEF Books
    <2>2. Put' = Put
      BY <1>0, <1>4, <1>6, TakesFacts
    <2> QED BY <1>2, <2>1, <2>2 DEF countVars
  <1>9. Me' # "requeueing"
    <2>1. Me' = Me /\ Me \in {"none", "loop"}
      BY <1>0, <1>2 DEF Me, taskVars, Alive, Phases
    <2> QED BY <2>1
  <1>10. /\ audio' = audio /\ declared' = declared /\ framesSaved' = framesSaved /\ runs' = runs
         /\ host' = host /\ done' = <<>>
    BY <1>0, <1>2 DEF fileVars, countVars
  <1>11. block' = [block EXCEPT ![e.slot][e.block] = IF TakesFilled THEN e.frame + 1 ELSE 0]
    BY <1>2, <1>7
  <1> QED BY <1>0, <1>2, <1>4, <1>5, <1>6, <1>7, <1>8, <1>9, <1>10, <1>11, TakesKept

LEMMA StopWaitedKept == Alive /\ StopWaited => Kept'
  <1> SUFFICES ASSUME Alive, StopWaited PROVE Kept'
    OBVIOUS
  <1>0. /\ Common /\ memory /\ Kept /\ Phases /\ LastBlock /\ host = "waiting" /\ host' = "flushing"
        /\ done \in Seq(Real) /\ writer \in [Tasks -> Writers] /\ runs \in Tasks
        /\ current \in Real \cup {NoEntry} /\ next \in Real \cup {NoEntry}
    BY DEF Alive, StopWaited, Common, Types, HostInv
  <1>1. UNCHANGED <<state, empty, done, asifVars, countVars, taskVars, memory, slotVars,
                    fileVars, trouble, runs>>
    BY DEF StopWaited
  <1>2. current = NoEntry
    <2>1. CASE state = "STOPPED"
      <3>1. \A w \in Tasks : ~Works(w)
        BY <1>0, <2>1 DEF Phases, Me, Works
      <3> QED BY <1>0, <3>1 DEF Common, TasksInv
    <2>2. CASE GivesUp
      BY <2>2 DEF GivesUp
    <2> QED BY <2>1, <2>2 DEF StopWaited
  <1>3. done # <<>>
    <2>1. next = NoEntry
      BY <1>0, <1>2 DEF Common, TasksInv
    <2>2. state \notin {"READY", "RUNNING"}
      BY <1>0 DEF Phases
    <2>3. Len(done) + Len(One(current) \o One(next)) > 0
      <3>1. Len(done) + Len(One(current) \o One(next)) > IF Me = "receiving" THEN 1 ELSE 0
        BY <1>0, <2>2 DEF LastBlock
      <3>2. One(current) \o One(next) = <<>>
        BY <1>2, <2>1 DEF One
      <3> QED BY <1>0, <3>1, <3>2
    <2>4. Len(One(current) \o One(next)) = 0
      BY <1>2, <2>1 DEF One
    <2> QED BY <1>0, <2>3, <2>4
  <1>4. PICK t \in Seq(Nat), a \in 0..NSlots, b \in 0..NSlots, p \in 1..Blocks : Books(t, a, b, p)
    BY <1>0 DEF Kept
  <1>5. /\ Line(Filled, Unfilled, queue, t, Put, owner, block, a, b, p) /\ t[1] = Len(audio)
        /\ Put = t[Len(queue) + 1] + p - 1 /\ framesQueued = t[Len(queue) + 1]
        /\ declared = framesSaved
        /\ Me = "requeueing" => b = 0 /\ p = 1
    BY <1>0, <1>4 DEF Books
  <1>6. framesQueued \in t[Len(queue) + 1]..Put
    <2>1. t[Len(queue) + 1] \in Nat
      <3>1. queue \in Seq(Slots) /\ Chained(queue, t, owner, block)
        BY <1>0, <1>5 DEF Line, Common, Types
      <3> QED BY <3>1, ChainType
    <2>2. p \in Nat /\ p >= 1
      BY Sizes
    <2> QED BY <1>5, <2>1, <2>2
  <1>7. Books(t, a, b, p)'
    <2>1. /\ Line(Filled, Unfilled, queue, t, Put, owner, block, a, b, p)'
          /\ Put' = Put
      BY <1>1, <1>5 DEF Filled, Unfilled, Put, asifVars, taskVars, slotVars
    <2>2. Me' = Me /\ done' = done /\ host' = "flushing"
      BY <1>0, <1>1 DEF Me, taskVars
    <2>3. /\ queue' = queue /\ audio' = audio /\ framesQueued' = framesQueued
          /\ declared' = declared /\ framesSaved' = framesSaved
      BY <1>1 DEF countVars, slotVars, fileVars
    <2> QED BY <1>3, <1>5, <1>6, <2>1, <2>2, <2>3 DEF Books
  <1> QED BY <1>7 DEF Kept

LEMMA StopReturnsKept == Alive /\ StopReturns => Kept'
  <1> SUFFICES ASSUME Alive, StopReturns PROVE Kept'
    OBVIOUS
  <1>0. /\ Common /\ memory /\ Kept /\ host = "flushing" /\ host' = "saving"
        /\ done = <<>> /\ empty = <<>> /\ current = NoEntry /\ next = NoEntry
        /\ hand[runs] = NoEntry /\ Me \in {"none", "loop"}
    <2>1. /\ Common /\ memory /\ Kept /\ host = "flushing" /\ host' = "saving"
          /\ done = <<>> /\ empty = <<>> /\ current = NoEntry /\ Me \in {"none", "loop"}
      BY DEF Alive, StopReturns, NothingLeft, Phases
    <2> QED BY <2>1, LineTypes DEF Common, TasksInv
  <1>1. UNCHANGED <<empty, done, asifVars, countVars, taskVars, memory, slotVars, fileVars,
                    trouble, runs>>
    BY DEF StopReturns
  <1>2. Filled = <<>> /\ Unfilled = <<>>
    BY <1>0 DEF Filled, Unfilled, One
  <1>3. PICK t \in Seq(Nat), a \in 0..NSlots, b \in 0..NSlots, p \in 1..Blocks : Books(t, a, b, p)
    BY <1>0 DEF Kept
  <1>4. /\ Line(Filled, Unfilled, queue, t, Put, owner, block, a, b, p) /\ t[1] = Len(audio)
        /\ framesQueued = Put /\ declared = framesSaved
    BY <1>0, <1>3 DEF Books
  <1>5. p = 1
    <2>1. Rest(a, b, p) = 0 /\ (a = 0 => p = 1)
      BY <1>2, <1>4 DEF Line, Laid
    <2>2. a = 0
      BY <2>1, Sizes DEF Rest
    <2> QED BY <2>1, <2>2
  <1>6. Put = t[Len(queue) + 1] /\ Put = t[Len(queue) + 1] + p - 1
    <2>1. t[Len(queue) + 1] \in Nat
      <3>1. queue \in Seq(Slots) /\ Chained(queue, t, owner, block)
        BY <1>0, <1>4 DEF Line, Common, Types
      <3> QED BY <3>1, ChainType
    <2>2. Put \in t[Len(queue) + 1]..(t[Len(queue) + 1] + p - 1)
      BY <1>4 DEF Line, Numbered
    <2> QED BY <1>5, <2>1, <2>2
  <1>7. Books(t, a, b, p)'
    <2>1. /\ Line(Filled, Unfilled, queue, t, Put, owner, block, a, b, p)'
          /\ Put' = Put
      BY <1>1, <1>4 DEF Filled, Unfilled, Put, asifVars, taskVars, slotVars
    <2>2. Me' # "requeueing"
      BY <1>0, <1>1 DEF Me, taskVars
    <2>3. /\ queue' = queue /\ audio' = audio /\ framesQueued' = framesQueued
          /\ declared' = declared /\ framesSaved' = framesSaved
      BY <1>1 DEF countVars, slotVars, fileVars
    <2>4. host' # "flushing" /\ framesQueued = t[Len(queue) + 1]
      BY <1>0, <1>4, <1>6
    <2> QED BY <1>4, <1>6, <2>1, <2>2, <2>3, <2>4 DEF Books
  <1> QED BY <1>7 DEF Kept

LEMMA RequeuesKept == Alive /\ WriterRequeues(runs) => Kept'
  <1> SUFFICES ASSUME Alive, WriterRequeues(runs) PROVE Kept'
    OBVIOUS
  <1>0. /\ Common /\ memory /\ Kept /\ Me = "requeueing" /\ runs \in Tasks /\ host # "flushing"
        /\ writer \in [Tasks -> Writers] /\ owner \in [Slots -> Owners] /\ block \in Contents
        /\ queue \in Seq(Slots)
    BY DEF Alive, WriterRequeues, Common, Types, HostInv, Me, Phases, Contents
  <1>1. CASE Starves(runs)
    BY <1>1, QuietWriterKept DEF QuietWriter
  <1>2. CASE ~Starves(runs)
    <2>1. PICK s \in FreeSlots : /\ owner' = [owner EXCEPT ![s] = "sound"]
                                 /\ block' = [block EXCEPT ![s] = NullBlocks]
                                 /\ empty' = empty \o Entries(s)
      BY <1>2 DEF Starves, WriterRequeues
    <2>2. s \in Slots /\ owner[s] = "free"
      BY <2>1 DEF FreeSlots
    <2>3. /\ writer' = [writer EXCEPT ![runs] = "loop"] /\ runs' = runs
          /\ UNCHANGED <<state, done, asifVars, countVars, hand, host, memory, queue, fileVars,
                         runs>>
      BY DEF WriterRequeues
    <2>4. Filled' = Filled /\ Put' = Put /\ Me' = "loop"
      BY <1>0, <2>3 DEF Filled, Put, Me, asifVars
    <2>5. Unfilled' = Unfilled \o Entries(s)
      <3>1. /\ One(current) \in Seq(Real) /\ One(next) \in Seq(Real) /\ empty \in Seq(Real)
            /\ Entries(s) \in Seq(Real)
        BY <1>0, <2>2, LineTypes, EntriesFacts
      <3>2. PICK c, n, m, k, z : /\ c = One(current) /\ n = One(next) /\ m = empty
                                 /\ k = Entries(s) /\ z = Unfilled'
        OBVIOUS
      <3>3. z = c \o (n \o (m \o k))
        BY <2>1, <2>3, <3>2 DEF Unfilled, asifVars
      <3>4. c \in Seq(Real) /\ n \in Seq(Real) /\ m \in Seq(Real) /\ k \in Seq(Real)
        BY <3>1, <3>2
      <3>5. c \o (n \o (m \o k)) = (c \o (n \o m)) \o k
        BY ONLY <3>4
      <3> QED BY <3>2, <3>3, <3>5 DEF Unfilled
    <2>6. PICK t \in Seq(Nat), a \in 0..NSlots, b \in 0..NSlots, p \in 1..Blocks : Books(t, a, b, p)
      BY <1>0 DEF Kept
    <2>7. b = 0 /\ p = 1
      BY <1>0, <2>6 DEF Books
    <2>8. /\ Line(Filled, Unfilled, queue, t, Put, owner, block, a, 0, 1) /\ t[1] = Len(audio)
          /\ Put = t[Len(queue) + 1] + 1 - 1 /\ framesQueued = t[Len(queue) + 1]
          /\ declared = framesSaved
      BY <1>0, <2>6, <2>7 DEF Books
    <2>9. PICK f, u, put, own2, blk2 : /\ f = Filled /\ u = Unfilled /\ put = Put /\ own2 = owner'
                                       /\ blk2 = block'
      OBVIOUS
    <2>10. IF a = 0 THEN Line(f, u \o Entries(s), queue, t, put, own2, blk2, s, 0, 1)
                    ELSE Line(f, u \o Entries(s), queue, t, put, own2, blk2, a, s, 1)
      <3>1. /\ f \in Seq(Real) /\ u \in Seq(Real) /\ put \in Nat
            /\ Line(f, u, queue, t, put, owner, block, a, 0, 1)
            /\ own2 = [owner EXCEPT ![s] = "sound"] /\ blk2 = [block EXCEPT ![s] = NullBlocks]
        BY <1>0, <2>1, <2>8, <2>9, LineTypes DEF Line, Numbered
      <3> QED BY ONLY <1>0, <2>2, <3>1, ExtendLine
    <2>11. \E a2, b2 \in 0..NSlots : Line(f, u \o Entries(s), queue, t, put, own2, blk2, a2, b2, 1)
      <3>1. s \in 0..NSlots /\ 0 \in 0..NSlots
        BY <2>2, Sizes DEF Slots
      <3> QED BY <2>10, <3>1
    <2>12. PICK a2 \in 0..NSlots, b2 \in 0..NSlots :
               Line(Filled, Unfilled, queue, t, Put, owner, block, a2, b2, 1)'
      BY <2>3, <2>4, <2>5, <2>9, <2>11
    <2>13. /\ queue' = queue /\ audio' = audio /\ framesQueued' = framesQueued
           /\ declared' = declared /\ framesSaved' = framesSaved /\ host' = host
      BY <2>3 DEF countVars, fileVars
    <2>14. Books(t, a2, b2, 1)'
      BY <1>0, <2>4, <2>8, <2>12, <2>13 DEF Books
    <2>15. 1 \in 1..Blocks
      BY Sizes
    <2> QED BY <2>14, <2>15 DEF Kept
  <1> QED BY <1>1, <1>2

(* ASIF turns to the block it was to fill next, and that was first in line. *)
LEMMA UnfilledAdvances ==
    ASSUME Common, memory, AsifBlockFilled
    PROVE  /\ Unfilled # <<>> /\ Head(Unfilled) = current /\ current \in Real
           /\ Unfilled' = Tail(Unfilled)
  <1>0. /\ current \in Real /\ next \in Real \cup {NoEntry} /\ empty \in Seq(Real)
        /\ current' = next
    BY DEF AsifBlockFilled, Common, Types
  <1>1. One(next) \o empty \in Seq(Real) /\ One(next) \in Seq(Real)
    BY <1>0, OneFacts, JoinedElements
  <1>2. PICK r : r = One(next) \o empty
    OBVIOUS
  <1>3. Unfilled = <<current>> \o r
    <2>1. current # NoEntry
      BY DEF AsifBlockFilled
    <2> QED BY <1>2, <2>1 DEF Unfilled, One
  <1>4. Unfilled # <<>> /\ Head(Unfilled) = current /\ Tail(Unfilled) = r
    <2>1. PICK c, u : c = current /\ u = <<c>> \o r
      OBVIOUS
    <2>2. c \in Real /\ r \in Seq(Real)
      BY <1>0, <1>1, <1>2, <2>1
    <2>3. <<c>> \o r # <<>> /\ Head(<<c>> \o r) = c /\ Tail(<<c>> \o r) = r
      BY ONLY <2>2
    <2> QED BY <1>3, <2>1, <2>3
  <1>5. Unfilled' = r
    <2>1. Unfilled' = One(next) \o (One(next') \o empty')
      BY <1>0 DEF Unfilled
    <2>2. One(next') \o empty' = empty
      <3>1. CASE next' = Head(empty) /\ empty' = Tail(empty) /\ empty # <<>>
        <4>1. Head(empty) # NoEntry
          BY <1>0, <3>1, HeadTail, RealFacts
        <4>2. One(next') \o empty' = <<Head(empty)>> \o Tail(empty)
          BY <3>1, <4>1 DEF One
        <4> QED BY <1>0, <3>1, <4>2, HeadFirst
      <3>2. CASE next' = NoEntry /\ empty' = empty
        <4>1. One(next') \o empty' = <<>> \o empty
          BY <3>2 DEF One
        <4> QED BY <1>0, <4>1, EmptyConcat
      <3> QED BY <3>1, <3>2 DEF AsifBlockFilled
    <2> QED BY <1>2, <2>1, <2>2
  <1> QED BY <1>0, <1>4, <1>5

LEMMA FillsKept == Alive /\ AsifBlockFilled => Kept'
  <1> SUFFICES ASSUME Alive, AsifBlockFilled PROVE Kept'
    OBVIOUS
  <1>0. /\ Common /\ memory /\ Kept /\ runs \in Tasks /\ host # "flushing"
        /\ done \in Seq(Real) /\ frameNumber \in Nat /\ One(hand[runs]) \in Seq(Real)
        /\ Filled \in Seq(Real) /\ Unfilled \in Seq(Real)
    <2>1. host # "flushing"
      BY DEF Alive, Phases, AsifBlockFilled
    <2> QED BY <2>1, LineTypes DEF Alive, Common, Types
  <1>1. PICK e : e = [current EXCEPT !.frame = frameNumber]
    OBVIOUS
  <1>2. /\ done' = Append(done, e) /\ frameNumber' = frameNumber + 1
        /\ UNCHANGED <<countVars, taskVars, host, memory, slotVars, fileVars, trouble, runs>>
    BY <1>1 DEF AsifBlockFilled
  <1>3. Unfilled # <<>> /\ Head(Unfilled) = current /\ current \in Real /\ Unfilled' = Tail(Unfilled)
    BY <1>0, UnfilledAdvances
  <1>4. e \in Real /\ e.slot = current.slot /\ e.block = current.block /\ e.frame = frameNumber
    BY <1>0, <1>1, <1>3, RealFacts
  <1>5. Filled' = Append(Filled, e)
    <2>1. PICK h, d : h = One(hand[runs]) /\ d = done
      OBVIOUS
    <2>2. h \in Seq(Real) /\ d \in Seq(Real)
      BY <1>0, <2>1
    <2>3. h \o Append(d, e) = Append(h \o d, e)
      BY ONLY <1>4, <2>2
    <2>4. Filled' = h \o Append(d, e)
      BY <1>2, <2>1 DEF Filled, taskVars
    <2> QED BY <2>1, <2>3, <2>4 DEF Filled
  <1>6. PICK t \in Seq(Nat), a \in 0..NSlots, b \in 0..NSlots, p \in 1..Blocks : Books(t, a, b, p)
    BY <1>0 DEF Kept
  <1>7. /\ Line(Filled, Unfilled, queue, t, Put, owner, block, a, b, p) /\ t[1] = Len(audio)
        /\ Put = t[Len(queue) + 1] + p - 1 /\ framesQueued = t[Len(queue) + 1]
        /\ declared = framesSaved /\ Put \in Nat
        /\ Me = "requeueing" => b = 0 /\ p = 1
    BY <1>0, <1>6 DEF Books, Line, Numbered
  <1>8. e.frame = Put + Len(Filled) /\ Put' = Put
    <2>1. Len(Filled) \in Nat
      BY <1>0
    <2>2. Len(Filled') = Len(Filled) + 1
      BY <1>0, <1>4, <1>5, AppendFacts
    <2>3. \A i, j \in Int : i = (i - j) + j /\ (i + 1) - (j + 1) = i - j
      OBVIOUS
    <2>4. e.frame = Put + Len(Filled)
      BY <1>0, <1>4, <2>1, <2>3 DEF Put
    <2>5. Put' = (frameNumber + 1) - (Len(Filled) + 1)
      BY <1>2, <2>2 DEF Put
    <2> QED BY <1>0, <2>1, <2>3, <2>4, <2>5 DEF Put
  <1>9. PICK f, u, put : f = Filled /\ u = Unfilled /\ put = Put
    OBVIOUS
  <1>10. Line(Append(f, e), Tail(u), queue, t, put, owner, block, a, b, p)
    <2>1. /\ f \in Seq(Real) /\ u \in Seq(Real) /\ u # <<>> /\ e \in Real /\ put \in Nat
          /\ Line(f, u, queue, t, put, owner, block, a, b, p)
          /\ e.slot = Head(u).slot /\ e.block = Head(u).block /\ e.frame = put + Len(f)
      BY <1>0, <1>3, <1>4, <1>7, <1>8, <1>9
    <2> QED BY ONLY <2>1, FillLine
  <1>11. Line(Filled, Unfilled, queue, t, Put, owner, block, a, b, p)'
    BY <1>2, <1>3, <1>5, <1>8, <1>9, <1>10 DEF slotVars
  <1>12. /\ queue' = queue /\ audio' = audio /\ framesQueued' = framesQueued /\ Me' = Me
         /\ declared' = declared /\ framesSaved' = framesSaved /\ host' = host
    BY <1>2 DEF countVars, slotVars, fileVars, taskVars, Me
  <1>13. Books(t, a, b, p)'
    BY <1>0, <1>7, <1>8, <1>11, <1>12 DEF Books
  <1> QED BY <1>13 DEF Kept

LEMMA SavesKept == Alive /\ HostSaves => Kept'
  <1> SUFFICES ASSUME Alive, HostSaves PROVE Kept'
    OBVIOUS
  <1>0. /\ Common /\ memory /\ Kept /\ queue \in Seq(Slots) /\ queue # <<>>
        /\ owner \in [Slots -> Owners] /\ block \in Contents /\ audio \in Seq(Nat)
        /\ Filled \in Seq(Real) /\ Unfilled \in Seq(Real)
    BY LineTypes DEF Alive, Common, Types, HostSaves, Contents
  <1>1. /\ audio' = audio \o Keeping(block[Head(queue)], Nat \ {0})
        /\ owner' = [owner EXCEPT ![Head(queue)] = "free"]
        /\ queue' = Tail(queue)
        /\ UNCHANGED <<state, empty, done, asifVars, countVars, taskVars, host, memory, block,
                       declared, trouble, runs>>
    BY DEF HostSaves
  <1>2. PICK t \in Seq(Nat), a \in 0..NSlots, b \in 0..NSlots, p \in 1..Blocks : Books(t, a, b, p)
    BY <1>0 DEF Kept
  <1>3. /\ Line(Filled, Unfilled, queue, t, Put, owner, block, a, b, p) /\ t[1] = Len(audio)
        /\ Chained(queue, t, owner, block)
    BY <1>2 DEF Books, Line
  <1>4. /\ Tail(t)[Len(Tail(queue)) + 1] = t[Len(queue) + 1] /\ Tail(t)[1] = t[2]
        /\ Tail(t) \in Seq(Nat)
    BY <1>0, <1>3, ChainTail
  <1>5. PICK f, u, put : f = Filled /\ u = Unfilled /\ put = Put
    OBVIOUS
  <1>6. Line(f, u, Tail(queue), Tail(t), put, [owner EXCEPT ![Head(queue)] = "free"], block, a, b, p)
    <2>1. /\ f \in Seq(Real) /\ u \in Seq(Real)
          /\ Line(f, u, queue, t, put, owner, block, a, b, p)
      BY <1>0, <1>3, <1>5
    <2> QED BY ONLY <1>0, <2>1, SaveLine
  <1>7. /\ Filled' = Filled /\ Unfilled' = Unfilled /\ Put' = Put /\ Me' = Me /\ block' = block
        /\ framesQueued' = framesQueued /\ framesSaved' = framesSaved /\ declared' = declared
        /\ host' = host /\ done' = done
    BY <1>1 DEF Filled, Unfilled, Put, Me, asifVars, taskVars, countVars
  <1>8. Line(Filled, Unfilled, queue, Tail(t), Put, owner, block, a, b, p)'
    BY <1>1, <1>5, <1>6, <1>7
  <1>9. Len(audio') = t[2]
    <2>1. /\ Len(queue) \in Nat /\ Len(queue) >= 1 /\ Head(queue) = queue[1]
          /\ Head(queue) \in Slots
      BY <1>0, HeadTail
    <2>2. 1 \in 1..Len(queue) /\ 1 + 1 = 2
      BY <2>1
    <2>3. /\ t[2] \in t[1]..(t[1] + Blocks) /\ Row(block[Head(queue)], t[1], t[2])
          /\ t[1] \in Nat /\ t[2] \in Nat
      BY <1>0, <1>3, <2>1, <2>2, ChainType DEF Chained
    <2>4. block[Head(queue)] \in [1..Blocks -> Nat]
      BY <1>0, <2>1 DEF Contents
    <2>5. PICK r : r = Keeping(block[Head(queue)], Nat \ {0})
      OBVIOUS
    <2>6. r \in Seq(Nat) /\ Len(r) = t[2] - t[1]
      BY <2>3, <2>4, <2>5, KeptRow
    <2>7. Len(audio') = Len(audio) + Len(r)
      BY <1>0, <1>1, <2>5, <2>6, JoinedElements
    <2>8. \A i, j \in Int : i + (j - i) = j
      OBVIOUS
    <2> QED BY <1>3, <2>3, <2>6, <2>7, <2>8
  <1>10. Books(Tail(t), a, b, p)'
    BY <1>1, <1>2, <1>4, <1>7, <1>8, <1>9 DEF Books
  <1> QED BY <1>4, <1>10 DEF Kept

(* The first two slots make the first line. *)
LEMMA TwoSlots ==
    ASSUME NEW u, u = Entries(1) \o Entries(2)
    PROVE  u \in Seq(Real) /\ Len(u) = 2 * Blocks /\ Laid(<<>>, u, 1, 2, 1)
  <1>0. 1 \in Slots /\ 2 \in Slots /\ 1 \in 0..NSlots /\ 2 \in 0..NSlots /\ 1 \in 1..Blocks
    BY Sizes DEF Slots
  <1>1. /\ Entries(1) \in Seq(Real) /\ Len(Entries(1)) = Blocks
        /\ \A y \in 1..Blocks : Entries(1)[y].slot = 1 /\ Entries(1)[y].block = y
    BY <1>0, EntriesFacts
  <1>2. /\ Entries(2) \in Seq(Real) /\ Len(Entries(2)) = Blocks
        /\ \A y \in 1..Blocks : Entries(2)[y].slot = 2 /\ Entries(2)[y].block = y
    BY <1>0, EntriesFacts
  <1>3. /\ u \in Seq(Real) /\ Len(u) = Blocks + Blocks
        /\ \A k \in 1..Blocks : u[k] = Entries(1)[k]
        /\ \A k \in 1..Blocks : u[Blocks + k] = Entries(2)[k]
    <2>1. PICK v, w : v = Entries(1) /\ w = Entries(2)
      OBVIOUS
    <2>2. v \in Seq(Real) /\ w \in Seq(Real) /\ u = v \o w
      BY <1>1, <1>2, <2>1
    <2>3. u \in Seq(Real)
      BY ONLY <2>2
    <2>4. Len(u) = Len(v) + Len(w)
      BY ONLY <2>2
    <2>5. \A k \in 1..Len(v) : u[k] = v[k]
      BY ONLY <2>2
    <2>6. \A k \in 1..Len(w) : u[Len(v) + k] = w[k]
      BY ONLY <2>2
    <2>7. Len(v) = Blocks /\ Len(w) = Blocks
      BY <1>1, <1>2, <2>1
    <2> QED BY <2>1, <2>3, <2>4, <2>5, <2>6, <2>7
  <1>4. Blocks \in Nat /\ Len(<<>>) = 0
    BY Sizes
  <1>5. ASSUME NEW k \in 1..Len(u) PROVE Stands(u[k], Len(<<>>) + k, 1, 2, 1)
    <2>1. CASE k <= Blocks
      <3>1. u[k].slot = 1 /\ u[k].block = k
        BY <1>1, <1>3, <1>4, <2>1
      <3>2. Len(<<>>) + k = k /\ k <= Blocks - 1 + 1 /\ 1 + k - 1 = k
        BY <1>4, <2>1
      <3> QED BY <3>1, <3>2 DEF Stands
    <2>2. CASE ~(k <= Blocks)
      <3>1. PICK y \in 1..Blocks : k = Blocks + y
        <4>1. k - Blocks \in 1..Blocks /\ k = Blocks + (k - Blocks)
          BY <1>3, <1>4, <2>2
        <4> QED BY <4>1
      <3>2. u[k].slot = 2 /\ u[k].block = y
        BY <1>2, <1>3, <3>1
      <3>3. Len(<<>>) + k = k /\ ~(k <= Blocks - 1 + 1) /\ 1 + k - 1 - Blocks = y
        BY <1>4, <2>2, <3>1
      <3> QED BY <3>2, <3>3 DEF Stands
    <2> QED BY <2>1, <2>2
  <1>6. Len(<<>>) + Len(u) = Rest(1, 2, 1)
    BY <1>3, <1>4 DEF Rest
  <1>7. \A k \in 1..Len(<<>>) : Stands(<<>>[k], k, 1, 2, 1)
    BY <1>4
  <1>8. Laid(<<>>, u, 1, 2, 1)
    BY <1>0, <1>5, <1>6, <1>7 DEF Laid
  <1> QED BY <1>3, <1>4, <1>8

(* A proper beginning: nothing of the last recording is left. *)
LEMMA StartingFacts ==
    ASSUME Common, Starting, Fine'
    PROVE  /\ state' = "READY" /\ host' = "preparing" /\ memory' /\ runs' \in Tasks
           /\ current' = NoEntry /\ next' = NoEntry /\ done' = <<>>
           /\ empty' = Entries(1) \o Entries(2) /\ hand'[runs'] = NoEntry
           /\ \A w \in Tasks : writer'[w] = IF w = runs' THEN "loop" ELSE "none"
           /\ owner' = [s \in Slots |-> IF s <= 2 THEN "sound" ELSE "free"]
           /\ \A s \in {1, 2} : block'[s] = NullBlocks
           /\ queue' = <<>> /\ audio' = <<>> /\ declared' = 0
           /\ frameNumber' = 0 /\ framesQueued' = 0 /\ framesSaved' = 0
           /\ trouble' = {}
  <1>1. ~LeftOver /\ trouble' = {}
    <2>1. trouble' = IF LeftOver THEN {"leftover"} ELSE {}
      BY DEF Starting
    <2> QED BY <2>1 DEF Fine
  <1>2. state = "IDLE" /\ \A w \in Tasks : writer[w] = "none"
    BY <1>1 DEF LeftOver
  <1>3. done = <<>> /\ empty = <<>> /\ current = NoEntry /\ next = NoEntry
    <2>1. \A w \in Tasks : ~Works(w)
      BY <1>2 DEF Works
    <2> QED BY <1>2, <2>1 DEF Common, TasksInv, NothingLeft
  <1>4. \A w \in Tasks : hand[w] = NoEntry
    BY <1>2 DEF Common, TasksInv
  <1>5. /\ runs \in 0..MaxRuns /\ MaxRuns \in Nat /\ runs < MaxRuns /\ runs' = runs + 1
        /\ writer \in [Tasks -> Writers]
    BY Sizes DEF Common, Types, Starting
  <1>6. runs' \in Tasks
    BY <1>5 DEF Tasks
  <1>7. 1 \in Slots /\ 2 \in Slots
    BY Sizes DEF Slots
  <1>8. empty' = Entries(1) \o Entries(2)
    <2>1. empty' = <<>> \o Entries(1) \o Entries(2)
      BY <1>2, <1>3 DEF Starting
    <2>2. Entries(1) \in Seq(Real)
      BY <1>7, EntriesFacts
    <2> QED BY <2>1, <2>2, EmptyConcat
  <1>9. /\ owner' = [s \in Slots |-> IF s <= 2 THEN "sound" ELSE "free"]
        /\ block' = [s \in Slots |-> IF s <= 2 THEN NullBlocks ELSE block[s]]
        /\ writer' = [writer EXCEPT ![runs + 1] = "loop"] /\ state' = "READY" /\ ResetCounters
    BY <1>2 DEF Starting
  <1>10. \A s \in {1, 2} : block'[s] = NullBlocks
    BY <1>7, <1>9
  <1>11. \A w \in Tasks : writer'[w] = IF w = runs' THEN "loop" ELSE "none"
    BY <1>2, <1>5, <1>9
  <1>12. hand' = hand /\ host' = "preparing" /\ memory' /\ queue' = <<>> /\ audio' = <<>> /\ declared' = 0
    BY DEF Starting
  <1>13. UNCHANGED <<done, current, next>>
    BY DEF Starting
  <1> QED BY <1>1, <1>3, <1>4, <1>6, <1>8, <1>9, <1>10, <1>11, <1>12, <1>13 DEF ResetCounters

LEMMA StartingKept == Common /\ Starting /\ Fine' => Kept'
  <1> SUFFICES ASSUME Common, Starting, Fine' PROVE Kept'
    OBVIOUS
  <1>0. /\ state' = "READY" /\ host' = "preparing" /\ runs' \in Tasks
        /\ current' = NoEntry /\ next' = NoEntry /\ done' = <<>>
        /\ empty' = Entries(1) \o Entries(2) /\ hand'[runs'] = NoEntry
        /\ \A w \in Tasks : writer'[w] = IF w = runs' THEN "loop" ELSE "none"
        /\ owner' = [s \in Slots |-> IF s <= 2 THEN "sound" ELSE "free"]
        /\ \A s \in {1, 2} : block'[s] = NullBlocks
        /\ queue' = <<>> /\ audio' = <<>> /\ declared' = 0
        /\ frameNumber' = 0 /\ framesQueued' = 0 /\ framesSaved' = 0
    BY StartingFacts
  <1>1. empty' \in Seq(Real) /\ Laid(<<>>, empty', 1, 2, 1)
    BY <1>0, TwoSlots
  <1>2. Filled' = <<>> /\ Unfilled' = empty'
    <2>1. <<>> \o empty' = empty' /\ <<>> \o <<>> = <<>>
      BY <1>1, EmptyConcat
    <2> QED BY <1>0, <2>1 DEF Filled, Unfilled, One
  <1>3. Put' = 0
    <2>1. Put' = frameNumber' - Len(Filled') /\ Len(<<>>) = 0
      BY DEF Put
    <2>2. Len(Filled') = 0
      BY <1>2, <2>1
    <2> QED BY <1>0, <2>1, <2>2
  <1> DEFINE t == <<0>>
  <1>4. t \in Seq(Nat) /\ Len(t) = 1 /\ t[1] = 0
    OBVIOUS
  <1> HIDE DEF t
  <1>5. Len(queue') = 0 /\ Len(audio') = 0 /\ t[Len(queue') + 1] = 0
    BY <1>0, <1>4
  <1>6. Owned(owner', 1, 2)
    <2>1. \A s \in Slots : s \in Int /\ s >= 1 /\ (s <= 2 <=> s \in {1, 2})
      BY Sizes DEF Slots
    <2> QED BY <1>0, <2>1 DEF Owned
  <1>7. Chained(queue', t, owner', block')
    BY <1>0, <1>4, <1>5 DEF Chained
  <1>8. Numbered(Filled', Put', t[Len(queue') + 1], block', 1, 2, 1)
    <2>1. Framed(Filled', Put')
      BY <1>2 DEF Framed
    <2>2. Row(block'[1], 0, 0) /\ Row(block'[2], 0, 0)
      BY <1>0, NullRow
    <2>3. 0 \in 0..(0 + 1 - 1)
      OBVIOUS
    <2> QED BY <1>3, <1>5, <2>1, <2>2, <2>3 DEF Numbered
  <1>9. Line(Filled, Unfilled, queue, t, Put, owner, block, 1, 2, 1)'
    BY <1>1, <1>2, <1>6, <1>7, <1>8 DEF Line
  <1>10. Me' = "loop"
    BY <1>0 DEF Me
  <1>11. Books(t, 1, 2, 1)'
    BY <1>0, <1>3, <1>4, <1>5, <1>9, <1>10 DEF Books
  <1>12. 1 \in 0..NSlots /\ 2 \in 0..NSlots /\ 1 \in 1..Blocks
    BY Sizes
  <1> QED BY <1>4, <1>11, <1>12 DEF Kept

-----------------------------------------------------------------------------
(* What the actions do to the phases of a recording                        *)

LEMMA StopWaitedFacts ==
    ASSUME Common, Phases, StopWaited
    PROVE  current = NoEntry /\ state \in {"STOPPED", "STOPPING", "STOP_ASIF"}
           /\ Me \in {"none", "loop"}
  <1>0. runs \in Tasks
    BY DEF Common, HostInv, StopWaited
  <1>1. CASE state = "STOPPED"
    <2>1. \A w \in Tasks : ~Works(w)
      BY <1>1 DEF Phases, Me, Works
    <2> QED BY <1>1, <2>1 DEF Common, TasksInv, Phases
  <1>2. CASE GivesUp
    BY <1>0, <1>2 DEF GivesUp, Me
  <1> QED BY <1>1, <1>2 DEF StopWaited

HostSteps == \/ QuietHost \/ StopWaited \/ FlushDone \/ FlushEmpty \/ StopReturns \/ HostSaves

LEMMA HostPhases == Alive /\ HostSteps => Phases' /\ LastBlock'
  <1> SUFFICES ASSUME Alive, HostSteps PROVE Phases' /\ LastBlock'
    OBVIOUS
  <1>0. /\ Common /\ Phases /\ LastBlock /\ Fine' /\ TasksInv /\ runs \in Tasks
        /\ done \in Seq(Real) /\ current \in Real \cup {NoEntry} /\ next \in Real \cup {NoEntry}
    BY DEF Alive, Common, Types, LineTypes, HostInv
  <1>1. writer' = writer /\ runs' = runs /\ Me' = Me
    BY DEF HostSteps, QuietHost, Enabled, Started, Stopping, StopBegins, HostNextChunk, StopWaited,
           FlushDone, FlushEmpty, StopReturns, HostSaves, taskVars, Me
  <1>2. \A w \in Tasks : w # runs' => writer'[w] = "none"
    BY <1>0, <1>1 DEF Phases
  <1>3. CASE Enabled
    BY <1>0, <1>1, <1>2, <1>3 DEF Enabled, Phases, LastBlock, NothingLeft, asifVars
  <1>4. CASE Started
    BY <1>0, <1>1, <1>2, <1>4 DEF Started, Phases, LastBlock
  <1>5. CASE Stopping
    <2>1. state # "READY"
      BY <1>0, <1>5 DEF Stopping, Fine
    <2>2. /\ host = "recording" /\ host' = IF state = "RUNNING" THEN "stopping" ELSE "saving"
          /\ UNCHANGED <<state, done, current, next>>
      BY <1>5 DEF Stopping, asifVars
    <2> QED BY <1>0, <1>1, <1>2, <2>1, <2>2 DEF Phases, LastBlock, NothingLeft
  <1>6. CASE StopBegins
    <2>1. /\ host = "stopping" /\ host' = "waiting" /\ state' = "STOPPING"
          /\ UNCHANGED <<done, current, next>>
      BY <1>6 DEF StopBegins, asifVars
    <2>2. state = "RUNNING" => Len(done) + Len(One(current) \o One(next)) > 1
      <3>1. ASSUME state = "RUNNING" PROVE Len(done) + Len(One(current) \o One(next)) > 1
        <4>1. current # NoEntry /\ next # NoEntry
          BY <1>0, <3>1 DEF TasksInv
        <4>2. /\ One(current) \in Seq(Real) /\ Len(One(current)) = 1
              /\ One(next) \in Seq(Real) /\ Len(One(next)) = 1
          BY <1>0, <4>1, OneFacts
        <4>3. PICK v, x : v = One(current) /\ x = One(next)
          OBVIOUS
        <4>4. v \in Seq(Real) /\ Len(v) = 1 /\ x \in Seq(Real) /\ Len(x) = 1
          BY <4>2, <4>3
        <4>5. Len(v \o x) = 2
          BY ONLY <4>4
        <4>6. Len(done) \in Nat
          BY <1>0
        <4> QED BY <4>3, <4>5, <4>6
      <3> QED BY <3>1
    <2>3. LastBlock'
      <3>1. state # "READY"
        BY <1>0, <2>1 DEF Phases
      <3>2. Len(done) + Len(One(current) \o One(next)) > IF Me = "receiving" THEN 1 ELSE 0
        <4>1. CASE state = "RUNNING"
          <5>1. PICK n : n = Len(done) + Len(One(current) \o One(next))
            OBVIOUS
          <5>2. n > 1 /\ n \in Int
            <6>1. One(current) \in Seq(Real) /\ One(next) \in Seq(Real)
              BY <1>0, OneFacts
            <6>2. Len(One(current) \o One(next)) \in Int /\ Len(done) \in Int
              BY <1>0, <6>1
            <6> QED BY <2>2, <4>1, <5>1, <6>2
          <5> QED BY <5>1, <5>2
        <4>2. CASE state # "RUNNING"
          BY <1>0, <2>1, <3>1, <4>2 DEF LastBlock
        <4> QED BY <4>1, <4>2
      <3> QED BY <1>1, <2>1, <3>2 DEF LastBlock
    <2> QED BY <1>0, <1>1, <1>2, <2>1, <2>3 DEF Phases
  <1>7. CASE HostNextChunk \/ HostSaves
    <2>1. UNCHANGED <<host, state, done, empty, current, next>>
      BY <1>7 DEF HostNextChunk, HostSaves, asifVars
    <2> QED BY <1>0, <1>1, <1>2, <2>1 DEF Phases, LastBlock, NothingLeft
  <1>8. CASE StopWaited
    <2>1. /\ host = "waiting" /\ host' = "flushing"
          /\ UNCHANGED <<state, done, empty, current, next>>
      BY <1>8 DEF StopWaited, asifVars
    <2>2. /\ current = NoEntry /\ state \in {"STOPPED", "STOPPING", "STOP_ASIF"}
          /\ Me \in {"none", "loop"}
      BY <1>0, <1>8, StopWaitedFacts
    <2> QED BY <1>0, <1>1, <1>2, <2>1, <2>2 DEF Phases, LastBlock
  <1>9. CASE FlushDone \/ FlushEmpty
    <2>1. host = "flushing" /\ UNCHANGED <<host, state, current, next>>
      BY <1>9 DEF FlushDone, FlushEmpty, asifVars
    <2> QED BY <1>0, <1>1, <1>2, <2>1 DEF Phases, LastBlock
  <1>10. CASE StopReturns
    <2>1. /\ host = "flushing" /\ host' = "saving" /\ state' = "IDLE" /\ NothingLeft
          /\ UNCHANGED <<done, empty, current, next>>
      BY <1>10 DEF StopReturns, asifVars, Alive
    <2> QED BY <1>0, <1>1, <1>2, <2>1 DEF Phases, LastBlock, NothingLeft
  <1> QED BY <1>3, <1>4, <1>5, <1>6, <1>7, <1>8, <1>9, <1>10 DEF HostSteps, QuietHost

(* How many blocks are filled or with ASIF *)
LEMMA LeftFacts ==
    ASSUME Common
    PROVE  /\ Len(done) \in Nat /\ Len(One(current)) \in Nat /\ Len(One(next)) \in Nat
           /\ Len(One(current) \o One(next)) = Len(One(current)) + Len(One(next))
           /\ current # NoEntry => Len(One(current)) = 1
           /\ current = NoEntry => Len(One(current)) = 0
           /\ next # NoEntry => Len(One(next)) = 1
           /\ next = NoEntry => Len(One(next)) = 0
  <1>1. done \in Seq(Real) /\ current \in Real \cup {NoEntry} /\ next \in Real \cup {NoEntry}
    BY DEF Common, Types
  <1>2. One(current) \in Seq(Real) /\ One(next) \in Seq(Real)
    BY <1>1, OneFacts
  <1>3. Len(One(current) \o One(next)) = Len(One(current)) + Len(One(next))
    BY <1>2, JoinedElements
  <1>4. Len(done) \in Nat /\ Len(One(current)) \in Nat /\ Len(One(next)) \in Nat
    BY <1>1, <1>2
  <1> QED BY <1>1, <1>3, <1>4, OneFacts

LEMMA AsifPhases == Alive /\ AsifBlockFilled => Phases' /\ LastBlock'
  <1> SUFFICES ASSUME Alive, AsifBlockFilled PROVE Phases' /\ LastBlock'
    OBVIOUS
  <1>0. Common /\ Common' /\ Phases /\ LastBlock /\ TasksInv /\ done \in Seq(Real) /\ current \in Real
    <2>1. current # NoEntry
      BY DEF AsifBlockFilled
    <2> QED BY <2>1 DEF Alive, Common, Types
  <1>1. /\ writer' = writer /\ runs' = runs /\ Me' = Me /\ host' = host /\ current' = next
        /\ done' = Append(done, [current EXCEPT !.frame = frameNumber])
    BY DEF AsifBlockFilled, taskVars, Me
  <1>2. state \notin {"READY", "IDLE"} /\ host # "flushing"
    BY <1>0 DEF Phases, AsifBlockFilled
  <1>3. \/ state' = "RUNNING" /\ state = "RUNNING"
        \/ state' = "STOP_ASIF" /\ state = "RUNNING" /\ next' = NoEntry
        \/ state' = AfterBlock(state) /\ state # "RUNNING" /\ next' = NoEntry
    BY DEF AsifBlockFilled
  <1>4. \/ AfterBlock(state) \in {"STOP_ASIF", "STOP_TASK"}
        \/ AfterBlock(state) = state /\ state # "STOPPING"
    BY DEF AfterBlock
  <1>5. Phases'
    <2>1. \A w \in Tasks : w # runs' => writer'[w] = "none"
      BY <1>0, <1>1 DEF Phases
    <2> QED BY <1>0, <1>1, <1>2, <1>3, <1>4, <2>1 DEF Phases
  <1>6. ASSUME host' \in {"recording", "stopping", "waiting"}, state' \notin {"READY", "RUNNING"}
        PROVE  Len(done') + Len(One(current') \o One(next')) > IF Me' = "receiving" THEN 1 ELSE 0
    <2>1. Len(done') = Len(done) + 1
      <3>1. frameNumber \in Nat
        BY <1>0 DEF Common, Types
      <3>2. [current EXCEPT !.frame = frameNumber] \in Real
        BY <1>0, <3>1, RealFacts
      <3> QED BY <1>0, <1>1, <3>2, AppendFacts
    <2>2. /\ Len(done) \in Nat /\ Len(One(next)) \in Nat
          /\ Len(One(current) \o One(next)) = 1 + Len(One(next))
          /\ next # NoEntry => Len(One(next)) = 1
      <3>1. current # NoEntry
        BY DEF AsifBlockFilled
      <3> QED BY <1>0, <3>1, LeftFacts
    <2>3. Len(One(current') \o One(next')) = Len(One(next))
      <3>1. One(next') = <<>> /\ current' = next
        BY <1>1, <1>3, <1>6 DEF One
      <3>2. One(next) \in Seq(Real)
        BY <1>0, OneFacts DEF Common, Types
      <3>3. Len(One(next) \o <<>>) = Len(One(next))
        <4>1. <<>> \in Seq(Real) /\ Len(<<>>) = 0
          OBVIOUS
        <4>2. Len(One(next) \o <<>>) = Len(One(next)) + Len(<<>>)
          BY <3>2, <4>1, JoinedElements
        <4> QED BY <2>2, <4>1, <4>2
      <3> QED BY <3>1, <3>3
    <2>4. CASE state = "RUNNING"
      <3>1. next # NoEntry
        BY <1>0, <2>4 DEF TasksInv
      <3> QED BY <2>1, <2>2, <2>3, <3>1
    <2>5. CASE state # "RUNNING"
      <3>1. Len(done) + (1 + Len(One(next))) > IF Me = "receiving" THEN 1 ELSE 0
        BY <1>0, <1>1, <1>2, <1>6, <2>2, <2>5 DEF LastBlock
      <3>2. Len(done') + Len(One(current') \o One(next')) = Len(done) + (1 + Len(One(next)))
        BY <2>1, <2>2, <2>3
      <3> QED BY <1>1, <3>1, <3>2
    <2> QED BY <2>4, <2>5
  <1>7. LastBlock'
    BY <1>6 DEF LastBlock
  <1> QED BY <1>5, <1>7

WriterSteps(w) == \/ WriterLooks(w) \/ WriterReceives(w) \/ WriterHandles(w)
                  \/ WriterRequeues(w) \/ WriterExits(w)

LEMMA WriterPhases == Alive /\ WriterSteps(runs) => Phases' /\ LastBlock'
  <1> SUFFICES ASSUME Alive, WriterSteps(runs) PROVE Phases' /\ LastBlock'
    OBVIOUS
  <1>0. /\ Common /\ Phases /\ LastBlock /\ TasksInv /\ done \in Seq(Real) /\ runs \in Tasks
        /\ writer \in [Tasks -> Writers]
    BY DEF Alive, Common, Types, HostInv
  <1>1. /\ host' = host /\ runs' = runs /\ current' = current /\ next' = next
    BY DEF WriterSteps, WriterLooks, WriterReceives, WriterHandles, WriterRequeues, WriterExits,
           asifVars
  <1>2. \E x \in Writers : writer' = [writer EXCEPT ![runs] = x]
    BY DEF WriterSteps, WriterLooks, WriterReceives, WriterHandles, WriterRequeues, WriterExits,
           Writers
  <1>3. \A w \in Tasks : w # runs' => writer'[w] = "none"
    BY <1>0, <1>1, <1>2 DEF Phases
  <1>4. \A x : writer' = [writer EXCEPT ![runs] = x] => Me' = x
    BY <1>0, <1>1 DEF Me
  <1>5. CASE WriterExits(runs)
    <2>1. Me = "exiting" /\ Me' = "none" /\ state' = "STOPPED" /\ done' = done
      BY <1>4, <1>5 DEF WriterExits, Me
    <2>2. current = NoEntry /\ state # "READY"
      <3>1. \A w \in Tasks : ~Works(w)
        BY <1>0, <2>1 DEF Phases, Me, Works
      <3> QED BY <1>0, <3>1 DEF TasksInv
    <2>3. state # "RUNNING"
      BY <1>0, <2>2 DEF TasksInv
    <2>4. host \notin {"preparing", "flushing"}
      BY <1>0, <2>1, <2>2 DEF Phases
    <2> QED BY <1>0, <1>1, <1>3, <2>1, <2>2, <2>3, <2>4 DEF Phases, LastBlock
  <1>6. CASE WriterLooks(runs)
    <2>1. /\ Me = "loop" /\ state \in {"RUNNING", "STOP_TASK"}
          /\ state = "STOP_TASK" => Me' = "exiting"
          /\ UNCHANGED <<state, done, empty>>
      BY <1>4, <1>6 DEF WriterLooks, Me
    <2> QED BY <1>0, <1>1, <1>3, <2>1 DEF Phases, LastBlock
  <1>7. CASE WriterReceives(runs)
    <2>1. /\ Me = "receiving" /\ Me' \in {"loop", "handling"} /\ UNCHANGED <<state, empty>>
          /\ \/ done' = done
             \/ done # <<>> /\ done' = Tail(done)
      BY <1>4, <1>7 DEF WriterReceives, Me
    <2>2. state \notin {"READY", "STOPPED", "IDLE"} /\ host # "flushing"
      BY <1>0, <2>1 DEF Phases
    <2>3. LastBlock'
      <3>1. Len(done') >= Len(done) - 1 /\ Len(done) \in Nat /\ Len(done') \in Nat
        <4>1. done # <<>> => Len(Tail(done)) = Len(done) - 1 /\ Tail(done) \in Seq(Real)
          BY <1>0, HeadTail
        <4> QED BY <1>0, <2>1, <4>1
      <3>2. PICK n \in Nat : n = Len(One(current) \o One(next))
        BY <1>0, LeftFacts
      <3>3. Len(One(current') \o One(next')) = n
        BY <1>1, <3>2
      <3>4. /\ host \in {"recording", "stopping", "waiting"} /\ state \notin {"READY", "RUNNING"}
            => Len(done) + n > 1
        BY <1>0, <2>1, <3>2 DEF LastBlock
      <3> QED BY <1>1, <2>1, <3>1, <3>2, <3>3, <3>4 DEF LastBlock
    <2> QED BY <1>0, <1>1, <1>3, <2>1, <2>2, <2>3 DEF Phases
  <1>8. CASE WriterHandles(runs) \/ WriterRequeues(runs)
    <2>1. /\ Me \in {"handling", "requeueing"} /\ Me' \in {"loop", "requeueing"}
          /\ UNCHANGED <<state, done>>
      BY <1>4, <1>8 DEF WriterHandles, WriterRequeues, Me
    <2>2. state \notin {"READY", "STOPPED", "IDLE"} /\ host # "flushing"
      BY <1>0, <2>1 DEF Phases
    <2> QED BY <1>0, <1>1, <1>3, <2>1, <2>2 DEF Phases, LastBlock
  <1> QED BY <1>5, <1>6, <1>7, <1>8 DEF WriterSteps

LEMMA StartingPhases == Common /\ Starting /\ Fine' => Phases' /\ LastBlock'
  <1> SUFFICES ASSUME Common, Starting, Fine' PROVE Phases' /\ LastBlock'
    OBVIOUS
  <1>1. /\ state' = "READY" /\ host' = "preparing" /\ runs' \in Tasks /\ current' = NoEntry
        /\ done' = <<>> /\ \A w \in Tasks : writer'[w] = IF w = runs' THEN "loop" ELSE "none"
    BY StartingFacts
  <1> QED BY <1>1 DEF Phases, LastBlock, Me

-----------------------------------------------------------------------------
(* A recording that begins properly goes on so.                            *)

LEMMA LiveStep == Common /\ Common' /\ Live /\ [Next]_vars => Live'
  <1> SUFFICES ASSUME Common, Common', Live, [Next]_vars, Fine', memory'
               PROVE  Phases' /\ LastBlock' /\ Kept'
    BY DEF Live
  <1>1. CASE Starting
    BY <1>1, StartingPhases, StartingKept
  <1>2. ASSUME ~Starting PROVE Alive
    <2>1. Fine
      <3>1. trouble \subseteq trouble'
        BY <1>2 DEF Next, Host, Writer, Enabled, Aborted, Started, Stopping, Stopped, StopBegins,
                    StopWaited, FlushDone, FlushEmpty, StopReturns, HostSaves, HostNextChunk,
                    HostFinishes, AsifBlockFilled, WriterLooks, WriterReceives, WriterHandles,
                    WriterRequeues, WriterExits, vars
      <3> QED BY <3>1 DEF Fine
    <2>2. memory
      BY <1>2 DEF Next, Host, Writer, Enabled, Aborted, Started, Stopping, Stopped, StopBegins,
                  StopWaited, FlushDone, FlushEmpty, StopReturns, HostSaves, HostNextChunk,
                  HostFinishes, AsifBlockFilled, WriterLooks, WriterReceives, WriterHandles,
                  WriterRequeues, WriterExits, vars
    <2> QED BY <2>1, <2>2 DEF Live, Alive
  <1>3. CASE ~Starting /\ HostSteps
    <2>1. Alive
      BY <1>2, <1>3
    <2> QED BY <1>3, <2>1, HostPhases, QuietHostKept, StopWaitedKept, FlushDoneKept, FlushEmptyKept,
               StopReturnsKept, SavesKept DEF HostSteps
  <1>4. CASE ~Starting /\ AsifBlockFilled
    <2>1. Alive
      BY <1>2, <1>4
    <2> QED BY <1>4, <2>1, AsifPhases, FillsKept
  <1>5. CASE ~Starting /\ Writer
    <2>1. Alive
      BY <1>2, <1>5
    <2>2. PICK w \in Tasks : WriterSteps(w)
      BY <1>5 DEF Writer, WriterSteps
    <2>3. w = runs
      BY <2>1, <2>2, OnlyMe DEF Alive, WriterSteps
    <2>4. WriterSteps(runs)
      BY <2>2, <2>3
    <2> QED BY <2>1, <2>4, WriterPhases, QuietWriterKept, HandlesKept, RequeuesKept
            DEF WriterSteps, QuietWriter
  <1>6. CASE ~Starting /\ (Aborted \/ Stopped \/ HostFinishes)
    <2>1. ~Aborted /\ ~HostFinishes
      BY DEF Aborted, HostFinishes
    <2>2. ~Stopped
      <3>1. Alive
        BY <1>2, <1>6
      <3> QED BY <3>1 DEF Alive, Common, HostInv, Stopped
    <2> QED BY <1>6, <2>1, <2>2
  <1>7. CASE UNCHANGED vars
    <2>1. Live
      OBVIOUS
    <2>2. Fine /\ memory
      BY <1>7 DEF vars, Fine
    <2>3. Phases /\ LastBlock /\ Kept
      BY <2>1, <2>2 DEF Live
    <2>4. Phases'
      BY <1>7, <2>3 DEF vars, asifVars, taskVars, Phases, Me, NothingLeft
    <2>5. LastBlock'
      BY <1>7, <2>3 DEF vars, asifVars, taskVars, LastBlock, Me, One
    <2>6. Kept'
      <3>1. PICK t \in Seq(Nat), a \in 0..NSlots, b \in 0..NSlots, p \in 1..Blocks : Books(t, a, b, p)
        BY <2>3 DEF Kept
      <3>2. Filled' = Filled /\ Unfilled' = Unfilled /\ Me' = Me /\ Put' = Put
        BY <1>7 DEF vars, asifVars, taskVars, Filled, Unfilled, Me, Put
      <3>3. Line(Filled, Unfilled, queue, t, Put, owner, block, a, b, p)'
        BY <1>7, <3>1, <3>2 DEF vars, slotVars, Books
      <3>4. Books(t, a, b, p)'
        BY <1>7, <3>1, <3>2, <3>3 DEF vars, slotVars, countVars, fileVars, Books
      <3> QED BY <3>4 DEF Kept
    <2> QED BY <2>4, <2>5, <2>6
  <1> QED BY <1>1, <1>3, <1>4, <1>5, <1>6, <1>7 DEF Next, Host, HostSteps, QuietHost

-----------------------------------------------------------------------------
(* The sound in the file                                                   *)

LEMMA EndedStep == Common /\ Common' /\ Live /\ Ended /\ [Next]_vars => Ended'
  <1> SUFFICES ASSUME Common, Common', Live, Ended, [Next]_vars PROVE Ended'
    OBVIOUS
  <1>1. CASE Starting
    BY <1>1 DEF Starting, Ended
  <1>2. CASE HostSaves
    <2> SUFFICES ASSUME Fine' PROVE \A k \in 1..Len(audio') : audio'[k] = k
      BY <1>2 DEF HostSaves, Ended, Common, HostInv
    <2>1. Fine /\ memory /\ host # "freed" /\ queue # <<>> /\ queue \in Seq(Slots) /\ Kept
          /\ audio \in Seq(Nat) /\ block \in Contents
      BY <1>2 DEF HostSaves, Fine, Common, Types, HostInv, Live, Contents
    <2>2. PICK t \in Seq(Nat), a \in 0..NSlots, b \in 0..NSlots, p \in 1..Blocks : Books(t, a, b, p)
      BY <2>1 DEF Kept
    <2>3. Chained(queue, t, owner, block) /\ t[1] = Len(audio)
      BY <2>2 DEF Books, Line
    <2>4. /\ Len(queue) \in Nat /\ Len(queue) >= 1 /\ Head(queue) = queue[1] /\ Head(queue) \in Slots
      BY <2>1, HeadTail
    <2>5. /\ t[2] \in t[1]..(t[1] + Blocks) /\ Row(block[Head(queue)], t[1], t[2])
          /\ t[1] \in Nat /\ t[2] \in Nat
      <3>1. 1 \in 1..Len(queue) /\ 1 + 1 = 2
        BY <2>4
      <3> QED BY <2>1, <2>3, <2>4, <3>1, ChainType DEF Chained
    <2>6. PICK r : r = Keeping(block[Head(queue)], Nat \ {0})
      OBVIOUS
    <2>7. r \in Seq(Nat) /\ Len(r) = t[2] - t[1] /\ \A k \in 1..(t[2] - t[1]) : r[k] = t[1] + k
      <3>1. block[Head(queue)] \in [1..Blocks -> Nat]
        BY <2>1, <2>4 DEF Contents
      <3> QED BY <2>5, <2>6, <3>1, KeptRow
    <2>8. /\ Len(audio') = Len(audio) + Len(r) /\ Len(audio) \in Nat /\ Len(r) \in Nat
          /\ \A k \in 1..Len(audio) : audio'[k] = audio[k]
          /\ \A k \in 1..Len(r) : audio'[Len(audio) + k] = r[k]
      <3>1. audio' = audio \o r
        BY <1>2, <2>6 DEF HostSaves
      <3> QED BY <2>1, <2>7, <3>1, JoinedElements
    <2>9. \A k \in 1..Len(audio) : audio[k] = k
      BY <2>1 DEF Ended
    <2> SUFFICES ASSUME NEW k \in 1..Len(audio') PROVE audio'[k] = k
      OBVIOUS
    <2>10. CASE k \in 1..Len(audio)
      BY <2>8, <2>9, <2>10
    <2>11. CASE k \notin 1..Len(audio)
      <3>1. PICK j \in 1..Len(r) : k = Len(audio) + j
        <4>1. k - Len(audio) \in 1..Len(r) /\ k = Len(audio) + (k - Len(audio))
          BY <2>8, <2>11
        <4> QED BY <4>1
      <3>2. audio'[k] = r[j] /\ r[j] = t[1] + j
        BY <2>7, <2>8, <3>1
      <3> QED BY <2>3, <3>1, <3>2
    <2> QED BY <2>10, <2>11
  <1>3. CASE HostFinishes
    <2> SUFFICES ASSUME Fine' PROVE declared' = Len(audio')
      BY <1>3 DEF HostFinishes, Ended, Fine
    <2>1. Fine /\ memory /\ host = "saving" /\ queue = <<>> /\ Kept /\ Phases /\ audio' = audio
      BY <1>3 DEF HostFinishes, Fine, Common, HostInv, Live
    <2>2. PICK t \in Seq(Nat), a \in 0..NSlots, b \in 0..NSlots, p \in 1..Blocks : Books(t, a, b, p)
      BY <2>1 DEF Kept
    <2>3. framesQueued = Len(audio) /\ declared = framesSaved
      <3>1. framesQueued = t[Len(queue) + 1] /\ t[1] = Len(audio) /\ declared = framesSaved
        BY <2>1, <2>2 DEF Books
      <3>2. Len(queue) + 1 = 1
        BY <2>1
      <3> QED BY <3>1, <3>2
    <2>4. declared' = declared + (framesQueued - framesSaved)
      <3>1. state # "READY"
        BY <2>1 DEF Phases
      <3> QED BY <1>3, <3>1 DEF HostFinishes, CountChunk
    <2>5. framesQueued \in Nat /\ framesSaved \in Nat
      BY DEF Common, Types
    <2> QED BY <2>1, <2>3, <2>4, <2>5
  <1>4. CASE Aborted
    BY <1>4 DEF Aborted, Ended, Fine
  <1>5. CASE /\ ~Starting /\ ~HostSaves /\ ~HostFinishes /\ ~Aborted
             /\ Next
    <2>1. /\ audio' = audio /\ trouble \subseteq trouble'
          /\ host' = "freed" => host = "freed"
          /\ host = "freed" => declared' = declared
      BY <1>5 DEF Next, Host, Writer, Enabled, Started, Stopping, Stopped, StopBegins,
                  StopWaited, FlushDone, FlushEmpty, StopReturns, HostNextChunk,
                  AsifBlockFilled, WriterLooks, WriterReceives, WriterHandles,
                  WriterRequeues, WriterExits, fileVars
    <2> QED BY <2>1 DEF Ended, Fine
  <1>6. CASE UNCHANGED vars
    BY <1>6 DEF vars, fileVars, Ended, Fine
  <1> QED BY <1>1, <1>2, <1>3, <1>4, <1>5, <1>6

(* With nothing left, the line is empty. *)
LEMMA NoLine ==
    ASSUME Common, NothingLeft, current = NoEntry, hand[runs] = NoEntry,
           NEW t, NEW a, NEW b, NEW p, Books(t, a, b, p)
    PROVE  /\ Filled = <<>> /\ Unfilled = <<>> /\ a = 0 /\ b = 0
           /\ Put = t[Len(queue) + 1] /\ Put = frameNumber
  <1>0. done = <<>> /\ empty = <<>> /\ next = NoEntry /\ frameNumber \in Nat /\ queue \in Seq(Slots)
    BY DEF NothingLeft, Common, TasksInv, Types
  <1>1. Filled = <<>> /\ Unfilled = <<>>
    BY <1>0 DEF Filled, Unfilled, One
  <1>2. Line(Filled, Unfilled, queue, t, Put, owner, block, a, b, p)
    BY DEF Books
  <1>3. a \in 0..NSlots /\ p \in 1..Blocks /\ Rest(a, b, p) = 0 /\ (a = 0 => b = 0 /\ p = 1)
    BY <1>1, <1>2 DEF Line, Laid
  <1>4. a = 0
    BY <1>3, Sizes DEF Rest
  <1>5. b = 0 /\ p = 1
    BY <1>3, <1>4
  <1>6. Put \in t[Len(queue) + 1]..(t[Len(queue) + 1] + p - 1) /\ t[Len(queue) + 1] \in Nat
    BY <1>0, <1>2, ChainType DEF Line, Numbered
  <1>7. Put = t[Len(queue) + 1]
    BY <1>5, <1>6
  <1>8. Put = frameNumber
    <2>1. Put = frameNumber - Len(Filled) /\ Len(<<>>) = 0
      BY DEF Put
    <2>2. Len(Filled) = 0
      BY <1>1, <2>1
    <2> QED BY <1>0, <2>1, <2>2
  <1> QED BY <1>1, <1>4, <1>5, <1>7, <1>8

-----------------------------------------------------------------------------
(* A writer in time keeps ASIF supplied.                                   *)

LEMMA OnLineFacts ==
    ASSUME Common, memory, NEW t, NEW a, NEW b, NEW p, Books(t, a, b, p)
    PROVE  /\ OnLine \in Nat /\ a \in 0..NSlots /\ b \in 0..NSlots /\ p \in 1..Blocks
           /\ OnLine = (IF a = 0 THEN 0 ELSE Blocks - p + 1) + (IF b = 0 THEN 0 ELSE Blocks)
           /\ a = 0 => b = 0
           /\ OnLine = Len(One(hand[runs])) + Len(done) + Len(One(current)) + Len(One(next)) + Len(empty)
           /\ Me = "requeueing" => b = 0 /\ p = 1
  <1>1. /\ Len(Filled) = Len(One(hand[runs])) + Len(done)
        /\ Len(Unfilled) = Len(One(current)) + (Len(One(next)) + Len(empty))
        /\ Filled \in Seq(Real) /\ Unfilled \in Seq(Real)
        /\ One(hand[runs]) \in Seq(Real) /\ done \in Seq(Real) /\ empty \in Seq(Real)
        /\ One(current) \in Seq(Real) /\ One(next) \in Seq(Real)
    BY LineTypes
  <1>2. Laid(Filled, Unfilled, a, b, p)
    BY DEF Books, Line
  <1>3. /\ a \in 0..NSlots /\ b \in 0..NSlots /\ p \in 1..Blocks
        /\ a = 0 => b = 0
        /\ OnLine = (IF a = 0 THEN 0 ELSE Blocks - p + 1) + (IF b = 0 THEN 0 ELSE Blocks)
    BY <1>2 DEF Laid, Rest, OnLine
  <1>4. /\ Len(Filled) \in Nat /\ Len(Unfilled) \in Nat /\ Len(One(hand[runs])) \in Nat
        /\ Len(done) \in Nat /\ Len(empty) \in Nat /\ Len(One(current)) \in Nat
        /\ Len(One(next)) \in Nat
    BY <1>1
  <1>5. OnLine \in Nat
    BY <1>4 DEF OnLine
  <1>6. OnLine = Len(One(hand[runs])) + Len(done) + Len(One(current)) + Len(One(next)) + Len(empty)
    <2>1. \A i, j, k, l, m \in Nat : (i + j) + (k + (l + m)) = i + j + k + l + m
      OBVIOUS
    <2> QED BY <1>1, <1>4, <2>1 DEF OnLine
  <1>7. Me = "requeueing" => b = 0 /\ p = 1
    BY DEF Books
  <1> QED BY <1>3, <1>5, <1>6, <1>7

LEMMA NextIsThere ==
    ASSUME InTime, Common, memory, Phases, Kept, Supplied, AsifBlockFilled, state = "RUNNING"
    PROVE  empty # <<>>
  <1>0. runs \in Tasks /\ Blocks \in Nat /\ Blocks >= 1 /\ MaxBacklog \in Nat /\ MaxBacklog + 2 <= Blocks
    BY Sizes DEF Common, HostInv, InTime
  <1>1. PICK t \in Seq(Nat), a \in 0..NSlots, b \in 0..NSlots, p \in 1..Blocks : Books(t, a, b, p)
    BY DEF Kept
  <1>2. /\ OnLine \in Nat /\ a \in 0..NSlots /\ b \in 0..NSlots /\ p \in 1..Blocks
        /\ OnLine = (IF a = 0 THEN 0 ELSE Blocks - p + 1) + (IF b = 0 THEN 0 ELSE Blocks)
        /\ OnLine = Len(One(hand[runs])) + Len(done) + Len(One(current)) + Len(One(next)) + Len(empty)
        /\ Me = "requeueing" => b = 0 /\ p = 1
    BY <1>1, OnLineFacts
  <1>3. Len(One(current)) = 1 /\ Len(One(next)) = 1 /\ Len(done) \in Nat
    <2>1. current # NoEntry /\ next # NoEntry
      BY DEF AsifBlockFilled, Common, TasksInv
    <2> QED BY <2>1, LeftFacts
  <1>4. PICK c : c = Cardinality({w \in Tasks : writer[w] \in {"handling", "requeueing"}})
    OBVIOUS
  <1>5. c = IF Me \in {"handling", "requeueing"} THEN 1 ELSE 0
    <2>1. {w \in Tasks : writer[w] \in {"handling", "requeueing"}}
          = IF Me \in {"handling", "requeueing"} THEN {runs} ELSE {}
      BY <1>0 DEF Phases, Me
    <2>2. Cardinality({runs}) = 1 /\ Cardinality({}) = 0
      BY FS_Singleton, FS_EmptySet
    <2> QED BY <1>4, <2>1, <2>2
  <1>6. Len(done) + c <= MaxBacklog
    BY <1>4 DEF AsifBlockFilled, Backlog
  <1>7. Len(One(hand[runs])) = IF Me = "handling" THEN 1 ELSE 0
    <2>1. hand[runs] \in Real \cup {NoEntry} /\ (hand[runs] # NoEntry <=> Me = "handling")
      BY LineTypes
    <2> QED BY <2>1, OneFacts
  <1>8. Len(empty) \in Nat
    BY DEF Common, Types
  <1>9. Len(empty) > 0
    <2>1. CASE Me = "requeueing"
      <3>1. OnLine > 0 /\ b = 0 /\ p = 1
        BY <1>2, <2>1 DEF Supplied
      <3>2. OnLine = Blocks
        BY <1>0, <1>2, <3>1
      <3> QED BY <1>0, <1>2, <1>3, <1>5, <1>6, <1>7, <1>8, <2>1, <3>2
    <2>2. CASE Me = "handling"
      <3>1. OnLine > Blocks
        BY <2>2 DEF Supplied
      <3> QED BY <1>0, <1>2, <1>3, <1>5, <1>6, <1>7, <1>8, <2>2, <3>1
    <2>3. CASE Me \notin {"handling", "requeueing"}
      <3>1. OnLine > Blocks
        BY <2>3 DEF Supplied
      <3> QED BY <1>0, <1>2, <1>3, <1>5, <1>6, <1>7, <1>8, <2>3, <3>1
    <2> QED BY <2>1, <2>2, <2>3
  <1> QED BY <1>8, <1>9

(* Every step leaves enough, unless the recorder gives nothing. *)
LEMMA HandlesSupplied ==
    ASSUME Alive, WriterHandles(runs), Supplied
    PROVE  Supplied'
  <1>0. /\ Common /\ memory /\ Kept /\ Me = "handling" /\ runs \in Tasks
        /\ writer \in [Tasks -> Writers] /\ hand \in [Tasks -> Real \cup {NoEntry}]
        /\ Blocks \in Nat /\ Blocks >= 1 /\ done \in Seq(Real)
    BY Sizes DEF Alive, WriterHandles, Common, HostInv, Types, Me
  <1>1. PICK e : e = hand[runs]
    OBVIOUS
  <1>2. e \in Real /\ e # NoEntry
    BY <1>0, <1>1, LineTypes
  <1>3. /\ Me' = IF IsEnd(e) THEN "requeueing" ELSE "loop"
        /\ hand'[runs'] = NoEntry /\ done' = done /\ Unfilled' = Unfilled
    BY <1>0, <1>1 DEF WriterHandles, Me, Unfilled, asifVars
  <1>4. PICK t \in Seq(Nat), a \in 0..NSlots, b \in 0..NSlots, p \in 1..Blocks : Books(t, a, b, p)
    BY <1>0 DEF Kept
  <1>5. /\ OnLine \in Nat
        /\ OnLine = (IF a = 0 THEN 0 ELSE Blocks - p + 1) + (IF b = 0 THEN 0 ELSE Blocks)
    BY <1>0, <1>4, OnLineFacts
  <1>6. OnLine' = OnLine - 1
    <2>1. Filled' = done
      BY <1>0, <1>3, EmptyConcat DEF Filled, One
    <2>2. Len(Filled) = 1 + Len(done)
      <3>1. Len(One(hand[runs])) = 1
        BY <1>1, <1>2, OneFacts
      <3> QED BY <1>0, <3>1, LineTypes
    <2>3. Len(done) \in Nat /\ Len(Unfilled) \in Nat
      <3>1. Unfilled \in Seq(Real)
        BY <1>0, LineTypes
      <3> QED BY <1>0, <3>1
    <2>4. Len(Filled') = Len(done) /\ Len(Unfilled') = Len(Unfilled)
      BY <1>3, <2>1
    <2>5. \A i, j \in Nat : i + j = (1 + i) + j - 1
      OBVIOUS
    <2> QED BY <2>2, <2>3, <2>4, <2>5 DEF OnLine
  <1>7. OnLine > Blocks
    BY <1>0 DEF Supplied
  <1>8. e.block = p
    <2>1. First(Filled, Unfilled) = e /\ Filled # <<>>
      <3>1. PICK x, d : x = <<e>> /\ d = done
        OBVIOUS
      <3>2. x \o d # <<>> /\ Head(x \o d) = e
        <4>1. x = <<e>> /\ e \in Real /\ d \in Seq(Real)
          BY <1>0, <1>2, <3>1
        <4> QED BY ONLY <4>1
      <3>3. Filled = x \o d
        BY <1>0, <1>1, <1>2, <3>1 DEF Filled, One
      <3> QED BY <3>2, <3>3 DEF First
    <2>2. Laid(Filled, Unfilled, a, b, p)
      BY <1>4 DEF Books, Line
    <2>3. Filled \in Seq(Real) /\ Unfilled \in Seq(Real)
      BY <1>0, LineTypes
    <2> QED BY <2>1, <2>2, <2>3, FirstFacts
  <1>9. CASE IsEnd(e)
    BY <1>0, <1>3, <1>5, <1>6, <1>7, <1>9 DEF Supplied
  <1>10. CASE ~IsEnd(e)
    <2>1. p \in 1..Blocks /\ p # Blocks
      BY <1>8, <1>10 DEF IsEnd
    <2>2. OnLine > Blocks + 1
      BY <1>0, <1>5, <1>7, <2>1
    <2> QED BY <1>0, <1>3, <1>5, <1>6, <1>10, <2>2 DEF Supplied
  <1> QED BY <1>9, <1>10

LEMMA FillsSupplied ==
    ASSUME Alive, AsifBlockFilled, Supplied
    PROVE  Supplied'
  <1>0. /\ Common /\ memory /\ done \in Seq(Real) /\ One(hand[runs]) \in Seq(Real)
        /\ Unfilled \in Seq(Real) /\ frameNumber \in Nat /\ current \in Real
        /\ Len(Filled) = Len(One(hand[runs])) + Len(done)
        /\ Unfilled # <<>> /\ Unfilled' = Tail(Unfilled)
    BY LineTypes, UnfilledAdvances DEF Alive, Common, Types
  <1>1. PICK h, e : h = One(hand[runs]) /\ e = [current EXCEPT !.frame = frameNumber]
    OBVIOUS
  <1>2. e \in Real /\ h \in Seq(Real)
    BY <1>0, <1>1, RealFacts
  <1>3. Filled' = h \o Append(done, e) /\ Me' = Me
    BY <1>1 DEF AsifBlockFilled, Filled, taskVars, Me
  <1>4. Len(Filled') = Len(h) + (Len(done) + 1)
    <2>1. Append(done, e) \in Seq(Real) /\ Len(Append(done, e)) = Len(done) + 1
      BY <1>0, <1>2, AppendFacts
    <2>2. Len(h \o Append(done, e)) = Len(h) + Len(Append(done, e))
      BY <1>2, <2>1, JoinedElements
    <2> QED BY <1>3, <2>1, <2>2
  <1>5. Len(Unfilled') = Len(Unfilled) - 1 /\ Len(Unfilled) \in Nat /\ Len(h) \in Nat
        /\ Len(done) \in Nat
    BY <1>0, <1>2, HeadTail
  <1>6. \A i, j, k \in Nat : (i + (j + 1)) + (k - 1) = (i + j) + k
    OBVIOUS
  <1>7. OnLine' = OnLine
    BY <1>0, <1>1, <1>4, <1>5, <1>6 DEF OnLine
  <1> QED BY <1>3, <1>7 DEF Supplied

LEMMA RequeuesSupplied ==
    ASSUME Alive, WriterRequeues(runs), ~Starves(runs), Supplied
    PROVE  Supplied'
  <1>0. /\ Common /\ memory /\ Kept /\ Me = "requeueing" /\ runs \in Tasks
        /\ writer \in [Tasks -> Writers] /\ Blocks \in Nat
        /\ One(current) \in Seq(Real) /\ One(next) \in Seq(Real) /\ empty \in Seq(Real)
        /\ Len(Unfilled) = Len(One(current)) + (Len(One(next)) + Len(empty))
        /\ Filled \in Seq(Real) /\ Unfilled \in Seq(Real)
    BY LineTypes, Sizes DEF Alive, WriterRequeues, Common, HostInv, Types, Me
  <1>1. PICK s \in FreeSlots : empty' = empty \o Entries(s)
    BY DEF Starves, WriterRequeues
  <1>2. Entries(s) \in Seq(Real) /\ Len(Entries(s)) = Blocks
    BY <1>1, EntriesFacts DEF FreeSlots
  <1>3. Filled' = Filled /\ Me' = "loop" /\ One(current') = One(current) /\ One(next') = One(next)
    BY <1>0 DEF WriterRequeues, Filled, Me, asifVars
  <1>4. PICK c, n, m : c = One(current) /\ n = One(next) /\ m = empty \o Entries(s)
    OBVIOUS
  <1>5. m \in Seq(Real) /\ Len(m) = Len(empty) + Blocks
    BY <1>0, <1>2, <1>4, JoinedElements
  <1>6. Unfilled' = c \o (n \o m)
    BY <1>1, <1>3, <1>4 DEF Unfilled
  <1>7. Len(Unfilled') = Len(c) + (Len(n) + Len(m))
    <2>1. c \in Seq(Real) /\ n \in Seq(Real)
      BY <1>0, <1>4
    <2>2. n \o m \in Seq(Real) /\ Len(n \o m) = Len(n) + Len(m)
      BY <1>5, <2>1, JoinedElements
    <2>3. Len(c \o (n \o m)) = Len(c) + Len(n \o m)
      BY <2>1, <2>2, JoinedElements
    <2> QED BY <1>6, <2>2, <2>3
  <1>8. /\ Len(c) \in Nat /\ Len(n) \in Nat /\ Len(empty) \in Nat /\ Len(Filled) \in Nat
        /\ Len(Unfilled) \in Nat
    BY <1>0, <1>4
  <1>9. OnLine' = OnLine + Blocks /\ OnLine \in Nat
    <2>1. Len(Unfilled') = Len(Unfilled) + Blocks
      BY <1>0, <1>4, <1>5, <1>7, <1>8
    <2>2. Len(Filled') = Len(Filled)
      BY <1>3
    <2> QED BY <1>0, <1>8, <2>1, <2>2 DEF OnLine
  <1>10. OnLine > 0
    BY <1>0 DEF Supplied
  <1> QED BY <1>0, <1>3, <1>9, <1>10 DEF Supplied

LEMMA StartingSupplied ==
    ASSUME Common, Starting, Fine'
    PROVE  Supplied'
  <1>0. /\ current' = NoEntry /\ next' = NoEntry /\ done' = <<>> /\ runs' \in Tasks
        /\ empty' = Entries(1) \o Entries(2) /\ hand'[runs'] = NoEntry
        /\ \A w \in Tasks : writer'[w] = IF w = runs' THEN "loop" ELSE "none"
    BY StartingFacts
  <1>1. empty' \in Seq(Real) /\ Len(empty') = 2 * Blocks
    BY <1>0, TwoSlots
  <1>2. Filled' = <<>> /\ Unfilled' = empty'
    <2>1. <<>> \o empty' = empty' /\ <<>> \o <<>> = <<>>
      BY <1>1, EmptyConcat
    <2> QED BY <1>0, <2>1 DEF Filled, Unfilled, One
  <1>3. Len(Filled') = 0 /\ Len(Unfilled') = 2 * Blocks
    <2>1. Len(<<>>) = 0
      OBVIOUS
    <2> QED BY <1>1, <1>2, <2>1
  <1>4. Me' = "loop"
    BY <1>0 DEF Me
  <1> QED BY <1>3, <1>4, Sizes DEF Supplied, OnLine

LEMMA HostFed ==
    ASSUME Alive, HostSteps, Fed, trouble' = {}, trouble = {}
    PROVE  Fed'
  <1>0. Common /\ Phases /\ Common' /\ memory /\ memory' /\ Phases'
    BY HostPhases DEF Alive
  <1>1. SameLine \/ host \in {"flushing", "waiting"} \/ HostSaves
    <2>1. CASE QuietHost
      <3>1. CASE Started
        <4>1. current = NoEntry
          BY <1>0, <3>1 DEF Phases, Started
        <4> QED BY <1>0, <3>1, <4>1, StartedSameLine
      <3>2. CASE ~Started
        BY <2>1, <3>2 DEF QuietHost, Enabled, Stopping, StopBegins, HostNextChunk, SameLine, Filled,
                    Unfilled, asifVars, taskVars, slotVars, fileVars
      <3> QED BY <3>1, <3>2
    <2>2. CASE ~QuietHost
      BY <2>2 DEF HostSteps, StopWaited, FlushDone, FlushEmpty, StopReturns
    <2> QED BY <2>1, <2>2
  <1>2. Me' = Me
    BY DEF HostSteps, QuietHost, Enabled, Started, Stopping, StopBegins, HostNextChunk, StopWaited,
           FlushDone, FlushEmpty, StopReturns, HostSaves, taskVars, Me
  <1>3. host' \notin {"saving", "flushing"} => Supplied'
    <2>1. ASSUME host' \notin {"saving", "flushing"} PROVE Supplied'
      <3>1. host \notin {"saving", "flushing"}
        BY <1>0, <2>1 DEF HostSteps, QuietHost, Enabled, Started, Stopping, StopBegins, HostNextChunk,
                    StopWaited, FlushDone, FlushEmpty, StopReturns, HostSaves
      <3>2. Supplied
        BY <1>0, <3>1 DEF Fed
      <3>3. Filled' = Filled /\ Unfilled' = Unfilled
        <4>1. CASE SameLine
          BY <4>1 DEF SameLine
        <4>2. CASE HostSaves
          BY <4>2 DEF HostSaves, Filled, Unfilled, asifVars, taskVars
        <4>3. host = "waiting" => HostSaves
          BY <2>1 DEF HostSteps, QuietHost, Enabled, Started, Stopping, StopBegins, HostNextChunk,
                    StopWaited, FlushDone, FlushEmpty, StopReturns, HostSaves
        <4> QED BY <1>1, <3>1, <4>1, <4>2, <4>3
      <3> QED BY <1>2, <3>2, <3>3 DEF Supplied, OnLine
    <2> QED BY <2>1
  <1>4. /\ host' = "saving" => state' = "IDLE"
        /\ host' \in {"recording", "stopping"} => state' \in {"READY", "RUNNING"}
        /\ host' = "waiting" /\ state' = "STOPPING" => next' # NoEntry
        /\ host' = "waiting" /\ state' = "STOP_ASIF" => current' # NoEntry
    <2>1. /\ host = "saving" => state = "IDLE"
          /\ host \in {"recording", "stopping"} => state \in {"READY", "RUNNING"}
          /\ host = "waiting" /\ state = "STOPPING" => next # NoEntry
          /\ host = "waiting" /\ state = "STOP_ASIF" => current # NoEntry
      BY <1>0 DEF Fed
    <2>2. CASE StopBegins
      <3>1. state # "READY"
        BY <1>0, <2>2 DEF StopBegins, Phases
      <3>2. state = "RUNNING" => next # NoEntry
        BY <1>0 DEF Common, TasksInv
      <3> QED BY <2>1, <2>2, <3>1, <3>2 DEF StopBegins, asifVars
    <2>3. CASE Stopping
      <3>1. state # "READY"
        BY <2>3 DEF Stopping
      <3> QED BY <2>1, <2>3, <3>1 DEF Stopping
    <2>4. CASE StopReturns
      BY <2>4, <1>0 DEF StopReturns
    <2>5. CASE Enabled
      BY <1>0, <2>5 DEF Enabled, Phases
    <2>6. CASE Started
      BY <2>6 DEF Started
    <2>7. CASE StopWaited \/ FlushDone \/ FlushEmpty
      BY <2>7 DEF StopWaited, FlushDone, FlushEmpty
    <2>8. CASE HostNextChunk \/ HostSaves
      BY <2>1, <2>8 DEF HostNextChunk, HostSaves, asifVars
    <2> QED BY <2>2, <2>3, <2>4, <2>5, <2>6, <2>7, <2>8 DEF HostSteps, QuietHost
  <1>5. host' # "freed"
    BY <1>0 DEF Common, HostInv
  <1> QED BY <1>0, <1>3, <1>4, <1>5 DEF Fed

LEMMA AsifFed ==
    ASSUME InTime, Alive, AsifBlockFilled, Fed, trouble' = {}, trouble = {}
    PROVE  Fed'
  <1>0. /\ Common /\ Phases /\ Kept /\ memory /\ memory' /\ TasksInv /\ host' = host
        /\ host # "freed" /\ current # NoEntry /\ current' = next
    BY DEF Alive, Common, HostInv, AsifBlockFilled
  <1>1. host # "flushing" /\ state \notin {"READY", "IDLE"}
    BY <1>0 DEF Phases
  <1>2. /\ host # "saving" /\ Supplied
        /\ host \in {"recording", "stopping"} => state = "RUNNING"
        /\ host = "waiting" /\ state = "STOPPING" => next # NoEntry
    BY <1>0, <1>1 DEF Fed
  <1>3. Supplied'
    BY <1>2, FillsSupplied
  <1>4. CASE state = "RUNNING"
    <2>1. empty # <<>>
      BY <1>0, <1>2, <1>4, NextIsThere
    <2>2. state' = "RUNNING"
      BY <1>4, <2>1 DEF AsifBlockFilled
    <2> QED BY <1>0, <1>1, <1>2, <1>3, <2>2 DEF Fed
  <1>5. CASE state # "RUNNING"
    <2>1. state' = AfterBlock(state)
      BY <1>5 DEF AsifBlockFilled
    <2>2. state' # "STOPPING" /\ (state' = "STOP_ASIF" => state = "STOPPING")
      <3>1. state # "STOP_ASIF" \/ state' = "STOP_TASK"
        BY <2>1 DEF AfterBlock
      <3> QED BY <2>1, <3>1 DEF AfterBlock
    <2>3. host' \notin {"recording", "stopping", "saving", "flushing", "freed"}
      BY <1>0, <1>1, <1>2, <1>5
    <2> QED BY <1>0, <1>2, <1>3, <2>2, <2>3 DEF Fed
  <1> QED BY <1>4, <1>5

LEMMA WriterFed ==
    ASSUME Alive, WriterSteps(runs), Fed, trouble' = {}, trouble = {}
    PROVE  Fed'
  <1>0. /\ Common /\ Phases /\ Kept /\ memory /\ memory' /\ TasksInv /\ runs \in Tasks
        /\ host # "freed" /\ writer \in [Tasks -> Writers]
    BY DEF Alive, Common, HostInv, Types
  <1>1. /\ host' = host /\ current' = current /\ next' = next /\ runs' = runs
        /\ state' = state \/ WriterExits(runs)
    BY DEF WriterSteps, WriterLooks, WriterReceives, WriterHandles, WriterRequeues, WriterExits,
           asifVars
  <1>2. host \notin {"saving", "flushing"} => Supplied
    BY <1>0 DEF Fed
  <1>3. host \notin {"saving", "flushing"} => Supplied'
    <2>1. CASE WriterHandles(runs)
      BY <1>2, <2>1, HandlesSupplied
    <2>2. CASE WriterRequeues(runs)
      <3>1. ~Starves(runs)
        <4>1. CASE trouble' = trouble \cup {"starved"}
          BY <4>1
        <4>2. CASE ~(trouble' = trouble \cup {"starved"})
          <5>1. PICK s \in FreeSlots : owner' = [owner EXCEPT ![s] = "sound"]
            BY <2>2, <4>2 DEF WriterRequeues
          <5>2. owner[s] = "free" /\ s \in Slots /\ owner \in [Slots -> Owners]
            BY <1>0, <5>1 DEF FreeSlots, Common, Types
          <5>3. owner'[s] = "sound"
            BY <5>1, <5>2
          <5> QED BY <5>2, <5>3 DEF Starves
        <4> QED BY <4>1, <4>2
      <3> QED BY <1>2, <2>2, <3>1, RequeuesSupplied
    <2>3. CASE WriterLooks(runs) \/ WriterReceives(runs) \/ WriterExits(runs)
      <3>1. Filled' = Filled /\ Unfilled' = Unfilled
        <4>1. CASE WriterReceives(runs)
          BY <1>0, <4>1, ReceivesSameLine DEF SameLine
        <4>2. CASE WriterLooks(runs) \/ WriterExits(runs)
          BY <4>2 DEF WriterLooks, WriterExits, Filled, Unfilled, asifVars
        <4> QED BY <2>3, <4>1, <4>2
      <3>2. Me # "requeueing" /\ Me' # "requeueing"
        <4>1. \E x \in Writers : x # "requeueing" /\ writer' = [writer EXCEPT ![runs] = x]
          BY <2>3 DEF WriterLooks, WriterReceives, WriterExits, Writers
        <4>2. Me # "requeueing"
          BY <2>3 DEF WriterLooks, WriterReceives, WriterExits, Me
        <4> QED BY <1>0, <1>1, <4>1, <4>2 DEF Me
      <3> QED BY <1>2, <3>1, <3>2 DEF Supplied, OnLine
    <2> QED BY <2>1, <2>2, <2>3 DEF WriterSteps
  <1>4. CASE WriterExits(runs)
    <2>1. state' = "STOPPED" /\ Me = "exiting"
      BY <1>4 DEF WriterExits, Me
    <2>2. current = NoEntry /\ state # "READY"
      <3>1. \A w \in Tasks : ~Works(w)
        BY <1>0, <2>1 DEF Phases, Me, Works
      <3> QED BY <1>0, <3>1 DEF TasksInv
    <2>3. state \notin {"RUNNING", "IDLE"}
      BY <1>0, <2>1, <2>2 DEF TasksInv, Phases
    <2>4. host \notin {"saving", "recording", "stopping"}
      BY <1>0, <2>2, <2>3 DEF Fed
    <2> QED BY <1>0, <1>1, <1>3, <2>1, <2>4 DEF Fed
  <1>5. CASE state' = state
    BY <1>0, <1>1, <1>3, <1>5 DEF Fed
  <1> QED BY <1>1, <1>4, <1>5

LEMMA FinishesFed ==
    ASSUME Common, Live, HostFinishes, Fed, trouble' = {}, trouble = {}
    PROVE  Fed'
  <1>0. /\ memory /\ ~memory' /\ host = "saving" /\ host' = "freed" /\ queue = <<>>
        /\ runs \in Tasks
        /\ UNCHANGED <<state, empty, done, asifVars, framesQueued, taskVars, slotVars, audio,
                       trouble, runs>>
    BY DEF HostFinishes, Common, HostInv
  <1>1. Kept /\ Phases /\ state = "IDLE"
    BY <1>0 DEF Live, Fine, Fed
  <1>2. /\ current = NoEntry /\ NothingLeft /\ Me \in {"none", "loop"}
        /\ \A w \in Tasks : w # runs => writer[w] = "none"
    BY <1>1 DEF Phases
  <1>3. hand[runs] = NoEntry
    BY <1>0, <1>2 DEF Common, TasksInv, Me
  <1>4. PICK t \in Seq(Nat), a \in 0..NSlots, b \in 0..NSlots, p \in 1..Blocks : Books(t, a, b, p)
    BY <1>1 DEF Kept
  <1>5. Put = t[Len(queue) + 1] /\ Put = frameNumber
    BY <1>2, <1>3, <1>4, NoLine
  <1>6. frameNumber = Len(audio)
    <2>1. t[1] = Len(audio)
      BY <1>4 DEF Books
    <2>2. Len(queue) + 1 = 1
      BY <1>0
    <2> QED BY <1>5, <2>1, <2>2
  <1>7. \A w \in Tasks : writer[w] \in {"none", "loop"}
    BY <1>0, <1>2 DEF Me
  <1> QED BY <1>0, <1>1, <1>2, <1>6, <1>7 DEF Fed, asifVars, taskVars

LEMMA FreedFed ==
    ASSUME Common, ~Starting, ~Aborted, Next, Fed, trouble' = {}, trouble = {}, ~memory
    PROVE  Fed'
  <1>1. ~memory'
    BY DEF Next, Host, Writer, Enabled, Started, Stopping, Stopped, StopBegins,
           StopWaited, FlushDone, FlushEmpty, StopReturns, HostSaves, HostNextChunk,
           HostFinishes, AsifBlockFilled, WriterLooks, WriterReceives, WriterHandles,
           WriterRequeues, WriterExits
  <1>2. host \in {"idle", "freed"}
    BY DEF Common, Types, HostInv, Hosts, Fed
  <1>3. CASE Stopped
    <2>1. host = "freed" /\ state = "IDLE" /\ host' = "idle"
      BY <1>3 DEF Fed, Stopped
    <2> QED BY <1>1, <2>1 DEF Fed
  <1>4. CASE host = "idle" /\ ~Stopped
    <2>1. host' = "idle"
      BY <1>4 DEF Next, Host, Writer, Enabled, Started, Stopping, StopBegins,
           StopWaited, FlushDone, FlushEmpty, StopReturns, HostSaves, HostNextChunk,
           HostFinishes, AsifBlockFilled, WriterLooks, WriterReceives, WriterHandles,
           WriterRequeues, WriterExits
    <2> QED BY <1>1, <2>1 DEF Fed
  <1>5. CASE host = "freed" /\ ~Stopped
    <2>1. /\ current = NoEntry /\ state = "IDLE"
          /\ \A w \in Tasks : writer[w] \in {"none", "loop"}
      BY <1>5 DEF Fed
    <2>2. ~AsifBlockFilled /\ ~Writer
      BY <2>1 DEF AsifBlockFilled, Writer, WriterLooks, WriterReceives, WriterHandles,
           WriterRequeues, WriterExits
    <2>3. FALSE
      BY <1>5, <2>2 DEF Next, Host, Starting, Aborted, Enabled, Started, Stopping, Stopped, StopBegins,
           StopWaited, FlushDone, FlushEmpty, StopReturns, HostSaves, HostNextChunk, HostFinishes
    <2> QED BY <2>3
  <1> QED BY <1>2, <1>3, <1>4, <1>5

LEMMA FedStep == InTime /\ Common /\ Common' /\ Live /\ Fed /\ [Next]_vars => Fed'
  <1> SUFFICES ASSUME InTime, Common, Common', Live, Fed, [Next]_vars, trouble' = {}
               PROVE  Fed'
    BY DEF Fed
  <1>1. CASE Starting
    <2>1. Fine'
      BY DEF Fine
    <2>2. host' = "preparing" /\ memory' /\ Supplied'
      BY <1>1, <2>1, StartingFacts, StartingSupplied
    <2> QED BY <2>2 DEF Fed
  <1>2. CASE UNCHANGED vars
    <2>1. Filled' = Filled /\ Unfilled' = Unfilled /\ Me' = Me
      BY <1>2 DEF vars, asifVars, taskVars, Filled, Unfilled, Me
    <2>2. Supplied' = Supplied
      BY <2>1 DEF Supplied, OnLine
    <2> QED BY <1>2, <2>2 DEF vars, asifVars, taskVars, fileVars, Fed
  <1>3. CASE ~Starting /\ Next
    <2>1. trouble = {} /\ ~Aborted
      <3>1. trouble \subseteq trouble' /\ ~Aborted
        BY <1>3 DEF Next, Host, Writer, Enabled, Aborted, Started, Stopping, Stopped, StopBegins,
                    StopWaited, FlushDone, FlushEmpty, StopReturns, HostSaves, HostNextChunk,
                    HostFinishes, AsifBlockFilled, WriterLooks, WriterReceives, WriterHandles,
                    WriterRequeues, WriterExits
      <3> QED BY <3>1
    <2>2. CASE ~memory
      BY <1>3, <2>1, <2>2, FreedFed
    <2>3. CASE memory /\ HostFinishes
      BY <2>1, <2>3, FinishesFed
    <2>4. CASE memory /\ ~HostFinishes
      <3>1. memory' /\ Fine /\ Fine'
        <4>1. memory' = memory
          BY <1>3, <2>1, <2>4 DEF Next, Host, Writer, Enabled, Started, Stopping, Stopped,
                    StopBegins, StopWaited, FlushDone, FlushEmpty, StopReturns, HostSaves,
                    HostNextChunk, AsifBlockFilled, WriterLooks, WriterReceives, WriterHandles,
                    WriterRequeues, WriterExits
        <4> QED BY <2>1, <2>4, <4>1 DEF Fine
      <3>2. Alive
        BY <2>4, <3>1 DEF Live, Alive
      <3>3. CASE HostSteps
        BY <2>1, <3>2, <3>3, HostFed
      <3>4. CASE AsifBlockFilled
        BY <2>1, <3>2, <3>4, AsifFed
      <3>5. CASE Writer
        <4>1. PICK w \in Tasks : WriterSteps(w)
          BY <3>5 DEF Writer, WriterSteps
        <4>2. w = runs
          BY <3>2, <4>1, OnlyMe DEF Alive, WriterSteps
        <4>3. WriterSteps(runs)
          BY <4>1, <4>2
        <4> QED BY <2>1, <3>2, <4>3, WriterFed
      <3>6. ~Stopped
        BY <2>4 DEF Common, HostInv, Stopped
      <3> QED BY <1>3, <2>1, <2>4, <3>3, <3>4, <3>5, <3>6 DEF Next, Host, HostSteps, QuietHost
    <2> QED BY <2>2, <2>3, <2>4
  <1> QED BY <1>1, <1>2, <1>3


-----------------------------------------------------------------------------
(* The invariants                                                          *)
Inv == Common /\ Live /\ Ended

LEMMA InitInv == Init => Inv
  <1> SUFFICES ASSUME Init PROVE Inv
    OBVIOUS
  <1>1. Live
    BY DEF Init, Live
  <1>2. Ended
    <2>1. audio = <<>> /\ host = "idle"
      BY DEF Init
    <2> QED BY <2>1 DEF Ended
  <1> QED BY InitCommon, <1>1, <1>2 DEF Inv

LEMMA InitFed == Init => Fed
  BY DEF Init, Fed

(* Every recording keeps the types and the tasks apart; one that began properly
   keeps its line of blocks, and leaves the file in order. *)
THEOREM InvHolds == Spec => []Inv
  <1>1. Inv /\ Common' /\ [Next]_vars => Inv'
    BY LiveStep, EndedStep DEF Inv
  <1> QED BY InitInv, CommonHolds, <1>1, PTL DEF Spec

(* With the writer in time, a recording in which nothing goes wrong keeps ASIF
   supplied until the recorder asks sound to stop. *)
THEOREM FedHolds ==
    ASSUME InTime
    PROVE  Spec => [](Inv /\ Fed)
  <1>1. Inv /\ Inv' /\ Fed /\ [Next]_vars => Fed'
    BY FedStep DEF Inv
  <1> QED BY InvHolds, InitFed, <1>1, PTL DEF Spec

-----------------------------------------------------------------------------
(* The file holds the sound in order, from its first block and without a   *)
(* gap, also when sound had to end before the video because the recorder   *)
(* had no slot for it.                                                     *)
THEOREM AudioInOrderHolds == Spec => []AudioInOrder
  <1>1. Inv => AudioInOrder
    <2> SUFFICES ASSUME Inv, Fine, NEW k \in DOMAIN audio PROVE audio[k] = k
      BY DEF AudioInOrder, Fine
    <2>1. audio \in Seq(Nat)
      BY DEF Inv, Common, Types
    <2>2. k \in 1..Len(audio)
      BY <2>1
    <2> QED BY <2>2 DEF Inv, Ended
  <1> QED BY <1>1, InvHolds, PTL

(* Every block that was filled is in the file once the recorder stops, and
   the headers of its chunks declare all of them, wherever it was split. *)
THEOREM AudioKeptHolds ==
    ASSUME InTime
    PROVE  Spec => []AudioKept
  <1>1. Inv => AudioCounted
    BY DEF Inv, Ended, Fine, AudioCounted
  <1>2. Inv /\ Fed => AudioComplete
    BY DEF Fed, AudioComplete
  <1>3. Inv /\ Fed => AudioKept
    BY <1>1, <1>2 DEF AudioKept
  <1> QED BY <1>3, FedHolds, PTL

LEMMA OnTheLine ==
    ASSUME Common, Fine, memory, Phases, Kept, NEW e \in InUse
    PROVE  owner[e.slot] = "sound"
  <1>1. PICK f, u : f = Filled /\ u = Unfilled
    OBVIOUS
  <1>2. PICK t \in Seq(Nat), a \in 0..NSlots, b \in 0..NSlots, p \in 1..Blocks : Books(t, a, b, p)
    BY DEF Kept
  <1>3. /\ \A k \in 1..Len(f) : Stands(f[k], k, a, b, p)
        /\ \A k \in 1..Len(u) : Stands(u[k], Len(f) + k, a, b, p)
        /\ Owned(owner, a, b)
    BY <1>1, <1>2 DEF Books, Line, Laid
  <1>4. /\ f \in Seq(Real) /\ u \in Seq(Real)
        /\ One(hand[runs]) \in Seq(Real) /\ done \in Seq(Real) /\ empty \in Seq(Real)
        /\ One(current) \in Seq(Real) /\ One(next) \in Seq(Real)
    BY <1>1, LineTypes
  <1>5. (\E k \in 1..Len(f) : f[k] = e) \/ (\E k \in 1..Len(u) : u[k] = e)
    <2>1. e # NoEntry /\ \/ \E k \in 1..Len(empty) : e = empty[k]
                         \/ \E k \in 1..Len(done) : e = done[k]
                         \/ \E w \in Tasks : e = hand[w]
                         \/ e = current
                         \/ e = next
      BY <1>4 DEF InUse
    <2>2. CASE \E k \in 1..Len(empty) : e = empty[k]
      <3>1. PICK k \in 1..Len(empty) : e = empty[k]
        BY <2>2
      <3>2. u = One(current) \o (One(next) \o empty)
        BY <1>1 DEF Unfilled
      <3>3. Len(One(current)) + (Len(One(next)) + k) \in 1..Len(u)
        BY ONLY <1>4, <3>1, <3>2
      <3>4. u[Len(One(current)) + (Len(One(next)) + k)] = empty[k]
        BY ONLY <1>4, <3>1, <3>2
      <3> QED BY <3>1, <3>3, <3>4
    <2>3. CASE \E k \in 1..Len(done) : e = done[k]
      <3>1. PICK k \in 1..Len(done) : e = done[k]
        BY <2>3
      <3>2. f = One(hand[runs]) \o done
        BY <1>1 DEF Filled
      <3>3. Len(One(hand[runs])) + k \in 1..Len(f)
        BY ONLY <1>4, <3>1, <3>2
      <3>4. f[Len(One(hand[runs])) + k] = done[k]
        BY ONLY <1>4, <3>1, <3>2
      <3> QED BY <3>1, <3>3, <3>4
    <2>4. CASE \E w \in Tasks : e = hand[w]
      <3>1. PICK w \in Tasks : e = hand[w]
        BY <2>4
      <3>2. writer[w] = "handling"
        BY <2>1, <3>1 DEF Common, TasksInv
      <3>3. w = runs
        BY <3>2 DEF Phases
      <3>4. One(hand[runs]) = <<e>>
        BY <2>1, <3>1, <3>3 DEF One
      <3>5. f = <<e>> \o done
        BY <1>1, <3>4 DEF Filled
      <3>6. e \in Real
        BY <2>1, <3>1 DEF Common, Types
      <3>7. 1 \in 1..Len(f) /\ f[1] = e
        BY ONLY <1>4, <3>5, <3>6
      <3> QED BY <3>7
    <2>5. CASE e = current
      <3>1. One(current) = <<e>>
        BY <2>1, <2>5 DEF One
      <3>2. u = <<e>> \o (One(next) \o empty) /\ One(next) \o empty \in Seq(Real)
        BY <1>1, <1>4, <3>1 DEF Unfilled
      <3>3. e \in Real
        BY <2>1, <2>5 DEF Common, Types
      <3>4. 1 \in 1..Len(u) /\ u[1] = e
        BY ONLY <1>4, <3>2, <3>3
      <3> QED BY <3>4
    <2>6. CASE e = next
      <3>1. One(next) = <<e>> /\ current # NoEntry
        BY <2>1, <2>6 DEF One, Common, TasksInv
      <3>2. One(current) = <<current>> /\ current \in Real
        BY <3>1 DEF One, Common, Types
      <3>3. u = <<current>> \o (<<e>> \o empty)
        BY <1>1, <3>1, <3>2 DEF Unfilled
      <3>4. e \in Real
        BY <2>1, <2>6 DEF Common, Types
      <3>5. 2 \in 1..Len(u) /\ u[2] = e
        BY ONLY <1>4, <3>2, <3>3, <3>4
      <3> QED BY <3>5
    <2> QED BY <2>1, <2>2, <2>3, <2>4, <2>5, <2>6
  <1>6. e.slot \in {a, b}
    BY <1>3, <1>5 DEF Stands
  <1>7. e.slot \in Slots
    BY <1>4, <1>5, RealFacts
  <1> QED BY <1>3, <1>6, <1>7 DEF Owned

LEMMA NoneLeftWithSound ==
    ASSUME Common, memory, Phases, Kept, host = "saving", state = "IDLE"
    PROVE  SlotsReturned
  <1>1. /\ current = NoEntry /\ NothingLeft /\ Me \in {"none", "loop"} /\ runs \in Tasks
    BY DEF Phases, Common, HostInv
  <1>2. hand[runs] = NoEntry
    BY <1>1 DEF Common, TasksInv, Me
  <1>3. PICK t \in Seq(Nat), a \in 0..NSlots, b \in 0..NSlots, p \in 1..Blocks : Books(t, a, b, p)
    BY DEF Kept
  <1>4. a = 0 /\ b = 0
    BY <1>1, <1>2, <1>3, NoLine
  <1>5. Owned(owner, 0, 0)
    BY <1>3, <1>4 DEF Books, Line
  <1>6. \A s \in Slots : s # 0
    BY Sizes DEF Slots
  <1> QED BY <1>5, <1>6 DEF Owned, SlotsReturned

(* A slot is handed back only when none of its blocks is waiting, being
   filled or on its way to the writer; and the recorder has all its slots
   back when sound has stopped, unless it had none to give when asked. *)
THEOREM SlotsKeptHolds ==
    ASSUME InTime
    PROVE  Spec => []SlotsKept
  <1>1. Inv => TypeOK
    BY TypesGiveTypeOK DEF Inv, Common
  <1>2. Inv => ReturnedIsDone
    <2>1. ASSUME Inv, Fine, memory, NEW e \in InUse PROVE owner[e.slot] = "sound"
      BY <2>1, OnTheLine DEF Inv, Live
    <2> QED BY <2>1 DEF ReturnedIsDone, Fine
  <1>3. Inv /\ Fed => SlotsReturnedIfFed
    <2> SUFFICES ASSUME Inv, Fed, trouble = {}, host = "saving" PROVE SlotsReturned
      BY DEF SlotsReturnedIfFed, SlotsReturned
    <2>1. memory
      BY DEF Inv, Common, HostInv
    <2>2. state = "IDLE" /\ Fine
      BY <2>1 DEF Fed, Fine
    <2> QED BY <2>1, <2>2, NoneLeftWithSound DEF Inv, Live
  <1>4. Inv /\ Fed => SlotsKept
    BY <1>1, <1>2, <1>3 DEF SlotsKept
  <1> QED BY <1>4, FedHolds, PTL

(* mlv_snd_stop never gives up while nothing went wrong: ASIF always has the
   blocks it needs to bring the handshake to its end. *)
THEOREM StopsInTimeHolds ==
    ASSUME InTime
    PROVE  Spec => StopsInTime
  <1>1. Inv /\ Fed /\ [Next]_vars =>
            [host = "waiting" /\ host' = "flushing" => state = "STOPPED" \/ trouble # {}]_vars
    <2> SUFFICES ASSUME Inv, Fed, Next, host = "waiting", host' = "flushing", trouble = {}
                 PROVE  state = "STOPPED"
      BY DEF vars
    <2>1. StopWaited
      BY DEF Next, Host, Writer, Starting, Aborted, Enabled, Started, Stopping, Stopped,
             StopBegins, StopWaited, FlushDone, FlushEmpty, StopReturns, HostSaves,
             HostNextChunk, HostFinishes, AsifBlockFilled, WriterLooks, WriterReceives,
             WriterHandles, WriterRequeues, WriterExits
    <2>2. memory
      BY DEF Fed
    <2>3. ~GivesUp
      <3>1. current = NoEntry => next = NoEntry
        BY DEF Inv, Common, TasksInv
      <3>2. state \in {"STOPPING", "STOP_ASIF"} => current # NoEntry
        BY <2>2, <3>1 DEF Fed
      <3> QED BY <3>2 DEF GivesUp
    <2> QED BY <2>1, <2>3 DEF StopWaited
  <1>2. Spec => [][Next]_vars
    BY DEF Spec
  <1> QED BY <1>1, <1>2, FedHolds, PTL DEF StopsInTime
=============================================================================
