--------------------------- MODULE FramePipeline ---------------------------
(***************************************************************************)
(* What the raw recorder promises, without slots, tasks or queues: frames  *)
(* are numbered in the order of their capture; each is kept for            *)
(* pre-recording or is pending for the card; kept frames are dropped       *)
(* oldest first; pending frames are saved in order, and given up only      *)
(* when the recording ends.  RawRecorder implements this module.           *)
(***************************************************************************)
EXTENDS Integers, Sequences

VARIABLES kept,     \* frames of the pre-recording buffer
          pending,  \* frames that belong to the clip and are not saved yet
          saved,    \* frames of the clip, as saved
          last      \* number of the last frame captured

vars == <<kept, pending, saved, last>>

Init == kept = <<>> /\ pending = <<>> /\ saved = <<>> /\ last = 0

From(q, n) == SubSeq(q, n, Len(q))

Begin == kept' = <<>> /\ pending' = <<>> /\ saved' = <<>> /\ last' = 0

(* A captured frame joins the clip; nothing is kept in the meantime. *)
Take == /\ kept = <<>>
        /\ pending' = Append(pending, last + 1)
        /\ last' = last + 1
        /\ UNCHANGED <<kept, saved>>

(* A captured frame is kept; the oldest n - 1 frames make room. *)
Keep == \E n \in 1..(Len(kept) + 1) :
           /\ kept' = Append(From(kept, n), last + 1)
           /\ last' = last + 1
           /\ UNCHANGED <<pending, saved>>

(* What is kept joins the clip, and the frame captured at that moment joins
   it too, is the first of the next pre-recording, or finds no room. *)
Commit == \E n \in 1..(Len(kept) + 1) :
    \/ /\ pending' = Append(pending \o From(kept, n), last + 1)
       /\ kept' = <<>> /\ last' = last + 1 /\ UNCHANGED saved
    \/ /\ pending' = pending \o From(kept, n)
       /\ kept' = <<last + 1>> /\ last' = last + 1 /\ UNCHANGED saved
    \/ /\ pending' = pending \o From(kept, n)
       /\ kept' = <<>> /\ UNCHANGED <<saved, last>>

Drop == \E n \in 1..(Len(kept) + 1) :
           /\ kept' = From(kept, n) /\ UNCHANGED <<pending, saved, last>>

Save == \E n \in 0..Len(pending) :
           /\ saved' = saved \o SubSeq(pending, 1, n)
           /\ pending' = From(pending, n + 1)
           /\ UNCHANGED <<kept, last>>

GiveUp == pending' = <<>> /\ UNCHANGED <<kept, saved, last>>

Next == Begin \/ Take \/ Keep \/ Commit \/ Drop \/ Save \/ GiveUp

Spec == Init /\ [][Next]_vars

TypeOK == /\ kept \in Seq(Nat) /\ pending \in Seq(Nat) /\ saved \in Seq(Nat)
          /\ last \in Nat

Increasing(q) == \A i, j \in 1..Len(q) : i < j => q[i] < q[j]
Before(p, q)  == \A i \in 1..Len(p), j \in 1..Len(q) : p[i] < q[j]

(* A clip never repeats or reverses frames: the saved, the pending and the
   kept frames are in capture order, each at most once. *)
InOrder == /\ Increasing(saved) /\ Increasing(pending) /\ Increasing(kept)
           /\ Before(saved, pending) /\ Before(saved, kept) /\ Before(pending, kept)
=============================================================================
