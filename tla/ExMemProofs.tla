------------------------------ MODULE ExMemProofs ------------------------------
(* Every suite of shooting memory has one owner, every answer goes to the   *)
(* request it is for, SRM buffers have one user each and go back to the     *)
(* system in the order they came: for any clients, sizes, amounts of memory *)
(* and numbers of buffers, and any number of requests given up before.      *)
(* What concerns the suites is proved of the behaviours in which no request *)
(* is given up between the test of timed_out in allocCBR and the answer     *)
(* that follows it: the code does not exclude it, and a suite is lost then. *)
EXTENDS ExMem, FiniteSetTheorems, FunctionTheorems, SequenceTheorems,
        WellFoundedInduction, TLAPS

-----------------------------------------------------------------------------
(* The inductive invariant of shooting memory                              *)

ShootPlaces == {"ask", "wait", "free", "freeing"}
Pending     == ToSet(pending)

(* TypeOK without what it says of SRM memory *)
ShootTypes ==
    /\ total \in Totals /\ free \in Nat /\ size \in [Suites -> Nat \cup {-1}]
    /\ pending \in Seq(Msgs) /\ msg \in [Msgs -> MsgSet]
    /\ cbr \in [msg : Msgs \cup {None}, suite : Suites \cup {None}, checked : BOOLEAN]
    /\ releasing \subseteq [suite : Suites, waited : BOOLEAN]
    /\ allocSem \in 0..1 /\ freeSem \in 0..1 /\ full \in Suites \cup {None}
    /\ op \in OpSet /\ held \in [Clients -> SUBSET Suites]

(* What an operation on shooting memory has in its hands, and where *)
OpInv ==
    /\ op.at = "none" => op = Idle
    /\ op.at # "none" => op.client \in Clients
    /\ op.at \in {"ask", "wait"} => op.for \in {"backup", "test", "client"}
    /\ op.at \in {"free", "freeing"} => op.for \in {"test", "end", "free"}
    /\ op.msg # None <=> op.at = "wait"
    /\ op.suite # None <=> op.at = "free"
    /\ op.backup # None <=> op.at \in ShootPlaces /\ op.for = "test"

(* The manager has a request once; the one that is not given up is the one
   being waited for; it is answered when alloc_sem is signalled, and no other
   message holds an answer. *)
MsgInv ==
    /\ IsInjective(pending)
    /\ cbr.msg \notin Pending
    /\ cbr.msg = None => cbr = NoCbr
    /\ cbr.msg # None => cbr.suite # None
    /\ cbr.checked => ~msg[cbr.msg].timedOut
    /\ \A m \in Msgs : msg[m].live <=> m \in Pending \/ m = cbr.msg \/ m = op.msg
    /\ \A m \in Msgs : msg[m].live => (msg[m].timedOut <=> m # op.msg)
    /\ \A m \in Msgs : ~msg[m].live => msg[m] = NoMsg
    /\ op.at = "wait" => msg[op.msg].size = op.size
    /\ \A m \in Msgs : msg[m].ret # None <=> allocSem > 0 /\ m = op.msg
    /\ allocSem > 0 => op.at = "wait"
    /\ op.at = "wait" => (allocSem > 0 <=> op.msg \notin Pending /\ op.msg # cbr.msg)

(* A suite is as large as what was asked for. *)
LargeEnough ==
    /\ cbr.msg # None => size[cbr.suite] >= msg[cbr.msg].size
    /\ allocSem > 0 => size[msg[op.msg].ret] >= op.size

(* An operation leaves two requests behind at most. *)
Outstanding == Len(pending) + IF cbr.msg = None THEN 0 ELSE 1
Later       == IF op.for = "client" THEN 1 ELSE 0
RoomInv ==
    /\ op.at = "ask"  => Outstanding <= MaxPending + 1 + Later
    /\ op.at = "wait" => Outstanding + allocSem <= MaxPending + 2 + Later
    /\ op.at \in {"free", "freeing"} /\ op.for = "end"  => Outstanding <= MaxPending + 2
    /\ op.at \in {"free", "freeing"} /\ op.for = "test" => Outstanding <= MaxPending + 1

(* Who will free a suite *)
IsHeld(s)   == \E c \in Clients : s \in held[c]
IsAnswer(s) == allocSem > 0 /\ msg[op.msg].ret = s
IsGiven(s)  == \E r \in releasing : r.suite = s
IsTested(s) == op.at = "free" /\ op.for # "free" /\ op.suite = s
Owned(s)    == \/ IsHeld(s) \/ IsAnswer(s) \/ IsGiven(s) \/ IsTested(s)
               \/ cbr.suite = s \/ op.backup = s

(* It exists as long as somebody will, and nobody else will. *)
OwnerInv ==
    \A s \in Suites :
        /\ size[s] # -1 <=> Owned(s)
        /\ IsHeld(s) => ~IsAnswer(s) /\ ~IsGiven(s) /\ ~IsTested(s) /\ cbr.suite # s /\ op.backup # s
        /\ IsAnswer(s) => ~IsGiven(s) /\ ~IsTested(s) /\ cbr.suite # s /\ op.backup # s
        /\ IsGiven(s) => ~IsTested(s) /\ cbr.suite # s /\ op.backup # s
        /\ IsTested(s) => cbr.suite # s /\ op.backup # s
        /\ cbr.suite = s => op.backup # s

(* A client has one suite; it has none while it asks for one. *)
HeldInv ==
    /\ \A c, d \in Clients : \A s \in held[c] \cap held[d] : c = d
    /\ \A c \in Clients : \A s, t \in held[c] : s = t
    /\ op.at \in ShootPlaces /\ op.for # "free" => held[op.client] = {}
    /\ op.at = "free" /\ op.for = "free" => op.suite \in held[op.client]

(* A suite is given back once, and somebody waits for one at most. *)
GivenInv ==
    /\ \A r, q \in releasing : r.suite = q.suite \/ (r.waited /\ q.waited) => r = q
    /\ \A r \in releasing : r.waited => op.at = "freeing" /\ freeSem = 0
    /\ freeSem > 0 => op.at = "freeing"

(* A time-out never finds allocCBR between its test of timed_out (src/exmem.c:98)
   and the answer (111): what the theorems on suites assume of a behaviour. *)
InTime == TimesOut => ~cbr.checked

ShootInv ==
    /\ ShootTypes /\ OpInv /\ MsgInv /\ LargeEnough /\ RoomInv
    /\ OwnerInv /\ HeldInv /\ GivenInv /\ FullIsHeld

-----------------------------------------------------------------------------
(* The inductive invariant of SRM memory                                   *)

SrmPlaces == {"sleep", "alloc", "take", "srmFree"}

(* What concerns SRM memory of the operation in progress; that an operation on
   shooting memory stays one is true whenever requests are given up. *)
OpShape ==
    /\ DOMAIN op = DOMAIN Idle
    /\ op.at \in {"ask", "wait"} => op.for \in {"backup", "test", "client"}
    /\ op.at \in {"free", "freeing"} => op.for \in {"test", "end", "free"}
    /\ op.at \in SrmPlaces => op.client \in Clients
    /\ op.index \in 0..SrmMax + 1 /\ op.want \in Nat /\ op.tooLarge \in BOOLEAN
    /\ op.at \in {"alloc", "srmFree"} => op.index >= 1
    /\ op.tooLarge => op.want = 1

SrmTypes ==
    /\ job \in BOOLEAN /\ locked \in BOOLEAN /\ srmAllocated \in BOOLEAN
    /\ srm \in [SrmBufs -> BufSet] /\ system \subseteq SrmBufs /\ out \in Seq(SrmBufs)
    /\ srmHeld \in [Clients -> SUBSET SrmBufs]

Out == ToSet(out)

(* A buffer is with the system or out; those that are out are the first ones
   of the table, in this order, but for those that are not to be freed. *)
Given(lo) ==
    /\ lo + Len(out) <= SrmMax
    /\ \A k \in 1..Len(out) : srm[lo + k].buffer = out[k] /\ ~srm[lo + k].useAfterFree
    /\ \A i \in 1..lo : srm[i].buffer = None \/ srm[i].useAfterFree
    /\ \A i \in SrmBufs : i > lo + Len(out) => srm[i] = NoBuffer

SystemInv ==
    /\ IsInjective(out)
    /\ system \cap Out = {}
    /\ \A i, j \in SrmBufs : srm[i].buffer = srm[j].buffer /\ srm[i].buffer # None => i = j
    /\ \A i \in SrmBufs : srm[i].used => srm[i].buffer # None
    /\ \A i \in SrmBufs : srm[i].useAfterFree => i = 1 /\ srm[i].buffer # None

(* Where the buffers are in each phase: taken from the system one by one, all
   of them allocated, and given back one by one. *)
PhaseInv ==
    /\ ~srmAllocated /\ op.at # "alloc" => out = <<>> /\ \A i \in SrmBufs : srm[i] = NoBuffer
    /\ op.at = "alloc" => /\ ~srmAllocated /\ ~job /\ locked
                          /\ Given(0) /\ Len(out) = op.index - 1
                          /\ \A i \in SrmBufs : ~srm[i].used /\ ~srm[i].useAfterFree
    /\ srmAllocated => ~job /\ \E lo \in 0..SrmMax : Given(lo)
    /\ op.at = "sleep" => locked
    /\ op.at = "srmFree" => /\ srmAllocated /\ \A i \in SrmBufs : ~srm[i].used
                            /\ \A i \in SrmBufs : i < op.index => srm[i] = NoBuffer

(* All but the first buffer are out as long as they are allocated, and between
   the operations one of them has a user. *)
CountInv ==
    \E n \in SrmCounts :
        /\ system \cup Out = 1..n
        /\ srmAllocated /\ op.at # "srmFree" => n = 1 \/ out # <<>>
        /\ srmAllocated /\ op.at \notin SrmPlaces => n = 1 \/ \E i \in SrmBufs : srm[i].used

UserInv ==
    /\ op.at \in {"sleep", "alloc", "take"} => srmHeld[op.client] = {}
    /\ {srm[i].buffer : i \in {i \in SrmBufs : srm[i].used}} = UNION {srmHeld[c] : c \in Clients}
    /\ \A c, d \in Clients : c # d => srmHeld[c] \cap srmHeld[d] = {}

SrmInv == OpShape /\ SrmTypes /\ SystemInv /\ PhaseInv /\ CountInv /\ UserInv

-----------------------------------------------------------------------------
(* Choosing suites and messages                                            *)

LEMMA MinIn ==
    ASSUME NEW S, S \subseteq Nat, S # {}
    PROVE  Min(S) \in S /\ \A y \in S : Min(S) <= y
  <1>1. PICK x \in S : \A y \in S : ~ (<<y, x>> \in OpToRel(<, Nat))
    BY WFMin, NatLessThanWellFounded
  <1>2. \A y \in S : x <= y
    <2> TAKE y \in S
    <2>1. <<y, x>> \in Nat \X Nat
      OBVIOUS
    <2>2. ~ (y < x)
      BY <1>1, <2>1 DEF OpToRel
    <2> QED BY <2>2
  <1> QED BY <1>2 DEF Min

LEMMA SuitesFinite ==
    /\ Cardinality(Clients) \in Nat
    /\ IsFiniteSet(Suites) /\ Cardinality(Suites) = Cardinality(Clients) + 4
    /\ Suites \subseteq Nat /\ None \notin Suites
  <1>1. Cardinality(Clients) \in Nat
    BY ClientAssumption, FS_CardinalityType
  <1> QED BY <1>1, FS_Interval DEF Suites, None

LEMMA OneMore ==
    ASSUME NEW S, IsFiniteSet(S), NEW x
    PROVE  /\ IsFiniteSet(S \cup {x}) /\ Cardinality(S \cup {x}) \in Nat
           /\ Cardinality(S \cup {x}) <= Cardinality(S) + 1
  <1>1. Cardinality(S) \in Nat
    BY FS_CardinalityType
  <1>2. /\ IsFiniteSet(S \cup {x})
        /\ Cardinality(S \cup {x}) = IF x \in S THEN Cardinality(S) ELSE Cardinality(S) + 1
    BY FS_AddElement
  <1> QED BY <1>1, <1>2

(* At most one suite of each client and three others exist when the manager
   answers, so there is a name for another one. *)
LEMMA NewSuiteIn ==
    ASSUME ShootInv, cbr.msg = None, releasing = {}
    PROVE  NewSuite \in Suites /\ size[NewSuite] = -1
  <1> DEFINE S == {s \in Suites : size[s] = -1}
             H == {s \in Suites : IsHeld(s)}
             own == [s \in H |-> CHOOSE c \in Clients : s \in held[c]]
             X == H \cup {msg[op.msg].ret} \cup {op.suite} \cup {op.backup}
  <1>1. IsFiniteSet(H) /\ Cardinality(H) <= Cardinality(Clients)
    <2>1. \A s \in H : own[s] \in Clients /\ s \in held[own[s]]
      BY DEF IsHeld
    <2>2. \A s, t \in H : own[s] = own[t] => s = t
      BY <2>1 DEF ShootInv, HeldInv
    <2>3. own \in Injection(H, Clients)
      BY <2>1, <2>2 DEF Injection, IsInjective
    <2> QED BY <2>3, ClientAssumption, FS_Injection
  <1>2. IsFiniteSet(X) /\ Cardinality(X) \in Nat /\ Cardinality(X) <= Cardinality(Clients) + 3
    <2> DEFINE Y == H \cup {msg[op.msg].ret}
               Z == Y \cup {op.suite}
    <2>1. Cardinality(H) \in Nat /\ Cardinality(Clients) \in Nat
      BY <1>1, FS_CardinalityType, SuitesFinite
    <2>2. IsFiniteSet(Y) /\ Cardinality(Y) \in Nat /\ Cardinality(Y) <= Cardinality(H) + 1
      BY <1>1, OneMore
    <2>3. IsFiniteSet(Z) /\ Cardinality(Z) \in Nat /\ Cardinality(Z) <= Cardinality(Y) + 1
      BY ONLY <2>2, OneMore
    <2>4. IsFiniteSet(X) /\ Cardinality(X) \in Nat /\ Cardinality(X) <= Cardinality(Z) + 1
      BY ONLY <2>3, OneMore
    <2> HIDE DEF X, Y, Z, H
    <2> QED BY <1>1, <2>1, <2>2, <2>3, <2>4
  <1>3. ~ (Suites \subseteq X)
    <2>1. SUFFICES ASSUME Suites \subseteq X PROVE Cardinality(Suites) <= Cardinality(X)
      BY <1>2, SuitesFinite
    <2> QED BY <1>2, <2>1, FS_Subset
  <1>4. PICK s \in Suites : s \notin X
    BY <1>3
  <1>5. s \notin H /\ s # msg[op.msg].ret /\ s # op.suite /\ s # op.backup
    BY <1>4
  <1>6. ~Owned(s)
    <2>1. cbr.suite = None
      BY DEF ShootInv, MsgInv, NoCbr
    <2> QED BY <1>5, <2>1, SuitesFinite DEF Owned, IsHeld, IsAnswer, IsGiven, IsTested
  <1>7. size[s] = -1
    BY <1>6 DEF ShootInv, OwnerInv
  <1>8. S \subseteq Nat /\ S # {}
    BY <1>7, SuitesFinite
  <1> QED BY <1>8, MinIn DEF NewSuite

LEMMA NewMessageIn ==
    ASSUME ShootInv, op.at = "ask"
    PROVE  /\ Min({k \in Msgs : ~msg[k].live}) \in Msgs
           /\ ~msg[Min({k \in Msgs : ~msg[k].live})].live
  <1> DEFINE D == {k \in Msgs : ~msg[k].live}
             n == Len(pending)
             X == Pending \cup {cbr.msg}
  <1>1. n \in Nat /\ pending \in [1..n -> Msgs] /\ Msgs \subseteq Nat /\ None \notin Msgs
    BY SizeAssumption DEF ShootInv, ShootTypes, Msgs, None
  <1>2. IsFiniteSet(Pending) /\ Cardinality(Pending) \in Nat /\ Cardinality(Pending) <= n
    <2>1. pending \in Surjection(1..n, Pending)
      BY <1>1 DEF Surjection, Pending, ToSet
    <2>2. IsFiniteSet(1..n) /\ Cardinality(1..n) = n
      BY <1>1, FS_Interval
    <2> QED BY <2>1, <2>2, FS_Surjection, FS_CardinalityType
  <1>3. IsFiniteSet(X) /\ Cardinality(X) \in Nat /\ Cardinality(X) <= n + 1
    <2>1. IsFiniteSet(X) /\ Cardinality(X) \in Nat /\ Cardinality(X) <= Cardinality(Pending) + 1
      BY ONLY <1>2, OneMore
    <2> QED BY <1>1, <1>2, <2>1
  <1>4. IsFiniteSet(Msgs) /\ Cardinality(Msgs) = MaxPending + 3
    BY FS_Interval, SizeAssumption DEF Msgs
  <1>5. n <= MaxPending + 2 /\ (cbr.msg # None => n <= MaxPending + 1)
    BY <1>1, SizeAssumption DEF ShootInv, RoomInv, Outstanding, Later
  <1>6. PICK k \in Msgs : k \notin Pending /\ k # cbr.msg
    <2>1. CASE cbr.msg = None
      <3>1. ~ (Msgs \subseteq Pending)
        <4> SUFFICES ASSUME Msgs \subseteq Pending PROVE Cardinality(Msgs) <= Cardinality(Pending)
          BY <1>1, <1>2, <1>4, <1>5, SizeAssumption
        <4> QED BY <1>2, FS_Subset
      <3> QED BY <2>1, <3>1, <1>1
    <2>2. CASE cbr.msg # None
      <3>1. ~ (Msgs \subseteq X)
        <4> SUFFICES ASSUME Msgs \subseteq X PROVE Cardinality(Msgs) <= Cardinality(X)
          BY <1>1, <1>3, <1>4, <1>5, <2>2, SizeAssumption
        <4> QED BY <1>3, FS_Subset
      <3> QED BY <3>1
    <2> QED BY <2>1, <2>2
  <1>7. k \in D
    BY <1>1, <1>6 DEF ShootInv, MsgInv, OpInv
  <1>8. Min(D) \in D
    BY <1>1, <1>7, MinIn
  <1> QED BY <1>8

-----------------------------------------------------------------------------
(* What keeps the invariant of shooting memory                             *)

LEMMA IdleFields ==
    /\ Idle \in OpSet /\ Idle.at = "none" /\ Idle.for = "none" /\ Idle.want = 0 /\ Idle.size = 0
    /\ Idle.msg = None /\ Idle.suite = None /\ Idle.backup = None /\ Idle.max = 0
    /\ Idle.index = 0 /\ Idle.tooLarge = FALSE
  BY SrmAssumption DEF OpSet, Idle

LEMMA ShootStarts == Init => ShootInv
  <1> SUFFICES ASSUME Init PROVE ShootInv
    OBVIOUS
  <1> USE DEF Init
  <1>1. ShootTypes
    BY SizeAssumption, SrmAssumption DEF ShootTypes, MsgSet, NoMsg, NoCbr, OpSet, Idle, None, Suites
  <1>2. OpInv
    BY DEF OpInv, Idle, None, ShootPlaces
  <1>3. MsgInv
    BY DEF MsgInv, Pending, ToSet, IsInjective, NoMsg, NoCbr, Idle, None, Msgs
  <1>4. LargeEnough /\ RoomInv
    BY DEF LargeEnough, RoomInv, NoCbr, Idle
  <1>5. OwnerInv /\ HeldInv /\ GivenInv /\ FullIsHeld
    BY SuitesFinite DEF OwnerInv, HeldInv, GivenInv, FullIsHeld, Owned, IsHeld, IsAnswer, IsGiven,
       IsTested, Idle, NoCbr, ShootPlaces, None
  <1> QED BY <1>1, <1>2, <1>3, <1>4, <1>5 DEF ShootInv

(* Operations on SRM memory, and those that have not begun *)
LEMMA ElsewhereKeepsShoot ==
    ASSUME ShootInv, UNCHANGED shootVars, op' \in OpSet, OpInv',
           op.at \notin ShootPlaces, op'.at \notin ShootPlaces
    PROVE  ShootInv'
  <1> USE DEF ShootInv, shootVars, ShootPlaces
  <1>0. op.msg = None /\ op'.msg = None /\ op.backup = None /\ op'.backup = None /\ allocSem = 0
    BY DEF OpInv, MsgInv, ShootTypes
  <1>1. ShootTypes'
    BY DEF ShootTypes
  <1>2. MsgInv'
    BY <1>0 DEF MsgInv, Pending
  <1>3. LargeEnough' /\ RoomInv'
    BY <1>0 DEF LargeEnough, RoomInv
  <1>4. OwnerInv'
    BY <1>0 DEF OwnerInv, Owned, IsHeld, IsAnswer, IsGiven, IsTested
  <1>5. HeldInv' /\ GivenInv' /\ FullIsHeld'
    BY DEF HeldInv, GivenInv, FullIsHeld
  <1> QED BY <1>1, <1>2, <1>3, <1>4, <1>5

LEMMA SrmKeepsShoot ==
    ASSUME ShootInv, \/ \E c \in Clients : SrmMalloc(c) \/ SrmFree(c)
                     \/ SrmStep \/ JobStarts \/ JobEnds
    PROVE  ShootInv'
  <1>1. UNCHANGED shootVars
    BY DEF SrmMalloc, SrmFree, SrmStep, SrmWakes, SrmAllocates, SrmNoMore, SrmHasAll, SrmTakes,
           SrmFrees, SrmFreed, JobStarts, JobEnds
  <1>2. op \in OpSet /\ OpInv /\ SrmRequests \subseteq Nat /\ 1 \in 0..SrmMax + 1
    BY SrmAssumption DEF ShootInv, ShootTypes
  <1>3. ASSUME NEW c \in Clients, SrmMalloc(c) PROVE ShootInv'
    <2>1. PICK n \in SrmRequests, tooLarge \in BOOLEAN :
             op' = [Idle EXCEPT !.client = c, !.want = n, !.tooLarge = tooLarge,
                                !.at = IF MayAllocate THEN "sleep" ELSE "take"]
      BY <1>3 DEF SrmMalloc
    <2>2. op' \in OpSet
      <3> DEFINE at == IF MayAllocate THEN "sleep" ELSE "take"
      <3>1. at \in {"sleep", "take"} /\ n \in Nat /\ Idle \in OpSet
        BY <1>2, IdleFields
      <3> HIDE DEF at
      <3> QED BY <2>1, <3>1 DEF OpSet
    <2>3. OpInv' /\ op'.at \notin ShootPlaces
      BY <2>1, IdleFields DEF OpInv, OpSet, ShootPlaces
    <2>4. op.at \notin ShootPlaces
      BY <1>3, IdleFields DEF SrmMalloc, ShootPlaces
    <2> QED BY <1>1, <2>2, <2>3, <2>4, ElsewhereKeepsShoot
  <1>4. ASSUME NEW c \in Clients, SrmFree(c) PROVE ShootInv'
    <2>1. op' = Idle \/ op' = [Idle EXCEPT !.client = c, !.at = "srmFree", !.index = 1]
      BY <1>4 DEF SrmFree
    <2>2. op' \in OpSet
      BY <1>2, <2>1, IdleFields DEF OpSet
    <2>3. OpInv' /\ op'.at \notin ShootPlaces
      BY <2>1, IdleFields DEF OpInv, OpSet, ShootPlaces
    <2>4. op.at \notin ShootPlaces
      BY <1>4, IdleFields DEF SrmFree, ShootPlaces
    <2> QED BY <1>1, <2>2, <2>3, <2>4, ElsewhereKeepsShoot
  <1>5. ASSUME SrmStep PROVE ShootInv'
    <2>1. op.at \in {"sleep", "alloc", "take", "srmFree"}
      BY <1>5 DEF SrmStep, SrmWakes, SrmAllocates, SrmNoMore, SrmHasAll, SrmTakes, SrmFrees, SrmFreed
    <2>2. \/ op' = Idle
          \/ op' = [op EXCEPT !.at = "alloc", !.index = 1]
          \/ op' = [op EXCEPT !.at = "take"]
          \/ op' = [op EXCEPT !.at = "srmFree", !.index = 1]
          \/ op' = [op EXCEPT !.index = @ + 1] /\ op.index <= SrmMax
      <3>1. op.index \in Int /\ SrmMax \in Int
        BY <1>2, SrmAssumption DEF OpSet
      <3> QED BY <3>1, <1>5 DEF SrmStep, SrmWakes, SrmAllocates, SrmNoMore, SrmHasAll, SrmTakes, SrmFrees,
                              SrmFreed, GivesUpBuffer, AllFreed
    <2>3. op' \in OpSet
      <3>1. op.index <= SrmMax => op.index + 1 \in 0..SrmMax + 1
        BY <1>2, SrmAssumption DEF OpSet
      <3>2. ASSUME op.index <= SrmMax, op' = [op EXCEPT !.index = @ + 1] PROVE op' \in OpSet
        BY <1>2, <3>1, <3>2 DEF OpSet
      <3>3. ASSUME NEW at \in SrmPlaces, op' = [op EXCEPT !.at = at, !.index = 1] PROVE op' \in OpSet
        BY <1>2, <3>3 DEF OpSet, SrmPlaces
      <3>4. ASSUME op' = [op EXCEPT !.at = "take"] PROVE op' \in OpSet
        BY <1>2, <3>4 DEF OpSet
      <3> QED BY <2>2, <3>2, <3>3, <3>4, IdleFields DEF SrmPlaces
    <2>4. op.client \in Clients /\ op.msg = None /\ op.suite = None /\ op.backup = None
      BY <1>2, <2>1 DEF OpInv, ShootPlaces
    <2>5. OpInv' /\ op'.at \notin ShootPlaces /\ op.at \notin ShootPlaces
      BY <1>2, <2>1, <2>2, <2>4, IdleFields DEF OpSet, OpInv, ShootPlaces
    <2> QED BY <1>1, <2>3, <2>5, ElsewhereKeepsShoot
  <1>6. ASSUME JobStarts \/ JobEnds PROVE ShootInv'
    <2>1. UNCHANGED <<shootVars, op>>
      BY <1>6 DEF JobStarts, JobEnds
    <2> QED BY <2>1 DEF ShootInv, shootVars, ShootTypes, OpInv, MsgInv, Pending, LargeEnough, RoomInv,
               Outstanding, Later, OwnerInv, Owned, IsHeld, IsAnswer, IsGiven, IsTested, HeldInv,
               GivenInv, FullIsHeld
  <1> QED BY <1>3, <1>4, <1>5, <1>6

-----------------------------------------------------------------------------
(* Queues without repetition                                               *)

LEMMA TailOf ==
    ASSUME NEW S, NEW q \in Seq(S), q # <<>>, IsInjective(q)
    PROVE  /\ Head(q) \in ToSet(q) /\ Head(q) \in S /\ Head(q) = q[1]
           /\ Tail(q) \in Seq(S) /\ IsInjective(Tail(q))
           /\ ToSet(Tail(q)) = ToSet(q) \ {Head(q)}
           /\ Len(Tail(q)) = Len(q) - 1
  <1> DEFINE r == Tail(q)
  <1>1. /\ Len(q) \in Nat /\ Len(q) >= 1 /\ Len(r) = Len(q) - 1
        /\ \A i \in 1..Len(r) : r[i] = q[i + 1]
        /\ DOMAIN q = 1..Len(q) /\ DOMAIN r = 1..Len(r)
        /\ r \in Seq(S) /\ Head(q) = q[1] /\ q[1] \in S
    OBVIOUS
  <1> HIDE DEF r
  <1>2. \A i \in 1..Len(q) : i = 1 \/ (i - 1 \in 1..Len(r) /\ q[i] = r[i - 1])
    BY <1>1
  <1>3. \A i \in 1..Len(r) : i + 1 \in 1..Len(q) /\ i + 1 # 1
    BY <1>1
  <1>4. ToSet(r) = ToSet(q) \ {q[1]}
    <2>1. ASSUME NEW i \in 1..Len(r) PROVE r[i] \in ToSet(q) \ {q[1]}
      BY <1>1, <1>3 DEF ToSet, IsInjective
    <2>2. ASSUME NEW i \in 1..Len(q), q[i] # q[1] PROVE q[i] \in ToSet(r)
      BY <1>1, <1>2, <2>2 DEF ToSet
    <2> QED BY <1>1, <2>1, <2>2 DEF ToSet
  <1>5. IsInjective(r)
    BY <1>1, <1>3 DEF IsInjective
  <1>6. q[1] \in ToSet(q)
    BY <1>1 DEF ToSet
  <1> QED BY <1>1, <1>4, <1>5, <1>6 DEF r

LEMMA AppendOf ==
    ASSUME NEW S, NEW q \in Seq(S), IsInjective(q), NEW x \in S, x \notin ToSet(q)
    PROVE  /\ Append(q, x) \in Seq(S) /\ IsInjective(Append(q, x))
           /\ ToSet(Append(q, x)) = ToSet(q) \cup {x}
           /\ Len(Append(q, x)) = Len(q) + 1
  <1> DEFINE r == Append(q, x)
  <1>1. /\ Len(q) \in Nat /\ Len(r) = Len(q) + 1
        /\ \A i \in 1..Len(q) : r[i] = q[i]
        /\ r[Len(q) + 1] = x /\ r \in Seq(S)
        /\ DOMAIN q = 1..Len(q) /\ DOMAIN r = 1..Len(r)
    OBVIOUS
  <1> HIDE DEF r
  <1>2. \A i \in 1..Len(r) : i \in 1..Len(q) \/ i = Len(q) + 1
    BY <1>1
  <1>3. Len(q) + 1 \in 1..Len(r) /\ \A i \in 1..Len(q) : i \in 1..Len(r)
    BY <1>1
  <1>4. ToSet(r) = ToSet(q) \cup {x}
    BY <1>1, <1>2, <1>3 DEF ToSet
  <1>5. IsInjective(r)
    BY <1>1, <1>2 DEF IsInjective, ToSet
  <1> QED BY <1>1, <1>4, <1>5 DEF r

-----------------------------------------------------------------------------
(* The manager                                                             *)

LEMMA GrantKeeps == ASSUME ShootInv, Grant PROVE ShootInv'
  <1> USE DEF ShootInv
  <1>1. /\ cbr.msg = None /\ cbr.suite = None /\ releasing = {} /\ pending # <<>>
        /\ UNCHANGED <<total, msg, releasing, allocSem, freeSem, full, held, op>>
    BY DEF Grant, NoCbr, srmVars
  <1>2. PICK m \in Msgs : m = Head(pending)
    BY <1>1 DEF ShootTypes
  <1>3. PICK new \in Suites : new = NewSuite /\ size[new] = -1
    BY <1>1, NewSuiteIn
  <1>4. PICK n : /\ n \in Granted(msg[m].size) /\ free' = free - n
                 /\ size' = [size EXCEPT ![new] = n]
    BY <1>2, <1>3 DEF Grant
  <1>5. /\ pending' = Tail(pending) /\ cbr' = [msg |-> m, suite |-> new, checked |-> FALSE]
        /\ msg[m].size <= free
    BY <1>2, <1>3 DEF Grant
  <1>6. /\ m \in Pending /\ pending' \in Seq(Msgs) /\ IsInjective(pending')
        /\ Pending' = Pending \ {m} /\ Len(pending') = Len(pending) - 1 /\ Len(pending) \in Nat
    <2>1. pending \in Seq(Msgs) /\ IsInjective(pending)
      BY DEF ShootTypes, MsgInv
    <2> QED BY <1>1, <1>2, <1>5, <2>1, TailOf DEF Pending
  <1>7. m # None /\ new # None
    BY SuitesFinite DEF Msgs, None
  <1>8. n \in Nat /\ free - n \in Nat /\ n >= msg[m].size
    <2>1. msg[m].size \in Nat /\ free \in Nat
      BY DEF ShootTypes, MsgSet
    <2> QED BY <1>4, <1>5, <2>1 DEF Granted
  <1>9. ~Owned(new)
    BY <1>3 DEF OwnerInv
  <1>10. size'[new] = n /\ \A s \in Suites : s # new => size'[s] = size[s]
    BY <1>4 DEF ShootTypes
  <1>11. ShootTypes'
    <2>1. free' \in Nat /\ size' \in [Suites -> Nat \cup {-1}]
      BY <1>4, <1>8 DEF ShootTypes
    <2> QED BY <1>1, <1>5, <1>6, <2>1 DEF ShootTypes
  <1>12. OpInv'
    BY <1>1 DEF OpInv
  <1>13. MsgInv'
    <2>1. cbr'.msg \notin Pending' /\ cbr'.msg = m /\ cbr'.suite # None /\ cbr'.checked = FALSE
      BY <1>5, <1>6, <1>7
    <2>2. \A k : k \in Pending' \/ k = cbr'.msg <=> k \in Pending \/ k = m
      BY <1>6, <2>1
    <2>3. \A k \in Msgs : k \in Pending' \/ k = cbr'.msg <=> k \in Pending \/ k = cbr.msg
      BY <1>1, <1>6, <2>2 DEF Msgs, None
    <2>4. op.at = "wait" => (allocSem > 0 <=> op.msg \notin Pending' /\ op.msg # cbr'.msg)
      <3>1. op.at = "wait" => op.msg \in Msgs
        BY DEF OpInv, ShootTypes, OpSet
      <3> QED BY <2>3, <3>1 DEF MsgInv
    <2> QED BY <1>1, <1>6, <1>7, <2>1, <2>3, <2>4 DEF MsgInv
  <1>14. LargeEnough'
    <2>1. ASSUME allocSem > 0 PROVE size'[msg[op.msg].ret] >= op.size
      <3>1. op.msg \in Msgs /\ msg[op.msg].ret \in Suites
        BY <2>1 DEF MsgInv, OpInv, ShootTypes, MsgSet, OpSet
      <3>2. msg[op.msg].ret # new
        BY <1>9, <2>1 DEF Owned, IsAnswer
      <3> QED BY <1>10, <2>1, <3>1, <3>2 DEF LargeEnough
    <2> QED BY <1>1, <1>5, <1>8, <1>10, <2>1 DEF LargeEnough
  <1>15. RoomInv'
    BY <1>1, <1>5, <1>6, <1>7 DEF RoomInv, Outstanding, Later
  <1>16. OwnerInv'
    <2> SUFFICES ASSUME NEW s \in Suites PROVE OwnerInv!(s)'
      BY DEF OwnerInv
    <2>1. /\ IsHeld(s)' = IsHeld(s) /\ IsAnswer(s)' = IsAnswer(s) /\ IsGiven(s)' = IsGiven(s)
          /\ IsTested(s)' = IsTested(s) /\ op'.backup = op.backup /\ cbr'.suite = new
      BY <1>1, <1>5 DEF IsHeld, IsAnswer, IsGiven, IsTested
    <2>2. CASE s = new
      BY <1>8, <1>9, <1>10, <2>1, <2>2 DEF Owned
    <2>3. CASE s # new
      <3>1. size'[s] = size[s] /\ cbr.suite # s
        BY <1>1, <1>10, <2>3, SuitesFinite
      <3> QED BY <2>1, <2>3, <3>1 DEF OwnerInv, Owned
    <2> QED BY <2>2, <2>3
  <1>17. HeldInv' /\ GivenInv' /\ FullIsHeld'
    BY <1>1 DEF HeldInv, GivenInv, FullIsHeld
  <1> QED BY <1>11, <1>12, <1>13, <1>14, <1>15, <1>16, <1>17

LEMMA PendingIn ==
    ASSUME ShootInv
    PROVE  /\ Pending \subseteq Msgs /\ None \notin Msgs /\ Len(pending) \in Nat
           /\ Outstanding \in Nat /\ allocSem \in 0..1 /\ MaxPending \in Nat
  <1>1. pending \in Seq(Msgs) /\ allocSem \in 0..1
    BY DEF ShootInv, ShootTypes
  <1>2. Pending \subseteq Msgs /\ None \notin Msgs /\ Len(pending) \in Nat
    <2>1. \A i \in DOMAIN pending : pending[i] \in Msgs
      BY <1>1
    <2>2. None \notin Msgs
      BY DEF Msgs, None
    <2> QED BY <1>1, <2>1, <2>2 DEF Pending, ToSet
  <1> QED BY <1>1, <1>2, SizeAssumption DEF Outstanding

(* The bound on the requests holds as long as there are not more of them. *)
LEMMA NoMoreRequests ==
    ASSUME ShootInv, UNCHANGED op, Outstanding' \in Nat, allocSem' \in 0..1,
           Outstanding' + allocSem' <= Outstanding + allocSem,
           op.at # "wait" => allocSem' = 0
    PROVE  RoomInv'
  <1>1. op.at # "wait" => allocSem = 0
    BY PendingIn DEF ShootInv, MsgInv
  <1> QED BY <1>1, PendingIn DEF ShootInv, RoomInv, Later

(* What the manager has in its hands when it calls allocCBR *)
LEMMA Granted1 ==
    ASSUME ShootInv, cbr # NoCbr
    PROVE  /\ cbr.msg \in Msgs /\ cbr.suite \in Suites /\ cbr.msg # None /\ cbr.suite # None
           /\ msg[cbr.msg] \in MsgSet /\ msg[cbr.msg].live /\ cbr.msg \notin Pending
           /\ size[cbr.suite] >= msg[cbr.msg].size /\ size[cbr.suite] # -1
           /\ ~IsHeld(cbr.suite) /\ ~IsAnswer(cbr.suite) /\ ~IsGiven(cbr.suite)
           /\ ~IsTested(cbr.suite) /\ op.backup # cbr.suite
  <1> USE DEF ShootInv
  <1>1. cbr.msg \in Msgs /\ cbr.suite \in Suites /\ cbr.msg # None /\ cbr.suite # None
    BY DEF MsgInv, ShootTypes
  <1>2. msg[cbr.msg] \in MsgSet /\ msg[cbr.msg].live /\ cbr.msg \notin Pending
    BY <1>1 DEF MsgInv, ShootTypes
  <1>3. Owned(cbr.suite)
    BY DEF Owned
  <1> QED BY <1>1, <1>2, <1>3 DEF OwnerInv, LargeEnough

LEMMA GrantTooLateKeeps == ASSUME ShootInv, GrantTooLate PROVE ShootInv'
  <1> USE DEF ShootInv
  <1>1. PICK m \in Msgs, s \in Suites :
           /\ m = cbr.msg /\ s = cbr.suite /\ m # None /\ s # None
           /\ msg[m].live /\ msg[m].timedOut /\ m \notin Pending
           /\ ~IsHeld(s) /\ ~IsAnswer(s) /\ ~IsGiven(s) /\ ~IsTested(s) /\ op.backup # s
    BY Granted1 DEF GrantTooLate
  <1> DEFINE new == [suite |-> s, waited |-> FALSE]
  <1>0. new.suite = s /\ new.waited = FALSE /\ new \in [suite : Suites, waited : BOOLEAN]
    OBVIOUS
  <1>2. /\ releasing' = releasing \cup {new}
        /\ msg' = [msg EXCEPT ![m] = NoMsg] /\ cbr' = NoCbr
        /\ UNCHANGED <<total, free, size, pending, allocSem, freeSem, full, held, op>>
    BY <1>1 DEF GrantTooLate, FreesLate, Forgets, srmVars
  <1> HIDE DEF new
  <1>3. m # op.msg
    BY <1>1 DEF MsgInv
  <1>4. msg'[m] = NoMsg /\ \A k \in Msgs : k # m => msg'[k] = msg[k]
    BY <1>2 DEF ShootTypes
  <1>5. NoMsg \in MsgSet /\ ~NoMsg.live /\ NoMsg.ret = None /\ NoCbr.msg = None
        /\ NoCbr.suite = None /\ NoCbr.checked = FALSE
    BY DEF NoMsg, MsgSet, NoCbr, None
  <1>6. ShootTypes'
    <2>1. msg' \in [Msgs -> MsgSet]
      BY <1>2, <1>5 DEF ShootTypes
    <2>2. cbr' \in [msg : Msgs \cup {None}, suite : Suites \cup {None}, checked : BOOLEAN]
      BY <1>2 DEF NoCbr
    <2> QED BY <1>0, <1>2, <2>1, <2>2 DEF ShootTypes
  <1>7. OpInv'
    BY <1>2 DEF OpInv
  <1>8. op.msg # None => op.msg \in Msgs /\ msg'[op.msg] = msg[op.msg]
    BY <1>3, <1>4 DEF ShootTypes, OpSet
  <1>9. MsgInv'
    <2>1. Pending' = Pending /\ None \notin Msgs /\ None \notin Pending
      BY <1>2, PendingIn DEF Pending
    <2>2. allocSem > 0 => op.msg # None
      BY DEF MsgInv, OpInv
    <2>3. op.at = "wait" => msg'[op.msg].size = op.size
      BY <1>8 DEF MsgInv, OpInv
    <2> QED BY <1>1, <1>2, <1>3, <1>4, <1>5, <2>1, <2>2, <2>3 DEF MsgInv
  <1>10. LargeEnough'
    <2>1. allocSem > 0 => op.msg # None
      BY DEF MsgInv, OpInv
    <2> QED BY <1>2, <1>5, <1>8, <2>1 DEF LargeEnough
  <1>11. RoomInv'
    <2>1. Outstanding' \in Nat /\ Outstanding' <= Outstanding
      BY <1>2, <1>5, PendingIn DEF Outstanding
    <2> QED BY <1>2, <2>1, PendingIn, NoMoreRequests DEF MsgInv
  <1>12. OwnerInv'
    <2> SUFFICES ASSUME NEW t \in Suites PROVE OwnerInv!(t)'
      BY DEF OwnerInv
    <2>0. allocSem > 0 => op.msg # None
      BY DEF MsgInv, OpInv
    <2>1. /\ IsHeld(t)' = IsHeld(t) /\ IsAnswer(t)' = IsAnswer(t)
          /\ IsTested(t)' = IsTested(t) /\ op'.backup = op.backup /\ cbr'.suite # t
      BY <1>2, <1>5, <1>8, <2>0, SuitesFinite DEF IsHeld, IsAnswer, IsTested
    <2>2. IsGiven(t)' <=> IsGiven(t) \/ t = s
      BY <1>0, <1>2 DEF IsGiven
    <2> QED BY <1>1, <1>2, <2>1, <2>2 DEF OwnerInv, Owned
  <1>13. HeldInv' /\ FullIsHeld'
    BY <1>2 DEF HeldInv, FullIsHeld
  <1>14. GivenInv'
    BY <1>0, <1>1, <1>2 DEF GivenInv, IsGiven
  <1> QED BY <1>6, <1>7, <1>9, <1>10, <1>11, <1>12, <1>13, <1>14

LEMMA GrantChecksKeeps == ASSUME ShootInv, GrantChecks PROVE ShootInv'
  <1> USE DEF ShootInv
  <1>1. /\ cbr' = [cbr EXCEPT !.checked = TRUE] /\ cbr # NoCbr
        /\ ~msg[cbr.msg].timedOut
        /\ UNCHANGED <<total, free, size, pending, msg, releasing, allocSem, freeSem, full, held, op>>
    BY DEF GrantChecks, srmVars
  <1>2. ShootTypes' /\ cbr'.msg = cbr.msg /\ cbr'.suite = cbr.suite
    BY <1>1 DEF ShootTypes
  <1>3. MsgInv'
    BY <1>1, <1>2, Granted1 DEF MsgInv, Pending
  <1>4. OpInv' /\ LargeEnough' /\ RoomInv' /\ HeldInv' /\ GivenInv' /\ FullIsHeld'
    BY <1>1, <1>2 DEF OpInv, LargeEnough, RoomInv, Outstanding, Later, HeldInv, GivenInv, FullIsHeld
  <1>5. OwnerInv'
    BY <1>1, <1>2 DEF OwnerInv, Owned, IsHeld, IsAnswer, IsGiven, IsTested
  <1> QED BY <1>2, <1>3, <1>4, <1>5

(* The request that is answered is the one being waited for. *)
LEMMA GrantAnswersKeeps == ASSUME ShootInv, GrantAnswers PROVE ShootInv'
  <1> USE DEF ShootInv
  <1>0. cbr # NoCbr
    BY DEF GrantAnswers, NoCbr
  <1>1. PICK m \in Msgs, s \in Suites :
           /\ m = cbr.msg /\ s = cbr.suite /\ m # None /\ s # None
           /\ msg[m].live /\ ~msg[m].timedOut /\ m \notin Pending
           /\ size[s] >= msg[m].size /\ msg[m] \in MsgSet
           /\ ~IsHeld(s) /\ ~IsAnswer(s) /\ ~IsGiven(s) /\ ~IsTested(s) /\ op.backup # s
    BY <1>0, Granted1 DEF GrantAnswers, MsgInv
  <1>2. /\ msg' = [msg EXCEPT ![m].ret = s] /\ allocSem' = allocSem + 1 /\ cbr' = NoCbr
        /\ UNCHANGED <<total, free, size, pending, releasing, freeSem, full, held, op>>
    BY <1>1 DEF GrantAnswers, srmVars
  <1>3. m = op.msg /\ op.at = "wait" /\ allocSem = 0 /\ msg[m].size = op.size
    BY <1>1, PendingIn DEF MsgInv, OpInv
  <1>4. msg'[m] = [msg[m] EXCEPT !.ret = s] /\ \A k \in Msgs : k # m => msg'[k] = msg[k]
    BY <1>2 DEF ShootTypes
  <1>5. msg'[m] \in MsgSet /\ msg'[m].ret = s /\ msg'[m].live /\ ~msg'[m].timedOut
        /\ msg'[m].size = msg[m].size
    BY <1>1, <1>4 DEF MsgSet
  <1>6. NoCbr.msg = None /\ NoCbr.suite = None /\ NoCbr.checked = FALSE
    BY DEF NoCbr
  <1>7. ShootTypes'
    <2>1. msg' \in [Msgs -> MsgSet]
      BY <1>2, <1>4, <1>5 DEF ShootTypes
    <2>2. cbr' \in [msg : Msgs \cup {None}, suite : Suites \cup {None}, checked : BOOLEAN]
      BY <1>2 DEF NoCbr
    <2> QED BY <1>2, <1>3, <2>1, <2>2 DEF ShootTypes
  <1>8. OpInv'
    BY <1>2 DEF OpInv
  <1>9. MsgInv'
    <2>1. Pending' = Pending /\ None \notin Msgs /\ None \notin Pending
      BY <1>2, PendingIn DEF Pending
    <2>2. allocSem' > 0 /\ ~(allocSem > 0)
      BY <1>2, <1>3
    <2>3. \A k \in Msgs : msg'[k].ret # None <=> allocSem' > 0 /\ k = op'.msg
      BY <1>1, <1>2, <1>3, <1>4, <1>5, <2>2 DEF MsgInv
    <2> QED BY <1>1, <1>2, <1>3, <1>4, <1>5, <1>6, <2>1, <2>2, <2>3 DEF MsgInv
  <1>10. LargeEnough'
    BY <1>1, <1>2, <1>3, <1>5, <1>6 DEF LargeEnough
  <1>11. RoomInv'
    <2>1. Outstanding' \in Nat /\ Outstanding' = Outstanding - 1
      BY <1>1, <1>2, <1>6, PendingIn DEF Outstanding
    <2> QED BY <1>2, <1>3, <2>1, PendingIn, NoMoreRequests
  <1>12. OwnerInv'
    <2> SUFFICES ASSUME NEW t \in Suites PROVE OwnerInv!(t)'
      BY DEF OwnerInv
    <2>1. /\ IsHeld(t)' = IsHeld(t) /\ IsGiven(t)' = IsGiven(t)
          /\ IsTested(t)' = IsTested(t) /\ op'.backup = op.backup /\ cbr'.suite # t
      BY <1>2, <1>6, SuitesFinite DEF IsHeld, IsGiven, IsTested
    <2>2. ~IsAnswer(t) /\ (IsAnswer(t)' <=> t = s)
      BY <1>2, <1>3, <1>5 DEF IsAnswer
    <2> QED BY <1>1, <1>2, <2>1, <2>2 DEF OwnerInv, Owned
  <1>13. HeldInv' /\ GivenInv' /\ FullIsHeld'
    BY <1>2 DEF HeldInv, GivenInv, FullIsHeld
  <1> QED BY <1>7, <1>8, <1>9, <1>10, <1>11, <1>12, <1>13

LEMMA FreedKeeps == ASSUME ShootInv, Freed PROVE ShootInv'
  <1> USE DEF ShootInv
  <1>1. PICK r \in releasing :
           /\ releasing' = releasing \ {r}
           /\ free' = free + size[r.suite]
           /\ size' = [size EXCEPT ![r.suite] = -1]
           /\ freeSem' = IF r.waited THEN freeSem + 1 ELSE freeSem
           /\ UNCHANGED <<total, pending, msg, cbr, allocSem, full, held, op>>
    BY DEF Freed, srmVars
  <1>2. PICK s \in Suites : s = r.suite
    BY DEF ShootTypes
  <1>3. /\ IsGiven(s) /\ ~IsHeld(s) /\ ~IsAnswer(s) /\ ~IsTested(s) /\ cbr.suite # s
        /\ op.backup # s /\ size[s] # -1
    BY <1>2 DEF OwnerInv, IsGiven, Owned
  <1>4. size'[s] = -1 /\ \A t \in Suites : t # s => size'[t] = size[t]
    BY <1>1, <1>2 DEF ShootTypes
  <1>5. r.waited => op.at = "freeing" /\ freeSem = 0
    BY DEF GivenInv
  <1>6. ShootTypes'
    <2>1. size[s] \in Nat
      BY <1>3 DEF ShootTypes
    <2>2. free' \in Nat /\ size' \in [Suites -> Nat \cup {-1}]
      BY <1>1, <1>2, <2>1 DEF ShootTypes
    <2>3. freeSem' \in 0..1 /\ releasing' \subseteq [suite : Suites, waited : BOOLEAN]
      BY <1>1, <1>5 DEF ShootTypes
    <2> QED BY <1>1, <2>2, <2>3 DEF ShootTypes
  <1>7. OpInv' /\ MsgInv' /\ RoomInv' /\ HeldInv' /\ FullIsHeld'
    BY <1>1 DEF OpInv, MsgInv, Pending, RoomInv, Outstanding, Later, HeldInv, FullIsHeld
  <1>8. LargeEnough'
    <2>1. ASSUME allocSem > 0 PROVE size'[msg[op.msg].ret] >= op.size
      <3>1. op.msg \in Msgs /\ msg[op.msg].ret \in Suites
        BY <2>1 DEF MsgInv, OpInv, ShootTypes, MsgSet, OpSet
      <3>2. msg[op.msg].ret # s
        BY <1>3, <2>1 DEF IsAnswer
      <3> QED BY <1>4, <2>1, <3>1, <3>2 DEF LargeEnough
    <2>2. cbr.msg # None => cbr.suite \in Suites /\ cbr.suite # s
      BY <1>3 DEF MsgInv, ShootTypes
    <2> QED BY <1>1, <1>4, <2>1, <2>2 DEF LargeEnough
  <1>9. OwnerInv'
    <2> SUFFICES ASSUME NEW t \in Suites PROVE OwnerInv!(t)'
      BY DEF OwnerInv
    <2>1. /\ IsHeld(t)' = IsHeld(t) /\ IsAnswer(t)' = IsAnswer(t)
          /\ IsTested(t)' = IsTested(t) /\ op'.backup = op.backup /\ cbr'.suite = cbr.suite
      BY <1>1 DEF IsHeld, IsAnswer, IsTested
    <2>2. IsGiven(t)' <=> IsGiven(t) /\ t # s
      BY <1>1, <1>2 DEF IsGiven, GivenInv
    <2> QED BY <1>3, <1>4, <2>1, <2>2 DEF OwnerInv, Owned
  <1>10. GivenInv'
    <2>1. r.waited => \A q \in releasing' : ~q.waited
      BY <1>1 DEF GivenInv
    <2> QED BY <1>1, <1>5, <2>1 DEF GivenInv
  <1> QED BY <1>6, <1>7, <1>8, <1>9, <1>10

-----------------------------------------------------------------------------
(* The operation                                                           *)

(* A step of an operation that waits for no answer, before it or after *)
LEMMA OpMoves ==
    ASSUME ShootInv,
           UNCHANGED <<total, free, size, pending, msg, cbr, releasing, allocSem, full, held>>,
           op' \in OpSet, OpInv', RoomInv', GivenInv', freeSem' \in 0..1,
           op.at # "wait", op'.at # "wait",
           \A s \in Suites : /\ IsTested(s)' \/ op'.backup = s <=> IsTested(s) \/ op.backup = s
                             /\ ~(IsTested(s)' /\ op'.backup = s),
           op'.at \in ShootPlaces /\ op'.for # "free" => held[op'.client] = {},
           op'.at = "free" /\ op'.for = "free" => op'.suite \in held[op'.client]
    PROVE  ShootInv'
  <1> USE DEF ShootInv
  <1>1. op.msg = None /\ op'.msg = None /\ allocSem = 0
    BY PendingIn DEF OpInv, MsgInv
  <1>2. ShootTypes'
    BY DEF ShootTypes
  <1>3. MsgInv' /\ LargeEnough'
    BY <1>1 DEF MsgInv, Pending, LargeEnough
  <1>4. OwnerInv'
    <2> SUFFICES ASSUME NEW t \in Suites PROVE OwnerInv!(t)'
      BY DEF OwnerInv
    <2>1. /\ IsHeld(t)' = IsHeld(t) /\ IsGiven(t)' = IsGiven(t) /\ ~IsAnswer(t) /\ ~IsAnswer(t)'
          /\ cbr'.suite = cbr.suite /\ size'[t] = size[t]
      BY <1>1 DEF IsHeld, IsAnswer, IsGiven
    <2> QED BY <2>1 DEF OwnerInv, Owned
  <1>5. HeldInv' /\ FullIsHeld'
    BY DEF HeldInv, FullIsHeld
  <1> QED BY <1>2, <1>3, <1>4, <1>5

LEMMA MallocSuiteKeeps ==
    ASSUME ShootInv, NEW c \in Clients, MallocSuite(c) PROVE ShootInv'
  <1> USE DEF ShootInv
  <1>1. op = Idle /\ Len(pending) <= MaxPending /\ held[c] = {} /\ UNCHANGED shootVars
    BY DEF MallocSuite, MayAsk
  <1>2. PICK n \in Sizes, contig \in BOOLEAN :
           LET o == [Idle EXCEPT !.client = c, !.contig = contig, !.want = n]
           IN Ask(o, "backup", BackupSize(o)) \/ Ask(o, "client", n)
    BY DEF MallocSuite
  <1>3. PICK o \in OpSet : /\ o = [Idle EXCEPT !.client = c, !.contig = contig, !.want = n]
                           /\ Ask(o, "backup", BackupSize(o)) \/ Ask(o, "client", n)
    <2>1. n \in Nat /\ Idle \in OpSet
      BY IdleFields, SizeAssumption
    <2>2. [Idle EXCEPT !.client = c, !.contig = contig, !.want = n] \in OpSet
      BY <2>1 DEF OpSet
    <2> QED BY <1>2, <2>2
  <1>4. o.client = c /\ o.msg = None /\ o.suite = None /\ o.backup = None
    BY <1>3, IdleFields DEF OpSet
  <1>5. PICK k \in Nat, for \in {"backup", "client"} :
           op' = [o EXCEPT !.at = "ask", !.for = for, !.size = k]
    BY <1>3, SizeAssumption DEF Ask, BackupSize, StepOf
  <1>6. /\ op' \in OpSet /\ op'.at = "ask" /\ op'.for = for /\ op'.client = c
        /\ op'.msg = None /\ op'.suite = None /\ op'.backup = None
    BY <1>4, <1>5 DEF OpSet
  <1>7. OpInv'
    BY <1>6 DEF OpInv
  <1>8. RoomInv'
    <2>1. Outstanding' = Outstanding /\ Outstanding <= MaxPending + 1
      BY <1>1, PendingIn DEF Outstanding, shootVars
    <2> QED BY <1>6, <2>1, PendingIn DEF RoomInv, Later
  <1>9. op.at = "none" /\ op.msg = None /\ op.suite = None /\ op.backup = None
    BY <1>1, IdleFields
  <1>10. GivenInv'
    BY <1>1, <1>6, <1>9 DEF GivenInv, shootVars, ShootTypes
  <1>11. freeSem' \in 0..1
    BY <1>1 DEF ShootTypes, shootVars
  <1>12. \A s \in Suites : /\ ~IsTested(s) /\ ~IsTested(s)' /\ op.backup # s /\ op'.backup # s
    BY <1>6, <1>9, SuitesFinite DEF IsTested
  <1> QED BY <1>1, <1>6, <1>7, <1>8, <1>9, <1>10, <1>11, <1>12, OpMoves DEF shootVars

LEMMA FreeSuiteKeeps ==
    ASSUME ShootInv, NEW c \in Clients, FreeSuite(c) PROVE ShootInv'
  <1> USE DEF ShootInv
  <1>1. PICK s \in held[c] :
           op' = [Idle EXCEPT !.client = c, !.at = "free", !.for = "free", !.suite = s]
    BY DEF FreeSuite
  <1>2. op = Idle /\ UNCHANGED shootVars
    BY DEF FreeSuite
  <1>3. s \in Suites /\ Idle \in OpSet
    BY IdleFields DEF ShootTypes
  <1>4. /\ op' \in OpSet /\ op'.at = "free" /\ op'.for = "free" /\ op'.client = c
        /\ op'.msg = None /\ op'.suite = s /\ op'.backup = None
    BY <1>1, <1>3, IdleFields DEF OpSet
  <1>5. OpInv'
    BY <1>3, <1>4, SuitesFinite DEF OpInv
  <1>6. RoomInv' /\ freeSem' \in 0..1
    BY <1>2, <1>4 DEF RoomInv, ShootTypes, shootVars
  <1>7. op.at = "none" /\ op.msg = None /\ op.suite = None /\ op.backup = None
    BY <1>2, IdleFields
  <1>8. GivenInv'
    BY <1>2, <1>4, <1>7 DEF GivenInv, shootVars, ShootTypes
  <1>9. \A t \in Suites : /\ ~IsTested(t) /\ ~IsTested(t)' /\ op.backup # t /\ op'.backup # t
    BY <1>4, <1>7, SuitesFinite DEF IsTested
  <1> QED BY <1>2, <1>4, <1>5, <1>6, <1>7, <1>8, <1>9, OpMoves DEF shootVars

LEMMA DetectionGoesOn ==
    ASSUME NEW o \in OpSet, AfterDetection(o)
    PROVE  op' = Idle \/ \E k \in Nat : op' = [o EXCEPT !.at = "ask", !.for = "client", !.size = k]
  BY DEF AfterDetection, Ask, OpSet

LEMMA FreeReturnsKeeps == ASSUME ShootInv, FreeReturns PROVE ShootInv'
  <1> USE DEF ShootInv
  <1>1. /\ op.at = "freeing" /\ freeSem = 1 /\ freeSem' = 0
        /\ UNCHANGED <<total, free, size, pending, msg, cbr, releasing, allocSem, full, held>>
    BY DEF FreeReturns, ShootTypes
  <1>2. /\ op \in OpSet /\ op.for \in {"test", "end", "free"} /\ op.client \in Clients
        /\ op.msg = None /\ op.suite = None /\ op.backup \in Suites \cup {None}
        /\ op.backup # None <=> op.for = "test"
    BY <1>1 DEF OpInv, ShootTypes, ShootPlaces, OpSet
  <1>3. GivenInv'
    BY <1>1 DEF GivenInv
  <1>4. Outstanding' = Outstanding
    BY <1>1 DEF Outstanding
  <1>5. \A s \in Suites : ~IsTested(s)
    BY <1>1 DEF IsTested
  <1>6. op.for # "free" => held[op.client] = {}
    BY <1>1 DEF HeldInv, ShootPlaces
  <1>7. CASE op' = Idle
    <2>1. op.for # "test"
      <3> SUFFICES ASSUME op.for = "test" PROVE FALSE
        OBVIOUS
      <3>1. FreeBackup(op) \/ Ask(op, "test", NextTest(op))
        BY <1>1 DEF FreeReturns
      <3> QED BY <1>2, <1>7, <3>1, IdleFields DEF FreeBackup, Ask, OpSet
    <2>2. op' \in OpSet /\ OpInv' /\ RoomInv' /\ op'.at = "none" /\ op'.backup = None
      BY <1>7, IdleFields DEF OpInv, RoomInv, ShootPlaces
    <2>3. \A s \in Suites : ~IsTested(s)' /\ op'.backup # s /\ op.backup # s
      BY <1>2, <2>1, <2>2, SuitesFinite DEF IsTested
    <2> QED BY <1>1, <1>3, <1>5, <2>2, <2>3, OpMoves DEF ShootPlaces
  <1>8. CASE op.for = "end" /\ op' # Idle
    <2>1. PICK k \in Nat : op' = [op EXCEPT !.at = "ask", !.for = "client", !.size = k]
      <3>1. AfterDetection(op)
        BY <1>8 DEF FreeReturns
      <3> QED BY <1>2, <1>8, <3>1, DetectionGoesOn
    <2>2. /\ op' \in OpSet /\ op'.at = "ask" /\ op'.for = "client" /\ op'.msg = None
          /\ op'.suite = None /\ op'.backup = None /\ op'.client = op.client
      BY <1>2, <1>8, <2>1 DEF OpSet
    <2>3. OpInv'
      BY <1>2, <2>2 DEF OpInv
    <2>4. RoomInv'
      BY <1>1, <1>4, <1>8, <2>2, PendingIn DEF RoomInv, Later
    <2>5. \A s \in Suites : ~IsTested(s)' /\ op'.backup # s /\ op.backup # s
      BY <1>2, <1>8, <2>2, SuitesFinite DEF IsTested
    <2> QED BY <1>1, <1>3, <1>5, <1>6, <1>8, <2>2, <2>3, <2>4, <2>5, OpMoves
  <1>9. CASE op.for = "test" /\ FreeBackup(op)
    <2>1. /\ op' \in OpSet /\ op'.at = "free" /\ op'.for = "end" /\ op'.msg = None
          /\ op'.suite = op.backup /\ op'.backup = None /\ op'.client = op.client
      BY <1>2, <1>9 DEF OpSet, FreeBackup
    <2>2. OpInv'
      BY <1>2, <1>9, <2>1 DEF OpInv
    <2>3. RoomInv'
      BY <1>1, <1>4, <1>9, <2>1, PendingIn DEF RoomInv, Later
    <2>4. \A s \in Suites : (IsTested(s)' <=> op.backup = s) /\ op'.backup # s
      BY <1>2, <2>1, SuitesFinite DEF IsTested
    <2> QED BY <1>1, <1>3, <1>5, <1>6, <1>9, <2>1, <2>2, <2>3, <2>4, OpMoves
  <1>10. CASE op.for = "test" /\ Ask(op, "test", NextTest(op))
    <2>1. NextTest(op) \in Nat
      BY <1>2, SizeAssumption DEF NextTest, StepOf, OpSet
    <2>2. /\ op' \in OpSet /\ op'.at = "ask" /\ op'.for = "test" /\ op'.msg = None
          /\ op'.suite = None /\ op'.backup = op.backup /\ op'.client = op.client
      BY <1>2, <1>10, <2>1 DEF OpSet, Ask
    <2>3. OpInv'
      BY <1>2, <1>10, <2>2 DEF OpInv, ShootPlaces
    <2>4. RoomInv'
      BY <1>1, <1>4, <1>10, <2>2, PendingIn DEF RoomInv, Later
    <2>5. \A s \in Suites : ~IsTested(s)' /\ op'.backup = op.backup
      BY <2>2 DEF IsTested
    <2> QED BY <1>1, <1>3, <1>5, <1>6, <1>10, <2>2, <2>3, <2>4, <2>5, OpMoves
  <1>11. op.for = "free" => op' = Idle
    BY DEF FreeReturns
  <1>12. op.for = "test" => FreeBackup(op) \/ Ask(op, "test", NextTest(op))
    BY DEF FreeReturns
  <1> QED BY <1>2, <1>7, <1>8, <1>9, <1>10, <1>11, <1>12

LEMMA AllocateResourceKeeps == ASSUME ShootInv, AllocateResource PROVE ShootInv'
  <1> USE DEF ShootInv
  <1>1. /\ op.at = "ask"
        /\ UNCHANGED <<total, free, size, cbr, releasing, allocSem, freeSem, full, held>>
    BY DEF AllocateResource, srmVars
  <1>2. PICK m \in Msgs : m = Min({k \in Msgs : ~msg[k].live}) /\ ~msg[m].live
    BY <1>1, NewMessageIn
  <1> DEFINE new == [NoMsg EXCEPT !.live = TRUE, !.for = op.for, !.size = op.size]
  <1>3. /\ msg' = [msg EXCEPT ![m] = new] /\ pending' = Append(pending, m)
        /\ op' = [op EXCEPT !.at = "wait", !.msg = m]
    BY <1>2 DEF AllocateResource
  <1>4. /\ op \in OpSet /\ op.for \in {"backup", "test", "client"} /\ op.client \in Clients
        /\ op.msg = None /\ op.suite = None /\ op.backup \in Suites \cup {None}
        /\ op.backup # None <=> op.for = "test"
    BY <1>1 DEF OpInv, ShootTypes, ShootPlaces, OpSet
  <1>5. /\ new \in MsgSet /\ new.live /\ ~new.timedOut /\ new.ret = None /\ new.size = op.size
    <2>1. NoMsg \in MsgSet /\ NoMsg.ret = None /\ NoMsg.timedOut = FALSE
      BY DEF NoMsg, MsgSet
    <2>2. op.for \in {"backup", "test", "client"} /\ op.size \in Nat
      BY <1>4 DEF OpSet
    <2> QED BY <2>1, <2>2 DEF MsgSet
  <1> HIDE DEF new
  <1>6. /\ op' \in OpSet /\ op'.at = "wait" /\ op'.msg = m /\ op'.for = op.for /\ op'.suite = None
        /\ op'.backup = op.backup /\ op'.client = op.client /\ op'.size = op.size
    BY <1>3, <1>4 DEF OpSet
  <1>7. m # None /\ m \notin Pending /\ m # cbr.msg
    BY <1>2, PendingIn DEF MsgInv
  <1>8. /\ pending' \in Seq(Msgs) /\ IsInjective(pending') /\ Pending' = Pending \cup {m}
        /\ Len(pending') = Len(pending) + 1
    <2>1. pending \in Seq(Msgs) /\ IsInjective(pending)
      BY DEF ShootTypes, MsgInv
    <2> QED BY <1>3, <1>7, <2>1, AppendOf DEF Pending
  <1>9. msg'[m] = new /\ \A k \in Msgs : k # m => msg'[k] = msg[k]
    BY <1>3 DEF ShootTypes
  <1>10. allocSem = 0
    BY <1>1, PendingIn DEF MsgInv
  <1>11. ShootTypes'
    <2>1. msg' \in [Msgs -> MsgSet]
      BY <1>3, <1>5 DEF ShootTypes
    <2> QED BY <1>1, <1>6, <1>8, <2>1 DEF ShootTypes
  <1>12. OpInv'
    BY <1>4, <1>6, <1>7 DEF OpInv, ShootPlaces
  <1>13. MsgInv'
    <2>1. cbr'.msg \notin Pending'
      BY <1>1, <1>7, <1>8 DEF MsgInv
    <2>2. cbr'.checked => ~msg'[cbr'.msg].timedOut
      <3> SUFFICES ASSUME cbr.checked PROVE ~msg'[cbr.msg].timedOut
        BY <1>1
      <3>1. cbr # NoCbr
        BY DEF NoCbr
      <3> QED BY <1>7, <1>9, <3>1, Granted1 DEF MsgInv
    <2>3. \A k \in Msgs : msg'[k].live <=> k \in Pending' \/ k = cbr'.msg \/ k = op'.msg
      BY <1>1, <1>4, <1>5, <1>6, <1>7, <1>8, <1>9, PendingIn DEF MsgInv
    <2>4. \A k \in Msgs : msg'[k].live => (msg'[k].timedOut <=> k # op'.msg)
      BY <1>4, <1>5, <1>6, <1>9, PendingIn DEF MsgInv
    <2>5. \A k \in Msgs : ~msg'[k].live => msg'[k] = NoMsg
      BY <1>5, <1>9 DEF MsgInv
    <2>6. \A k \in Msgs : msg'[k].ret # None <=> allocSem' > 0 /\ k = op'.msg
      BY <1>1, <1>5, <1>9, <1>10 DEF MsgInv
    <2> QED BY <1>1, <1>5, <1>6, <1>8, <1>9, <1>10, <2>1, <2>2, <2>3, <2>4, <2>5, <2>6 DEF MsgInv
  <1>14. LargeEnough'
    <2>1. cbr.msg # None => cbr.msg \in Msgs /\ msg'[cbr.msg] = msg[cbr.msg]
      BY <1>7, <1>9 DEF ShootTypes
    <2> QED BY <1>1, <1>10, <2>1 DEF LargeEnough
  <1>15. RoomInv'
    <2>1. Outstanding' = Outstanding + 1
      BY <1>1, <1>8, PendingIn DEF Outstanding
    <2> QED BY <1>1, <1>6, <1>10, <2>1, PendingIn DEF RoomInv, Later
  <1>16. OwnerInv'
    <2> SUFFICES ASSUME NEW t \in Suites PROVE OwnerInv!(t)'
      BY DEF OwnerInv
    <2>1. /\ IsHeld(t)' = IsHeld(t) /\ IsGiven(t)' = IsGiven(t) /\ ~IsAnswer(t) /\ ~IsAnswer(t)'
          /\ ~IsTested(t) /\ ~IsTested(t)' /\ op'.backup = op.backup
      BY <1>1, <1>6, <1>10 DEF IsHeld, IsAnswer, IsGiven, IsTested
    <2> QED BY <1>1, <2>1 DEF OwnerInv, Owned
  <1>17. HeldInv' /\ GivenInv' /\ FullIsHeld'
    BY <1>1, <1>4, <1>6 DEF HeldInv, GivenInv, FullIsHeld, ShootPlaces
  <1> QED BY <1>11, <1>12, <1>13, <1>14, <1>15, <1>16, <1>17

LEMMA FreeResourceKeeps == ASSUME ShootInv, FreeResource PROVE ShootInv'
  <1> USE DEF ShootInv
  <1>1. PICK s \in Suites : s = op.suite
    BY DEF FreeResource, OpInv, ShootTypes, OpSet
  <1> DEFINE new == [suite |-> s, waited |-> TRUE]
  <1>2. new.suite = s /\ new.waited = TRUE /\ new \in [suite : Suites, waited : BOOLEAN]
    OBVIOUS
  <1>3. /\ op.at = "free" /\ full' = ForgetFull(s)
        /\ releasing' = releasing \cup {new}
        /\ held' = [c \in Clients |-> held[c] \ {s}]
        /\ op' = [op EXCEPT !.at = "freeing", !.suite = None]
        /\ UNCHANGED <<total, free, size, pending, msg, cbr, allocSem, freeSem>>
    BY <1>1 DEF FreeResource, srmVars
  <1> HIDE DEF new
  <1>4. /\ op \in OpSet /\ op.for \in {"test", "end", "free"} /\ op.client \in Clients
        /\ op.msg = None /\ op.backup \in Suites \cup {None}
        /\ op.backup # None <=> op.for = "test"
    BY <1>3 DEF OpInv, ShootTypes, ShootPlaces, OpSet
  <1>5. /\ op' \in OpSet /\ op'.at = "freeing" /\ op'.for = op.for /\ op'.client = op.client
        /\ op'.msg = None /\ op'.suite = None /\ op'.backup = op.backup /\ op'.size = op.size
    BY <1>3, <1>4 DEF OpSet
  <1>6. allocSem = 0 /\ freeSem = 0
    BY <1>3, PendingIn DEF MsgInv, GivenInv, ShootTypes
  <1>7. ~IsAnswer(s) /\ ~IsGiven(s) /\ cbr.suite # s /\ op.backup # s /\ (IsHeld(s) \/ IsTested(s))
    <2>1. IsHeld(s) \/ IsTested(s)
      BY <1>1, <1>3, <1>4 DEF IsHeld, IsTested, HeldInv
    <2> QED BY <2>1 DEF OwnerInv
  <1>8. ShootTypes'
    <2>1. full' \in Suites \cup {None}
      BY <1>3 DEF ForgetFull, ShootTypes
    <2>2. held' \in [Clients -> SUBSET Suites]
      BY <1>3 DEF ShootTypes
    <2> QED BY <1>2, <1>3, <1>5, <2>1, <2>2 DEF ShootTypes
  <1>9. OpInv'
    BY <1>4, <1>5 DEF OpInv, ShootPlaces
  <1>10. MsgInv' /\ LargeEnough'
    BY <1>3, <1>4, <1>5, <1>6 DEF MsgInv, Pending, LargeEnough
  <1>11. RoomInv'
    BY <1>3, <1>5 DEF RoomInv, Outstanding, Later
  <1>12. \A c \in Clients : held'[c] = held[c] \ {s}
    BY <1>3
  <1>13. OwnerInv'
    <2> SUFFICES ASSUME NEW t \in Suites PROVE OwnerInv!(t)'
      BY DEF OwnerInv
    <2>1. IsHeld(t)' <=> IsHeld(t) /\ t # s
      BY <1>12 DEF IsHeld
    <2>2. IsGiven(t)' <=> IsGiven(t) \/ t = s
      BY <1>2, <1>3 DEF IsGiven
    <2>3. ~IsAnswer(t)' /\ ~IsAnswer(t) /\ ~IsTested(t)' /\ (IsTested(t) => t = s)
      BY <1>1, <1>3, <1>5, <1>6 DEF IsAnswer, IsTested
    <2> QED BY <1>3, <1>5, <1>7, <2>1, <2>2, <2>3 DEF OwnerInv, Owned
  <1>14. HeldInv'
    <2>1. op'.for # "free" => held'[op'.client] = {}
      BY <1>3, <1>4, <1>5, <1>12 DEF HeldInv, ShootPlaces
    <2> QED BY <1>5, <1>12, <2>1 DEF HeldInv, ShootPlaces
  <1>15. GivenInv'
    <2>1. \A r \in releasing : ~r.waited /\ r.suite # s
      BY <1>3, <1>7 DEF GivenInv, IsGiven
    <2> QED BY <1>2, <1>3, <1>5, <1>6, <2>1 DEF GivenInv
  <1>16. FullIsHeld'
    BY <1>3, <1>12 DEF FullIsHeld, ForgetFull
  <1> QED BY <1>8, <1>9, <1>10, <1>11, <1>13, <1>14, <1>15, <1>16

(* The end of shoot_malloc_suite_int: the answer is used, or the request is
   left to the manager.  The operation takes over what was answered. *)
LEMMA WaitEnds ==
    ASSUME ShootInv, op.at = "wait",
           UNCHANGED <<total, free, size, pending, cbr, releasing, freeSem>>,
           \/ allocSem = 1 /\ allocSem' = 0 /\ msg' = Forgets(op.msg)
           \/ allocSem = 0 /\ allocSem' = 0 /\ msg' = GivesUp(op.msg) /\ ~cbr.checked,
           op' \in OpSet, OpInv', RoomInv', op'.at \notin {"wait", "freeing"},
           held' \in [Clients -> SUBSET Suites], full' \in Suites \cup {None},
           \A s \in Suites :
              /\ IsHeld(s)' \/ IsTested(s)' \/ op'.backup = s
                    <=> IsHeld(s) \/ IsAnswer(s) \/ op.backup = s
              /\ IsHeld(s)' => ~IsTested(s)' /\ op'.backup # s
              /\ IsTested(s)' => op'.backup # s,
           HeldInv', FullIsHeld'
    PROVE  ShootInv'
  <1> USE DEF ShootInv
  <1>1. PICK m \in Msgs : m = op.msg /\ m # None
    BY DEF OpInv, ShootTypes, OpSet
  <1>2. msg[m] \in MsgSet /\ msg[m].live /\ ~msg[m].timedOut
    BY <1>1 DEF MsgInv, ShootTypes
  <1>3. op'.msg = None
    BY DEF OpInv
  <1>4. \A k \in Msgs : k # m => msg'[k] = msg[k]
    BY <1>1 DEF Forgets, GivesUp, ShootTypes
  <1>5. allocSem = 1 => msg'[m] = NoMsg /\ m \notin Pending /\ m # cbr.msg
    BY <1>1 DEF Forgets, ShootTypes, MsgInv
  <1>6. allocSem = 0 => /\ msg'[m] = [msg[m] EXCEPT !.timedOut = TRUE] /\ msg[m].ret = None
    BY <1>1 DEF GivesUp, ShootTypes, MsgInv
  <1>7. allocSem = 0 => /\ msg'[m] \in MsgSet /\ msg'[m].live /\ msg'[m].timedOut
                        /\ msg'[m].ret = None /\ msg'[m].size = msg[m].size
    BY <1>2, <1>6 DEF MsgSet
  <1>8. NoMsg \in MsgSet /\ ~NoMsg.live /\ NoMsg.ret = None
    BY DEF NoMsg, MsgSet
  <1>9. ShootTypes'
    <2>1. msg' \in [Msgs -> MsgSet]
      <3>1. msg'[m] \in MsgSet
        BY <1>5, <1>7, <1>8
      <3>2. msg' = [k \in Msgs |-> msg'[k]]
        BY DEF Forgets, GivesUp, ShootTypes
      <3> QED BY <1>4, <3>1, <3>2 DEF ShootTypes
    <2> QED BY <2>1 DEF ShootTypes
  <1>10. MsgInv'
    <2>0. Pending' = Pending /\ None \notin Msgs /\ None \notin Pending
      BY PendingIn DEF Pending
    <2>1. cbr.checked => cbr.msg \in Msgs /\ cbr.msg = m /\ allocSem = 0
      <3> SUFFICES ASSUME cbr.checked PROVE cbr.msg = m /\ cbr.msg \in Msgs /\ allocSem = 0
        OBVIOUS
      <3>1. cbr # NoCbr
        BY DEF NoCbr
      <3>2. cbr.msg \in Msgs /\ msg[cbr.msg].live /\ ~msg[cbr.msg].timedOut
        BY <3>1, Granted1 DEF MsgInv
      <3> QED BY <1>1, <1>5, <3>2 DEF MsgInv
    <2>2. ~cbr.checked
      BY <2>1
    <2>3. \A k \in Msgs : msg'[k].live <=> k \in Pending' \/ k = cbr'.msg \/ k = op'.msg
      BY <1>1, <1>2, <1>3, <1>4, <1>5, <1>7, <1>8, <2>0, PendingIn DEF MsgInv
    <2>4. \A k \in Msgs : msg'[k].live => (msg'[k].timedOut <=> k # op'.msg)
      BY <1>1, <1>3, <1>4, <1>5, <1>7, <1>8, <2>0 DEF MsgInv
    <2>5. \A k \in Msgs : ~msg'[k].live => msg'[k] = NoMsg
      BY <1>4, <1>5, <1>7 DEF MsgInv
    <2>6. \A k \in Msgs : msg'[k].ret = None
      BY <1>1, <1>4, <1>5, <1>7, <1>8 DEF MsgInv
    <2> QED BY <2>0, <2>2, <2>3, <2>4, <2>5, <2>6 DEF MsgInv
  <1>11. LargeEnough'
    <2>1. cbr.msg # None => cbr.msg \in Msgs /\ msg'[cbr.msg].size = msg[cbr.msg].size
      BY <1>4, <1>5, <1>7 DEF ShootTypes
    <2> QED BY <2>1 DEF LargeEnough
  <1>12. OwnerInv'
    <2> SUFFICES ASSUME NEW t \in Suites PROVE OwnerInv!(t)'
      BY DEF OwnerInv
    <2>1. IsGiven(t)' = IsGiven(t) /\ ~IsTested(t) /\ ~IsAnswer(t)'
      BY DEF IsGiven, IsTested, IsAnswer
    <2> QED BY <2>1 DEF OwnerInv, Owned
  <1>13. GivenInv'
    BY DEF GivenInv
  <1> QED BY <1>9, <1>10, <1>11, <1>12, <1>13

(* What becomes of the operation, whose request is no longer its own *)
LEMMA OpAfterWait ==
    ASSUME ShootInv, op.at = "wait", NEW o, o = [op EXCEPT !.msg = None]
    PROVE  /\ o \in OpSet /\ o.client = op.client /\ op.client \in Clients /\ held[op.client] = {}
           /\ o.for = op.for /\ o.for \in {"backup", "test", "client"}
           /\ o.msg = None /\ o.suite = None /\ o.backup = op.backup
           /\ o.backup \in Suites \cup {None} /\ (o.backup # None <=> o.for = "test")
           /\ o.contig = op.contig /\ o.want = op.want
           /\ \A s \in Suites : ~IsTested(s)
           /\ Outstanding + allocSem <= MaxPending + 2 + Later
  <1> USE DEF ShootInv
  <1>1. op \in OpSet
    BY DEF ShootTypes
  <1>2. /\ o \in OpSet /\ o.client = op.client /\ o.for = op.for /\ o.suite = op.suite
        /\ o.backup = op.backup /\ o.msg = None /\ o.contig = op.contig /\ o.want = op.want
    BY <1>1 DEF OpSet
  <1>3. /\ op.client \in Clients /\ held[op.client] = {} /\ op.suite = None
        /\ op.for \in {"backup", "test", "client"} /\ (op.backup # None <=> op.for = "test")
        /\ op.backup \in Suites \cup {None}
    BY <1>1 DEF OpInv, HeldInv, ShootPlaces, OpSet
  <1> QED BY <1>2, <1>3 DEF IsTested, RoomInv

LEMMA AnsweredKeeps == ASSUME ShootInv, Answered PROVE ShootInv'
  <1> USE DEF ShootInv
  <1>1. /\ op.at = "wait" /\ allocSem = 1 /\ allocSem' = 0 /\ msg' = Forgets(op.msg)
        /\ UNCHANGED <<total, free, size, pending, cbr, releasing, freeSem>>
    BY PendingIn DEF Answered, srmVars
  <1>2. PICK s \in Suites : s = msg[op.msg].ret /\ IsAnswer(s)
    <2>1. op.msg \in Msgs /\ msg[op.msg].ret # None /\ msg[op.msg].ret \in Suites \cup {None}
      BY <1>1 DEF MsgInv, OpInv, ShootTypes, OpSet, MsgSet
    <2> QED BY <1>1, <2>1 DEF IsAnswer
  <1>3. PICK o : o = [op EXCEPT !.msg = None]
    OBVIOUS
  <1>8. /\ o \in OpSet /\ o.client = op.client /\ o.for = op.for /\ o.msg = None /\ o.suite = None
        /\ o.backup = op.backup
    BY <1>1, <1>3, OpAfterWait
  <1>4. s # None /\ ~IsHeld(s) /\ op.backup # s /\ \A t \in Suites : IsAnswer(t) <=> t = s
    BY <1>2, SuitesFinite DEF OwnerInv, IsAnswer
  <1>5. CASE op.for = "backup"
    <2>1. Ask([o EXCEPT !.backup = s], "test", StepOf(o)) /\ UNCHANGED <<full, held>>
      BY <1>2, <1>3, <1>4, <1>5 DEF Answered
    <2>2. PICK p : p = [o EXCEPT !.backup = s]
      OBVIOUS
    <2>10. p \in OpSet
      <3>1. s \in Suites \cup {None} /\ o \in OpSet
        BY <1>8
      <3> QED BY <2>2, <3>1 DEF OpSet
    <2>11. p.backup = s /\ p.msg = None /\ p.suite = None /\ p.client = op.client
      BY <1>8, <2>2 DEF OpSet
    <2>3. PICK k \in Nat : op' = [p EXCEPT !.at = "ask", !.for = "test", !.size = k]
      BY <2>1, <2>2, SizeAssumption DEF Ask, StepOf
    <2>12. op' \in OpSet
      BY <2>3, <2>10 DEF OpSet
    <2>9. /\ op' \in OpSet /\ op'.at = "ask" /\ op'.for = "test" /\ op'.backup = s /\ op'.msg = None
          /\ op'.suite = None /\ op'.client = op.client
      BY <2>3, <2>10, <2>11, <2>12 DEF OpSet
    <2>4. OpInv'
      BY <1>1, <1>3, <1>4, <2>9, OpAfterWait DEF OpInv, ShootPlaces
    <2>5. RoomInv'
      <3>1. Outstanding' = Outstanding /\ Later' = 0 /\ Later = 0
        BY <1>1, <1>5, <2>9 DEF Outstanding, Later
      <3> QED BY <1>1, <1>3, <2>9, <3>1, PendingIn, OpAfterWait DEF RoomInv
    <2>6. \A t \in Suites : /\ ~IsTested(t)' /\ IsHeld(t)' = IsHeld(t) /\ op.backup # t
      BY <1>1, <1>3, <1>5, <2>1, <2>9, OpAfterWait, SuitesFinite DEF IsTested, IsHeld
    <2>7. HeldInv' /\ FullIsHeld'
      BY <1>1, <1>3, <2>1, <2>9, OpAfterWait DEF HeldInv, FullIsHeld
    <2> QED BY <1>1, <1>4, <2>1, <2>9, <2>4, <2>5, <2>6, <2>7, WaitEnds DEF ShootTypes
  <1>6. CASE op.for = "test"
    <2>1. FreeTest([o EXCEPT !.max = Detected(o)], s) /\ UNCHANGED <<full, held>>
      BY <1>2, <1>3, <1>4, <1>6 DEF Answered
    <2>2. Detected(o) \in Nat
      <3>1. o.size \in Nat
        BY <1>8 DEF OpSet
      <3> QED BY <3>1, SizeAssumption DEF Detected, BackupSize, StepOf
    <2>9. PICK d \in Nat : d = Detected(o)
      BY <2>2
    <2>10. PICK p : p = [o EXCEPT !.max = d]
      OBVIOUS
    <2>11. p \in OpSet
      BY <1>8, <2>10 DEF OpSet
    <2>12. p.for = "test" /\ p.backup = op.backup /\ p.msg = None /\ p.client = op.client
      BY <1>6, <1>8, <2>10 DEF OpSet
    <2>13. op' = [p EXCEPT !.at = "free", !.suite = s]
      BY <2>1, <2>9, <2>10 DEF FreeTest
    <2>14. op' \in OpSet
      <3>1. s \in Suites \cup {None}
        OBVIOUS
      <3> QED BY <2>11, <2>13, <3>1 DEF OpSet
    <2>3. /\ op' \in OpSet /\ op'.at = "free" /\ op'.for = "test" /\ op'.backup = op.backup
          /\ op'.msg = None /\ op'.suite = s /\ op'.client = op.client
      BY <2>11, <2>12, <2>13, <2>14 DEF OpSet
    <2>4. OpInv'
      BY <1>1, <1>3, <1>4, <1>6, <2>3, OpAfterWait DEF OpInv, ShootPlaces
    <2>5. RoomInv'
      <3>1. Outstanding' = Outstanding /\ Later' = 0 /\ Later = 0
        BY <1>1, <1>6, <2>3 DEF Outstanding, Later
      <3> QED BY <1>1, <1>3, <2>3, <3>1, PendingIn, OpAfterWait DEF RoomInv
    <2>6. \A t \in Suites : /\ (IsTested(t)' <=> t = s) /\ IsHeld(t)' = IsHeld(t)
      BY <2>1, <2>3 DEF IsTested, IsHeld
    <2>7. HeldInv' /\ FullIsHeld'
      BY <1>1, <1>3, <2>1, <2>3, OpAfterWait DEF HeldInv, FullIsHeld
    <2>8. \A t \in Suites : IsHeld(t) => op.backup # t
      BY DEF OwnerInv
    <2> QED BY <1>1, <1>4, <2>1, <2>3, <2>4, <2>5, <2>6, <2>7, <2>8, WaitEnds DEF ShootTypes
  <1>7. CASE op.for = "client"
    <2>1. GoesToClient(s)
      BY <1>2, <1>4, <1>7 DEF Answered
    <2>2. /\ op' = Idle /\ held' = [held EXCEPT ![op.client] = {s}]
          /\ full' = IF ~op.contig /\ op.want = 0 THEN s ELSE full
      <3>1. held[op.client] \cup ({s} \ {None}) = {s}
        BY <1>1, <1>3, <1>4, OpAfterWait
      <3> QED BY <2>1, <3>1 DEF GoesToClient
    <2>3. op' \in OpSet /\ OpInv' /\ RoomInv' /\ op'.at = "none" /\ op'.backup = None
      BY <2>2, IdleFields DEF OpInv, RoomInv, ShootPlaces
    <2>4. /\ held' \in [Clients -> SUBSET Suites] /\ held'[op.client] = {s} /\ op.client \in Clients
          /\ \A c \in Clients : c # op.client => held'[c] = held[c]
          /\ held[op.client] = {} /\ op.backup = None
      BY <1>1, <1>3, <1>7, <2>2, OpAfterWait DEF ShootTypes
    <2>5. \A t \in Suites : (IsHeld(t)' <=> IsHeld(t) \/ t = s) /\ ~IsTested(t)' /\ op'.backup # t
                            /\ op.backup # t
      BY <2>3, <2>4, SuitesFinite DEF IsHeld, IsTested
    <2>6. HeldInv'
      BY <1>4, <2>3, <2>4 DEF HeldInv, ShootPlaces, IsHeld
    <2>7. FullIsHeld' /\ full' \in Suites \cup {None}
      BY <2>2, <2>4 DEF FullIsHeld, ShootTypes
    <2> QED BY <1>1, <1>4, <2>3, <2>4, <2>5, <2>6, <2>7, WaitEnds
  <1> QED BY <1>1, <1>3, <1>5, <1>6, <1>7, OpAfterWait

LEMMA TimesOutKeeps == ASSUME ShootInv, InTime, TimesOut PROVE ShootInv'
  <1> USE DEF ShootInv
  <1>1. /\ op.at = "wait" /\ allocSem = 0 /\ allocSem' = 0 /\ msg' = GivesUp(op.msg)
        /\ ~cbr.checked /\ Refused
        /\ UNCHANGED <<total, free, size, pending, cbr, releasing, freeSem>>
    BY DEF InTime, TimesOut, srmVars
  <1>2. PICK o : o = [op EXCEPT !.msg = None]
    OBVIOUS
  <1>11. /\ o \in OpSet /\ o.client = op.client /\ o.for = op.for /\ o.msg = None /\ o.suite = None
         /\ o.backup = op.backup /\ op.backup \in Suites \cup {None}
         /\ op.for = "backup" => op.backup = None
    BY <1>1, <1>2, OpAfterWait
  <1>3. \A t \in Suites : ~IsAnswer(t)
    BY <1>1 DEF IsAnswer
  <1>4. Outstanding' = Outstanding
    BY <1>1 DEF Outstanding
  <1>5. held \in [Clients -> SUBSET Suites] /\ full \in Suites \cup {None}
    BY DEF ShootTypes
  <1>6. CASE op' = Idle /\ op.for # "test" /\ UNCHANGED held /\ full' \in {full, None}
    <2>1. op' \in OpSet /\ OpInv' /\ RoomInv' /\ op'.at = "none" /\ op'.backup = None
      BY <1>6, IdleFields DEF OpInv, RoomInv, ShootPlaces
    <2>2. \A t \in Suites : IsHeld(t)' = IsHeld(t) /\ ~IsTested(t)' /\ op'.backup # t /\ op.backup # t
      BY <1>1, <1>2, <1>6, <2>1, OpAfterWait, SuitesFinite DEF IsHeld, IsTested
    <2>3. HeldInv' /\ FullIsHeld'
      BY <1>6, <2>1 DEF HeldInv, FullIsHeld, ShootPlaces
    <2> QED BY <1>1, <1>3, <1>5, <1>6, <2>1, <2>2, <2>3, WaitEnds
  <1>7. CASE op.for = "backup" /\ op' # Idle
    <2>1. AfterDetection(o) /\ UNCHANGED <<full, held>>
      BY <1>1, <1>2, <1>7 DEF Refused
    <2>2. PICK k \in Nat : op' = [o EXCEPT !.at = "ask", !.for = "client", !.size = k]
      BY <1>7, <1>11, <2>1, DetectionGoesOn
    <2>3. /\ op' \in OpSet /\ op'.at = "ask" /\ op'.for = "client" /\ op'.backup = None
          /\ op'.msg = None /\ op'.suite = None /\ op'.client = op.client
      BY <1>7, <1>11, <2>2 DEF OpSet
    <2>4. OpInv'
      BY <1>1, <1>2, <2>3, OpAfterWait DEF OpInv
    <2>5. RoomInv'
      <3>1. Later' = 1 /\ Later = 0
        BY <1>7, <2>3 DEF Later
      <3> QED BY <1>1, <1>2, <1>4, <2>3, <3>1, PendingIn, OpAfterWait DEF RoomInv
    <2>6. \A t \in Suites : IsHeld(t)' = IsHeld(t) /\ ~IsTested(t)' /\ op'.backup # t /\ op.backup # t
      BY <1>1, <1>2, <1>7, <2>1, <2>3, OpAfterWait, SuitesFinite DEF IsHeld, IsTested
    <2>7. HeldInv' /\ FullIsHeld'
      BY <1>1, <1>2, <2>1, <2>3, OpAfterWait DEF HeldInv, FullIsHeld
    <2> QED BY <1>1, <1>3, <1>5, <2>1, <2>3, <2>4, <2>5, <2>6, <2>7, WaitEnds
  <1>8. CASE op.for = "test"
    <2>1. FreeBackup(o) /\ UNCHANGED <<full, held>>
      BY <1>1, <1>2, <1>8 DEF Refused
    <2>2. /\ op' \in OpSet /\ op'.at = "free" /\ op'.for = "end" /\ op'.backup = None
          /\ op'.msg = None /\ op'.suite = op.backup /\ op'.client = op.client
      BY <1>11, <2>1 DEF OpSet, FreeBackup
    <2>3. OpInv'
      BY <1>1, <1>2, <1>8, <2>2, OpAfterWait DEF OpInv
    <2>4. RoomInv'
      <3>1. Later = 0
        BY <1>8 DEF Later
      <3> QED BY <1>1, <1>2, <1>4, <2>2, <3>1, PendingIn, OpAfterWait DEF RoomInv
    <2>5. \A t \in Suites : IsHeld(t)' = IsHeld(t) /\ (IsTested(t)' <=> op.backup = t) /\ op'.backup # t
      BY <2>1, <2>2, SuitesFinite DEF IsHeld, IsTested
    <2>6. HeldInv' /\ FullIsHeld'
      BY <1>1, <1>2, <2>1, <2>2, OpAfterWait DEF HeldInv, FullIsHeld
    <2>7. \A t \in Suites : IsHeld(t) => op.backup # t
      BY DEF OwnerInv
    <2> QED BY <1>1, <1>3, <1>5, <2>1, <2>2, <2>3, <2>4, <2>5, <2>6, <2>7, WaitEnds
  <1>9. CASE op.for = "client"
    <2>1. GoesToClient(None)
      BY <1>1, <1>9 DEF Refused
    <2>2. held' = held
      <3>1. held' = [held EXCEPT ![op.client] = held[op.client]]
        <4>1. held[op.client] \cup ({None} \ {None}) = held[op.client]
          OBVIOUS
        <4> QED BY <2>1, <4>1 DEF GoesToClient
      <3> QED BY <1>5, <3>1
    <2> QED BY <1>6, <1>9, <2>1, <2>2 DEF GoesToClient
  <1>10. op.for = "backup" => UNCHANGED held /\ UNCHANGED full
    BY <1>1 DEF Refused
  <1> QED BY <1>1, <1>2, <1>6, <1>7, <1>8, <1>9, <1>10, OpAfterWait

LEMMA ShootGoesOn == ASSUME ShootInv, [Next]_vars, [InTime]_vars PROVE ShootInv'
  <1>1. ASSUME Manager PROVE ShootInv'
    BY <1>1, GrantKeeps, GrantTooLateKeeps, GrantChecksKeeps, GrantAnswersKeeps, FreedKeeps DEF Manager
  <1>2. ASSUME NEW c \in Clients, Client(c) PROVE ShootInv'
    BY <1>2, MallocSuiteKeeps, FreeSuiteKeeps, SrmKeepsShoot DEF Client
  <1>3. ASSUME ShootStep PROVE ShootInv'
    <2>1. CASE TimesOut
      <3>1. InTime
        <4>1. op.msg \in Msgs /\ ~msg[op.msg].timedOut /\ msg \in [Msgs -> MsgSet]
          BY <2>1 DEF TimesOut, ShootInv, ShootTypes, OpInv, MsgInv, OpSet
        <4>2. msg' = [msg EXCEPT ![op.msg].timedOut = TRUE]
          BY <2>1 DEF TimesOut, GivesUp
        <4>3. msg'[op.msg].timedOut
          BY <4>1, <4>2 DEF MsgSet
        <4>4. msg' # msg
          BY <4>1, <4>3
        <4> QED BY <4>4 DEF vars, shootVars
      <3> QED BY <2>1, <3>1, TimesOutKeeps
    <2> QED BY <1>3, <2>1, AllocateResourceKeeps, AnsweredKeeps, FreeResourceKeeps, FreeReturnsKeeps
        DEF ShootStep
  <1>4. ASSUME SrmStep \/ JobStarts \/ JobEnds PROVE ShootInv'
    BY <1>4, SrmKeepsShoot
  <1>5. ASSUME UNCHANGED vars PROVE ShootInv'
    <2>1. UNCHANGED <<shootVars, op>>
      BY <1>5 DEF vars
    <2> QED BY <2>1 DEF ShootInv, shootVars, ShootTypes, OpInv, MsgInv, Pending, LargeEnough, RoomInv,
               Outstanding, Later, OwnerInv, Owned, IsHeld, IsAnswer, IsGiven, IsTested, HeldInv,
               GivenInv, FullIsHeld
  <1> QED BY <1>1, <1>2, <1>3, <1>4, <1>5 DEF Next

LEMMA ShootInvHolds == Spec /\ [][InTime]_vars => []ShootInv
  <1>1. Init => ShootInv
    BY ShootStarts
  <1>2. ShootInv /\ [Next]_vars /\ [InTime]_vars => ShootInv'
    BY ShootGoesOn
  <1> QED BY <1>1, <1>2, PTL DEF Spec

(* The six sets of Owners(s) are empty or singletons, and one of them is not
   empty. *)
LEMMA OwnerIsOne == ASSUME ShootInv PROVE OneOwner
  <1> USE DEF ShootInv
  <1> SUFFICES ASSUME NEW s \in Existing PROVE Cardinality(Owners(s)) = 1
    BY DEF OneOwner
  <1>1. s \in Suites /\ s # None /\ size[s] # -1
    BY SuitesFinite DEF Existing, ShootTypes
  <1>2. Owned(s)
    BY <1>1 DEF OwnerInv
  <1>3. \A m \in Msgs : msg[m].ret = s /\ ~msg[m].timedOut => m = op.msg /\ IsAnswer(s)
    BY <1>1 DEF MsgInv, IsAnswer
  <1>4. IsAnswer(s) => op.msg \in Msgs /\ msg[op.msg].ret = s /\ ~msg[op.msg].timedOut
    BY DEF IsAnswer, MsgInv, OpInv, ShootTypes, OpSet
  <1> SUFFICES \E x : Owners(s) = {x}
    BY FS_Singleton
  <1>5. CASE IsHeld(s)
    <2>1. PICK c \in Clients : s \in held[c]
      BY <1>5 DEF IsHeld
    <2>2. \A d \in Clients : s \in held[d] => d = c
      BY <2>1 DEF HeldInv
    <2>3. ~IsAnswer(s) /\ ~IsGiven(s) /\ ~IsTested(s) /\ cbr.suite # s /\ op.backup # s
      BY <1>1, <1>5 DEF OwnerInv
    <2>4. Owners(s) = {<<"client", c>>}
      BY <1>3, <2>1, <2>2, <2>3 DEF Owners, IsGiven, IsTested
    <2> QED BY <2>4
  <1>6. CASE IsAnswer(s)
    <2>1. ~IsHeld(s) /\ ~IsGiven(s) /\ ~IsTested(s) /\ cbr.suite # s /\ op.backup # s
      BY <1>1, <1>6 DEF OwnerInv
    <2>2. Owners(s) = {<<"answer", op.msg>>}
      BY <1>3, <1>4, <1>6, <2>1 DEF Owners, IsGiven, IsTested, IsHeld
    <2> QED BY <2>2
  <1>7. CASE IsGiven(s)
    <2>1. PICK r \in releasing : r.suite = s
      BY <1>7 DEF IsGiven
    <2>2. \A q \in releasing : q.suite = s => q = r
      BY <2>1 DEF GivenInv
    <2>3. ~IsHeld(s) /\ ~IsAnswer(s) /\ ~IsTested(s) /\ cbr.suite # s /\ op.backup # s
      BY <1>1, <1>7 DEF OwnerInv
    <2>4. Owners(s) = {<<"release", r>>}
      BY <1>3, <2>1, <2>2, <2>3 DEF Owners, IsTested, IsHeld
    <2> QED BY <2>4
  <1>8. CASE IsTested(s) \/ cbr.suite = s \/ op.backup = s
    <2>1. ~IsHeld(s) /\ ~IsAnswer(s) /\ ~IsGiven(s)
      BY <1>1, <1>8 DEF OwnerInv
    <2>2. /\ IsTested(s) => cbr.suite # s /\ op.backup # s
          /\ cbr.suite = s => op.backup # s
      BY <1>1 DEF OwnerInv
    <2>3. /\ {c \in Clients : s \in held[c]} = {}
          /\ {m \in Msgs : msg[m].ret = s /\ ~msg[m].timedOut} = {}
          /\ {r \in releasing : r.suite = s} = {}
      BY <1>3, <2>1 DEF IsHeld, IsGiven
    <2>4. CASE IsTested(s)
      <3>1. Owners(s) = {<<"freed", s>>}
        BY <2>2, <2>3, <2>4 DEF Owners, IsTested
      <3> QED BY <3>1
    <2>5. CASE cbr.suite = s
      <3>1. ~IsTested(s) /\ op.backup # s
        BY <2>2, <2>5
      <3>2. Owners(s) = {<<"allocCBR", cbr.msg>>}
        BY <2>3, <2>5, <3>1 DEF Owners, IsTested
      <3> QED BY <3>2
    <2>6. CASE op.backup = s
      <3>1. ~IsTested(s) /\ cbr.suite # s
        BY <2>2, <2>6
      <3>2. Owners(s) = {<<"backup", s>>}
        BY <2>3, <2>6, <3>1 DEF Owners, IsTested
      <3> QED BY <3>2
    <2> QED BY <1>8, <2>4, <2>5, <2>6
  <1> QED BY <1>2, <1>5, <1>6, <1>7, <1>8 DEF Owned

(* No suite of shooting memory is lost or freed twice, whoever got it, however
   late its request was answered and however many were given up before
   (shoot_malloc_suite_int, allocCBR, shoot_malloc_autodetect,
   _shoot_free_suite), as long as no request is given up between the test of
   timed_out and the answer in allocCBR (src/exmem.c:98-111). *)
THEOREM SuitesAreKept == Spec /\ [][InTime]_vars => []SuitesKept
  <1>1. ShootInv => SuitesKept
    BY OwnerIsOne DEF SuitesKept, ShootInv
  <1> QED BY <1>1, ShootInvHolds, PTL


-----------------------------------------------------------------------------
(* SRM memory                                                              *)

LEMMA OpFields ==
    DOMAIN Idle = {"client", "at", "contig", "want", "for", "size", "msg", "backup", "max",
                   "suite", "index", "tooLarge"}
  BY DEF Idle

(* The first of the buffers that are out is the one that goes back. *)
LEMMA FirstRemoved ==
    ASSUME NEW S, NEW q \in Seq(S), q # <<>>, IsInjective(q)
    PROVE  RemoveFirst(q, q[1]) = Tail(q)
  <1> DEFINE I == {i \in 1..Len(q) : q[i] = q[1]}
  <1>1. Len(q) \in Nat /\ 1 \in 1..Len(q) /\ DOMAIN q = 1..Len(q)
    OBVIOUS
  <1>2. I = {1}
    BY <1>1 DEF IsInjective
  <1>3. Min({1}) \in {1}
    <2>1. {1} \subseteq Nat /\ {1} # {}
      OBVIOUS
    <2> QED BY ONLY <2>1, MinIn
  <1>4. SelectInSeq(q, LAMBDA v : v = q[1]) = 1
    BY <1>2, <1>3 DEF SelectInSeq
  <1>7. \E i \in 1..Len(q) : q[i] = q[1]
    BY <1>1
  <1>8. RemoveFirst(q, q[1]) = RemoveAt(q, 1)
    BY <1>4, <1>7 DEF RemoveFirst
  <1>9. 1 - 1 = 0 /\ 1 + 1 = 2
    OBVIOUS
  <1>5. RemoveFirst(q, q[1]) = SubSeq(q, 1, 0) \o SubSeq(q, 2, Len(q))
    BY <1>8, <1>9, Zenon DEF RemoveAt
  <1>6. SubSeq(q, 1, 0) = <<>> /\ SubSeq(q, 2, Len(q)) = Tail(q)
    OBVIOUS
  <1> QED BY <1>5, <1>6

(* A buffer is found if there is one that is not used. *)
LEMMA OneIsTaken ==
    ASSUME NEW n \in Nat, Topmost(n) = {}, SrmMax \in Nat
    PROVE  Unused = {}
  <1> SUFFICES ASSUME Unused # {} PROVE FALSE
    OBVIOUS
  <1> DEFINE S == {SrmMax - i : i \in Unused}
  <1>1. \A i \in Unused : i \in Nat /\ i <= SrmMax /\ SrmMax - i \in Nat
    BY DEF Unused, SrmBufs
  <1> HIDE DEF Unused
  <1>2. S \subseteq Nat /\ S # {}
    BY <1>1
  <1>3. Min(S) \in S /\ \A y \in S : Min(S) <= y
    BY <1>2, MinIn
  <1>4. PICK i \in Unused : \A j \in Unused : SrmMax - i <= SrmMax - j
    BY <1>3
  <1>5. {j \in Unused : j > i} = {}
    BY <1>1, <1>4
  <1>6. Cardinality({j \in Unused : j > i}) = 0
    BY <1>5, FS_EmptySet
  <1>7. i \in Topmost(n)
    BY <1>6 DEF Topmost
  <1> QED BY <1>7

LEMMA IdleShape == /\ Idle.at = "none" /\ Idle.index \in 0..SrmMax + 1 /\ Idle.want \in Nat
                   /\ Idle.tooLarge \in BOOLEAN /\ ~Idle.tooLarge
  <1>1. 0 \in 0..SrmMax + 1
    BY SrmAssumption
  <1>2. Idle.tooLarge \in BOOLEAN /\ ~Idle.tooLarge
    BY IdleFields, Zenon
  <1> QED BY <1>1, <1>2, IdleFields

LEMMA SrmStarts == Init => SrmInv
  <1> SUFFICES ASSUME Init PROVE SrmInv
    OBVIOUS
  <1> USE DEF Init
  <1>1. PICK n \in SrmCounts : system = 1..n
    OBVIOUS
  <1>2. OpShape
    <2>1. op = Idle
      OBVIOUS
    <2> QED BY ONLY <2>1, IdleShape DEF OpShape, SrmPlaces
  <1>3. SrmTypes
    <2>1. system \subseteq SrmBufs
      BY <1>1, SrmAssumption DEF SrmBufs
    <2>2. NoBuffer \in BufSet
      BY DEF NoBuffer, BufSet
    <2>3. srm \in [SrmBufs -> BufSet] /\ srmHeld \in [Clients -> SUBSET SrmBufs] /\ out \in Seq(SrmBufs)
      BY <2>2
    <2>4. job \in BOOLEAN /\ locked \in BOOLEAN /\ srmAllocated \in BOOLEAN
      OBVIOUS
    <2> QED BY ONLY <2>1, <2>3, <2>4 DEF SrmTypes
  <1>4. Out = {} /\ IsInjective(out)
    BY DEF Out, ToSet, IsInjective
  <1>5. \A i \in SrmBufs : srm[i] = NoBuffer /\ srm[i].buffer = None /\ ~srm[i].used /\ ~srm[i].useAfterFree
    BY DEF NoBuffer
  <1>6. SystemInv
    BY <1>4, <1>5 DEF SystemInv
  <1>7. PhaseInv
    BY <1>5, IdleFields DEF PhaseInv
  <1>8. CountInv
    BY <1>1, <1>4 DEF CountInv
  <1>9. UserInv
    BY <1>5, IdleFields DEF UserInv
  <1> QED BY <1>2, <1>3, <1>6, <1>7, <1>8, <1>9 DEF SrmInv

(* Steps that do not concern SRM memory *)
LEMMA ElsewhereKeepsSrm ==
    ASSUME SrmInv, UNCHANGED srmVars, OpShape', op.at \notin SrmPlaces, op'.at \notin SrmPlaces
    PROVE  SrmInv'
  <1> USE DEF SrmInv, srmVars, SrmPlaces
  <1>1. SrmTypes' /\ SystemInv'
    BY DEF SrmTypes, SystemInv, Out
  <1>2. \A lo : Given(lo)' <=> Given(lo)
    BY DEF Given
  <1>3. PhaseInv'
    BY <1>2 DEF PhaseInv
  <1>4. CountInv'
    BY DEF CountInv, Out
  <1>5. UserInv'
    BY DEF UserInv
  <1> QED BY <1>1, <1>3, <1>4, <1>5

(* The steps of an operation on shooting memory *)
LEMMA ShootKeepsSrm ==
    ASSUME SrmInv, \/ \E c \in Clients : MallocSuite(c) \/ FreeSuite(c)
                   \/ ShootStep
    PROVE  SrmInv'
  <1> USE DEF SrmInv
  <1>0. OpShape
    OBVIOUS
  <1>1. UNCHANGED srmVars
    BY DEF MallocSuite, FreeSuite, ShootStep, AllocateResource, Answered, TimesOut, FreeResource, FreeReturns
  <1>2. ASSUME NEW o, DOMAIN o = DOMAIN Idle, NEW n,
               o.index \in 0..SrmMax + 1, o.want \in Nat, o.tooLarge \in BOOLEAN, o.tooLarge => o.want = 1,
               NEW for \in {"backup", "test", "client"}, Ask(o, for, n)
        PROVE  OpShape' /\ op'.at \notin SrmPlaces
    BY <1>2, OpFields DEF Ask, OpShape, SrmPlaces
  <1>3. ASSUME NEW o, DOMAIN o = DOMAIN Idle, o.for = "test",
               o.index \in 0..SrmMax + 1, o.want \in Nat, o.tooLarge \in BOOLEAN, o.tooLarge => o.want = 1,
               FreeBackup(o) \/ \E s : FreeTest(o, s)
        PROVE  OpShape' /\ op'.at \notin SrmPlaces
    <2>1. /\ DOMAIN op' = DOMAIN Idle /\ op'.at = "free" /\ op'.for \in {"test", "end"}
          /\ op'.index = o.index /\ op'.want = o.want /\ op'.tooLarge = o.tooLarge
      <3>1. CASE FreeBackup(o)
        BY <1>3, <3>1, OpFields DEF FreeBackup
      <3>2. ASSUME NEW s, FreeTest(o, s)
            PROVE  /\ DOMAIN op' = DOMAIN Idle /\ op'.at = "free" /\ op'.for \in {"test", "end"}
                   /\ op'.index = o.index /\ op'.want = o.want /\ op'.tooLarge = o.tooLarge
        BY <1>3, <3>2, OpFields DEF FreeTest
      <3> QED BY <1>3, <3>1, <3>2
    <2> QED BY <1>3, <2>1 DEF OpShape, SrmPlaces
  <1>4. ASSUME op' = Idle PROVE OpShape' /\ op'.at \notin SrmPlaces
    BY ONLY <1>4, IdleShape DEF OpShape, SrmPlaces
  <1>5. ASSUME NEW c \in Clients, MallocSuite(c) PROVE OpShape' /\ op'.at \notin SrmPlaces /\ op.at \notin SrmPlaces
    <2>1. op.at = "none"
      BY <1>5, IdleFields DEF MallocSuite, MayAsk
    <2>2. PICK n \in Sizes, contig \in BOOLEAN :
             LET o == [Idle EXCEPT !.client = c, !.contig = contig, !.want = n]
             IN \E for \in {"backup", "client"}, k \in {BackupSize(o), n} : Ask(o, for, k)
      BY <1>5 DEF MallocSuite
    <2>3. PICK o : /\ o = [Idle EXCEPT !.client = c, !.contig = contig, !.want = n]
                   /\ \E for \in {"backup", "client"}, k \in {BackupSize(o), n} : Ask(o, for, k)
      BY <2>2
    <2>4. /\ DOMAIN o = DOMAIN Idle /\ o.index = 0 /\ o.want = n /\ o.tooLarge = FALSE /\ n \in Nat
          /\ 0 \in 0..SrmMax + 1
      BY <2>3, IdleFields, OpFields, SizeAssumption, SrmAssumption
    <2>5. ~o.tooLarge /\ o.tooLarge \in BOOLEAN
      BY <2>4, Zenon
    <2>6. o.index \in 0..SrmMax + 1 /\ o.want \in Nat
      BY <2>4
    <2>7. DOMAIN o = DOMAIN Idle
      BY <2>4
    <2>10. PICK for \in {"backup", "client"} : \E k : Ask(o, for, k)
      BY <2>3
    <2>8. PICK k : Ask(o, for, k)
      BY <2>10
    <2>9. OpShape' /\ op'.at \notin SrmPlaces
      BY ONLY <1>2, <2>5, <2>6, <2>7, <2>10, <2>8
    <2> QED BY <2>1, <2>9 DEF SrmPlaces
  <1>6. ASSUME NEW c \in Clients, FreeSuite(c) PROVE OpShape' /\ op'.at \notin SrmPlaces /\ op.at \notin SrmPlaces
    <2>1. PICK s : op' = [Idle EXCEPT !.client = c, !.at = "free", !.for = "free", !.suite = s]
      BY <1>6 DEF FreeSuite
    <2>2. /\ DOMAIN op' = DOMAIN Idle /\ op'.at = "free" /\ op'.for = "free" /\ op'.index = 0
          /\ op'.want = 0 /\ op'.tooLarge = FALSE /\ 0 \in 0..SrmMax + 1
      BY <2>1, IdleFields, OpFields, SrmAssumption
    <2>3. ~op'.tooLarge /\ op'.tooLarge \in BOOLEAN
      BY <2>2, Zenon
    <2>5. op'.index \in 0..SrmMax + 1 /\ op'.want \in Nat
      BY <2>2
    <2>4. op.at = "none"
      BY <1>6, IdleFields DEF FreeSuite
    <2>6. OpShape'
      BY ONLY <2>2, <2>3, <2>5 DEF OpShape, SrmPlaces
    <2> QED BY ONLY <2>2, <2>4, <2>6 DEF SrmPlaces
  <1>7. ASSUME AfterDetection(op) \/ AfterDetection([op EXCEPT !.msg = None])
        PROVE  OpShape' /\ op'.at \notin SrmPlaces
    <2>1. PICK o : AfterDetection(o) /\ (o = op \/ o = [op EXCEPT !.msg = None])
      BY <1>7
    <2>2. /\ DOMAIN o = DOMAIN Idle /\ o.index = op.index /\ o.want = op.want
          /\ o.tooLarge = op.tooLarge
      BY <1>0, <2>1, OpFields DEF OpShape
    <2>3. op' = Idle \/ \E n : Ask(o, "client", n)
      BY <2>1 DEF AfterDetection
    <2> QED BY <1>0, <1>2, <1>4, <2>2, <2>3 DEF OpShape
  <1>8. PICK o : o = [op EXCEPT !.msg = None]
    OBVIOUS
  <1>9. DOMAIN o = DOMAIN Idle /\ o.index = op.index /\ o.want = op.want /\ o.tooLarge = op.tooLarge
        /\ o.for = op.for
    BY <1>0, <1>8, OpFields DEF OpShape
  <1>10. ASSUME op.at = "wait", Refused PROVE OpShape' /\ op'.at \notin SrmPlaces
    <2>1. op.for \in {"backup", "test", "client"}
      BY <1>0, <1>10 DEF OpShape
    <2>2. CASE op.for = "backup"
      BY <1>7, <1>10, <2>2 DEF Refused
    <2>3. CASE op.for = "test"
      BY <1>0, <1>3, <1>8, <1>9, <1>10, <2>3 DEF Refused, OpShape
    <2>4. CASE op.for = "client"
      BY <1>4, <1>10, <2>4 DEF Refused, GoesToClient
    <2> QED BY <2>1, <2>2, <2>3, <2>4
  <1>11. ASSUME Answered PROVE OpShape' /\ op'.at \notin SrmPlaces
    <2>1. op.at = "wait" /\ op.for \in {"backup", "test", "client"}
      BY <1>0, <1>11 DEF Answered, OpShape
    <2>2. PICK s : s = msg[op.msg].ret
      OBVIOUS
    <2>3. CASE s = None
      BY <1>10, <1>11, <2>1, <2>2, <2>3 DEF Answered
    <2>4. CASE s # None /\ op.for = "backup"
      <3>1. Ask([o EXCEPT !.backup = s], "test", StepOf(o))
        BY <1>8, <1>11, <2>2, <2>4 DEF Answered
      <3>2. PICK p : p = [o EXCEPT !.backup = s] /\ Ask(p, "test", StepOf(o))
        BY <3>1
      <3>3. DOMAIN p = DOMAIN Idle /\ p.index = op.index /\ p.want = op.want /\ p.tooLarge = op.tooLarge
        BY <1>9, <3>2, OpFields
      <3> QED BY <1>0, <1>2, <3>2, <3>3 DEF OpShape
    <2>5. CASE s # None /\ op.for = "test"
      <3>1. FreeTest([o EXCEPT !.max = Detected(o)], s)
        BY <1>8, <1>11, <2>2, <2>5 DEF Answered
      <3>2. PICK p : p = [o EXCEPT !.max = Detected(o)] /\ FreeTest(p, s)
        BY <3>1
      <3>3. DOMAIN p = DOMAIN Idle /\ p.index = op.index /\ p.want = op.want /\ p.tooLarge = op.tooLarge
            /\ p.for = "test"
        BY <1>9, <2>5, <3>2, OpFields
      <3> QED BY <1>0, <1>3, <3>2, <3>3 DEF OpShape
    <2>6. CASE s # None /\ op.for = "client"
      <3>1. GoesToClient(s)
        BY <1>8, <1>11, <2>2, <2>6 DEF Answered
      <3> QED BY <1>4, <3>1 DEF GoesToClient
    <2> QED BY <2>1, <2>3, <2>4, <2>5, <2>6
  <1>12. ASSUME AllocateResource PROVE OpShape' /\ op'.at \notin SrmPlaces
    <2>1. PICK m : op.at = "ask" /\ op' = [op EXCEPT !.at = "wait", !.msg = m]
      BY <1>12 DEF AllocateResource
    <2>2. /\ DOMAIN op' = DOMAIN Idle /\ op'.at = "wait" /\ op'.for = op.for /\ op'.index = op.index
          /\ op'.want = op.want /\ op'.tooLarge = op.tooLarge
      BY <1>0, <2>1, OpFields DEF OpShape
    <2> QED BY <1>0, <2>1, <2>2 DEF OpShape, SrmPlaces
  <1>13. ASSUME FreeResource PROVE OpShape' /\ op'.at \notin SrmPlaces
    <2>1. op.at = "free" /\ op' = [op EXCEPT !.at = "freeing", !.suite = None]
      BY <1>13 DEF FreeResource
    <2>2. /\ DOMAIN op' = DOMAIN Idle /\ op'.at = "freeing" /\ op'.for = op.for /\ op'.index = op.index
          /\ op'.want = op.want /\ op'.tooLarge = op.tooLarge
      BY <1>0, <2>1, OpFields DEF OpShape
    <2> QED BY <1>0, <2>1, <2>2 DEF OpShape, SrmPlaces
  <1>14. ASSUME FreeReturns PROVE OpShape' /\ op'.at \notin SrmPlaces
    <2>1. op.at = "freeing" /\ op.for \in {"test", "end", "free"}
      BY <1>0, <1>14 DEF FreeReturns, OpShape
    <2>2. CASE op.for = "free"
      BY <1>4, <1>14, <2>2 DEF FreeReturns
    <2>3. CASE op.for = "end"
      BY <1>7, <1>14, <2>3 DEF FreeReturns
    <2>4. CASE op.for = "test"
      <3>1. FreeBackup(op) \/ \E n : Ask(op, "test", n)
        BY <1>14, <2>4 DEF FreeReturns
      <3> QED BY <1>0, <1>2, <1>3, <2>4, <3>1 DEF OpShape
    <2> QED BY <2>1, <2>2, <2>3, <2>4
  <1>15. ASSUME ShootStep PROVE OpShape' /\ op'.at \notin SrmPlaces /\ op.at \notin SrmPlaces
    BY <1>15, <1>10, <1>11, <1>12, <1>13, <1>14
    DEF ShootStep, TimesOut, AllocateResource, Answered, FreeResource, FreeReturns, SrmPlaces
  <1> QED BY <1>1, <1>5, <1>6, <1>15, ElsewhereKeepsSrm


-----------------------------------------------------------------------------
(* The operations on SRM memory                                            *)

(* Fields of the table's entries *)
LEMMA Entries ==
    ASSUME SrmTypes
    PROVE  /\ SrmBufs \subseteq Nat /\ None \notin SrmBufs /\ SrmMax \in Nat /\ 1 \in SrmBufs
           /\ SrmBufs = 1..SrmMax
           /\ \A i \in SrmBufs : /\ srm[i] \in BufSet /\ srm[i].buffer \in SrmBufs \cup {None}
                                 /\ srm[i].used \in BOOLEAN /\ srm[i].useAfterFree \in BOOLEAN
           /\ NoBuffer \in BufSet /\ NoBuffer.buffer = None /\ ~NoBuffer.used /\ ~NoBuffer.useAfterFree
           /\ Len(out) \in Nat /\ DOMAIN out = 1..Len(out)
           /\ \A k \in 1..Len(out) : out[k] \in SrmBufs /\ out[k] \in Out
           /\ \A b \in Out : \E k \in 1..Len(out) : out[k] = b
  <1>1. /\ SrmBufs \subseteq Nat /\ None \notin SrmBufs /\ SrmMax \in Nat /\ 1 \in SrmBufs
        /\ SrmBufs = 1..SrmMax
    BY SrmAssumption DEF SrmBufs, None
  <1>2. NoBuffer \in BufSet /\ NoBuffer.buffer = None /\ ~NoBuffer.used /\ ~NoBuffer.useAfterFree
    BY DEF NoBuffer, BufSet
  <1>3. \A i \in SrmBufs : /\ srm[i] \in BufSet /\ srm[i].buffer \in SrmBufs \cup {None}
                           /\ srm[i].used \in BOOLEAN /\ srm[i].useAfterFree \in BOOLEAN
    BY DEF SrmTypes, BufSet
  <1>4. out \in Seq(SrmBufs)
    BY DEF SrmTypes
  <1>5. /\ Len(out) \in Nat /\ DOMAIN out = 1..Len(out)
        /\ \A k \in 1..Len(out) : out[k] \in SrmBufs
    BY <1>4
  <1>6. /\ \A k \in 1..Len(out) : out[k] \in Out
        /\ \A b \in Out : \E k \in 1..Len(out) : out[k] = b
    BY <1>5 DEF Out, ToSet
  <1> QED BY <1>1, <1>2, <1>3, <1>5, <1>6

LEMMA JobKeeps == ASSUME SrmInv, JobStarts \/ JobEnds PROVE SrmInv'
  <1> USE DEF SrmInv
  <1>1. UNCHANGED <<locked, srmAllocated, srm, system, out, srmHeld, op>>
    BY DEF JobStarts, JobEnds
  <1>2. OpShape' /\ SystemInv' /\ CountInv' /\ UserInv'
    <2>1. OpShape'
      BY <1>1 DEF OpShape
    <2>2. SystemInv' /\ CountInv'
      BY <1>1 DEF SystemInv, CountInv, Out
    <2>3. UserInv'
      BY <1>1 DEF UserInv
    <2> QED BY <2>1, <2>2, <2>3
  <1>3. SrmTypes'
    BY <1>1 DEF SrmTypes, JobStarts, JobEnds
  <1>4. \A lo : Given(lo)' <=> Given(lo)
    BY <1>1 DEF Given
  <1>5. PhaseInv'
    <2>1. CASE JobEnds
      BY <1>1, <1>4, <2>1 DEF PhaseInv, JobEnds
    <2>2. CASE JobStarts
      <3>1. ~srmAllocated /\ op.at # "alloc"
        BY <2>2 DEF JobStarts, PhaseInv
      <3> QED BY <1>1, <3>1 DEF PhaseInv
    <2> QED BY <2>1, <2>2
  <1> QED BY <1>2, <1>3, <1>5

LEMMA SrmMallocKeeps == ASSUME SrmInv, NEW c \in Clients, SrmMalloc(c) PROVE SrmInv'
  <1> USE DEF SrmInv
  <1>1. /\ op = Idle /\ srmHeld[c] = {} /\ UNCHANGED <<job, srmAllocated, srm, system, out, srmHeld>>
        /\ locked' = (locked \/ MayAllocate)
    BY DEF SrmMalloc
  <1>2. PICK n \in SrmRequests, tooLarge \in BOOLEAN :
           /\ tooLarge => n = 1
           /\ op' = [Idle EXCEPT !.client = c, !.want = n, !.tooLarge = tooLarge,
                                 !.at = IF MayAllocate THEN "sleep" ELSE "take"]
    BY DEF SrmMalloc
  <1>3. /\ DOMAIN op' = DOMAIN Idle /\ op'.client = c /\ op'.want = n /\ op'.tooLarge = tooLarge
        /\ op'.at \in {"sleep", "take"} /\ (op'.at = "sleep" <=> MayAllocate)
        /\ op'.index = Idle.index
    BY <1>2, OpFields
  <1>4. OpShape'
    <2>1. op'.index \in 0..SrmMax + 1 /\ n \in Nat
      BY <1>3, IdleShape, SrmAssumption
    <2> QED BY <1>2, <1>3, <2>1 DEF OpShape
  <1>5. SrmTypes' /\ SystemInv'
    BY <1>1 DEF SrmTypes, SystemInv, Out
  <1>6. op.at = "none"
    BY <1>1, IdleFields
  <1>7. \A lo : Given(lo)' <=> Given(lo)
    BY <1>1 DEF Given
  <1>8. PhaseInv'
    BY <1>1, <1>3, <1>6, <1>7 DEF PhaseInv
  <1>9. CountInv'
    BY <1>1, <1>3, <1>6 DEF CountInv, SrmPlaces, Out
  <1>10. UserInv'
    BY <1>1, <1>3 DEF UserInv
  <1> QED BY <1>4, <1>5, <1>8, <1>9, <1>10

LEMMA SrmWakesKeeps == ASSUME SrmInv, SrmWakes PROVE SrmInv'
  <1> USE DEF SrmInv
  <1>1. op.at = "sleep" /\ UNCHANGED <<job, locked, srmAllocated, system, out, srmHeld>> /\ OpShape
    BY DEF SrmWakes
  <1>2. srm' = srm
    <2>1. CASE MayAllocate
      <3>1. \A i \in SrmBufs : srm[i] = NoBuffer
        BY <1>1, <2>1 DEF PhaseInv, MayAllocate
      <3>2. srm = [i \in SrmBufs |-> NoBuffer]
        BY <3>1 DEF SrmTypes
      <3> QED BY <2>1, <3>2 DEF SrmWakes
    <2> QED BY <2>1 DEF SrmWakes
  <1>3. \/ MayAllocate /\ op' = [op EXCEPT !.at = "alloc", !.index = 1]
        \/ op' = [op EXCEPT !.at = "take"]
    BY DEF SrmWakes
  <1>4. /\ DOMAIN op' = DOMAIN Idle /\ op'.client = op.client /\ op'.want = op.want
        /\ op'.tooLarge = op.tooLarge
        /\ \/ op'.at = "take" /\ op'.index = op.index
           \/ op'.at = "alloc" /\ op'.index = 1 /\ MayAllocate
    BY <1>1, <1>3, OpFields DEF OpShape
  <1>5. OpShape'
    BY <1>1, <1>4, SrmAssumption DEF OpShape, SrmPlaces
  <1>6. SrmTypes' /\ SystemInv'
    BY <1>1, <1>2 DEF SrmTypes, SystemInv, Out
  <1>7. \A lo : Given(lo)' <=> Given(lo)
    BY <1>1, <1>2 DEF Given
  <1>8. PhaseInv'
    <2>1. CASE op'.at = "alloc"
      <3>1. out = <<>> /\ (\A i \in SrmBufs : srm[i] = NoBuffer) /\ ~srmAllocated /\ ~job /\ locked
        BY <1>1, <1>4, <2>1 DEF PhaseInv, MayAllocate
      <3>2. Len(out) = 0 /\ SrmMax \in Nat
        BY <3>1, SrmAssumption
      <3>3. Given(0) /\ \A i \in SrmBufs : ~srm[i].used /\ ~srm[i].useAfterFree
        BY <3>1, <3>2, Entries DEF Given
      <3>4. op'.index = 1
        BY <1>4, <2>1
      <3> QED BY <1>1, <1>2, <1>7, <2>1, <3>1, <3>2, <3>3, <3>4 DEF PhaseInv
    <2>2. CASE op'.at = "take"
      BY <1>1, <1>2, <1>7, <2>2 DEF PhaseInv
    <2> QED BY <1>4, <2>1, <2>2
  <1>9. CountInv'
    BY <1>1, <1>2, <1>4 DEF CountInv, SrmPlaces, Out
  <1>10. UserInv'
    BY <1>1, <1>2, <1>4 DEF UserInv
  <1> QED BY <1>5, <1>6, <1>8, <1>9, <1>10


LEMMA SrmAllocatesKeeps == ASSUME SrmInv, SrmAllocates PROVE SrmInv'
  <1> USE DEF SrmInv
  <1>1. /\ op.at = "alloc" /\ op.index <= SrmMax /\ system # {} /\ OpShape /\ SrmTypes
        /\ UNCHANGED <<job, locked, srmAllocated, srmHeld>>
    BY DEF SrmAllocates
  <1>2. PICK b \in SrmBufs : b = Min(system) /\ b \in system
    <2>1. system \subseteq SrmBufs /\ SrmBufs \subseteq Nat
      BY <1>1, Entries DEF SrmTypes
    <2> QED BY <1>1, <2>1, MinIn
  <1>3. PICK i \in SrmBufs : i = op.index
    BY <1>1, Entries DEF OpShape
  <1>4. /\ srm' = [srm EXCEPT ![i].buffer = b] /\ out' = Append(out, b) /\ system' = system \ {b}
        /\ op' = [op EXCEPT !.index = @ + 1]
    BY <1>2, <1>3 DEF SrmAllocates
  <1>5. /\ DOMAIN op' = DOMAIN Idle /\ op'.client = op.client /\ op'.want = op.want
        /\ op'.tooLarge = op.tooLarge /\ op'.at = "alloc" /\ op'.index = i + 1
    BY <1>1, <1>3, <1>4, OpFields DEF OpShape
  <1>6. OpShape'
    BY <1>1, <1>3, <1>5, Entries DEF OpShape, SrmPlaces
  <1>7. /\ Given(0) /\ Len(out) = i - 1 /\ ~srmAllocated /\ ~job /\ locked
        /\ \A k \in SrmBufs : ~srm[k].used /\ ~srm[k].useAfterFree
    BY <1>1, <1>3 DEF PhaseInv
  <1>8. b \notin Out /\ IsInjective(out) /\ out \in Seq(SrmBufs)
    BY <1>2 DEF SystemInv, SrmTypes
  <1>9. /\ out' \in Seq(SrmBufs) /\ IsInjective(out') /\ Out' = Out \cup {b} /\ Len(out') = i
    <2>1. /\ Append(out, b) \in Seq(SrmBufs) /\ IsInjective(Append(out, b))
          /\ ToSet(Append(out, b)) = ToSet(out) \cup {b} /\ Len(Append(out, b)) = Len(out) + 1
      BY ONLY <1>8, AppendOf DEF Out
    <2> QED BY <1>3, <1>4, <1>7, <2>1, Entries DEF Out
  <1>10. out'[i] = b /\ \A k \in 1..(i - 1) : out'[k] = out[k]
    BY <1>4, <1>7, <1>8, Entries
  <1>11. /\ srm'[i].buffer = b /\ ~srm'[i].used /\ ~srm'[i].useAfterFree /\ srm'[i] \in BufSet
         /\ \A k \in SrmBufs : k # i => srm'[k] = srm[k]
    <2>1. srm[i] \in BufSet /\ srm'[i] = [srm[i] EXCEPT !.buffer = b]
      BY <1>1, <1>4 DEF SrmTypes
    <2>2. srm'[i] \in BufSet /\ srm'[i].buffer = b
      BY <2>1 DEF BufSet
    <2>3. srm'[i].used = srm[i].used /\ srm'[i].useAfterFree = srm[i].useAfterFree
      BY <2>1 DEF BufSet
    <2>4. \A k \in SrmBufs : k # i => srm'[k] = srm[k]
      BY <1>1, <1>4 DEF SrmTypes
    <2> QED BY <1>7, <2>2, <2>3, <2>4
  <1>12. SrmTypes'
    <2>1. srm' \in [SrmBufs -> BufSet]
      <3>1. \A k \in SrmBufs : srm'[k] \in BufSet
        BY <1>1, <1>11, Entries
      <3>2. srm' = [k \in SrmBufs |-> srm'[k]]
        BY <1>1, <1>4 DEF SrmTypes
      <3> QED BY <3>1, <3>2
    <2> QED BY <1>1, <1>4, <1>9, <2>1 DEF SrmTypes
  <1>13. Given(0)'
    <2>1. \A k \in 1..i : srm'[0 + k].buffer = out'[k] /\ ~srm'[0 + k].useAfterFree
      <3> SUFFICES ASSUME NEW k \in 1..i PROVE srm'[k].buffer = out'[k] /\ ~srm'[k].useAfterFree
        OBVIOUS
      <3>1. k \in SrmBufs
        BY <1>1, <1>3, Entries
      <3>2. k # i => k \in 1..(i - 1) /\ srm[0 + k].buffer = out[k] /\ 0 + k = k
        BY <1>3, <1>7, Entries, <1>1 DEF Given
      <3> QED BY <1>7, <1>10, <1>11, <3>1, <3>2
    <2>2. \A k \in SrmBufs : k > i => srm'[k] = NoBuffer
      <3>1. \A k \in SrmBufs : k > i => k > 0 + Len(out) /\ k # i
        BY <1>1, <1>3, <1>7, Entries
      <3> QED BY <1>7, <1>11, <3>1 DEF Given
    <2>3. 0 + i = i /\ i <= SrmMax
      BY <1>1, <1>3, Entries
    <2> QED BY <1>9, <2>1, <2>2, <2>3 DEF Given
  <1>14. SystemInv'
    <2>1. \A k \in SrmBufs : srm[k].buffer # b
      <3> SUFFICES ASSUME NEW k \in SrmBufs, srm[k].buffer = b PROVE FALSE
        OBVIOUS
      <3>1. srm[k] # NoBuffer
        BY <1>1, <1>2, Entries
      <3>2. k \in 1..Len(out) /\ 0 + k = k
        BY <1>1, <1>7, <3>1, Entries DEF Given
      <3>3. srm[k].buffer \in Out
        BY <1>1, <1>7, <3>2, Entries DEF Given
      <3> QED BY <1>8, <3>3
    <2>2. system' \cap Out' = {}
      BY <1>4, <1>9 DEF SystemInv
    <2>3. \A j, k \in SrmBufs : srm'[j].buffer = srm'[k].buffer /\ srm'[j].buffer # None => j = k
      BY <1>11, <2>1 DEF SystemInv
    <2>4. \A k \in SrmBufs : ~srm'[k].used /\ ~srm'[k].useAfterFree
      BY <1>7, <1>11
    <2> QED BY <1>9, <2>2, <2>3, <2>4 DEF SystemInv
  <1>15. PhaseInv'
    <2>1. \A k \in SrmBufs : ~srm'[k].used /\ ~srm'[k].useAfterFree
      BY <1>7, <1>11
    <2>2. Len(out') = op'.index - 1
      BY <1>5, <1>9, Entries, <1>1
    <2> QED BY <1>1, <1>5, <1>7, <1>13, <2>1, <2>2 DEF PhaseInv
  <1>16. CountInv'
    <2>1. system' \cup Out' = system \cup Out
      BY <1>2, <1>4, <1>9
    <2> QED BY <1>1, <1>7, <2>1 DEF CountInv
  <1>17. UserInv'
    <2>1. {k \in SrmBufs : srm'[k].used} = {} /\ {k \in SrmBufs : srm[k].used} = {}
      BY <1>7, <1>11
    <2>2. {srm'[k].buffer : k \in {k \in SrmBufs : srm'[k].used}}
            = {srm[k].buffer : k \in {k \in SrmBufs : srm[k].used}}
      BY <2>1
    <2> QED BY <1>1, <1>5, <2>2 DEF UserInv
  <1> QED BY <1>6, <1>12, <1>14, <1>15, <1>16, <1>17

LEMMA SrmHasAllKeeps == ASSUME SrmInv, SrmHasAll PROVE SrmInv'
  <1> USE DEF SrmInv
  <1>1. /\ op.at = "alloc" /\ op.index > SrmMax /\ srmAllocated' = TRUE
        /\ op' = [op EXCEPT !.at = "take"] /\ OpShape /\ SrmTypes
        /\ UNCHANGED <<job, locked, srm, system, out, srmHeld>>
    BY DEF SrmHasAll
  <1>2. /\ DOMAIN op' = DOMAIN Idle /\ op'.client = op.client /\ op'.want = op.want
        /\ op'.tooLarge = op.tooLarge /\ op'.at = "take" /\ op'.index = op.index
    BY <1>1, OpFields DEF OpShape
  <1>3. OpShape'
    BY <1>1, <1>2 DEF OpShape, SrmPlaces
  <1>4. SrmTypes' /\ SystemInv'
    BY <1>1 DEF SrmTypes, SystemInv, Out
  <1>5. Given(0) /\ Len(out) = op.index - 1 /\ ~job
    BY <1>1 DEF PhaseInv
  <1>6. PhaseInv'
    <2>1. Given(0)' /\ 0 \in 0..SrmMax
      BY <1>1, <1>5, Entries DEF Given
    <2> QED BY <1>1, <1>2, <1>5, <2>1 DEF PhaseInv
  <1>7. out # <<>>
    BY <1>1, <1>5, Entries DEF OpShape
  <1>8. CountInv'
    BY <1>1, <1>2, <1>7 DEF CountInv, SrmPlaces, Out
  <1>9. UserInv'
    BY <1>1, <1>2 DEF UserInv
  <1> QED BY <1>3, <1>4, <1>6, <1>8, <1>9


(* The first of the buffers that are out goes back to the system. *)
LEMMA FirstGoesBack ==
    ASSUME SrmTypes, SystemInv, out # <<>>, GiveBack(out[1])
    PROVE  /\ out' = Tail(out) /\ out' \in Seq(SrmBufs) /\ Len(out') = Len(out) - 1
           /\ \A k \in 1..Len(out') : k + 1 \in 1..Len(out) /\ out'[k] = out[k + 1]
           /\ IsInjective(out') /\ Out' = Out \ {out[1]} /\ system' = system \cup {out[1]}
           /\ system' \subseteq SrmBufs /\ system' \cap Out' = {} /\ system' \cup Out' = system \cup Out
           /\ Len(out) >= 1 /\ out[1] \in SrmBufs
  <1>1. out \in Seq(SrmBufs) /\ IsInjective(out) /\ system \subseteq SrmBufs
    BY DEF SrmTypes, SystemInv
  <1>2. out' = Tail(out)
    BY <1>1, FirstRemoved DEF GiveBack
  <1>3. /\ Head(out) \in ToSet(out) /\ Head(out) \in SrmBufs /\ Head(out) = out[1]
        /\ Tail(out) \in Seq(SrmBufs) /\ IsInjective(Tail(out))
        /\ ToSet(Tail(out)) = ToSet(out) \ {Head(out)} /\ Len(Tail(out)) = Len(out) - 1
    BY ONLY <1>1, out # <<>>, TailOf
  <1>4. /\ Len(out) \in Nat /\ Len(out) >= 1
        /\ \A k \in 1..Len(Tail(out)) : k + 1 \in 1..Len(out) /\ Tail(out)[k] = out[k + 1]
    BY <1>1
  <1>5. system' = system \cup {out[1]} /\ Out' = Out \ {out[1]} /\ out[1] \in Out
    BY <1>2, <1>3 DEF GiveBack, Out
  <1> QED BY <1>1, <1>2, <1>3, <1>4, <1>5 DEF SystemInv

LEMMA SrmNoMoreKeeps == ASSUME SrmInv, SrmNoMore PROVE SrmInv' /\ out' = Tail(out)
  <1> USE DEF SrmInv
  <1>1. /\ op.at = "alloc" /\ system = {} /\ locked' = FALSE /\ srmAllocated' = TRUE
        /\ GiveBack(srm[1].buffer) /\ srm' = [srm EXCEPT ![1] = FirstAfterFree(srm[1])]
        /\ op' = [op EXCEPT !.at = "take"] /\ OpShape /\ SrmTypes /\ UNCHANGED <<job, srmHeld>>
    BY DEF SrmNoMore
  <1>2. /\ Given(0) /\ ~job
        /\ \A i \in SrmBufs : ~srm[i].used /\ ~srm[i].useAfterFree
    BY <1>1 DEF PhaseInv
  <1>3. PICK n \in SrmCounts : system \cup Out = 1..n
    BY DEF CountInv
  <1>4. n \in 1..SrmMax /\ Out = 1..n /\ 1 \in Out
    BY <1>1, <1>3, SrmAssumption
  <1>5. out # <<>> /\ srm[1].buffer = out[1]
    <2>1. Len(out) >= 1
      BY <1>1, <1>4, Entries
    <2>2. 1 \in 1..Len(out) /\ 0 + 1 = 1
      BY <1>1, <2>1, Entries
    <2> QED BY <1>2, <2>1, <2>2 DEF Given
  <1>6. /\ out' = Tail(out) /\ out' \in Seq(SrmBufs) /\ Len(out') = Len(out) - 1
        /\ \A k \in 1..Len(out') : k + 1 \in 1..Len(out) /\ out'[k] = out[k + 1]
        /\ IsInjective(out') /\ system' \subseteq SrmBufs /\ system' \cap Out' = {}
        /\ system' \cup Out' = 1..n /\ Len(out) >= 1 /\ out[1] \in SrmBufs
    BY <1>1, <1>3, <1>5, FirstGoesBack
  <1>7. /\ DOMAIN op' = DOMAIN Idle /\ op'.client = op.client /\ op'.want = op.want
        /\ op'.tooLarge = op.tooLarge /\ op'.at = "take" /\ op'.index = op.index
    BY <1>1, OpFields DEF OpShape
  <1>8. OpShape'
    BY <1>1, <1>7 DEF OpShape, SrmPlaces
  <1>9. /\ srm'[1] \in BufSet /\ ~srm'[1].used
        /\ \/ srm'[1].buffer = None /\ ~srm'[1].useAfterFree
           \/ srm'[1].buffer = srm[1].buffer /\ srm'[1].useAfterFree
        /\ \A i \in SrmBufs : i # 1 => srm'[i] = srm[i]
    <2>1. srm'[1] = FirstAfterFree(srm[1]) /\ srm[1] \in BufSet
          /\ \A i \in SrmBufs : i # 1 => srm'[i] = srm[i]
      BY <1>1, Entries DEF SrmTypes
    <2>2. ~srm[1].used /\ ~srm[1].useAfterFree
      BY <1>1, <1>2, Entries
    <2>3. CASE full # None
      <3>1. srm'[1] = [srm[1] EXCEPT !.useAfterFree = TRUE]
        BY <2>1, <2>3 DEF FirstAfterFree
      <3>2. srm'[1] \in BufSet /\ srm'[1].used = srm[1].used /\ srm'[1].buffer = srm[1].buffer
            /\ srm'[1].useAfterFree = TRUE
        BY <2>1, <3>1 DEF BufSet
      <3> QED BY <2>1, <2>2, <3>2
    <2>4. CASE full = None
      <3>1. srm'[1] = [srm[1] EXCEPT !.buffer = None]
        BY <2>1, <2>4 DEF FirstAfterFree
      <3>2. srm'[1] \in BufSet /\ srm'[1].used = srm[1].used /\ srm'[1].buffer = None
            /\ srm'[1].useAfterFree = srm[1].useAfterFree
        BY <2>1, <3>1 DEF BufSet
      <3> QED BY <2>1, <2>2, <3>2
    <2> QED BY <2>3, <2>4
  <1>10. SrmTypes'
    <2>1. srm' \in [SrmBufs -> BufSet]
      <3>1. \A k \in SrmBufs : srm'[k] \in BufSet
        BY <1>1, <1>9, Entries
      <3>2. srm' = [k \in SrmBufs |-> srm'[k]]
        BY <1>1 DEF SrmTypes
      <3> QED BY <3>1, <3>2
    <2> QED BY <1>1, <1>6, <2>1 DEF SrmTypes
  <1>11. SystemInv'
    <2>1. \A i \in SrmBufs : srm'[i].buffer \in {srm[i].buffer, None} /\ ~srm'[i].used
      BY <1>2, <1>9
    <2>2. \A i \in SrmBufs : srm'[i].useAfterFree => i = 1
      BY <1>2, <1>9
    <2>3. srm'[1].useAfterFree => srm'[1].buffer # None
      BY <1>1, <1>5, <1>6, <1>9, Entries
    <2>4. \A i, j \in SrmBufs : srm'[i].buffer = srm'[j].buffer /\ srm'[i].buffer # None => i = j
      BY <2>1 DEF SystemInv
    <2> QED BY <1>6, <2>1, <2>2, <2>3, <2>4 DEF SystemInv
  <1>12. Given(1)'
    <2>1. 1 + Len(out') <= SrmMax
      BY <1>1, <1>2, <1>6, Entries DEF Given
    <2>2. ASSUME NEW k \in 1..Len(out')
          PROVE  srm'[1 + k].buffer = out'[k] /\ ~srm'[1 + k].useAfterFree
      <3>1. 1 + k = k + 1 /\ 0 + (k + 1) = k + 1 /\ k + 1 \in 1..Len(out) /\ k + 1 # 1
        BY <1>6
      <3>2. k + 1 \in SrmBufs
        BY <1>1, <1>2, <3>1, Entries DEF Given
      <3>3. srm[k + 1].buffer = out[k + 1]
        BY <1>2, <3>1 DEF Given
      <3> QED BY <1>2, <1>6, <1>9, <3>1, <3>2, <3>3
    <2>3. ASSUME NEW i \in SrmBufs, i > 1 + Len(out') PROVE srm'[i] = NoBuffer
      <3>1. i > 0 + Len(out) /\ i # 1
        BY <1>1, <1>6, <2>3, Entries
      <3> QED BY <1>2, <1>9, <3>1 DEF Given
    <2>4. \A i \in 1..1 : srm'[i].buffer = None \/ srm'[i].useAfterFree
      <3>1. \A i \in 1..1 : i = 1
        OBVIOUS
      <3> QED BY <1>9, <3>1
    <2> QED BY <2>1, <2>2, <2>3, <2>4 DEF Given
  <1>13. PhaseInv'
    <2>1. 1 \in 0..SrmMax /\ ~job'
      BY <1>1, <1>2, SrmAssumption
    <2> QED BY <1>1, <1>7, <1>12, <2>1 DEF PhaseInv
  <1>14. CountInv'
    <2>1. ASSUME n # 1 PROVE out' # <<>>
      <3>1. 2 \in Out /\ 1 # 2
        BY <1>4, <2>1
      <3>2. PICK i \in 1..Len(out), j \in 1..Len(out) : out[i] = 1 /\ out[j] = 2
        BY <1>1, <1>4, <3>1, Entries
      <3>3. Len(out') >= 1
        BY <1>1, <1>6, <3>2, Entries
      <3> QED BY <3>3
    <2> QED BY <1>6, <1>7, <2>1 DEF CountInv, SrmPlaces
  <1>15. UserInv'
    <2>1. {k \in SrmBufs : srm'[k].used} = {} /\ {k \in SrmBufs : srm[k].used} = {}
      BY <1>2, <1>9
    <2>2. {srm'[k].buffer : k \in {k \in SrmBufs : srm'[k].used}}
            = {srm[k].buffer : k \in {k \in SrmBufs : srm[k].used}}
      BY <2>1
    <2>3. srmHeld' = srmHeld /\ srmHeld[op.client] = {}
      BY <1>1 DEF UserInv
    <2>4. op'.client = op.client
      BY <1>7
    <2>5. {srm'[k].buffer : k \in {k \in SrmBufs : srm'[k].used}} = UNION {srmHeld'[c] : c \in Clients}
      BY <2>2, <2>3 DEF UserInv
    <2>6. \A c, d \in Clients : c # d => srmHeld'[c] \cap srmHeld'[d] = {}
      BY <2>3 DEF UserInv
    <2> QED BY <2>3, <2>4, <2>5, <2>6 DEF UserInv
  <1> QED BY <1>6, <1>8, <1>10, <1>11, <1>13, <1>14, <1>15


(* With no buffer in use, and none to be had, there is just the one that was
   given back. *)
LEMMA NoneLeft ==
    ASSUME SrmInv, srmAllocated, op.at # "srmFree", Unused = {}, \A i \in SrmBufs : ~srm[i].used,
           NEW n, n = 1 \/ out # <<>>
    PROVE  n = 1
  <1> USE DEF SrmInv
  <1> SUFFICES ASSUME out # <<>> PROVE FALSE
    OBVIOUS
  <1>1. PICK lo \in 0..SrmMax : Given(lo)
    BY DEF PhaseInv
  <1>2. 1 \in 1..Len(out) /\ lo + 1 \in SrmBufs
    <2>1. Len(out) \in Nat /\ Len(out) # 0
      BY DEF SrmTypes
    <2> QED BY <1>1, <2>1, Entries DEF Given
  <1>3. srm[lo + 1].buffer = out[1] /\ out[1] # None
    BY <1>1, <1>2, Entries DEF Given
  <1>4. lo + 1 \in Unused
    BY <1>2, <1>3 DEF Unused
  <1> QED BY <1>4

(* Users come and go; where the buffers are does not change. *)
LEMMA UsersChange ==
    ASSUME SrmInv, UNCHANGED <<job, locked, srmAllocated, system, out>>, OpShape',
           op.at \notin {"alloc", "srmFree"}, op'.at \notin {"alloc", "sleep"},
           srm' \in [SrmBufs -> BufSet], srmHeld' \in [Clients -> SUBSET SrmBufs],
           \A i \in SrmBufs : /\ srm'[i].buffer = srm[i].buffer
                              /\ srm'[i].useAfterFree = srm[i].useAfterFree
                              /\ srm'[i].used => srm[i].buffer # None
                              /\ srm[i] = NoBuffer => srm'[i] = srm[i],
           op'.at = "srmFree" => /\ srmAllocated /\ (\A i \in SrmBufs : ~srm'[i].used)
                                 /\ op'.index = 1,
           UserInv',
           \A n \in SrmCounts : srmAllocated /\ op'.at \notin SrmPlaces /\ (n = 1 \/ out # <<>>)
                                  => n = 1 \/ \E i \in SrmBufs : srm'[i].used
    PROVE  SrmInv'
  <1> USE DEF SrmInv
  <1>1. SrmTypes' /\ SystemInv'
    BY DEF SrmTypes, SystemInv, Out
  <1>2. ASSUME NEW lo \in 0..SrmMax, Given(lo) PROVE Given(lo)'
    <2>1. \A k \in 1..Len(out) : lo + k \in SrmBufs
      BY <1>2, Entries DEF Given
    <2>2. \A i \in 1..lo : i \in SrmBufs
      BY Entries
    <2> QED BY <1>2, <2>1, <2>2 DEF Given
  <1>3. PhaseInv'
    <2>1. ~srmAllocated' /\ op'.at # "alloc" => out' = <<>> /\ \A i \in SrmBufs : srm'[i] = NoBuffer
      BY DEF PhaseInv
    <2>2. srmAllocated' => ~job' /\ \E lo \in 0..SrmMax : Given(lo)'
      BY <1>2 DEF PhaseInv
    <2>3. op'.at = "srmFree" => \A i \in SrmBufs : ~(i < op'.index)
      BY Entries
    <2> QED BY <2>1, <2>2, <2>3 DEF PhaseInv
  <1>4. CountInv'
    <2>1. PICK n \in SrmCounts : /\ system \cup Out = 1..n
                                 /\ srmAllocated => n = 1 \/ out # <<>>
      BY DEF CountInv
    <2> QED BY <2>1 DEF CountInv, Out
  <1> QED BY <1>1, <1>3, <1>4

LEMMA SrmTakesKeeps == ASSUME SrmInv, SrmTakes PROVE SrmInv'
  <1> USE DEF SrmInv
  <1>1. op.at = "take" /\ OpShape /\ SrmTypes /\ UNCHANGED <<job, locked, srmAllocated, system, out>>
    BY DEF SrmTakes
  <1>2. PICK taken : taken = Topmost(op.want)
    OBVIOUS
  <1>3. /\ taken \subseteq Unused /\ taken \subseteq SrmBufs
        /\ taken = {} => Unused = {}
    <2>1. op.want \in Nat /\ SrmMax \in Nat
      BY <1>1, Entries DEF OpShape
    <2>2. taken \subseteq Unused
      BY <1>2 DEF Topmost
    <2> QED BY <1>2, <2>1, <2>2, OneIsTaken DEF Unused
  <1>4. \A i \in taken : srm[i].buffer # None /\ srm[i] # NoBuffer /\ ~srm[i].used
    BY <1>1, <1>3, Entries DEF Unused
  <1>5. taken # {} => srmAllocated
    BY <1>1, <1>3, <1>4 DEF PhaseInv
  <1>6. srmHeld[op.client] = {} /\ op.client \in Clients
    BY <1>1 DEF UserInv, OpShape, SrmPlaces
  <1>7. CASE op.tooLarge
    <2>1. /\ UNCHANGED <<srm, srmHeld>>
          /\ op' = IF taken = {} \/ \E i \in SrmBufs : srm[i].used
                   THEN Idle ELSE [op EXCEPT !.at = "srmFree", !.index = 1]
      BY <1>2, <1>7 DEF SrmTakes, GivesUpBuffer
    <2>2. CASE op' = Idle /\ (taken = {} \/ \E i \in SrmBufs : srm[i].used)
      <3>1. OpShape' /\ op'.at = "none"
        BY ONLY <2>2, IdleShape DEF OpShape, SrmPlaces
      <3>2. UserInv'
        BY <2>1, <3>1 DEF UserInv
      <3>3. ASSUME NEW n \in SrmCounts, srmAllocated, n = 1 \/ out # <<>>
            PROVE  n = 1 \/ \E i \in SrmBufs : srm'[i].used
        BY <1>1, <1>3, <2>1, <2>2, <3>3, NoneLeft
      <3> QED BY <1>1, <2>1, <3>1, <3>2, <3>3, UsersChange DEF SrmTypes, SystemInv
    <2>3. CASE /\ op' = [op EXCEPT !.at = "srmFree", !.index = 1]
               /\ taken # {} /\ \A i \in SrmBufs : ~srm[i].used
      <3>1. /\ DOMAIN op' = DOMAIN Idle /\ op'.client = op.client /\ op'.want = op.want
            /\ op'.tooLarge = op.tooLarge /\ op'.at = "srmFree" /\ op'.index = 1
        BY <1>1, <2>3, OpFields DEF OpShape
      <3>2. OpShape'
        BY <1>1, <3>1, SrmAssumption DEF OpShape, SrmPlaces
      <3>3. UserInv'
        BY <2>1, <3>1 DEF UserInv
      <3> QED BY <1>1, <1>5, <2>1, <2>3, <3>1, <3>2, <3>3, UsersChange DEF SrmTypes, SystemInv, SrmPlaces
    <2> QED BY <2>1, <2>2, <2>3
  <1>8. CASE ~op.tooLarge
    <2>1. /\ srm' = [i \in SrmBufs |-> IF i \in taken THEN [srm[i] EXCEPT !.used = TRUE] ELSE srm[i]]
          /\ srmHeld' = [srmHeld EXCEPT ![op.client] = {srm[i].buffer : i \in taken}]
          /\ op' = Idle
      BY <1>2, <1>8 DEF SrmTakes
    <2>2. OpShape' /\ op'.at = "none"
      BY ONLY <2>1, IdleShape DEF OpShape, SrmPlaces
    <2>3. \A i \in SrmBufs : /\ srm'[i] \in BufSet /\ srm'[i].buffer = srm[i].buffer
                             /\ srm'[i].useAfterFree = srm[i].useAfterFree
                             /\ (srm'[i].used <=> srm[i].used \/ i \in taken)
                             /\ srm[i] = NoBuffer => srm'[i] = srm[i]
      <3> SUFFICES ASSUME NEW i \in SrmBufs
                   PROVE  /\ srm'[i] \in BufSet /\ srm'[i].buffer = srm[i].buffer
                          /\ srm'[i].useAfterFree = srm[i].useAfterFree
                          /\ (srm'[i].used <=> srm[i].used \/ i \in taken)
                          /\ srm[i] = NoBuffer => srm'[i] = srm[i]
        OBVIOUS
      <3>1. srm[i] \in BufSet
        BY <1>1, Entries
      <3>2. CASE i \in taken
        <4>1. srm'[i] = [srm[i] EXCEPT !.used = TRUE]
          BY <2>1, <3>2
        <4> QED BY <1>4, <3>1, <3>2, <4>1 DEF BufSet
      <3>3. CASE i \notin taken
        BY <2>1, <3>1, <3>3
      <3> QED BY <3>2, <3>3
    <2>4. srm' \in [SrmBufs -> BufSet]
      <3>1. srm' = [k \in SrmBufs |-> srm'[k]]
        BY <2>1
      <3> QED BY <2>3, <3>1
    <2>5. /\ srmHeld' \in [Clients -> SUBSET SrmBufs] /\ srmHeld'[op.client] = {srm[i].buffer : i \in taken}
          /\ \A c \in Clients : c # op.client => srmHeld'[c] = srmHeld[c]
      <3>1. {srm[i].buffer : i \in taken} \subseteq SrmBufs
        BY <1>1, <1>3, <1>4, Entries
      <3> QED BY <1>1, <1>6, <2>1, <3>1 DEF SrmTypes
    <2>6. UserInv'
      <3>1. {srm'[i].buffer : i \in {i \in SrmBufs : srm'[i].used}}
              = {srm[i].buffer : i \in {i \in SrmBufs : srm[i].used}} \cup {srm[i].buffer : i \in taken}
        BY <1>3, <2>3
      <3>2. UNION {srmHeld'[c] : c \in Clients}
              = (UNION {srmHeld[c] : c \in Clients}) \cup {srm[i].buffer : i \in taken}
        BY <1>6, <2>5
      <3>3. ASSUME NEW c \in Clients, NEW b \in srmHeld[c], b \in {srm[i].buffer : i \in taken} PROVE FALSE
        <4>1. PICK i \in SrmBufs : i \in taken /\ srm[i].buffer = b
          BY <1>3, <3>3
        <4>2. PICK j \in SrmBufs : srm[j].used /\ srm[j].buffer = b
          BY <3>3 DEF UserInv
        <4> QED BY <1>4, <4>1, <4>2 DEF SystemInv
      <3>4. \A c, d \in Clients : c # d => srmHeld'[c] \cap srmHeld'[d] = {}
        BY <2>5, <3>3 DEF UserInv
      <3> QED BY <2>2, <3>1, <3>2, <3>4 DEF UserInv
    <2>7. ASSUME NEW n \in SrmCounts, srmAllocated, n = 1 \/ out # <<>>
          PROVE  n = 1 \/ \E i \in SrmBufs : srm'[i].used
      <3>1. CASE taken # {}
        BY <1>3, <2>3, <3>1
      <3>2. CASE \E i \in SrmBufs : srm[i].used
        BY <2>3, <3>2
      <3>3. CASE taken = {} /\ \A i \in SrmBufs : ~srm[i].used
        BY <1>1, <1>3, <2>7, <3>3, NoneLeft
      <3> QED BY <3>1, <3>2, <3>3
    <2>8. \A i \in SrmBufs : srm'[i].used => srm[i].buffer # None
      BY <1>4, <2>3 DEF SystemInv
    <2> QED BY <1>1, <2>2, <2>3, <2>4, <2>5, <2>6, <2>7, <2>8, UsersChange
  <1> QED BY <1>1, <1>7, <1>8 DEF OpShape


LEMMA SrmFreeKeeps == ASSUME SrmInv, NEW c \in Clients, SrmFree(c) PROVE SrmInv'
  <1> USE DEF SrmInv
  <1>1. /\ op = Idle /\ srmHeld[c] # {} /\ SrmTypes /\ UNCHANGED <<job, locked, srmAllocated, system, out>>
        /\ srm' = [i \in SrmBufs |-> IF srm[i].buffer \in srmHeld[c] THEN [srm[i] EXCEPT !.used = FALSE]
                                     ELSE srm[i]]
        /\ srmHeld' = [srmHeld EXCEPT ![c] = {}]
        /\ op' = IF \E i \in SrmBufs : srm'[i].used THEN Idle
                 ELSE [Idle EXCEPT !.client = c, !.at = "srmFree", !.index = 1]
    BY DEF SrmFree
  <1>2. srmHeld[c] \subseteq SrmBufs /\ None \notin srmHeld[c] /\ op.at = "none"
    BY <1>1, Entries, IdleFields DEF SrmTypes
  <1>3. \A i \in SrmBufs : /\ srm'[i] \in BufSet /\ srm'[i].buffer = srm[i].buffer
                           /\ srm'[i].useAfterFree = srm[i].useAfterFree
                           /\ (srm'[i].used <=> srm[i].used /\ srm[i].buffer \notin srmHeld[c])
                           /\ srm[i] = NoBuffer => srm'[i] = srm[i]
    <2> SUFFICES ASSUME NEW i \in SrmBufs
                 PROVE  /\ srm'[i] \in BufSet /\ srm'[i].buffer = srm[i].buffer
                        /\ srm'[i].useAfterFree = srm[i].useAfterFree
                        /\ (srm'[i].used <=> srm[i].used /\ srm[i].buffer \notin srmHeld[c])
                        /\ srm[i] = NoBuffer => srm'[i] = srm[i]
      OBVIOUS
    <2>1. srm[i] \in BufSet /\ (srm[i] = NoBuffer => srm[i].buffer = None)
      BY <1>1, Entries
    <2>2. CASE srm[i].buffer \in srmHeld[c]
      <3>1. srm'[i] = [srm[i] EXCEPT !.used = FALSE]
        BY <1>1, <2>2
      <3> QED BY <1>2, <2>1, <2>2, <3>1 DEF BufSet
    <2>3. CASE srm[i].buffer \notin srmHeld[c]
      BY <1>1, <2>1, <2>3
    <2> QED BY <2>2, <2>3
  <1>4. srm' \in [SrmBufs -> BufSet]
    <2>1. srm' = [k \in SrmBufs |-> srm'[k]]
      BY <1>1
    <2> QED BY <1>3, <2>1
  <1>5. /\ srmHeld' \in [Clients -> SUBSET SrmBufs] /\ srmHeld'[c] = {}
        /\ \A d \in Clients : d # c => srmHeld'[d] = srmHeld[d]
    BY <1>1 DEF SrmTypes
  <1>6. {srm'[i].buffer : i \in {i \in SrmBufs : srm'[i].used}} = UNION {srmHeld'[d] : d \in Clients}
    <2>1. {srm'[i].buffer : i \in {i \in SrmBufs : srm'[i].used}}
            = {srm[i].buffer : i \in {i \in SrmBufs : srm[i].used}} \ srmHeld[c]
      BY <1>3
    <2>2. UNION {srmHeld'[d] : d \in Clients} = (UNION {srmHeld[d] : d \in Clients}) \ srmHeld[c]
      <3>1. \A d \in Clients : d # c => srmHeld[d] \cap srmHeld[c] = {}
        BY DEF UserInv
      <3> QED BY <1>5, <3>1
    <2> QED BY <2>1, <2>2 DEF UserInv
  <1>7. \A d, e \in Clients : d # e => srmHeld'[d] \cap srmHeld'[e] = {}
    BY <1>5 DEF UserInv
  <1>8. srmAllocated
    <2>1. PICK i \in SrmBufs : srm[i].used
      BY <1>1 DEF UserInv
    <2>2. srm[i].buffer # None
      BY <2>1 DEF SystemInv
    <2>3. srm[i] # NoBuffer
      BY <1>1, <2>2, Entries
    <2> QED BY <1>2, <2>3 DEF PhaseInv
  <1>9. \A i \in SrmBufs : srm'[i].used => srm[i].buffer # None
    BY <1>3 DEF SystemInv
  <1>10. CASE op' = Idle /\ \E i \in SrmBufs : srm'[i].used
    <2>1. OpShape' /\ op'.at = "none"
      BY ONLY <1>10, IdleShape DEF OpShape, SrmPlaces
    <2>2. UserInv'
      BY <1>6, <1>7, <2>1 DEF UserInv
    <2> QED BY <1>1, <1>2, <1>3, <1>4, <1>5, <1>9, <1>10, <2>1, <2>2, UsersChange
  <1>11. CASE /\ op' = [Idle EXCEPT !.client = c, !.at = "srmFree", !.index = 1]
              /\ \A i \in SrmBufs : ~srm'[i].used
    <2>1. /\ DOMAIN op' = DOMAIN Idle /\ op'.client = c /\ op'.want = Idle.want
          /\ op'.tooLarge = Idle.tooLarge /\ op'.at = "srmFree" /\ op'.index = 1
      BY <1>11, OpFields
    <2>2. 1 \in 0..SrmMax + 1
      BY SrmAssumption
    <2>3. OpShape'
      BY ONLY <2>1, <2>2, IdleShape, c \in Clients DEF OpShape, SrmPlaces
    <2>4. UserInv'
      BY <1>6, <1>7, <2>1 DEF UserInv
    <2> QED BY <1>1, <1>2, <1>3, <1>4, <1>5, <1>8, <1>9, <1>11, <2>1, <2>3, <2>4, UsersChange DEF SrmPlaces
  <1> QED BY <1>1, <1>10, <1>11

LEMMA SrmFreesKeeps == ASSUME SrmInv, SrmFrees PROVE SrmInv' /\ out' \in {out, Tail(out)}
  <1> USE DEF SrmInv
  <1>1. /\ op.at = "srmFree" /\ op.index <= SrmMax /\ OpShape /\ SrmTypes
        /\ op' = [op EXCEPT !.index = @ + 1] /\ UNCHANGED <<job, locked, srmAllocated, srmHeld>>
    BY Entries DEF SrmFrees, AllFreed, OpShape
  <1>2. PICK i \in SrmBufs : i = op.index
    BY <1>1, Entries DEF OpShape
  <1>3. /\ srm' = [srm EXCEPT ![i].buffer = None, ![i].useAfterFree = FALSE]
        /\ IF srm[i].buffer # None /\ ~srm[i].useAfterFree
           THEN GiveBack(srm[i].buffer) ELSE UNCHANGED <<system, out>>
    BY <1>2 DEF SrmFrees, FreedNext
  <1>4. /\ srmAllocated /\ ~job /\ \A k \in SrmBufs : ~srm[k].used
        /\ \A k \in SrmBufs : k < i => srm[k] = NoBuffer
    BY <1>1, <1>2 DEF PhaseInv
  <1>5. srm'[i] = NoBuffer /\ \A k \in SrmBufs : k # i => srm'[k] = srm[k]
    <2>1. srm[i] \in BufSet /\ ~srm[i].used
      BY <1>1, <1>4, Entries
    <2>2. srm'[i] = [srm[i] EXCEPT !.buffer = None, !.useAfterFree = FALSE]
      BY <1>1, <1>3 DEF SrmTypes
    <2>3. \A k \in SrmBufs : k # i => srm'[k] = srm[k]
      BY <1>1, <1>3 DEF SrmTypes
    <2> QED BY <2>1, <2>2, <2>3 DEF BufSet, NoBuffer
  <1>6. /\ DOMAIN op' = DOMAIN Idle /\ op'.client = op.client /\ op'.want = op.want
        /\ op'.tooLarge = op.tooLarge /\ op'.at = "srmFree" /\ op'.index = i + 1
    BY <1>1, <1>2, OpFields DEF OpShape
  <1>7. OpShape'
    BY <1>1, <1>2, <1>6, Entries DEF OpShape, SrmPlaces
  <1>8. srm' \in [SrmBufs -> BufSet]
    <2>1. \A k \in SrmBufs : srm'[k] \in BufSet
      BY <1>1, <1>5, Entries
    <2>2. srm' = [k \in SrmBufs |-> srm'[k]]
      BY <1>1, <1>3 DEF SrmTypes
    <2> QED BY <2>1, <2>2
  <1>9. PICK lo \in 0..SrmMax : Given(lo)
    BY <1>4 DEF PhaseInv
  <1>10. lo \in Nat /\ i \in Nat /\ Len(out) \in Nat /\ i >= 1 /\ SrmMax \in Nat /\ i <= SrmMax
    BY <1>1, <1>2, Entries
  <1>11. /\ out' \in {out, Tail(out)} /\ out' \in Seq(SrmBufs) /\ IsInjective(out') /\ system' \subseteq SrmBufs
         /\ system' \cap Out' = {} /\ system' \cup Out' = system \cup Out
         /\ \E l \in 0..SrmMax : Given(l)'
    <2>1. CASE srm[i].buffer # None /\ ~srm[i].useAfterFree
      <3>1. ~(i <= lo)
        <4>1. i <= lo => i \in 1..lo
          BY <1>10
        <4> QED BY <1>9, <2>1, <4>1 DEF Given
      <3>2. ~(i > lo + Len(out))
        BY <1>1, <1>9, <2>1, Entries DEF Given
      <3>3. Len(out) >= 1 /\ 1 \in 1..Len(out) /\ lo + 1 \in SrmBufs
        BY <1>1, <1>9, <1>10, <3>1, <3>2, Entries DEF Given
      <3>4. srm[lo + 1].buffer = out[1] /\ out[1] \in SrmBufs
        BY <1>1, <1>9, <3>3, Entries DEF Given
      <3>5. i = lo + 1
        <4>1. ~(lo + 1 < i)
          BY <1>1, <1>4, <3>3, <3>4, Entries
        <4> QED BY <1>10, <3>1, <4>1
      <3>6. out # <<>> /\ GiveBack(out[1])
        BY <1>3, <2>1, <3>3, <3>4, <3>5
      <3>7. /\ out' = Tail(out) /\ out' \in Seq(SrmBufs) /\ Len(out') = Len(out) - 1
            /\ \A k \in 1..Len(out') : k + 1 \in 1..Len(out) /\ out'[k] = out[k + 1]
            /\ IsInjective(out') /\ system' \subseteq SrmBufs /\ system' \cap Out' = {}
            /\ system' \cup Out' = system \cup Out
        BY <1>1, <3>6, FirstGoesBack
      <3>8. Given(i)'
        <4>1. i + Len(out') <= SrmMax
          BY <1>9, <1>10, <3>5, <3>7 DEF Given
        <4>2. ASSUME NEW k \in 1..Len(out')
              PROVE  srm'[i + k].buffer = out'[k] /\ ~srm'[i + k].useAfterFree
          <5>1. i + k = lo + (k + 1) /\ k + 1 \in 1..Len(out) /\ i + k # i
            BY <1>10, <3>5, <3>7
          <5>2. i + k \in SrmBufs
            BY <1>1, <1>10, <4>1, Entries
          <5>3. srm[i + k].buffer = out[k + 1] /\ ~srm[i + k].useAfterFree
            BY <1>9, <5>1 DEF Given
          <5> QED BY <1>5, <3>7, <5>1, <5>2, <5>3
        <4>3. ASSUME NEW k \in 1..i PROVE srm'[k].buffer = None
          <5>1. k \in SrmBufs /\ (k = i \/ k < i)
            BY <1>1, <1>10, Entries
          <5> QED BY <1>1, <1>4, <1>5, <5>1, Entries
        <4>4. ASSUME NEW k \in SrmBufs, k > i + Len(out') PROVE srm'[k] = NoBuffer
          <5>1. k > lo + Len(out) /\ k # i
            BY <1>1, <1>10, <3>5, <3>7, <4>4, Entries
          <5> QED BY <1>5, <1>9, <5>1 DEF Given
        <4> QED BY <4>1, <4>2, <4>3, <4>4 DEF Given
      <3> QED BY <1>10, <3>7, <3>8
    <2>2. CASE ~(srm[i].buffer # None /\ ~srm[i].useAfterFree)
      <3>1. UNCHANGED <<system, out>>
        BY <1>3, <2>2
      <3>2. Given(lo)'
        <4>1. ASSUME NEW k \in 1..Len(out)
              PROVE  srm'[lo + k].buffer = out[k] /\ ~srm'[lo + k].useAfterFree
          <5>1. lo + k \in SrmBufs /\ out[k] \in SrmBufs
            BY <1>1, <1>9, Entries DEF Given
          <5>2. srm[lo + k].buffer = out[k] /\ ~srm[lo + k].useAfterFree
            BY <1>9 DEF Given
          <5>3. lo + k # i
            BY <1>1, <2>2, <5>1, <5>2, Entries
          <5> QED BY <1>5, <5>1, <5>2, <5>3
        <4>2. ASSUME NEW k \in 1..lo PROVE srm'[k].buffer = None \/ srm'[k].useAfterFree
          <5>1. k \in SrmBufs
            BY <1>1, Entries
          <5> QED BY <1>1, <1>5, <1>9, <5>1, Entries DEF Given
        <4>3. ASSUME NEW k \in SrmBufs, k > lo + Len(out) PROVE srm'[k] = NoBuffer
          BY <1>5, <1>9, <4>3 DEF Given
        <4> QED BY <1>9, <3>1, <4>1, <4>2, <4>3 DEF Given
      <3> QED BY <1>1, <3>1, <3>2 DEF SrmTypes, SystemInv, Out
    <2> QED BY <2>1, <2>2
  <1>12. \A k \in SrmBufs : ~srm'[k].used /\ srm'[k] \in {srm[k], NoBuffer}
    BY <1>1, <1>4, <1>5, Entries
  <1>13. SrmTypes'
    BY <1>1, <1>8, <1>11 DEF SrmTypes
  <1>14. SystemInv'
    <2>1. \A j, k \in SrmBufs : srm'[j].buffer = srm'[k].buffer /\ srm'[j].buffer # None => j = k
      BY <1>1, <1>12, Entries DEF SystemInv
    <2>2. \A k \in SrmBufs : srm'[k].useAfterFree => k = 1 /\ srm'[k].buffer # None
      BY <1>1, <1>12, Entries DEF SystemInv
    <2> QED BY <1>11, <1>12, <2>1, <2>2 DEF SystemInv
  <1>15. PhaseInv'
    <2>1. \A k \in SrmBufs : k < i + 1 => srm'[k] = NoBuffer
      <3>1. \A k \in SrmBufs : k < i + 1 => k = i \/ k < i
        BY <1>1, <1>10, Entries
      <3> QED BY <1>4, <1>5, <3>1
    <2> QED BY <1>1, <1>4, <1>6, <1>11, <1>12, <2>1 DEF PhaseInv
  <1>16. CountInv'
    BY <1>6, <1>11 DEF CountInv, SrmPlaces
  <1>17. UserInv'
    <2>1. {k \in SrmBufs : srm'[k].used} = {} /\ {k \in SrmBufs : srm[k].used} = {}
      BY <1>4, <1>12
    <2>2. {srm'[k].buffer : k \in {k \in SrmBufs : srm'[k].used}}
            = {srm[k].buffer : k \in {k \in SrmBufs : srm[k].used}}
      BY <2>1
    <2>3. srmHeld' = srmHeld
      BY <1>1
    <2> QED BY <1>6, <2>2, <2>3 DEF UserInv
  <1> QED BY <1>7, <1>11, <1>13, <1>14, <1>15, <1>16, <1>17

LEMMA SrmFreedKeeps == ASSUME SrmInv, SrmFreed PROVE SrmInv'
  <1> USE DEF SrmInv
  <1>1. /\ op.at = "srmFree" /\ op.index > SrmMax /\ locked' = FALSE /\ srmAllocated' = FALSE
        /\ op' = Idle /\ OpShape /\ SrmTypes /\ UNCHANGED <<job, srm, system, out, srmHeld>>
    BY DEF SrmFreed, AllFreed
  <1>2. OpShape' /\ op'.at = "none"
    <2>1. op' = Idle
      BY <1>1
    <2> QED BY ONLY <2>1, IdleShape DEF OpShape, SrmPlaces
  <1>3. \A i \in SrmBufs : srm[i] = NoBuffer
    <2>1. \A i \in SrmBufs : i < op.index
      BY <1>1, Entries DEF OpShape
    <2> QED BY <1>1, <2>1 DEF PhaseInv
  <1>4. out = <<>>
    <2>1. PICK lo \in 0..SrmMax : Given(lo)
      BY <1>1 DEF PhaseInv
    <2>2. ~(Len(out) >= 1)
      <3> SUFFICES ASSUME Len(out) >= 1 PROVE FALSE
        OBVIOUS
      <3>1. 1 \in 1..Len(out) /\ lo + 1 \in SrmBufs
        BY <1>1, <2>1, Entries DEF Given
      <3>2. srm[lo + 1].buffer = out[1] /\ out[1] # None
        BY <1>1, <2>1, <3>1, Entries DEF Given
      <3> QED BY <1>1, <1>3, <3>1, <3>2, Entries
    <2>3. out \in Seq(SrmBufs)
      BY <1>1 DEF SrmTypes
    <2> QED BY <2>2, <2>3
  <1>5. SrmTypes' /\ SystemInv'
    BY <1>1 DEF SrmTypes, SystemInv, Out
  <1>6. PhaseInv'
    BY <1>1, <1>2, <1>3, <1>4 DEF PhaseInv
  <1>7. CountInv'
    BY <1>1, <1>2 DEF CountInv, Out
  <1>8. UserInv'
    BY <1>1, <1>2 DEF UserInv
  <1> QED BY <1>2, <1>5, <1>6, <1>7, <1>8


-----------------------------------------------------------------------------
(* SRM memory: what follows                                                *)

LEMMA SrmGoesOn == ASSUME SrmInv, [Next]_vars PROVE SrmInv'
  <1>1. ASSUME Manager PROVE SrmInv'
    <2>1. UNCHANGED <<srmVars, op>>
      BY <1>1 DEF Manager, Grant, GrantTooLate, GrantChecks, GrantAnswers, Freed
    <2> QED BY <2>1 DEF SrmInv, srmVars, OpShape, SrmTypes, SystemInv, Out, PhaseInv, Given, CountInv, UserInv
  <1>2. ASSUME NEW c \in Clients, Client(c) PROVE SrmInv'
    BY <1>2, ShootKeepsSrm, SrmMallocKeeps, SrmFreeKeeps DEF Client
  <1>3. ASSUME ShootStep PROVE SrmInv'
    BY <1>3, ShootKeepsSrm
  <1>4. ASSUME SrmStep PROVE SrmInv'
    BY <1>4, SrmWakesKeeps, SrmAllocatesKeeps, SrmNoMoreKeeps, SrmHasAllKeeps, SrmTakesKeeps,
       SrmFreesKeeps, SrmFreedKeeps DEF SrmStep
  <1>5. ASSUME JobStarts \/ JobEnds PROVE SrmInv'
    BY <1>5, JobKeeps
  <1>6. ASSUME UNCHANGED vars PROVE SrmInv'
    <2>1. UNCHANGED <<srmVars, op>>
      BY <1>6 DEF vars
    <2> QED BY <2>1 DEF SrmInv, srmVars, OpShape, SrmTypes, SystemInv, Out, PhaseInv, Given, CountInv, UserInv
  <1> QED BY <1>1, <1>2, <1>3, <1>4, <1>5, <1>6 DEF Next

LEMMA SrmInvHolds == Spec => []SrmInv
  <1>1. Init => SrmInv
    BY SrmStarts
  <1>2. SrmInv /\ [Next]_vars => SrmInv'
    BY SrmGoesOn
  <1> QED BY <1>1, <1>2, PTL DEF Spec

(* With one buffer in all, it is with the system or out. *)
LEMMA OnlyOne ==
    ASSUME SrmInv, system \cup Out = 1..1
    PROVE  Cardinality(system) + Len(out) = 1
  <1> USE DEF SrmInv
  <1>1. 1..1 = {1}
    OBVIOUS
  <1>2. CASE 1 \in system
    <2>1. system = {1} /\ Out = {}
      BY <1>1, <1>2 DEF SystemInv
    <2>2. Cardinality(system) = 1
      BY <2>1, FS_Singleton
    <2>3. Len(out) = 0
      <3>1. Len(out) \in Nat /\ (Len(out) # 0 => 1 \in 1..Len(out))
        BY Entries
      <3> QED BY <2>1, <3>1, Entries
    <2> QED BY <2>2, <2>3
  <1>3. CASE 1 \notin system
    <2>1. system = {} /\ Out = {1}
      BY <1>1, <1>3
    <2>2. Cardinality(system) = 0
      BY <2>1, FS_EmptySet
    <2>3. \A k \in 1..Len(out) : out[k] = 1
      BY <2>1, Entries
    <2>4. \A j, k \in 1..Len(out) : j = k
      BY <2>3, Entries DEF SystemInv, IsInjective
    <2>5. Len(out) = 1
      <3>1. PICK n \in Nat : n = Len(out)
        BY Entries
      <3>2. PICK k \in 1..n : out[k] = 1
        BY <2>1, <3>1, Entries
      <3>3. n > 1 => 1 \in 1..n /\ 2 \in 1..n
        OBVIOUS
      <3>4. n = 1
        BY <2>4, <3>1, <3>3
      <3> QED BY <3>1, <3>4
    <2> QED BY <2>2, <2>5
  <1> QED BY <1>2, <1>3

(* Every SRM buffer that is in use belongs to one client, all of them return to
   the system when the last one is freed, none is out without somebody who will
   free it, and no picture is taken meanwhile (srm_alloc_internal,
   _srm_malloc_suite, srm_free_internal). *)
THEOREM SrmIsSafe == Spec => []SrmSafe
  <1>1. SrmInv => SrmSafe
    <2> SUFFICES ASSUME SrmInv PROVE SrmSafe
      OBVIOUS
    <2> USE DEF SrmInv
    <2>1. SrmOneUser
      BY DEF UserInv, SrmOneUser
    <2>2. op = Idle => op.at = "none"
      BY IdleFields
    <2>3. SrmReturned
      BY <2>2 DEF PhaseInv, SrmReturned
    <2>4. SrmNotStuck
      <3> SUFFICES ASSUME op = Idle, srmAllocated, \A i \in SrmBufs : ~srm[i].used
                   PROVE  Cardinality(system) + Len(out) = 1
        BY DEF SrmNotStuck
      <3>1. system \cup Out = 1..1
        BY <2>2 DEF CountInv, SrmPlaces
      <3> QED BY <3>1, OnlyOne
    <2>5. NoJobMeanwhile
      BY DEF PhaseInv, NoJobMeanwhile
    <2> QED BY <2>1, <2>3, <2>4, <2>5 DEF SrmSafe
  <1> QED BY <1>1, SrmInvHolds, PTL

(* SRM buffers are freed in the order in which they were allocated, those that
   are discarded when the last request fails too (srm_alloc_internal,
   srm_free_internal). *)
THEOREM FreedInOrderHolds == Spec => FreedInOrder
  <1>1. SrmInv /\ SrmInv' /\ [Next]_vars => [Len(out') < Len(out) => out' = Tail(out)]_vars
    <2> SUFFICES ASSUME SrmInv, SrmInv', [Next]_vars, Len(out') < Len(out) PROVE out' = Tail(out)
      OBVIOUS
    <2> USE DEF SrmInv
    <2>1. SrmTypes /\ SystemInv /\ Len(out) \in Nat /\ Len(out') \in Nat
      BY DEF SrmTypes
    <2>2. out' # out
      BY <2>1
    <2>3. SrmAllocates \/ SrmNoMore \/ SrmFrees
      BY <2>2
      DEF Next, vars, srmVars, Manager, Grant, GrantTooLate, GrantChecks, GrantAnswers, Freed, Client,
          MallocSuite, FreeSuite, SrmMalloc, SrmFree, ShootStep, AllocateResource, Answered, TimesOut,
          FreeResource, FreeReturns, SrmStep, SrmWakes, SrmHasAll, SrmTakes, SrmFreed, JobStarts, JobEnds
    <2>4. CASE SrmAllocates
      <3>1. out' = Append(out, Min(system)) /\ out \in Seq(SrmBufs)
        BY <2>1, <2>4 DEF SrmAllocates, SrmTypes
      <3>2. Len(out') = Len(out) + 1
        BY <3>1
      <3> QED BY <2>1, <3>2
    <2>5. CASE SrmNoMore \/ SrmFrees
      BY <2>2, <2>5, SrmNoMoreKeeps, SrmFreesKeeps
    <2> QED BY <2>3, <2>4, <2>5
  <1>2. Spec => [][Next]_vars
    BY PTL DEF Spec
  <1> QED BY <1>1, <1>2, SrmInvHolds, PTL DEF FreedInOrder

(* A late answer is not taken for the answer to another request, nor left
   signalled for it, and a message lives as long as somebody may use it
   (allocCBR, shoot_malloc_suite_int, _shoot_free_suite), as long as no request
   is given up between the test of timed_out and the answer in allocCBR. *)
THEOREM AnswersAreKept == Spec /\ [][InTime]_vars => []AnswersKept
  <1>1. ShootInv /\ SrmInv => AnswersKept
    <2> SUFFICES ASSUME ShootInv, SrmInv PROVE AnswersKept
      OBVIOUS
    <2> USE DEF ShootInv
    <2>1. TypeOK
      BY DEF SrmInv, ShootTypes, SrmTypes, TypeOK
    <2>2. AnswerIsMine
      <3>1. freeSem > 0 => op.at = "freeing"
        BY DEF GivenInv
      <3>2. ASSUME allocSem > 0
            PROVE  /\ op.at = "wait" /\ msg[op.msg].ret \in Existing
                   /\ size[msg[op.msg].ret] >= op.size
        <4>1. op.at = "wait" /\ op.msg \in Msgs /\ op.size \in Nat /\ size[msg[op.msg].ret] >= op.size
          BY <3>2 DEF MsgInv, OpInv, LargeEnough, ShootTypes, OpSet
        <4>2. msg[op.msg].ret \in Suites
          BY <3>2, <4>1 DEF MsgInv, ShootTypes, MsgSet
        <4>3. size[msg[op.msg].ret] \in Nat \cup {-1}
          BY <4>2 DEF ShootTypes
        <4> QED BY <4>1, <4>2, <4>3 DEF Existing
      <3> QED BY <3>1, <3>2 DEF AnswerIsMine
    <2>3. MessagesLive
      <3>1. Pending = {pending[i] : i \in DOMAIN pending}
        BY DEF Pending, ToSet
      <3>2. Pending \subseteq Msgs /\ None \notin Msgs
        BY PendingIn
      <3>3. cbr.msg \in Msgs \cup {None} /\ op.msg \in Msgs \cup {None}
        BY DEF ShootTypes, OpSet
      <3> QED BY <3>1, <3>2, <3>3 DEF MessagesLive, MsgInv
    <2> QED BY <2>1, <2>2, <2>3 DEF AnswersKept
  <1> QED BY <1>1, ShootInvHolds, SrmInvHolds, PTL
=============================================================================
