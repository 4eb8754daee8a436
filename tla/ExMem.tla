------------------------------- MODULE ExMem --------------------------------
(***************************************************************************)
(* Shooting memory, borrowed from the camera's own resource manager        *)
(* (src/exmem.c).  Every operation runs under mem_sem, so one client is in *)
(* it at a time; it talks to the manager, a task of the camera's firmware, *)
(* through callbacks and three semaphores used as event flags:             *)
(*                                                                         *)
(*   _shoot_malloc_suite, _shoot_malloc_suite_contig, _shoot_free_suite    *)
(*       a request that is not answered in 100 ms is given up, and stays   *)
(*       with the manager, which answers it when it can;                   *)
(*   _srm_malloc_suite, _srm_free_suite                                    *)
(*       a few buffers of fixed size, all taken from the system at once.   *)
(*                                                                         *)
(* _shoot_malloc, _shoot_free, _srm_malloc and _srm_free go the same ways  *)
(* for a single block.  Sizes are in units; memory is not fragmented, so a *)
(* suite is one chunk.  The manager (external) answers requests in the     *)
(* order they came, each when its size is free, and never with NULL.       *)
(*                                                                         *)
(* A definition marked "mutant" is a slip one could make in the definition *)
(* that follows it; no formula below uses it.                              *)
(***************************************************************************)
EXTENDS Integers, Sequences, FiniteSets, SequencesExt

CONSTANTS
    Clients,     \* tasks that use shooting memory
    Totals,      \* free memory at the start, in MB, one of these
    Sizes,       \* what the clients ask for; 0 is as much as there is
    Step,        \* 4 MB: backup and step of shoot_malloc_autodetect
    Preempted,   \* whether a time-out may come in the middle of allocCBR
    SrmCounts,   \* buffers the system has for SRM jobs, one of these
    SrmRequests, \* how many of them are asked for; 0 is all there are
    SrmMax,      \* SRM_MAX_BUF_COUNT_VIDEO_MODE
    MaxPending   \* bound: given-up requests pending when an operation starts

ASSUME ClientAssumption == IsFiniteSet(Clients)
ASSUME SizeAssumption == /\ Totals \cup Sizes \subseteq Nat
                         /\ Step \in Nat \ {0} /\ MaxPending \in Nat
ASSUME SrmAssumption  == /\ SrmMax \in Nat \ {0} /\ SrmCounts \subseteq 1..SrmMax
                         /\ SrmRequests \subseteq Nat
ASSUME RaceAssumption == Preempted \in BOOLEAN

None    == 0
Msgs    == 1..MaxPending + 3
Suites  == 1..Cardinality(Clients) + 4
SrmBufs == 1..SrmMax

VARIABLES
    total, free, \* shooting memory: all of it, and what the manager has
    size,        \* of each suite, or -1 for a suite that does not exist
    pending,     \* requests the manager has not answered
    msg,         \* alloc_msg_t of each request
    cbr,         \* the allocCBR in progress
    releasing,   \* suites given to FreeMemoryResource, and who waits for freeCBR
    allocSem, freeSem,   \* alloc_sem, free_sem
    full,        \* shoot_full_suite
    op,          \* the operation that holds mem_sem
    held,        \* suites of each client
    job,         \* lens_info.job_state: a picture is being taken
    locked,      \* UILOCK_SHUTTER
    srmAllocated,
    srm,         \* srm_buffers
    system,      \* SRM buffers the system has to give
    out,         \* SRM buffers it has given, in that order
    srmHeld      \* SRM buffers in the suite of each client

shootVars == <<total, free, size, pending, msg, cbr, releasing, allocSem, freeSem, full, held>>
srmVars   == <<job, locked, srmAllocated, srm, system, out, srmHeld>>
vars      == <<shootVars, srmVars, op>>

NoMsg    == [live |-> FALSE, for |-> "none", size |-> 0, timedOut |-> FALSE, ret |-> None]
NoCbr    == [msg |-> None, suite |-> None, checked |-> FALSE]
NoBuffer == [buffer |-> None, used |-> FALSE, useAfterFree |-> FALSE]

(* The operation: its client, where it is, what it was called with, and    *)
(* the local variables of the autodetection.                               *)
Idle == [client |-> None, at |-> "none", contig |-> FALSE, want |-> 0, for |-> "none",
         size |-> 0, msg |-> None, backup |-> None, max |-> 0, suite |-> None,
         index |-> 0, tooLarge |-> FALSE]

Init ==
    /\ total \in Totals /\ free = total
    /\ size = [s \in Suites |-> -1]
    /\ pending = <<>> /\ msg = [m \in Msgs |-> NoMsg] /\ cbr = NoCbr
    /\ releasing = {} /\ allocSem = 0 /\ freeSem = 0 /\ full = None
    /\ op = Idle
    /\ held = [c \in Clients |-> {}]
    /\ job = FALSE /\ locked = FALSE /\ srmAllocated = FALSE
    /\ srm = [i \in SrmBufs |-> NoBuffer]
    /\ \E n \in SrmCounts : system = 1..n
    /\ out = <<>>
    /\ srmHeld = [c \in Clients |-> {}]

-----------------------------------------------------------------------------
(* The resource manager and the callbacks it makes                         *)

NewSuite == Min({s \in Suites : size[s] = -1})

(* A request of size 0 is answered with nothing, or with all there is.     *)
(* What was given back is free again before the next request is answered.  *)
Granted(n) == IF n = 0 THEN {0, free} ELSE {n}

Grant ==
    /\ pending # <<>> /\ cbr = NoCbr /\ releasing = {}
    /\ msg[Head(pending)].size <= free
    /\ \E n \in Granted(msg[Head(pending)].size) :
        /\ free' = free - n
        /\ size' = [size EXCEPT ![NewSuite] = n]
    /\ cbr' = [msg |-> Head(pending), suite |-> NewSuite, checked |-> FALSE]
    /\ pending' = Tail(pending)
    /\ UNCHANGED <<total, msg, releasing, allocSem, freeSem, full, held, srmVars, op>>

(* _free(suite_info) *)
Forgets(m) == [msg EXCEPT ![m] = NoMsg]

(* mutant: the late suite is not freed *)
KeepsLate(s) == releasing

(* FreeMemoryResource(.., freeCBR_nowait) *)
FreesLate(s) == releasing \cup {[suite |-> s, waited |-> FALSE]}

(* allocCBR for a request that was given up: nobody waits for this free.   *)
GrantTooLate ==
    /\ cbr # NoCbr /\ ~cbr.checked /\ msg[cbr.msg].timedOut
    /\ releasing' = FreesLate(cbr.suite)
    /\ msg' = Forgets(cbr.msg)
    /\ cbr' = NoCbr
    /\ UNCHANGED <<total, free, size, pending, allocSem, freeSem, full, held, srmVars, op>>

(* allocCBR otherwise: timed_out is read first, the answer given later.    *)
GrantChecks ==
    /\ cbr # NoCbr /\ ~cbr.checked /\ ~msg[cbr.msg].timedOut
    /\ cbr' = [cbr EXCEPT !.checked = TRUE]
    /\ UNCHANGED <<total, free, size, pending, msg, releasing, allocSem, freeSem, full,
                   held, srmVars, op>>

GrantAnswers ==
    /\ cbr.checked
    /\ msg' = [msg EXCEPT ![cbr.msg].ret = cbr.suite]
    /\ allocSem' = allocSem + 1
    /\ cbr' = NoCbr
    /\ UNCHANGED <<total, free, size, pending, releasing, freeSem, full, held, srmVars, op>>

(* FreeMemoryResource, then freeCBR or freeCBR_nowait                      *)
Freed ==
    \E r \in releasing :
        /\ releasing' = releasing \ {r}
        /\ free' = free + size[r.suite]
        /\ size' = [size EXCEPT ![r.suite] = -1]
        /\ freeSem' = IF r.waited THEN freeSem + 1 ELSE freeSem
        /\ UNCHANGED <<total, pending, msg, cbr, allocSem, full, held, srmVars, op>>

Manager == Grant \/ GrantTooLate \/ GrantChecks \/ GrantAnswers \/ Freed

-----------------------------------------------------------------------------
(* Shooting memory: allocation                                             *)

(* Bounds: few old requests are pending when memory is asked for, and a    *)
(* client that has a suite asks for no other.                              *)
MayAsk == op = Idle /\ Len(pending) <= MaxPending

Ask(o, for, n) == op' = [o EXCEPT !.at = "ask", !.for = for, !.size = n]
FreeTest(o, s) == op' = [o EXCEPT !.at = "free", !.suite = s]
FreeBackup(o)  == op' = [o EXCEPT !.at = "free", !.for = "end", !.suite = o.backup, !.backup = None]

(* The autodetection keeps a backup as large as the step between its tests *)
StepOf(o) == IF o.contig THEN 1 ELSE Step

(* mutant: the backup of the contiguous detection for both *)
SmallBackup(o) == 1

BackupSize(o) == StepOf(o)

(* max_size and max_contig_size after a test has succeeded *)
Detected(o) == IF o.contig THEN o.size ELSE o.size + BackupSize(o) - 1

(* _shoot_malloc_suite and _shoot_malloc_suite_contig: a size is asked for *)
(* as it is, or the largest one possible is found out first.               *)
MallocSuite(c) ==
    /\ MayAsk /\ held[c] = {}
    /\ \E n \in Sizes, contig \in BOOLEAN :
        LET o == [Idle EXCEPT !.client = c, !.contig = contig, !.want = n]
        IN IF n = 0 \/ (contig /\ n > 1) THEN Ask(o, "backup", BackupSize(o))
                                         ELSE Ask(o, "client", n)
    /\ UNCHANGED <<shootVars, srmVars>>

(* The first half of shoot_malloc_suite_int                                *)
AllocateResource ==
    /\ op.at = "ask"
    /\ LET m == Min({k \in Msgs : ~msg[k].live})
       IN /\ msg' = [msg EXCEPT ![m] = [NoMsg EXCEPT !.live = TRUE, !.for = op.for, !.size = op.size]]
          /\ pending' = Append(pending, m)
          /\ op' = [op EXCEPT !.at = "wait", !.msg = m]
    /\ UNCHANGED <<total, free, size, cbr, releasing, allocSem, freeSem, full, held, srmVars>>

(* What the caller of the autodetection does with its result: ask for that *)
(* much, or for the size wanted if it is not more; else give up.           *)
AfterDetection(o) ==
    IF o.want = 0 THEN Ask(o, "client", o.max)
    ELSE IF o.want <= o.max THEN Ask(o, "client", o.want) ELSE op' = Idle

GoesToClient(s) ==
    /\ held' = [held EXCEPT ![op.client] = @ \cup ({s} \ {None})]
    /\ full' = IF ~op.contig /\ op.want = 0 THEN s ELSE full
    /\ op' = Idle

(* shoot_malloc_suite_int returns NULL.                                    *)
Refused ==
    LET o == [op EXCEPT !.msg = None]
    IN CASE op.for = "backup" -> AfterDetection(o) /\ UNCHANGED <<full, held>>
         [] op.for = "test"   -> FreeBackup(o) /\ UNCHANGED <<full, held>>
         [] op.for = "client" -> GoesToClient(None)

(* The second half of shoot_malloc_suite_int: an answer came in time.      *)
Answered ==
    /\ op.at = "wait" /\ allocSem > 0
    /\ allocSem' = allocSem - 1
    /\ msg' = Forgets(op.msg)
    /\ LET s == msg[op.msg].ret
           o == [op EXCEPT !.msg = None]
       IN CASE s = None -> Refused
            [] s # None /\ op.for = "backup" ->
                  Ask([o EXCEPT !.backup = s], "test", StepOf(o)) /\ UNCHANGED <<full, held>>
            [] s # None /\ op.for = "test" ->
                  FreeTest([o EXCEPT !.max = Detected(o)], s) /\ UNCHANGED <<full, held>>
            [] s # None /\ op.for = "client" -> GoesToClient(s)
    /\ UNCHANGED <<total, free, size, pending, cbr, releasing, freeSem, srmVars>>

(* mutant: allocCBR is not told *)
GivesUpSilently(m) == msg

GivesUp(m) == [msg EXCEPT ![m].timedOut = TRUE]

(* No answer in time: the request stays, marked for allocCBR.  The camera  *)
(* may schedule this in the middle of allocCBR, or allocCBR between the    *)
(* time-out and the mark, which comes to the same.                         *)
TimesOut ==
    /\ op.at = "wait" /\ allocSem = 0
    /\ cbr.checked => Preempted
    /\ msg' = GivesUp(op.msg)
    /\ Refused
    /\ UNCHANGED <<total, free, size, pending, cbr, releasing, allocSem, freeSem, srmVars>>

-----------------------------------------------------------------------------
(* Shooting memory: freeing                                                *)

FreeSuite(c) ==
    /\ op = Idle
    /\ \E s \in held[c] : op' = [Idle EXCEPT !.client = c, !.at = "free", !.for = "free", !.suite = s]
    /\ UNCHANGED <<shootVars, srmVars>>

ForgetFull(s) == IF full = s THEN None ELSE full

(* _shoot_free_suite, for a client or the autodetection                    *)
FreeResource ==
    /\ op.at = "free"
    /\ full' = ForgetFull(op.suite)
    /\ releasing' = releasing \cup {[suite |-> op.suite, waited |-> TRUE]}
    /\ held' = [c \in Clients |-> held[c] \ {op.suite}]
    /\ op' = [op EXCEPT !.at = "freeing", !.suite = None]
    /\ UNCHANGED <<total, free, size, pending, msg, cbr, allocSem, freeSem, srmVars>>

(* mutant: the same size is tried again *)
SameTest(o) == o.size

NextTest(o) == o.size + StepOf(o)

(* Freed: all is done, or the detection is over, or the next size is tried *)
(* unless the contiguous block found is large enough.                      *)
FreeReturns ==
    /\ op.at = "freeing" /\ freeSem > 0
    /\ freeSem' = freeSem - 1
    /\ CASE op.for = "free" -> op' = Idle
         [] op.for = "end"  -> AfterDetection(op)
         [] op.for = "test" -> IF op.contig /\ op.want # 0 /\ op.want <= op.max
                               THEN FreeBackup(op)
                               ELSE Ask(op, "test", NextTest(op))
    /\ UNCHANGED <<total, free, size, pending, msg, cbr, releasing, allocSem, full, held, srmVars>>

ShootStep == AllocateResource \/ Answered \/ TimesOut \/ FreeResource \/ FreeReturns

-----------------------------------------------------------------------------
(* SRM memory.  The system gives its buffers one by one, and drops a       *)
(* request it cannot serve; with all of them taken it locks the shutter.   *)

JobStarts ==
    /\ ~job /\ ~srmAllocated /\ (locked => op.at = "sleep")
    /\ job' = TRUE
    /\ UNCHANGED <<shootVars, locked, srmAllocated, srm, system, out, srmHeld, op>>

JobEnds ==
    /\ job /\ job' = FALSE
    /\ UNCHANGED <<shootVars, locked, srmAllocated, srm, system, out, srmHeld, op>>

(* The test of srm_alloc_internal, made twice *)
MayAllocate == ~srmAllocated /\ ~job

(* _srm_malloc_suite(n), _srm_malloc as n = 1, or too large for a buffer;  *)
(* srm_alloc_internal up to its msleep                                     *)
SrmMalloc(c) ==
    /\ op = Idle /\ srmHeld[c] = {}
    /\ \E n \in SrmRequests, tooLarge \in BOOLEAN :
        /\ tooLarge => n = 1
        /\ op' = [Idle EXCEPT !.client = c, !.want = n, !.tooLarge = tooLarge,
                              !.at = IF MayAllocate THEN "sleep" ELSE "take"]
    /\ locked' = (locked \/ MayAllocate)
    /\ UNCHANGED <<shootVars, job, srmAllocated, srm, system, out, srmHeld>>

(* srm_alloc_internal after it: a picture may have been started meanwhile. *)
SrmWakes ==
    /\ op.at = "sleep"
    /\ IF MayAllocate
       THEN op' = [op EXCEPT !.at = "alloc", !.index = 1] /\ srm' = [i \in SrmBufs |-> NoBuffer]
       ELSE op' = [op EXCEPT !.at = "take"] /\ UNCHANGED srm
    /\ UNCHANGED <<shootVars, job, locked, srmAllocated, system, out, srmHeld>>

SrmAllocates ==
    /\ op.at = "alloc" /\ op.index <= SrmMax /\ system # {}
    /\ srm' = [srm EXCEPT ![op.index].buffer = Min(system)]
    /\ out' = Append(out, Min(system)) /\ system' = system \ {Min(system)}
    /\ op' = [op EXCEPT !.index = @ + 1]
    /\ UNCHANGED <<shootVars, job, locked, srmAllocated, srmHeld>>

GiveBack(b) == system' = system \cup {b} /\ out' = RemoveFirst(out, b)

(* No more: the first buffer goes back, and is used after that only while  *)
(* somebody has all the shooting memory.                                   *)
FirstAfterFree(first) ==
    IF full # None THEN [first EXCEPT !.useAfterFree = TRUE] ELSE [first EXCEPT !.buffer = None]

SrmNoMore ==
    /\ op.at = "alloc" /\ op.index <= SrmMax /\ system = {}
    /\ locked' = FALSE
    /\ GiveBack(srm[1].buffer)
    /\ srm' = [srm EXCEPT ![1] = FirstAfterFree(@)]
    /\ srmAllocated' = TRUE
    /\ op' = [op EXCEPT !.at = "take"]
    /\ UNCHANGED <<shootVars, job, srmHeld>>

SrmHasAll ==
    /\ op.at = "alloc" /\ op.index > SrmMax
    /\ srmAllocated' = TRUE
    /\ op' = [op EXCEPT !.at = "take"]
    /\ UNCHANGED <<shootVars, job, locked, srm, system, out, srmHeld>>

(* The buffers with the highest indices are handed out, the first one last *)
(* mutant: whether a buffer is used is not asked *)
AnyBuffer == {i \in SrmBufs : srm[i].buffer # None}

Unused  == {i \in SrmBufs : srm[i].buffer # None /\ ~srm[i].used}
Topmost(n) == {i \in Unused : n = 0 \/ Cardinality({j \in Unused : j > i}) < n}

(* _srm_malloc finds the buffer too small: _srm_free *)
GivesUpBuffer(taken) ==
    op' = IF taken = {} \/ \E i \in SrmBufs : srm[i].used
          THEN Idle ELSE [op EXCEPT !.at = "srmFree", !.index = 1]

SrmTakes ==
    /\ op.at = "take"
    /\ LET taken == Topmost(op.want)
       IN IF op.tooLarge
          THEN /\ GivesUpBuffer(taken)
               /\ UNCHANGED <<srm, srmHeld>>
          ELSE /\ srm' = [i \in SrmBufs |-> IF i \in taken THEN [srm[i] EXCEPT !.used = TRUE] ELSE srm[i]]
               /\ srmHeld' = [srmHeld EXCEPT ![op.client] = {srm[i].buffer : i \in taken}]
               /\ op' = Idle
    /\ UNCHANGED <<shootVars, job, locked, srmAllocated, system, out>>

(* _srm_free_suite, _srm_free: srm_free_internal goes on once none is used *)
SrmFree(c) ==
    /\ op = Idle /\ srmHeld[c] # {}
    /\ srm' = [i \in SrmBufs |-> IF srm[i].buffer \in srmHeld[c] THEN [srm[i] EXCEPT !.used = FALSE] ELSE srm[i]]
    /\ srmHeld' = [srmHeld EXCEPT ![c] = {}]
    /\ op' = IF \E i \in SrmBufs : srm'[i].used THEN Idle
             ELSE [Idle EXCEPT !.client = c, !.at = "srmFree", !.index = 1]
    /\ UNCHANGED <<shootVars, job, locked, srmAllocated, system, out>>

AllFreed == op.index > SrmMax

(* mutant: from the highest index, as when they are handed out *)
FreedLast == SrmMax + 1 - op.index

FreedNext == op.index

(* srm_free_internal, one buffer at a time                                 *)
SrmFrees ==
    /\ op.at = "srmFree" /\ ~AllFreed
    /\ LET b == srm[FreedNext]
       IN IF b.buffer # None /\ ~b.useAfterFree THEN GiveBack(b.buffer) ELSE UNCHANGED <<system, out>>
    /\ srm' = [srm EXCEPT ![FreedNext].buffer = None, ![FreedNext].useAfterFree = FALSE]
    /\ op' = [op EXCEPT !.index = @ + 1]
    /\ UNCHANGED <<shootVars, job, locked, srmAllocated, srmHeld>>

SrmFreed ==
    /\ op.at = "srmFree" /\ AllFreed
    /\ locked' = FALSE /\ srmAllocated' = FALSE
    /\ op' = Idle
    /\ UNCHANGED <<shootVars, job, srm, system, out, srmHeld>>

SrmStep == SrmWakes \/ SrmAllocates \/ SrmNoMore \/ SrmHasAll \/ SrmTakes \/ SrmFrees \/ SrmFreed

-----------------------------------------------------------------------------
Client(c) == MallocSuite(c) \/ FreeSuite(c) \/ SrmMalloc(c) \/ SrmFree(c)

Next ==
    \/ Manager
    \/ \E c \in Clients : Client(c)
    \/ ShootStep \/ SrmStep
    \/ JobStarts \/ JobEnds

(* The manager answers what it can, and an operation goes on.              *)
Fairness == WF_vars(Manager) /\ WF_vars(ShootStep \/ SrmStep)
Spec     == Init /\ [][Next]_vars
FairSpec == Spec /\ Fairness

-----------------------------------------------------------------------------
(* Properties                                                              *)

MsgSet == [live : BOOLEAN, for : {"none", "backup", "test", "client"}, size : Nat,
           timedOut : BOOLEAN, ret : Suites \cup {None}]
BufSet == [buffer : SrmBufs \cup {None}, used : BOOLEAN, useAfterFree : BOOLEAN]
OpSet  == [client : Clients \cup {None},
           at : {"none", "ask", "wait", "free", "freeing", "sleep", "alloc", "take", "srmFree"},
           contig : BOOLEAN, want : Nat, for : {"none", "backup", "test", "client", "free", "end"},
           size : Nat, msg : Msgs \cup {None}, backup : Suites \cup {None}, max : Nat,
           suite : Suites \cup {None}, index : 0..SrmMax + 1, tooLarge : BOOLEAN]

(* Types of the variables                                                  *)
TypeOK ==
    /\ total \in Totals /\ free \in Nat /\ size \in [Suites -> Nat \cup {-1}]
    /\ pending \in Seq(Msgs) /\ msg \in [Msgs -> MsgSet]
    /\ cbr \in [msg : Msgs \cup {None}, suite : Suites \cup {None}, checked : BOOLEAN]
    /\ releasing \subseteq [suite : Suites, waited : BOOLEAN]
    /\ allocSem \in 0..1 /\ freeSem \in 0..1 /\ full \in Suites \cup {None}
    /\ op \in OpSet /\ held \in [Clients -> SUBSET Suites]
    /\ job \in BOOLEAN /\ locked \in BOOLEAN /\ srmAllocated \in BOOLEAN
    /\ srm \in [SrmBufs -> BufSet] /\ system \subseteq SrmBufs /\ out \in Seq(SrmBufs)
    /\ srmHeld \in [Clients -> SUBSET SrmBufs]

Existing  == {s \in Suites : size[s] >= 0}
SumSize(S) == MapThenSumSet(LAMBDA s : size[s], S)

Owners(s) ==
    {<<"client", c>> : c \in {c \in Clients : s \in held[c]}}
    \cup {<<"answer", m>> : m \in {m \in Msgs : msg[m].ret = s /\ ~msg[m].timedOut}}
    \cup {<<"release", r>> : r \in {r \in releasing : r.suite = s}}
    \cup (IF cbr.suite = s THEN {<<"allocCBR", cbr.msg>>} ELSE {})
    \cup (IF op.backup = s THEN {<<"backup", s>>} ELSE {})
    \cup (IF op.at = "free" /\ op.for # "free" /\ op.suite = s THEN {<<"freed", s>>} ELSE {})

(* A suite the manager has given away has exactly one owner that will free *)
(* it: none is lost when its request was given up, and none freed twice    *)
(* (shoot_malloc_suite_int, allocCBR, autodetection).                      *)
OneOwner == \A s \in Existing : Cardinality(Owners(s)) = 1

(* The semaphores work as event flags: what alloc_sem announces is the     *)
(* answer to the request being waited for, large enough, and neither is    *)
(* left signalled for the next operation.                                  *)
AnswerIsMine ==
    /\ allocSem > 0 => /\ op.at = "wait" /\ msg[op.msg].ret \in Existing
                       /\ size[msg[op.msg].ret] >= op.size
    /\ freeSem > 0 => op.at = "freeing"

(* "In case we timed out last time, immediately free the newly allocated   *)
(* suite": whatever the manager has given away, somebody will free.  It    *)
(* fails when Preempted is TRUE: README.md, section 6.                     *)
NoSuiteLost == \A s \in Existing : Owners(s) # {}

(* An alloc_msg_t lives as long as the manager or the requester may use    *)
(* it, and not longer (_free in allocCBR and shoot_malloc_suite_int).      *)
MessagesLive ==
    {m \in Msgs : msg[m].live} =
        {pending[i] : i \in DOMAIN pending} \cup ({cbr.msg, op.msg} \ {None})

(* Memory that is free or on its way back                                  *)
Loose == free + SumSize(Existing \ UNION {held[c] : c \in Clients})

(* No memory is lost, and none is given to two suites.                     *)
Conserved == total = free + SumSize(Existing)

(* "Service the queued allocation request that fails during the loop":     *)
(* between operations, what a failed test asked for fits.                  *)
BackupServes ==
    op = Idle => \A i \in DOMAIN pending :
        msg[pending[i]].for = "test" => msg[pending[i]].size <= Loose

(* What the detection found can be had, with 1 MB to spare unless it must  *)
(* be contiguous.                                                          *)
DetectedFits ==
    op.at = "ask" /\ op.for = "client" /\ op.want = 0 /\ op.max > 0 =>
        op.max + (IF op.contig THEN 0 ELSE 1) <= Loose

(* shoot_full_suite is a suite somebody has, not one that was freed since. *)
FullIsHeld == full # None => \E c \in Clients : full \in held[c]

(* A buffer of SRM memory is used by the client that has it, and by no     *)
(* other, until it is freed.                                               *)
SrmOneUser ==
    /\ {srm[i].buffer : i \in {i \in SrmBufs : srm[i].used}} = UNION {srmHeld[c] : c \in Clients}
    /\ \A c, d \in Clients : c # d => srmHeld[c] \cap srmHeld[d] = {}

(* The system has all its buffers back when none is allocated.             *)
SrmReturned == op = Idle /\ ~srmAllocated => out = <<>> /\ (\A i \in SrmBufs : srm[i] = NoBuffer)

(* SRM memory that is allocated has a user who will free it, except when   *)
(* the only buffer there is was discarded.                                 *)
SrmNotStuck ==
    op = Idle /\ srmAllocated => \/ \E i \in SrmBufs : srm[i].used
                                 \/ Cardinality(system) + Len(out) = 1

(* No picture is being taken while SRM buffers are out (ERR70).            *)
NoJobMeanwhile == job => out = <<>>

(* "These buffers must be freed in the same order as allocated."           *)
FreedInOrder == [][Len(out') < Len(out) => out' = Tail(out)]_vars

(* Every operation returns, and gives mem_sem back, although nobody else   *)
(* helps it than the manager.                                              *)
OperationEnds == op # Idle ~> op = Idle

(* No suite is lost or freed twice, whoever got it and however late.       *)
SuitesKept == OneOwner /\ FullIsHeld

(* A late answer is never taken for another one, nor is its message used   *)
(* after it was freed.                                                     *)
AnswersKept == TypeOK /\ AnswerIsMine /\ MessagesLive

(* All memory is free or in suites; the search for the largest suite leaves *)
(* nothing that waits in front of the request that follows, and that       *)
(* request can be met.                                                     *)
DetectionSound == Conserved /\ BackupServes /\ DetectedFits

(* SRM buffers go to one user each, all return to the system with the      *)
(* last one, and no picture is taken before that.                          *)
SrmSafe == SrmOneUser /\ SrmReturned /\ SrmNotStuck /\ NoJobMeanwhile
=============================================================================
