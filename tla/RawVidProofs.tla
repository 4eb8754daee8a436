---------------------------- MODULE RawVidProofs ----------------------------
(* The events of raw_vid are neither shared nor lost, its copies go to      *)
(* places of their own, raw mode is requested and released in pairs, and a  *)
(* worker that keeps up saves the frames in their order: for any number of  *)
(* events, of frames in a crop buffer, of tries, of stop tasks and of       *)
(* recordings, and any failures.                                            *)
EXTENDS RawVid, FiniteSetTheorems, FunctionTheorems, WellFoundedInduction, TLAPS

Commands == {"COMMAND_START", "COMMAND_STOP"}

(* Where the worker is, and what it has in its hands. *)
Working ==
    /\ current = None <=> worker = "receive"
    /\ current # None => etype[current] \in Commands

(* A stop task that posts has an event of its own. *)
StopsSound ==
    \A t \in Stops : stop[t].at = "posting" =>
        stop[t].event \in Events /\ etype[stop[t].event] \in {"PREPARING", "COMMAND_STOP"}

(* The one IMAGE_DATA event that nobody has is that of the first vsync, and
   there is no second first vsync. *)
LostOnce ==
    /\ \A e \in Lost : etype[e] \in {"PREPARING", "IMAGE_DATA"}
    /\ \A e, f \in Lost : etype[e] = "IMAGE_DATA" /\ etype[f] = "IMAGE_DATA" => e = f
    /\ \A e \in Lost : etype[e] = "IMAGE_DATA" => count > 0 \/ prevent

EventType ==
    /\ keepsUp \in BOOLEAN /\ prevent \in BOOLEAN /\ count \in 0..2
    /\ frame \in Bufs \cup {None}
    /\ etype \in [Events -> EventTypes] /\ src \in [Events -> Bufs \cup {None}]
    /\ queue \in Seq(Events)
    /\ stop \in [Stops -> [at : {"none", "created", "getting", "posting"},
                            tries : 0..MaxTries, event : Events \cup {None}]]
    /\ worker \in {"receive", "start_file", "stop_free"}
    /\ current \in Events \cup {None}

EventInv == EventType /\ Working /\ StopsSound /\ QueueSound /\ LostOnce

-----------------------------------------------------------------------------
(* The pool and the queue                                                  *)

LEMMA FirstIn ==
    ASSUME NEW S, S \subseteq Nat, S # {}
    PROVE  First(S) \in S
  <1>1. \E x \in S : \A y \in S : ~ (<<y, x>> \in OpToRel(<, Nat))
    BY WFMin, NatLessThanWellFounded
  <1>2. PICK x \in S : \A y \in S : ~ (<<y, x>> \in OpToRel(<, Nat))
    BY <1>1
  <1>3. \A y \in S : x <= y
    <2> TAKE y \in S
    <2>1. <<y, x>> \in Nat \X Nat
      OBVIOUS
    <2>2. ~ (y < x)
      BY <1>2, <2>1 DEF OpToRel
    <2> QED BY <2>2
  <1> QED BY <1>3 DEF First

LEMMA EmptyEventIn ==
    Empty # {} => EmptyEvent \in Events /\ etype[EmptyEvent] = "EMPTY" /\ EmptyEvent = First(Empty)
  <1> SUFFICES ASSUME Empty # {} PROVE EmptyEvent \in Empty /\ EmptyEvent = First(Empty)
    BY DEF Empty
  <1>1. Empty \subseteq Nat
    BY SizesAssumption DEF Empty, Events
  <1> QED BY <1>1, FirstIn DEF EmptyEvent

LEMMA FreeStopIn == FreeStops # {} => First(FreeStops) \in FreeStops
  <1>1. FreeStops \subseteq Nat
    BY BoundAssumption DEF FreeStops, Stops
  <1> QED BY <1>1, FirstIn

LEMMA NoneIsNoEvent == None \notin Events /\ (Empty = {} <=> EmptyEvent = None)
  <1>1. None \notin Events
    BY SizesAssumption DEF Events, None
  <1> QED BY <1>1, EmptyEventIn DEF EmptyEvent

(* A queue without repetition that lacks an event of the pool has a place. *)
LEMMA RoomForOne ==
    ASSUME queue \in Seq(Events), NEW x \in Events, x \notin Queued,
           \A i, j \in DOMAIN queue : queue[i] = queue[j] => i = j
    PROVE  Len(queue) < QLen
  <1> DEFINE n == Len(queue)
  <1>1. n \in Nat /\ DOMAIN queue = 1..n /\ queue \in [1..n -> Events]
    OBVIOUS
  <1>2. queue \in [1..n -> Events \ {x}]
    BY <1>1 DEF Queued
  <1>3. queue \in Injection(1..n, Events \ {x})
    BY <1>1, <1>2 DEF Injection, IsInjective
  <1>4. IsFiniteSet(Events) /\ Cardinality(Events) = QLen
    BY FS_Interval, SizesAssumption DEF Events
  <1>5. IsFiniteSet(Events \ {x}) /\ Cardinality(Events \ {x}) = QLen - 1
    BY <1>4, FS_RemoveElement
  <1>6. Cardinality(1..n) <= QLen - 1
    BY <1>3, <1>5, FS_Injection
  <1>7. Cardinality(1..n) = n
    BY <1>1, FS_Interval
  <1> QED BY <1>1, <1>6, <1>7, SizesAssumption

LEMMA LengthBound ==
    ASSUME EventInv
    PROVE  Len(queue) <= QLen
  <1> DEFINE n == Len(queue)
  <1>1. n \in Nat /\ DOMAIN queue = 1..n /\ queue \in [1..n -> Events]
    BY DEF EventInv, EventType
  <1>2. \A i, j \in 1..n : queue[i] = queue[j] => i = j
    BY <1>1 DEF EventInv, QueueSound
  <1>5. queue \in Injection(1..n, Events)
    BY <1>1, <1>2 DEF Injection, IsInjective
  <1>3. IsFiniteSet(Events) /\ Cardinality(Events) = QLen
    BY FS_Interval, SizesAssumption DEF Events
  <1>4. Cardinality(1..n) <= QLen
    BY <1>5, <1>3, FS_Injection
  <1>6. Cardinality(1..n) = n
    BY <1>1, FS_Interval
  <1> QED BY <1>4, <1>6

LEMMA EveryEventFits ==
    ASSUME EventInv
    PROVE  PostSucceeds
  <1>1. CASE Empty # {}
    <2>1. PICK x \in Events : etype[x] = "EMPTY"
      BY <1>1 DEF Empty
    <2>2. x \notin Queued
      BY <2>1 DEF EventInv, QueueSound
    <2> QED BY <2>1, <2>2, RoomForOne DEF EventInv, EventType, QueueSound, PostSucceeds, Posts
  <1>2. CASE Posting # {}
    <2>1. PICK t \in Stops : stop[t].at = "posting"
      BY <1>2 DEF Posting
    <2>2. stop[t].event \in Events /\ stop[t].event \notin Queued
      BY <2>1 DEF EventInv, StopsSound, QueueSound, Posting
    <2> QED BY <2>2, RoomForOne DEF EventInv, EventType, QueueSound, PostSucceeds, Posts
  <1> QED BY <1>1, <1>2 DEF PostSucceeds

LEMMA OneLostFrame ==
    ASSUME EventInv
    PROVE  EventsNotLost
  <1> DEFINE S == {e \in Lost : etype[e] = "IMAGE_DATA"}
  <1>1. \A e, f \in S : e = f
    BY DEF EventInv, LostOnce
  <1>2. S = {} \/ \E e \in S : S = {e}
    <2>1. ASSUME NEW e \in S PROVE S = {e}
      BY <1>1, <2>1
    <2> QED BY <2>1
  <1>3. CASE S = {}
    <2>1. Cardinality(S) = 0
      BY <1>3, FS_EmptySet
    <2> QED BY <2>1 DEF EventInv, LostOnce, EventsNotLost
  <1>4. CASE \E e \in S : S = {e}
    <2>1. Cardinality(S) = 1
      BY <1>4, FS_Singleton
    <2> QED BY <2>1 DEF EventInv, LostOnce, EventsNotLost
  <1> QED BY <1>2, <1>3, <1>4

-----------------------------------------------------------------------------
(* What a step does to the events                                          *)

(* The stop tasks that post keep their events, and no other one gets to post *)
PostingKept ==
    \A t \in Stops :
        /\ stop'[t].at = "posting" <=> stop[t].at = "posting"
        /\ stop[t].at = "posting" => stop'[t].event = stop[t].event

(* The queue after an event has been taken from it or put into it *)
LEMMA TailQueued ==
    ASSUME queue \in Seq(Events), queue # <<>>,
           \A i, j \in DOMAIN queue : queue[i] = queue[j] => i = j,
           queue' = Tail(queue)
    PROVE  /\ Head(queue) \in Queued /\ queue' \in Seq(Events)
           /\ Queued' = Queued \ {Head(queue)}
           /\ \A i, j \in DOMAIN queue' : queue'[i] = queue'[j] => i = j
  <1>1. /\ Len(queue) \in Nat /\ Len(queue) >= 1 /\ Len(queue') = Len(queue) - 1
        /\ \A i \in 1..Len(queue') : queue'[i] = queue[i + 1]
        /\ DOMAIN queue = 1..Len(queue) /\ DOMAIN queue' = 1..Len(queue')
        /\ queue' \in Seq(Events) /\ Head(queue) = queue[1]
    OBVIOUS
  <1>2. \A i \in 1..Len(queue) : i = 1 \/ (i - 1 \in 1..Len(queue') /\ queue[i] = queue'[i - 1])
    BY <1>1
  <1>3. \A i \in 1..Len(queue') : i + 1 \in 1..Len(queue) /\ i + 1 # 1
    BY <1>1
  <1>4. Queued' = Queued \ {queue[1]}
    <2>1. ASSUME NEW i \in 1..Len(queue') PROVE queue'[i] \in Queued \ {queue[1]}
      BY <1>1, <1>3 DEF Queued
    <2>2. ASSUME NEW i \in 1..Len(queue), queue[i] # queue[1] PROVE queue[i] \in Queued'
      BY <1>1, <1>2, <2>2 DEF Queued
    <2> QED BY <1>1, <2>1, <2>2 DEF Queued
  <1>5. \A i, j \in DOMAIN queue' : queue'[i] = queue'[j] => i = j
    BY <1>1, <1>3
  <1>6. queue[1] \in Queued
    BY <1>1 DEF Queued
  <1> QED BY <1>1, <1>4, <1>5, <1>6

LEMMA AppendQueued ==
    ASSUME queue \in Seq(Events), NEW x \in Events, x \notin Queued,
           \A i, j \in DOMAIN queue : queue[i] = queue[j] => i = j,
           queue' = Append(queue, x)
    PROVE  /\ queue' \in Seq(Events) /\ Queued' = Queued \cup {x}
           /\ \A i, j \in DOMAIN queue' : queue'[i] = queue'[j] => i = j
  <1>1. /\ Len(queue) \in Nat /\ Len(queue') = Len(queue) + 1
        /\ \A i \in 1..Len(queue) : queue'[i] = queue[i]
        /\ queue'[Len(queue) + 1] = x
        /\ DOMAIN queue = 1..Len(queue) /\ DOMAIN queue' = 1..Len(queue')
        /\ queue' \in Seq(Events)
    OBVIOUS
  <1>2. \A i \in 1..Len(queue') : i \in 1..Len(queue) \/ i = Len(queue) + 1
    BY <1>1
  <1>3. Len(queue) + 1 \in 1..Len(queue') /\ \A i \in 1..Len(queue) : i \in 1..Len(queue')
    BY <1>1
  <1>4. Queued' = Queued \cup {x}
    BY <1>1, <1>2, <1>3 DEF Queued
  <1>5. \A i, j \in DOMAIN queue' : queue'[i] = queue'[j] => i = j
    BY <1>1, <1>2 DEF Queued
  <1> QED BY <1>1, <1>4, <1>5

LEMMA EventsAlone ==
    ASSUME EventInv, EventType', PostingKept, UNCHANGED <<eventVars, worker, current>>,
           count > 0 \/ prevent => count' > 0 \/ prevent'
    PROVE  EventInv'
  <1>1. Posting' = Posting /\ Queued' = Queued
    BY DEF Posting, PostingKept, Queued, eventVars
  <1>2. Lost' = Lost
    BY <1>1 DEF Lost, eventVars
  <1>3. LostOnce'
    BY <1>2 DEF EventInv, LostOnce, eventVars
  <1>4. QueueSound' /\ StopsSound'
    BY <1>1 DEF EventInv, QueueSound, StopsSound, PostingKept, eventVars
  <1> QED BY <1>3, <1>4 DEF EventInv, Working, eventVars

(* The event at the head is handled and given back. *)
LEMMA EventHandled ==
    ASSUME EventInv, EventType', worker = "receive", queue # <<>>, Handled,
           UNCHANGED <<stop, count, prevent>>
    PROVE  EventInv'
  <1> DEFINE x == Head(queue)
  <1>1. /\ x \in Queued /\ Queued' = Queued \ {x} /\ x \in Events
        /\ \A i, j \in DOMAIN queue' : queue'[i] = queue'[j] => i = j
    BY TailQueued DEF EventInv, EventType, QueueSound, Handled
  <1>2. /\ etype' = [etype EXCEPT ![x] = "EMPTY"] /\ Posting' = Posting /\ current = None
        /\ current' = current /\ worker' = worker
    BY DEF Handled, Fill, Posting, EventInv, Working
  <1>3. etype'[x] = "EMPTY" /\ \A e \in Events \ {x} : etype'[e] = etype[e]
    BY <1>1, <1>2 DEF EventInv, EventType
  <1>4. x \notin Posting /\ None \notin Events
    BY <1>1, NoneIsNoEvent DEF EventInv, QueueSound
  <1>5. Queued \subseteq Events
    BY DEF Queued, EventInv, EventType
  <1>6. QueueSound'
    BY <1>1, <1>2, <1>3, <1>5 DEF EventInv, QueueSound
  <1>7. StopsSound'
    BY <1>3, <1>4 DEF EventInv, StopsSound, Posting
  <1>8. Lost' = Lost
    BY <1>1, <1>2, <1>3, <1>4, <1>5 DEF Lost
  <1>9. LostOnce'
    BY <1>8, <1>1, <1>3 DEF LostOnce, EventInv, Lost
  <1> QED BY <1>2, <1>6, <1>7, <1>9 DEF EventInv, Working

(* The worker keeps the event at the head and waits. *)
LEMMA EventKept ==
    ASSUME EventInv, EventType', worker = "receive", queue # <<>>,
           etype[Head(queue)] \in Commands,
           NEW point \in {"start_file", "stop_free"}, WaitAt(point),
           UNCHANGED <<stop, count, prevent>>
    PROVE  EventInv'
  <1> DEFINE x == Head(queue)
  <1>1. /\ x \in Queued /\ Queued' = Queued \ {x} /\ x \in Events
        /\ \A i, j \in DOMAIN queue' : queue'[i] = queue'[j] => i = j
    BY TailQueued DEF EventInv, EventType, QueueSound, WaitAt
  <1>2. /\ etype' = etype /\ Posting' = Posting /\ current = None /\ current' = x
        /\ worker' = point /\ None \notin Events
    BY NoneIsNoEvent DEF WaitAt, Posting, EventInv, Working
  <1>3. QueueSound' /\ StopsSound'
    BY <1>1, <1>2 DEF EventInv, QueueSound, StopsSound
  <1>4. Lost' = Lost
    BY <1>1, <1>2 DEF Lost
  <1>5. LostOnce'
    BY <1>4, <1>2 DEF LostOnce, EventInv
  <1>6. Working'
    BY <1>1, <1>2 DEF Working
  <1> QED BY <1>3, <1>5, <1>6 DEF EventInv

LEMMA EventReleased ==
    ASSUME EventInv, EventType', worker # "receive", Release,
           UNCHANGED <<stop, count, prevent>>
    PROVE  EventInv'
  <1>1. /\ current \in Events /\ etype' = [etype EXCEPT ![current] = "EMPTY"]
        /\ Queued' = Queued /\ Posting' = Posting /\ current' = None /\ worker' = "receive"
    BY DEF Release, Fill, EventInv, Working, EventType, Queued, Posting
  <1>2. etype'[current] = "EMPTY" /\ \A e \in Events \ {current} : etype'[e] = etype[e]
    BY <1>1 DEF EventInv, EventType
  <1>3. current \notin Queued \cup Posting /\ None \notin Events /\ Queued \cup Posting \subseteq Events
    BY NoneIsNoEvent DEF EventInv, QueueSound, EventType, Queued, Posting, StopsSound
  <1>4. QueueSound'
    BY <1>1, <1>2, <1>3 DEF EventInv, QueueSound, Release
  <1>5. StopsSound'
    BY <1>2, <1>3 DEF EventInv, StopsSound, Posting
  <1>6. Lost' = Lost
    BY <1>1, <1>2, <1>3 DEF Lost
  <1>7. LostOnce'
    BY <1>1, <1>2, <1>6 DEF LostOnce, EventInv, Lost
  <1> QED BY <1>1, <1>4, <1>5, <1>7 DEF EventInv, Working

(* An event in nobody's hands is filled with a command or a frame and posted.
   The stop tasks go on as they are, except that the one that had it is done. *)
LEMMA EventPosted ==
    ASSUME EventInv, EventType', NEW x \in Events, x \notin Queued, x # current,
           NEW type \in Commands \cup {"IMAGE_DATA"},
           etype' = [etype EXCEPT ![x] = type], queue' = Append(queue, x),
           \A t \in Stops :
               /\ stop'[t].at = "posting" =>
                     /\ stop[t].at = "posting" /\ stop'[t].event = stop[t].event
                     /\ stop[t].event # x
               /\ stop[t].at = "posting" /\ stop'[t].at # "posting" => stop[t].event = x,
           UNCHANGED <<worker, current>>,
           count > 0 \/ prevent => count' > 0 \/ prevent'
    PROVE  EventInv'
  <1>1. /\ Queued' = Queued \cup {x}
        /\ \A i, j \in DOMAIN queue' : queue'[i] = queue'[j] => i = j
    BY AppendQueued DEF EventInv, EventType, QueueSound
  <1>2. etype'[x] = type /\ \A e \in Events \ {x} : etype'[e] = etype[e]
    BY DEF EventInv, EventType
  <1>3. Posting' = Posting \ {x}
    BY DEF Posting
  <1>4. Queued \subseteq Events /\ None \notin Events
    BY NoneIsNoEvent DEF EventInv, EventType, Queued
  <1>5. QueueSound'
    <2>1. \A e \in Queued' : etype'[e] \in {"COMMAND_START", "COMMAND_STOP", "IMAGE_DATA"}
      BY <1>1, <1>2, <1>4 DEF EventInv, QueueSound, Commands
    <2>2. Queued' \cap Posting' = {} /\ current' \notin Queued' \cup Posting'
      BY <1>1, <1>3 DEF EventInv, QueueSound
    <2>3. \A t, u \in Stops :
             stop'[t].at = "posting" /\ stop'[u].at = "posting" /\ t # u
                 => stop'[t].event # stop'[u].event
      BY DEF EventInv, QueueSound
    <2> QED BY <1>1, <2>1, <2>2, <2>3 DEF QueueSound
  <1>6. StopsSound'
    BY <1>2 DEF EventInv, StopsSound
  <1>7. Lost' \subseteq Lost
    BY <1>1, <1>2, <1>3 DEF Lost
  <1>8. LostOnce'
    BY <1>1, <1>2, <1>7 DEF LostOnce, EventInv, Lost
  <1>9. Working'
    BY <1>2, <1>4 DEF Working, EventInv, EventType
  <1> QED BY <1>5, <1>6, <1>8, <1>9 DEF EventInv

(* An empty event is filled and posted. *)
LEMMA EmptyPosted ==
    ASSUME EventInv, EventType', Empty # {},
           NEW type \in Commands \cup {"IMAGE_DATA"}, NEW from,
           Fill(EmptyEvent, type, from), Post(EmptyEvent), PostingKept,
           UNCHANGED <<worker, current>>,
           count > 0 \/ prevent => count' > 0 \/ prevent'
    PROVE  EventInv'
  <1> DEFINE x == EmptyEvent
  <1>1. x \in Events /\ etype[x] = "EMPTY"
    BY EmptyEventIn
  <1>2. x \notin Queued /\ x # current
    BY <1>1, NoneIsNoEvent DEF EventInv, QueueSound, Working, Commands
  <1>3. \A t \in Stops : stop[t].at = "posting" => stop[t].event # x
    BY <1>1 DEF EventInv, StopsSound
  <1>4. Posts
    BY EveryEventFits DEF PostSucceeds
  <1>5. etype' = [etype EXCEPT ![x] = type] /\ queue' = Append(queue, x)
    BY <1>4 DEF Fill, Post
  <1>6. \A t \in Stops :
               /\ stop'[t].at = "posting" =>
                     /\ stop[t].at = "posting" /\ stop'[t].event = stop[t].event
                     /\ stop[t].event # x
               /\ stop[t].at = "posting" /\ stop'[t].at # "posting" => stop[t].event = x
    BY <1>3 DEF PostingKept
  <1> QED BY <1>1, <1>2, <1>5, <1>6, EventPosted

(* An event is taken for a stop command, or for nothing if the task gives up. *)
LEMMA EventTaken ==
    ASSUME EventInv, EventType', Empty # {}, NEW t \in Stops, stop[t].at = "getting",
           etype' = [etype EXCEPT ![EmptyEvent] = "PREPARING"],
           \A u \in Stops \ {t} : stop'[u] = stop[u],
           stop'[t].at = "posting" => stop'[t].event = EmptyEvent,
           UNCHANGED <<queue, worker, current, count, prevent>>
    PROVE  EventInv'
  <1> DEFINE x == EmptyEvent
  <1>1. x \in Events /\ etype[x] = "EMPTY"
    BY EmptyEventIn
  <1>2. x \notin Queued /\ x # current
    BY <1>1, NoneIsNoEvent DEF EventInv, QueueSound, Working, Commands
  <1>12. Queued \subseteq Events
    BY DEF Queued, EventInv, EventType
  <1>3. \A u \in Stops : stop[u].at = "posting" => stop[u].event # x /\ u # t
    BY <1>1 DEF EventInv, StopsSound
  <1>4. etype'[x] = "PREPARING" /\ \A e \in Events \ {x} : etype'[e] = etype[e]
    BY <1>1 DEF EventInv, EventType
  <1>5. Queued' = Queued
    BY DEF Queued
  <1>6. Posting \subseteq Posting' /\ Posting' \subseteq Posting \cup {x}
    BY <1>3 DEF Posting
  <1>7. QueueSound'
    <2>1. \A e \in Queued : etype'[e] = etype[e]
      BY <1>2, <1>4, <1>12
    <2>2. \A u, v \in Stops :
             stop'[u].at = "posting" /\ stop'[v].at = "posting" /\ u # v
                 => stop'[u].event # stop'[v].event
      BY <1>3 DEF EventInv, QueueSound
    <2> QED BY <1>2, <1>5, <1>6, <2>1, <2>2 DEF EventInv, QueueSound
  <1>8. StopsSound'
    BY <1>1, <1>3, <1>4 DEF EventInv, StopsSound
  <1>9. Lost' \subseteq Lost \cup {x}
    BY <1>4, <1>5, <1>6 DEF Lost
  <1>10. LostOnce'
    BY <1>4, <1>9, <1>1 DEF LostOnce, EventInv, Lost
  <1>11. Working'
    BY <1>2, <1>4, NoneIsNoEvent DEF Working, EventInv, EventType
  <1> QED BY <1>7, <1>8, <1>10, <1>11 DEF EventInv

-----------------------------------------------------------------------------
(* Every action                                                            *)

LEMMA EventInit == Init => EventInv
  <1> SUFFICES ASSUME Init PROVE EventInv
    OBVIOUS
  <1>1. EventType
    <2>1. keepsUp \in BOOLEAN /\ 0 \in 0..MaxTries
      BY EnvAssumption, SizesAssumption DEF Init
    <2>2. stop \in [Stops -> [at : {"none", "created", "getting", "posting"},
                              tries : 0..MaxTries, event : Events \cup {None}]]
      BY <2>1 DEF Init, NoStop
    <2>3. queue \in Seq(Events)
      BY DEF Init
    <2>4. etype \in [Events -> EventTypes]
      BY DEF Init, EventTypes
    <2>6. src \in [Events -> Bufs \cup {None}]
      BY DEF Init
    <2>7. count \in 0..2 /\ frame \in Bufs \cup {None}
      BY DEF Init
    <2>8. prevent \in BOOLEAN
      BY Zenon DEF Init
    <2>5. worker \in {"receive", "start_file", "stop_free"} /\ current \in Events \cup {None}
      BY DEF Init
    <2> QED BY <2>1, <2>2, <2>3, <2>4, <2>5, <2>6, <2>7, <2>8 DEF EventType
  <1>2. Queued = {} /\ Posting = {} /\ \A e \in Events : etype[e] = "EMPTY"
    BY DEF Init, Queued, Posting, NoStop
  <1>3. Lost = {}
    BY <1>2 DEF Lost
  <1>4. QueueSound /\ StopsSound /\ Working
    BY <1>2 DEF Init, QueueSound, StopsSound, Working, NoStop
  <1> QED BY <1>1, <1>3, <1>4 DEF EventInv, LostOnce

(* The steps that leave the events alone *)
LEMMA CreateStopKeeps ==
    ASSUME EventType, CreateStop
    PROVE  PostingKept /\ stop' \in [Stops -> [at : {"none", "created", "getting", "posting"},
                                          tries : 0..MaxTries, event : Events \cup {None}]]
  <1> DEFINE t == First(FreeStops)
  <1>1. t \in Stops /\ stop[t].at = "none"
    BY FreeStopIn DEF CreateStop, FreeStops
  <1>2. stop' = [stop EXCEPT ![t].at = "created"]
    BY DEF CreateStop
  <1> QED BY <1>1, <1>2 DEF EventType, PostingKept

LEMMA UnchangedStops == stop' = stop => PostingKept
  BY DEF PostingKept

LEMMA StopTaskKeeps ==
    ASSUME EventInv, NEW t \in Stops, StopTask(t)
    PROVE  EventInv'
  <1>1. CASE StopBegins(t)
    <2>1. EventType' /\ PostingKept
      BY <1>1 DEF StopBegins, EventInv, EventType, PostingKept, eventVars, workerVars
    <2> QED BY <1>1, <2>1, EventsAlone DEF StopBegins, workerVars
  <1>2. CASE StopGets(t)
    <2>1. /\ stop[t].at = "getting" /\ UNCHANGED <<queue, worker, current, count, prevent>>
          /\ stop[t].tries \in 0..MaxTries /\ MaxTries \in Nat
          /\ UNCHANGED <<keepsUp, frame>>
      BY <1>2, SizesAssumption DEF StopGets, workerVars, pushVars, EventInv, EventType
    <2>2. CASE Empty = {}
      <3>1. EmptyEvent = None
        BY <2>2 DEF EmptyEvent
      <3>2. /\ UNCHANGED <<etype, src>>
            /\ stop' = [stop EXCEPT ![t] = IF stop[t].tries = MaxTries THEN NoStop
                                           ELSE Retry(stop[t])]
        BY <1>2, <3>1 DEF StopGets
      <3>3. EventType' /\ PostingKept
        <4>1. CASE stop[t].tries = MaxTries
          <5>1. stop' = [stop EXCEPT ![t] = NoStop]
            BY <3>2, <4>1
          <5> QED BY <2>1, <3>2, <5>1 DEF EventInv, EventType, PostingKept, NoStop
        <4>2. CASE stop[t].tries # MaxTries
          <5>1. stop' = [stop EXCEPT ![t] = Retry(stop[t])] /\ stop[t].tries + 1 \in 0..MaxTries
            BY <2>1, <3>2, <4>2
          <5>2. Retry(stop[t]) = [stop[t] EXCEPT !.tries = stop[t].tries + 1]
            BY DEF Retry
          <5>3. Retry(stop[t]) \in [at : {"none", "created", "getting", "posting"},
                                    tries : 0..MaxTries, event : Events \cup {None}]
                /\ Retry(stop[t]).at = stop[t].at /\ Retry(stop[t]).event = stop[t].event
            BY <5>1, <5>2 DEF EventInv, EventType
          <5>4. PostingKept
            BY <5>1, <5>3 DEF EventInv, EventType, PostingKept
          <5> QED BY <2>1, <3>2, <5>1, <5>3, <5>4 DEF EventInv, EventType
        <4> QED BY <4>1, <4>2
      <3> QED BY <2>1, <3>2, <3>3, EventsAlone DEF eventVars
    <2>3. CASE Empty # {}
      <3> DEFINE x == EmptyEvent
      <3>1. x \in Events /\ x # None
        BY <2>3, EmptyEventIn, NoneIsNoEvent
      <3>2. /\ etype' = [etype EXCEPT ![x] = "PREPARING"] /\ src' = [src EXCEPT ![x] = None]
            /\ stop' = [stop EXCEPT ![t] =
                           IF stop[t].tries = MaxTries THEN NoStop
                           ELSE [at |-> "posting", tries |-> 0, event |-> x]]
        BY <1>2, <3>1 DEF StopGets, Fill
      <3>3. EventType'
        BY <2>1, <3>1, <3>2 DEF EventInv, EventType, EventTypes, NoStop
      <3>4. stop'[t].at = "posting" => stop'[t].event = x
        BY <3>2 DEF EventInv, EventType, NoStop
      <3>5. \A u \in Stops \ {t} : stop'[u] = stop[u]
        BY <3>2 DEF EventInv, EventType
      <3> QED BY <2>1, <2>3, <3>2, <3>3, <3>4, <3>5, EventTaken
    <2> QED BY <2>2, <2>3
  <1>3. CASE StopPosts(t)
    <2> DEFINE x == stop[t].event
    <2>1. /\ stop[t].at = "posting" /\ x \in Events /\ x \notin Queued /\ x # current
      BY <1>3 DEF StopPosts, EventInv, StopsSound, QueueSound, Posting
    <2>2. Posts
      BY <2>1, EveryEventFits DEF PostSucceeds, Posting
    <2>3. /\ etype' = [etype EXCEPT ![x] = "COMMAND_STOP"] /\ src' = [src EXCEPT ![x] = None]
          /\ queue' = Append(queue, x) /\ stop' = [stop EXCEPT ![t] = NoStop]
          /\ UNCHANGED <<worker, current, count, prevent, keepsUp, frame>>
      BY <1>3, <2>2 DEF StopPosts, Fill, Post, workerVars, pushVars
    <2>4. EventType'
      BY <2>1, <2>3, SizesAssumption DEF EventInv, EventType, EventTypes, NoStop
    <2>5. stop'[t].at # "posting" /\ \A u \in Stops \ {t} : stop'[u] = stop[u]
      BY <2>3 DEF EventInv, EventType, NoStop
    <2>6. \A u \in Stops \ {t} : stop[u].at = "posting" => stop[u].event # x
      BY <2>1 DEF EventInv, QueueSound
    <2>7. \A u \in Stops :
               /\ stop'[u].at = "posting" =>
                     /\ stop[u].at = "posting" /\ stop'[u].event = stop[u].event
                     /\ stop[u].event # x
               /\ stop[u].at = "posting" /\ stop'[u].at # "posting" => stop[u].event = x
      BY <2>5, <2>6
    <2> QED BY <2>1, <2>3, <2>4, <2>7, EventPosted DEF Commands
  <1> QED BY <1>1, <1>2, <1>3 DEF StopTask

LEMMA KeyKeeps ==
    ASSUME EventInv, Key
    PROVE  EventInv'
  <1>1. CASE KeyStops
    <2>1. PostingKept /\ EventType'
      BY <1>1, CreateStopKeeps DEF KeyStops, EventInv, EventType, eventVars, workerVars, pushVars
    <2> QED BY <1>1, <2>1, EventsAlone DEF KeyStops, workerVars, pushVars
  <1>2. CASE KeyStarts
    <2>1. Empty # {} /\ EmptyEvent \in Events
      BY <1>2, NoneIsNoEvent, EmptyEventIn DEF KeyStarts
    <2>2. Posts
      BY <2>1, EveryEventFits DEF PostSucceeds
    <2>3. EventType'
      BY <1>2, <2>1, <2>2
         DEF KeyStarts, Fill, Post, EventInv, EventType, EventTypes, workerVars, pushVars
    <2> QED BY <1>2, <2>1, <2>3, EmptyPosted, UnchangedStops
            DEF KeyStarts, workerVars, pushVars, Commands
  <1> QED BY <1>1, <1>2 DEF Key

(* The event of the first vsync is filled and not posted. *)
LEMMA EventLost ==
    ASSUME EventInv, EventType', Empty # {}, count = 0, ~prevent, count' > 0,
           etype' = [etype EXCEPT ![EmptyEvent] = "IMAGE_DATA"],
           UNCHANGED <<queue, stop, worker, current>>
    PROVE  EventInv'
  <1> DEFINE x == EmptyEvent
  <1>1. x \in Events /\ etype[x] = "EMPTY" /\ x # None
    BY EmptyEventIn, NoneIsNoEvent
  <1>2. x \notin Queued /\ x # current /\ x \notin Posting
    BY <1>1 DEF EventInv, QueueSound, Working, Commands, StopsSound, Posting
  <1>3. Queued \subseteq Events
    BY DEF Queued, EventInv, EventType
  <1>4. etype'[x] = "IMAGE_DATA" /\ \A e \in Events \ {x} : etype'[e] = etype[e]
    BY <1>1 DEF EventInv, EventType
  <1>5. Queued' = Queued /\ Posting' = Posting
    BY DEF Queued, Posting
  <1>6. QueueSound'
    <2>1. \A e \in Queued : etype'[e] = etype[e]
      BY <1>2, <1>3, <1>4
    <2> QED BY <1>5, <2>1 DEF EventInv, QueueSound
  <1>7. StopsSound'
    BY <1>2, <1>4 DEF EventInv, StopsSound, Posting
  <1>8. Lost' \subseteq Lost \cup {x}
    BY <1>4, <1>5 DEF Lost
  <1>9. \A e \in Lost : etype[e] = "PREPARING"
    <2>1. ~ (count > 0 \/ prevent)
      OBVIOUS
    <2> QED BY <2>1 DEF EventInv, LostOnce
  <1>10. LostOnce'
    <2>1. x \notin Lost
      BY <1>1 DEF Lost
    <2>2. \A e \in Lost' : e = x \/ etype'[e] = "PREPARING"
      BY <1>4, <1>8, <1>9, <2>1 DEF Lost
    <2> QED BY <1>4, <2>2 DEF LostOnce
  <1>11. Working'
    BY <1>2, <1>4 DEF Working, EventInv, EventType
  <1> QED BY <1>6, <1>7, <1>10, <1>11 DEF EventInv

LEMMA FramesType ==
    ASSUME EventType
    PROVE  /\ CurrentFrame \in Bufs \cup {None} /\ OtherFrame(CurrentFrame) \in Bufs \cup {None}
           /\ (IF count = 0 THEN 1 ELSE 2) \in 1..2
  <1>1. CurrentFrame \in Bufs \cup {None}
    BY DEF EventType, CurrentFrame, Bufs
  <1> QED BY <1>1 DEF OtherFrame, Bufs

LEMMA VsyncKeeps ==
    ASSUME EventInv, Vsync
    PROVE  EventInv'
  <1>1. CASE VsyncPrevented
    <2>1. EventType'
      BY <1>1 DEF VsyncPrevented, EventInv, EventType, eventVars, workerVars
    <2> QED BY <1>1, <2>1, EventsAlone, UnchangedStops DEF VsyncPrevented, workerVars
  <1>2. CASE VsyncNoMemory
    <2>1. PostingKept /\ EventType'
      BY <1>2, CreateStopKeeps DEF VsyncNoMemory, EventInv, EventType, eventVars, workerVars
    <2> QED BY <1>2, <2>1, EventsAlone DEF VsyncNoMemory, workerVars
  <1>3. CASE VsyncNoEvent
    <2>1. count' \in 1..2 /\ frame' \in Bufs \cup {None}
      BY <1>3, FramesType DEF VsyncNoEvent, EventInv
    <2>2. PostingKept /\ EventType'
      BY <1>3, <2>1, CreateStopKeeps DEF VsyncNoEvent, EventInv, EventType, eventVars, workerVars
    <2> QED BY <1>3, <2>1, <2>2, EventsAlone DEF VsyncNoEvent, workerVars
  <1>4. CASE VsyncFrame
    <2>1. /\ count' \in 1..2 /\ frame' \in Bufs \cup {None}
          /\ CurrentFrame \in Bufs \cup {None}
      BY <1>4, FramesType DEF VsyncFrame, EventInv
    <2>2. Posts /\ EmptyEvent \in Events
      BY <1>4, EveryEventFits, EmptyEventIn DEF VsyncFrame, PostSucceeds
    <2>3. /\ stop' = stop /\ Empty # {} /\ ~prevent /\ UNCHANGED <<keepsUp, prevent, worker, current>>
          /\ Fill(EmptyEvent, "IMAGE_DATA", CurrentFrame)
      BY <1>4, <2>2 DEF VsyncFrame, workerVars
    <2>4. CASE count = 0
      <3>1. queue' = queue
        BY <1>4, <2>4 DEF VsyncFrame, PostsFrame, EventInv, EventType
      <3>2. EventType'
        BY <2>1, <2>2, <2>3, <3>1 DEF EventInv, EventType, Fill, EventTypes
      <3>3. etype' = [etype EXCEPT ![EmptyEvent] = "IMAGE_DATA"]
        BY <2>3 DEF Fill
      <3> QED BY <2>1, <2>3, <2>4, <3>1, <3>2, <3>3, EventLost
    <2>5. CASE count # 0
      <3>1. Post(EmptyEvent)
        BY <1>4, <2>5 DEF VsyncFrame, PostsFrame, EventInv, EventType
      <3>2. EventType'
        BY <2>1, <2>2, <2>3, <3>1 DEF EventInv, EventType, Fill, EventTypes, Post
      <3> QED BY <2>1, <2>3, <3>1, <3>2, EmptyPosted, UnchangedStops
    <2> QED BY <2>4, <2>5
  <1> QED BY <1>1, <1>2, <1>3, <1>4 DEF Vsync

LEMMA HandledKeeps ==
    ASSUME EventInv, worker = "receive", queue # <<>>, Handled,
           UNCHANGED <<keepsUp, pushVars, stop>>
    PROVE  EventInv'
  <1>1. Head(queue) \in Events /\ Tail(queue) \in Seq(Events)
    BY DEF EventInv, EventType
  <1>2. EventType'
    BY <1>1 DEF EventInv, EventType, EventTypes, Handled, Fill, pushVars
  <1> QED BY <1>2, EventHandled DEF pushVars

LEMMA WaitKeeps ==
    ASSUME EventInv, worker = "receive", queue # <<>>, etype[Head(queue)] \in Commands,
           NEW point \in {"start_file", "stop_free"}, WaitAt(point),
           UNCHANGED <<keepsUp, pushVars, stop>>
    PROVE  EventInv'
  <1>1. Head(queue) \in Events /\ Tail(queue) \in Seq(Events)
    BY DEF EventInv, EventType
  <1>2. EventType'
    BY <1>1 DEF EventInv, EventType, EventTypes, WaitAt, pushVars
  <1> QED BY <1>2, EventKept DEF pushVars

LEMMA ReleaseKeeps ==
    ASSUME EventInv, worker # "receive", Release, UNCHANGED <<keepsUp, pushVars, stop>>
    PROVE  EventInv'
  <1>1. EventType'
    BY DEF EventInv, EventType, EventTypes, Release, Fill, pushVars
  <1> QED BY <1>1, EventReleased DEF pushVars

LEMMA WorkerKeeps ==
    ASSUME EventInv, Worker
    PROVE  EventInv'
  <1>1. CASE DropImage \/ ImageFindsNoBuffer \/ StoreImage \/ IgnoreStart \/ IgnoreStop
    BY <1>1, HandledKeeps
       DEF DropImage, ImageFindsNoBuffer, StoreImage, IgnoreStart, IgnoreStop, Received
  <1>2. CASE StartAllocates \/ StopCloses
    BY <1>2, WaitKeeps DEF StartAllocates, StopCloses, Received, Commands
  <1>3. CASE StartHasNoName \/ StartRecords \/ StopFrees
    BY <1>3, ReleaseKeeps DEF StartHasNoName, StartRecords, StopFrees
  <1> QED BY <1>1, <1>2, <1>3 DEF Worker

LEMMA OthersKeep ==
    ASSUME EventInv, CopyEnds \/ (\E b \in Bufs : Write(b)) \/ UNCHANGED vars
    PROVE  EventInv'
  <1>1. UNCHANGED <<keepsUp, pushVars, eventVars, stop, worker, current>>
    BY DEF CopyEnds, Write, WriteBegins, WriteEnds, vars, workerVars
  <1>2. EventType'
    BY <1>1 DEF EventInv, EventType, pushVars, eventVars
  <1> QED BY <1>1, <1>2, EventsAlone, UnchangedStops DEF pushVars

LEMMA EventStep == EventInv /\ [Next]_vars => EventInv'
  <1> SUFFICES ASSUME EventInv, [Next]_vars PROVE EventInv'
    OBVIOUS
  <1> QED BY KeyKeeps, VsyncKeeps, WorkerKeeps, StopTaskKeeps, OthersKeep DEF Next

-----------------------------------------------------------------------------
(* Recordings: their state, their file, and the raw mode of LiveView       *)

SessionType ==
    /\ state \in {"ACTIVE", "INACTIVE"} /\ open \in BOOLEAN /\ allocated \in BOOLEAN
    /\ file \in 1..MaxSessions \cup {None} /\ cropBuf \in Bufs \cup {None}
    /\ sessions \in 0..MaxSessions /\ lvRequests \in {0, 1}

SessionInv ==
    /\ SessionType
    /\ lvRequests <= sessions
    /\ worker = "start_file" =>
        /\ state = "INACTIVE" /\ allocated /\ cropBuf # None /\ lvRequests = 1
    /\ worker = "stop_free" => state = "ACTIVE" /\ lvRequests = 0
    /\ state = "ACTIVE" => allocated
    /\ worker = "receive" =>
        /\ lvRequests = 1 <=> state = "ACTIVE" \/ allocated
        /\ state = "INACTIVE" => (allocated <=> cropBuf # None)
    /\ file # None => state = "ACTIVE" /\ file = sessions
    /\ open => file # None /\ worker = "receive"

LEMMA SessionInit == Init => SessionInv
  <1> SUFFICES ASSUME Init PROVE SessionInv
    OBVIOUS
  <1>1. open \in BOOLEAN /\ allocated \in BOOLEAN
    BY Zenon DEF Init
  <1>2. 0 \in 0..MaxSessions
    BY BoundAssumption
  <1>3. SessionType
    BY <1>1, <1>2 DEF Init, SessionType
  <1>4. ~allocated /\ ~open /\ worker = "receive" /\ lvRequests = 0
    BY DEF Init
  <1> QED BY <1>3, <1>4 DEF Init, SessionInv

LEMMA SessionStep ==
    ASSUME EventInv, SessionInv, [Next]_vars
    PROVE  SessionInv'
  <1> USE DEF SessionInv, SessionType
  <1>1. ASSUME UNCHANGED <<state, open, allocated, file, sessions, lvRequests, worker, cropBuf>>
        PROVE  SessionInv'
    BY <1>1
  <1>2. CASE Key \/ Vsync \/ CopyEnds \/ (\E t \in Stops : StopTask(t)) \/ UNCHANGED vars
    <2>1. UNCHANGED <<workerVars, fileVars>>
      BY <1>2 DEF Key, KeyStops, KeyStarts, Vsync, VsyncPrevented, VsyncNoMemory, VsyncNoEvent,
                  VsyncFrame, CopyEnds, StopTask, StopBegins, StopGets, StopPosts, vars
    <2> QED BY <1>1, <2>1 DEF workerVars, fileVars
  <1>3. CASE \E b \in Bufs : Write(b)
    <2>1. UNCHANGED <<workerVars, file, open>>
      BY <1>3 DEF Write, WriteBegins, WriteEnds, fileVars
    <2> QED BY <1>1, <2>1 DEF workerVars
  <1>4. CASE DropImage \/ IgnoreStart \/ IgnoreStop
    <2>1. UNCHANGED <<state, open, allocated, file, sessions, lvRequests, worker, cropBuf>>
      BY <1>4 DEF DropImage, IgnoreStart, IgnoreStop, Handled, fileVars
    <2> QED BY <1>1, <2>1
  <1>5. CASE ImageFindsNoBuffer \/ StoreImage
    <2>1. /\ UNCHANGED <<state, open, allocated, file, sessions, lvRequests, worker>>
          /\ state = "ACTIVE" /\ cropBuf' \in Bufs \cup {None}
      BY <1>5 DEF ImageFindsNoBuffer, StoreImage, Handled, fileVars, CanStore, Bufs, None
    <2> QED BY <2>1
  <1>6. CASE StartAllocates
    <2>1. /\ worker = "receive" /\ state = "INACTIVE" /\ cropBuf = None /\ sessions < MaxSessions
          /\ allocated' /\ cropBuf' = 0 /\ lvRequests' = lvRequests + 1
          /\ sessions' = sessions + 1 /\ worker' = "start_file"
          /\ UNCHANGED <<state, file, open>>
      BY <1>6 DEF StartAllocates, WaitAt, Received, fileVars
    <2>2. allocated' \in BOOLEAN
      BY <1>6, Zenon DEF StartAllocates
    <2>3. lvRequests = 0 /\ ~open /\ file = None
      BY <2>1
    <2>4. sessions' \in 0..MaxSessions /\ cropBuf' \in Bufs /\ cropBuf' # None
      BY <2>1, BoundAssumption DEF Bufs, None
    <2> QED BY <2>1, <2>2, <2>3, <2>4
  <1>7. CASE StartHasNoName
    <2>1. /\ worker = "start_file" /\ worker' = "receive"
          /\ UNCHANGED <<state, cropBuf, allocated, lvRequests, sessions, file, open>>
      BY <1>7 DEF StartHasNoName, Release, fileVars
    <2> QED BY <2>1
  <1>8. CASE StartRecords
    <2>1. /\ worker = "start_file" /\ worker' = "receive" /\ state' = "ACTIVE" /\ file = None
          /\ UNCHANGED <<cropBuf, allocated, lvRequests, sessions>>
      BY <1>8 DEF StartRecords, Release
    <2>2. CASE file' = sessions /\ open' = TRUE
      <3>1. open' \in BOOLEAN
        BY <2>2, Zenon
      <3>2. sessions \in 1..MaxSessions /\ file' = sessions /\ file' # None
        BY <2>1, <2>2, BoundAssumption DEF None
      <3>3. SessionType'
        BY <2>1, <3>1, <3>2
      <3> QED BY <2>1, <3>2, <3>3
    <2>3. CASE UNCHANGED fileVars
      <3>1. UNCHANGED <<file, open>> /\ ~open
        BY <2>1, <2>3 DEF fileVars
      <3>2. open' \in BOOLEAN /\ ~open' /\ file' = None
        BY <2>1, <3>1
      <3>3. SessionType'
        BY <2>1, <3>2
      <3> QED BY <2>1, <3>2, <3>3
    <2> QED BY <1>8, <2>2, <2>3 DEF StartRecords
  <1>9. CASE StopCloses
    <2>1. /\ worker = "receive" /\ worker' = "stop_free" /\ state = "ACTIVE" /\ ~open'
          /\ lvRequests' = lvRequests - 1
          /\ UNCHANGED <<state, cropBuf, allocated, sessions, file>>
      BY <1>9 DEF StopCloses, WaitAt, Received
    <2>2. open' \in BOOLEAN
      BY <1>9, Zenon DEF StopCloses
    <2>3. lvRequests = 1 /\ lvRequests' = 0
      BY <2>1
    <2> QED BY <2>1, <2>2, <2>3
  <1>10. CASE StopFrees
    <2>1. /\ worker = "stop_free" /\ worker' = "receive" /\ state' = "INACTIVE"
          /\ file' = None /\ cropBuf' = None /\ ~allocated'
          /\ UNCHANGED <<lvRequests, sessions, open>>
      BY <1>10 DEF StopFrees, Release
    <2>2. allocated' \in BOOLEAN
      BY <1>10, Zenon DEF StopFrees
    <2> QED BY <2>1, <2>2
  <1> QED BY <1>2, <1>3, <1>4, <1>5, <1>6, <1>7, <1>8, <1>9, <1>10 DEF Next, Worker

-----------------------------------------------------------------------------
(* After a stop command there are no more frames                           *)

Ended == prevent /\ \A e \in Queued : etype[e] # "IMAGE_DATA"

(* No frame is queued behind a stop command; the task that posts one has
   seen to it. *)
EndInv ==
    /\ \A t \in Stops : stop[t].at \in {"getting", "posting"} => prevent
    /\ \A i \in DOMAIN queue : etype[queue[i]] = "COMMAND_STOP" =>
        /\ prevent
        /\ \A j \in DOMAIN queue : j > i => etype[queue[j]] # "IMAGE_DATA"
    /\ worker = "stop_free" => Ended

LEMMA EndInit == Init => EndInv
  BY DEF Init, EndInv, NoStop

(* What a step does to the queue *)
QueueKept  == queue' = queue /\ \A e \in Queued : etype'[e] = etype[e]
QueueTaken == /\ queue # <<>> /\ queue' = Tail(queue)
              /\ \A e \in Queued \ {Head(queue)} : etype'[e] = etype[e]
QueueGrown == \E x \in Events \ Queued :
    /\ queue' = Append(queue, x)
    /\ \A e \in Queued : etype'[e] = etype[e]
    /\ etype'[x] = "IMAGE_DATA" => ~prevent
    /\ etype'[x] = "COMMAND_STOP" => prevent

LEMMA EmptyFilled ==
    ASSUME EventInv, Empty # {}, NEW type, NEW from, Fill(EmptyEvent, type, from)
    PROVE  /\ EmptyEvent \in Events \ Queued /\ etype'[EmptyEvent] = type
           /\ \A e \in Queued : etype'[e] = etype[e]
  <1>1. EmptyEvent \in Events /\ EmptyEvent \notin Queued
    BY EmptyEventIn DEF EventInv, QueueSound
  <1>2. Queued \subseteq Events
    BY DEF Queued, EventInv, EventType
  <1> QED BY <1>1, <1>2 DEF Fill, EventInv, EventType

LEMMA QueueEffect ==
    ASSUME EventInv, EndInv, [Next]_vars
    PROVE  QueueKept \/ QueueTaken \/ QueueGrown
  <1>0. Queued \subseteq Events /\ (queue # <<>> => Head(queue) \in Events)
    BY DEF Queued, EventInv, EventType
  <1>1. CASE UNCHANGED eventVars
    BY <1>1 DEF QueueKept, eventVars
  <1>2. CASE \/ KeyStops \/ VsyncPrevented \/ VsyncNoMemory \/ VsyncNoEvent \/ CopyEnds
             \/ \E t \in Stops : StopBegins(t)
             \/ \E b \in Bufs : Write(b)
             \/ UNCHANGED vars
    BY <1>1, <1>2 DEF KeyStops, VsyncPrevented, VsyncNoMemory, VsyncNoEvent, CopyEnds,
                      StopBegins, Write, WriteBegins, WriteEnds, vars
  <1>3. ASSUME NEW t \in Stops, StopGets(t) PROVE QueueKept
    <2>1. CASE Empty = {}
      BY <1>3, <2>1 DEF StopGets, EmptyEvent, QueueKept
    <2>2. CASE Empty # {}
      BY <1>3, <2>2, NoneIsNoEvent, EmptyFilled DEF StopGets, QueueKept
    <2> QED BY <2>1, <2>2
  <1>4. ASSUME NEW t \in Stops, StopPosts(t) PROVE QueueGrown
    <2> DEFINE x == stop[t].event
    <2>1. /\ stop[t].at = "posting" /\ x \in Events /\ x \notin Queued /\ prevent
      BY <1>4 DEF StopPosts, EventInv, StopsSound, QueueSound, Posting, EndInv
    <2>2. Posts
      BY <2>1, EveryEventFits DEF PostSucceeds, Posting
    <2>3. etype' = [etype EXCEPT ![x] = "COMMAND_STOP"] /\ queue' = Append(queue, x)
      BY <1>4, <2>2 DEF StopPosts, Fill, Post
    <2>4. etype'[x] = "COMMAND_STOP" /\ \A e \in Queued : etype'[e] = etype[e]
      BY <1>0, <2>1, <2>3 DEF EventInv, EventType
    <2> QED BY <2>1, <2>3, <2>4 DEF QueueGrown
  <1>5. CASE KeyStarts
    <2>1. Empty # {}
      BY <1>5, NoneIsNoEvent DEF KeyStarts
    <2>2. queue' = Append(queue, EmptyEvent)
      BY <1>5, <2>1, EveryEventFits DEF KeyStarts, Post, PostSucceeds
    <2>3. /\ EmptyEvent \in Events \ Queued /\ etype'[EmptyEvent] = "COMMAND_START"
          /\ \A e \in Queued : etype'[e] = etype[e]
      BY <1>5, <2>1, EmptyFilled DEF KeyStarts
    <2> QED BY <2>2, <2>3 DEF QueueGrown
  <1>6. CASE VsyncFrame
    <2>1. Empty # {} /\ ~prevent /\ (queue' = queue \/ queue' = Append(queue, EmptyEvent))
      BY <1>6 DEF VsyncFrame, Post
    <2>2. /\ EmptyEvent \in Events \ Queued /\ etype'[EmptyEvent] = "IMAGE_DATA"
          /\ \A e \in Queued : etype'[e] = etype[e]
      BY <1>6, <2>1, EmptyFilled DEF VsyncFrame
    <2> QED BY <2>1, <2>2 DEF QueueGrown, QueueKept
  <1>7. CASE DropImage \/ ImageFindsNoBuffer \/ StoreImage \/ IgnoreStart \/ IgnoreStop
    <2>1. queue # <<>> /\ Handled
      BY <1>7 DEF DropImage, ImageFindsNoBuffer, StoreImage, IgnoreStart, IgnoreStop, Received
    <2> QED BY <1>0, <2>1 DEF QueueTaken, Handled, Fill, EventInv, EventType
  <1>8. CASE StartAllocates \/ StopCloses
    BY <1>8 DEF QueueTaken, StartAllocates, StopCloses, WaitAt, Received
  <1>9. CASE StartHasNoName \/ StartRecords \/ StopFrees
    <2>1. Release /\ worker # "receive"
      BY <1>9 DEF StartHasNoName, StartRecords, StopFrees
    <2>2. current \notin Queued /\ current \in Events
      BY <2>1 DEF EventInv, EventType, Working, QueueSound
    <2> QED BY <1>0, <2>1, <2>2 DEF QueueKept, Release, Fill, EventInv, EventType
  <1> QED BY <1>2, <1>3, <1>4, <1>5, <1>6, <1>7, <1>8, <1>9
          DEF Next, Key, Vsync, Worker, StopTask

(* prevent_recording, once set, stays; a stop task sets it before anything else. *)
LEMMA PreventStays ==
    ASSUME EventInv, EndInv, [Next]_vars
    PROVE  /\ prevent => prevent'
           /\ \A t \in Stops : stop'[t].at \in {"getting", "posting"} => prevent'
  <1>1. ASSUME UNCHANGED <<prevent, stop>>
        PROVE  /\ prevent => prevent'
               /\ \A t \in Stops : stop'[t].at \in {"getting", "posting"} => prevent'
    BY <1>1 DEF EndInv
  <1>2. ASSUME prevent' = prevent, CreateStop
        PROVE  /\ prevent => prevent'
               /\ \A t \in Stops : stop'[t].at \in {"getting", "posting"} => prevent'
    BY <1>2 DEF EndInv, CreateStop, EventInv, EventType
  <1>3. ASSUME NEW t \in Stops, StopTask(t)
        PROVE  /\ prevent => prevent'
               /\ \A u \in Stops : stop'[u].at \in {"getting", "posting"} => prevent'
    <2>1. CASE StopBegins(t)
      BY <2>1 DEF StopBegins
    <2>2. CASE StopGets(t) \/ StopPosts(t)
      <3>1. prevent' = prevent /\ prevent
        BY <2>2 DEF StopGets, StopPosts, pushVars, EndInv
      <3> QED BY <3>1
    <2> QED BY <1>3, <2>1, <2>2 DEF StopTask
  <1>4. CASE Key
    BY <1>2, <1>1, <1>4 DEF Key, KeyStops, KeyStarts, pushVars
  <1>5. CASE Vsync
    BY <1>2, <1>1, <1>5 DEF Vsync, VsyncPrevented, VsyncNoMemory, VsyncNoEvent, VsyncFrame
  <1>6. CASE Worker
    BY <1>1, <1>6 DEF Worker, DropImage, ImageFindsNoBuffer, StoreImage, IgnoreStart, IgnoreStop,
                      StartAllocates, StopCloses, StartHasNoName, StartRecords, StopFrees, pushVars
  <1>7. CASE CopyEnds \/ (\E b \in Bufs : Write(b)) \/ UNCHANGED vars
    BY <1>1, <1>7 DEF CopyEnds, Write, WriteBegins, WriteEnds, vars, pushVars
  <1> QED BY <1>3, <1>4, <1>5, <1>6, <1>7 DEF Next

LEMMA EndedStays ==
    ASSUME EventInv, EndInv, [Next]_vars, Ended
    PROVE  Ended'
  <1>1. prevent'
    BY PreventStays DEF Ended
  <1>2. CASE QueueKept
    BY <1>1, <1>2 DEF QueueKept, Ended, Queued
  <1>3. CASE QueueTaken
    <2>1. Queued' = Queued \ {Head(queue)}
      BY <1>3, TailQueued DEF QueueTaken, EventInv, EventType, QueueSound
    <2> QED BY <1>1, <1>3, <2>1 DEF QueueTaken, Ended
  <1>4. CASE QueueGrown
    <2>1. PICK x \in Events \ Queued :
            /\ queue' = Append(queue, x)
            /\ \A e \in Queued : etype'[e] = etype[e]
            /\ etype'[x] = "IMAGE_DATA" => ~prevent
      BY <1>4 DEF QueueGrown
    <2>2. Queued' = Queued \cup {x}
      BY <2>1, AppendQueued DEF EventInv, EventType, QueueSound
    <2> QED BY <1>1, <2>1, <2>2 DEF Ended
  <1> QED BY <1>2, <1>3, <1>4, QueueEffect

LEMMA EndStep ==
    ASSUME EventInv, EndInv, [Next]_vars
    PROVE  EndInv'
  <1> DEFINE StopLast(q, ty, p) ==
        \A i \in DOMAIN q : ty[q[i]] = "COMMAND_STOP" =>
            /\ p
            /\ \A j \in DOMAIN q : j > i => ty[q[j]] # "IMAGE_DATA"
  <1>1. StopLast(queue, etype, prevent) /\ queue \in Seq(Events)
    BY DEF EndInv, EventInv, EventType
  <1>2. prevent => prevent'
    BY PreventStays
  <1>3. StopLast(queue', etype', prevent')
    <2>1. CASE QueueKept
      BY <1>1, <1>2, <2>1 DEF QueueKept, Queued
    <2>2. CASE QueueTaken
      <3>1. /\ Len(queue) \in Nat /\ Len(queue') = Len(queue) - 1
            /\ \A i \in 1..Len(queue') : queue'[i] = queue[i + 1] /\ i + 1 \in 1..Len(queue)
            /\ DOMAIN queue = 1..Len(queue) /\ DOMAIN queue' = 1..Len(queue')
            /\ Head(queue) = queue[1] /\ 1 \in 1..Len(queue)
        BY <1>1, <2>2 DEF QueueTaken
      <3>2. \A i \in 1..Len(queue') : queue[i + 1] \in Queued \ {Head(queue)}
        BY <3>1 DEF EventInv, QueueSound, Queued
      <3>3. \A i \in 1..Len(queue') : etype'[queue'[i]] = etype[queue[i + 1]]
        BY <2>2, <3>1, <3>2 DEF QueueTaken
      <3>4. ASSUME NEW i \in 1..Len(queue'), etype'[queue'[i]] = "COMMAND_STOP"
            PROVE  /\ prevent
                   /\ \A j \in 1..Len(queue') : j > i => etype'[queue'[j]] # "IMAGE_DATA"
        <4>1. i + 1 \in 1..Len(queue) /\ etype[queue[i + 1]] = "COMMAND_STOP"
          BY <3>1, <3>3, <3>4
        <4>2. /\ prevent
              /\ \A k \in 1..Len(queue) : k > i + 1 => etype[queue[k]] # "IMAGE_DATA"
          BY <1>1, <3>1, <4>1
        <4>3. ASSUME NEW j \in 1..Len(queue'), j > i PROVE etype'[queue'[j]] # "IMAGE_DATA"
          <5>1. j + 1 \in 1..Len(queue) /\ j + 1 > i + 1
            BY <3>1, <4>3
          <5> QED BY <3>3, <4>2, <5>1
        <4> QED BY <4>2, <4>3
      <3> QED BY <1>2, <3>1, <3>4
    <2>3. CASE QueueGrown
      <3>1. PICK x \in Events \ Queued :
              /\ queue' = Append(queue, x)
              /\ \A e \in Queued : etype'[e] = etype[e]
              /\ etype'[x] = "IMAGE_DATA" => ~prevent
              /\ etype'[x] = "COMMAND_STOP" => prevent
        BY <2>3 DEF QueueGrown
      <3>2. /\ Len(queue) \in Nat /\ Len(queue') = Len(queue) + 1
            /\ \A i \in 1..Len(queue) : queue'[i] = queue[i]
            /\ queue'[Len(queue) + 1] = x
            /\ DOMAIN queue = 1..Len(queue) /\ DOMAIN queue' = 1..Len(queue')
        BY <1>1, <3>1
      <3>3. \A i \in 1..Len(queue') : i \in 1..Len(queue) \/ i = Len(queue')
        BY <3>2
      <3>4. \A i \in 1..Len(queue) : etype'[queue'[i]] = etype[queue[i]]
        BY <3>1, <3>2 DEF Queued
      <3>5. ASSUME NEW i \in 1..Len(queue'), etype'[queue'[i]] = "COMMAND_STOP"
            PROVE  prevent
        BY <1>1, <3>1, <3>2, <3>3, <3>4, <3>5
      <3>6. ASSUME NEW i \in 1..Len(queue'), etype'[queue'[i]] = "COMMAND_STOP",
                   NEW j \in 1..Len(queue'), j > i
            PROVE  etype'[queue'[j]] # "IMAGE_DATA"
        <4>1. CASE j = Len(queue')
          BY <3>1, <3>2, <3>5, <3>6, <4>1
        <4>2. CASE j \in 1..Len(queue)
          BY <1>1, <3>2, <3>3, <3>4, <3>6, <4>2
        <4> QED BY <3>3, <4>1, <4>2
      <3> QED BY <1>2, <3>2, <3>5, <3>6
    <2> QED BY <2>1, <2>2, <2>3, QueueEffect
  <1>4. worker' = "stop_free" => Ended'
    <2>1. CASE worker = "stop_free"
      BY <2>1, EndedStays DEF EndInv
    <2>2. CASE StopCloses
      <3>1. /\ queue # <<>> /\ etype[Head(queue)] = "COMMAND_STOP" /\ queue' = Tail(queue)
            /\ etype' = etype
        BY <2>2 DEF StopCloses, WaitAt, Received
      <3>2. /\ Len(queue) \in Nat /\ Len(queue') = Len(queue) - 1
            /\ \A i \in 1..Len(queue') : queue'[i] = queue[i + 1] /\ i + 1 \in 1..Len(queue)
                                          /\ i + 1 > 1
            /\ DOMAIN queue = 1..Len(queue) /\ DOMAIN queue' = 1..Len(queue')
            /\ Head(queue) = queue[1] /\ 1 \in 1..Len(queue)
        BY <1>1, <3>1
      <3>3. prevent /\ \A j \in 1..Len(queue) : j > 1 => etype[queue[j]] # "IMAGE_DATA"
        BY <1>1, <3>1, <3>2
      <3> QED BY <1>2, <3>1, <3>2, <3>3 DEF Ended, Queued
    <2>3. ASSUME ~StopCloses, worker # "stop_free" PROVE worker' # "stop_free"
      BY <2>3
         DEF Next, Key, KeyStops, KeyStarts, Vsync, VsyncPrevented, VsyncNoMemory, VsyncNoEvent,
             VsyncFrame, CopyEnds, StopTask, StopBegins, StopGets, StopPosts, Write, WriteBegins,
             WriteEnds, Worker, DropImage, ImageFindsNoBuffer, StoreImage, IgnoreStart, IgnoreStop,
             StartAllocates, StartHasNoName, StartRecords, StopFrees, Handled, Release, WaitAt,
             workerVars, vars
    <2> QED BY <2>1, <2>2, <2>3
  <1> QED BY <1>3, <1>4, PreventStays DEF EndInv

-----------------------------------------------------------------------------
(* Crop buffers: the copies into them and the tasks that write them out    *)

Values    == 0..MaxFrames
Copies    == [buf : Bufs, pos : 1..BufFrames, src : Bufs, value : Values]
Writers   == [at : {"none", "created", "writing"}, size : 0..BufFrames,
              file : 1..MaxSessions \cup {None}]

CaptureType ==
    /\ captured \in [Bufs -> None..MaxFrames] /\ target \in Bufs \cup {None}
    /\ stamp \in Values

BufferType ==
    /\ saved \in Seq(Values) /\ memory \in [Bufs -> Seq(Values)]
    /\ copies \subseteq Copies /\ edmacFree \in BOOLEAN /\ writer \in [Bufs -> Writers]

SingleCopy == /\ \A c, d \in copies : c = d
              /\ edmacFree <=> copies = {}

(* A buffer with a raw_write task is full and no longer the current one, as
   long as there are frames. *)
WritersFull ==
    \A b \in Bufs : writer[b].at # "none" => allocated /\ b # cropBuf /\ Cur(b) = BufFrames

(* A task writes to the file of its own recording, all of it in the buffer. *)
WritersOfTheirFile ==
    \A b \in Bufs : writer[b].at = "writing" =>
        /\ writer[b].file # None /\ writer[b].file <= sessions
        /\ worker = "start_file" => writer[b].file < sessions
        /\ open /\ writer[b].file = file => writer[b].size <= Cur(b)

BufferInv ==
    /\ CaptureType /\ BufferType /\ SingleCopy /\ FlushedAtRest /\ RoomKept
    /\ WritersFull \/ Ended
    /\ WritersOfTheirFile

LEMMA BufferInit == Init => BufferInv
  <1> SUFFICES ASSUME Init PROVE BufferInv
    OBVIOUS
  <1>1. 0 \in Values /\ 0 \in 0..BufFrames /\ BufFrames \in Nat
    BY BoundAssumption, SizesAssumption DEF Values
  <1>2. captured \in [Bufs -> None..MaxFrames]
    BY BoundAssumption DEF Init, None
  <1>3. CaptureType
    BY <1>1, <1>2 DEF Init, CaptureType
  <1>4. saved \in Seq(Values) /\ memory \in [Bufs -> Seq(Values)] /\ copies = {}
    BY DEF Init
  <1>5. edmacFree \in BOOLEAN /\ edmacFree
    BY Zenon DEF Init
  <1>6. writer \in [Bufs -> Writers] /\ \A b \in Bufs : writer[b].at = "none"
    BY <1>1 DEF Init, Writers, NoWrite
  <1>7. BufferType /\ SingleCopy /\ FlushedAtRest
    BY <1>4, <1>5, <1>6 DEF BufferType, SingleCopy, FlushedAtRest
  <1>8. RoomKept
    BY <1>1 DEF Init, RoomKept, Cur
  <1> QED BY <1>3, <1>6, <1>7, <1>8 DEF BufferInv, WritersFull, WritersOfTheirFile

(* The steps that leave the buffers alone *)
Buffers == <<saved, memory, copies, edmacFree, writer>>

LEMMA BuffersAlone ==
    ASSUME BufferInv, CaptureType', Ended => Ended',
           UNCHANGED Buffers, UNCHANGED <<allocated, cropBuf, worker, sessions, open, file>>
    PROVE  BufferInv'
  <1>1. BufferType' /\ SingleCopy' /\ FlushedAtRest'
    BY DEF BufferInv, BufferType, SingleCopy, FlushedAtRest, Buffers
  <1>2. RoomKept' /\ WritersOfTheirFile' /\ (WritersFull => WritersFull')
    BY DEF BufferInv, RoomKept, WritersOfTheirFile, WritersFull, Cur, Buffers
  <1> QED BY <1>1, <1>2 DEF BufferInv

LEMMA DisturbKeeps ==
    ASSUME BufferInv, CaptureType', Ended => Ended', NEW S, copies' = Disturb(S),
           UNCHANGED <<saved, memory, edmacFree, writer>>,
           UNCHANGED <<allocated, cropBuf, worker, sessions, open, file>>
    PROVE  BufferInv'
  <1> DEFINE D(c) == [c EXCEPT !.value = IF c.src \in S THEN Hole ELSE c.value]
  <1>1. copies' = {D(c) : c \in copies} /\ copies \subseteq Copies
    BY DEF Disturb, BufferInv, BufferType
  <1>2. \A c \in Copies : D(c) \in Copies /\ D(c).buf = c.buf
    BY BoundAssumption DEF Copies, Values, Hole
  <1>3. copies' \subseteq Copies
    BY <1>1, <1>2
  <1>4. (\A c, d \in copies' : c = d) /\ (copies' = {} <=> copies = {})
    BY <1>1 DEF BufferInv, SingleCopy
  <1>5. BufferType' /\ SingleCopy'
    BY <1>3, <1>4 DEF BufferInv, BufferType, SingleCopy
  <1>6. FlushedAtRest'
    <2>1. ASSUME NEW d \in copies' PROVE writer'[d.buf].at = "none"
      <3>1. PICK c \in copies : d = D(c)
        BY <1>1
      <3>2. d.buf = c.buf
        BY <1>1, <1>2, <3>1
      <3> QED BY <3>2 DEF BufferInv, FlushedAtRest
    <2> QED BY <2>1 DEF FlushedAtRest
  <1>7. RoomKept' /\ WritersOfTheirFile' /\ (WritersFull => WritersFull')
    BY DEF BufferInv, RoomKept, WritersOfTheirFile, WritersFull, Cur
  <1> QED BY <1>5, <1>6, <1>7 DEF BufferInv

LEMMA BufferVsync ==
    ASSUME EventInv, BufferInv, Ended => Ended', Vsync
    PROVE  BufferInv'
  <1>0. /\ UNCHANGED <<saved, memory, edmacFree, writer>>
        /\ UNCHANGED <<allocated, cropBuf, worker, sessions, open, file>>
    BY DEF Vsync, VsyncPrevented, VsyncNoMemory, VsyncNoEvent, VsyncFrame, workerVars, fileVars
  <1>1. None \in None..MaxFrames /\ Values \subseteq None..MaxFrames /\ 0 \in Values /\ Hole \in Values
    BY BoundAssumption DEF Values, None, Hole
  <1>2. CaptureFrames \in [Bufs -> None..MaxFrames]
    BY <1>1 DEF CaptureFrames, CaptureEnds, BufferInv, CaptureType
  <1>3. CASE VsyncPrevented
    <2>1. CaptureType'
      BY <1>1, <1>3 DEF VsyncPrevented, BufferInv, CaptureType
    <2> QED BY <1>0, <1>3, <2>1, DisturbKeeps DEF VsyncPrevented
  <1>4. CASE VsyncNoMemory
    BY <1>0, <1>4, BuffersAlone DEF VsyncNoMemory, BufferInv, CaptureType, Buffers
  <1>5. CASE VsyncNoEvent
    <2>1. CaptureType'
      BY <1>2, <1>5 DEF VsyncNoEvent, BufferInv, CaptureType
    <2> QED BY <1>0, <1>5, <2>1, BuffersAlone DEF VsyncNoEvent, Buffers
  <1>6. CASE VsyncFrame
    <2>1. frame' \in Bufs \cup {None}
      BY <1>6, FramesType DEF VsyncFrame, EventInv
    <2>2. stamp' \in Values
      BY <1>6, BoundAssumption DEF VsyncFrame, BufferInv, CaptureType, Values
    <2>3. captured' \in [Bufs -> None..MaxFrames]
      BY <1>1, <1>2, <1>6 DEF VsyncFrame
    <2>4. CaptureType' /\ copies' = Disturb({frame'})
      BY <1>6, <2>1, <2>2, <2>3 DEF VsyncFrame, CaptureType
    <2> QED BY <1>0, <2>4, DisturbKeeps
  <1> QED BY <1>3, <1>4, <1>5, <1>6 DEF Vsync

(* A frame is stored in a buffer nobody writes out. *)
LEMMA BufferStore ==
    ASSUME EventInv, SessionInv, BufferInv, StoreImage
    PROVE  BufferInv'
  <1> DEFINE full == IsFull(cropBuf)
  <1>1. /\ cropBuf \in Bufs /\ Source \in Bufs
        /\ 1 - cropBuf \in Bufs /\ 1 - cropBuf # cropBuf
    <2>1. cropBuf \in Bufs
      BY DEF StoreImage, CanStore, SessionInv, SessionType
    <2>2. 1 - cropBuf \in Bufs /\ 1 - cropBuf # cropBuf
      BY <2>1 DEF Bufs
    <2>3. Head(queue) \in Events /\ Source # None
      BY DEF StoreImage, Received, CanStore, EventInv, EventType
    <2>4. Source \in Bufs
      BY <2>3 DEF Source, EventInv, EventType
    <2> QED BY <2>1, <2>2, <2>4
  <1>12. PICK b \in Bufs : b = IF full THEN 1 - cropBuf ELSE cropBuf
    BY <1>1
  <1> DEFINE new == [buf |-> b, pos |-> Cur(b) + 1, src |-> Source, value |-> FrameIn(Source)]
  <1>2. /\ cropBuf' = b /\ memory' = [memory EXCEPT ![b] = Append(@, Hole)]
        /\ full => Cur(1 - cropBuf) = 0
        /\ UNCHANGED <<saved, captured, target, stamp, allocated, sessions, open, file, worker>>
    BY <1>12 DEF StoreImage, Handled, pushVars, fileVars
  <1>3. Received("IMAGE_DATA")
    BY DEF StoreImage
  <1>4. ~Ended /\ worker = "receive"
    <2>1. Head(queue) \in Queued /\ etype[Head(queue)] = "IMAGE_DATA"
      BY <1>3, TailQueued DEF Received, EventInv, EventType, QueueSound, Queued
    <2> QED BY <1>3, <2>1 DEF Ended, Received
  <1>5. WritersFull
    BY <1>4 DEF BufferInv
  <1>6. BufFrames \in Nat \ {0} /\ \A x \in Bufs : Cur(x) \in 0..BufFrames
    BY SizesAssumption DEF BufferInv, RoomKept, Cur, BufferType
  <1>7. Cur(b) < BufFrames /\ writer[b].at = "none" /\ (full <=> Cur(cropBuf) = BufFrames)
    BY <1>1, <1>12, <1>2, <1>5, <1>6 DEF WritersFull, IsFull
  <1>8. /\ memory' \in [Bufs -> Seq(Values)] /\ Cur(b)' = Cur(b) + 1
        /\ \A x \in Bufs \ {b} : Cur(x)' = Cur(x)
    <2>1. memory[b] \in Seq(Values) /\ Hole \in Values
      BY <1>1, BoundAssumption DEF BufferInv, BufferType, Hole, Values
    <2>2. Append(memory[b], Hole) \in Seq(Values) /\ Len(Append(memory[b], Hole)) = Len(memory[b]) + 1
      BY <2>1
    <2>3. \A x \in Bufs : memory'[x] = IF x = b THEN Append(memory[b], Hole) ELSE memory[x]
      BY <1>1, <1>2 DEF BufferInv, BufferType
    <2> QED BY <1>1, <1>2, <2>1, <2>2, <2>3 DEF BufferInv, BufferType, Cur
  <1>13. ASSUME NEW x \in Bufs
         PROVE  Cur(x) \in Nat /\ Cur(x)' \in Nat /\ Cur(x) <= Cur(x)' /\ Cur(x)' <= BufFrames
    <2>1. CASE x = b
      BY <1>6, <1>7, <1>8, <2>1
    <2>2. CASE x # b
      BY <1>6, <1>8, <2>2
    <2> QED BY <2>1, <2>2
  <1>14. \A x \in Bufs : writer[x] \in Writers /\ writer[x].size \in Nat
    BY <1>6 DEF BufferInv, BufferType, Writers
  <1>9. CaptureType' /\ RoomKept'
    <2>1. CaptureType'
      BY <1>2 DEF BufferInv, CaptureType
    <2> QED BY <1>13, <2>1 DEF RoomKept
  <1>10. CASE edmacFree
    <2>1. /\ copies' = copies \cup {new} /\ ~edmacFree' /\ copies = {}
          /\ writer' = IF full THEN [writer EXCEPT ![cropBuf].at = "created"] ELSE writer
      BY <1>10, <1>12 DEF StoreImage, BufferInv, SingleCopy
    <2>2. edmacFree' \in BOOLEAN
      BY <1>10, Zenon DEF StoreImage
    <2>3. FrameIn(Source) \in Values
      BY <1>1, BoundAssumption DEF FrameIn, BufferInv, CaptureType, Values, Hole, None
    <2>4. new \in Copies
      BY <1>1, <1>6, <1>7, <2>3 DEF Copies
    <2>5. writer' \in [Bufs -> Writers] /\ writer'[b].at = "none"
      BY <1>1, <1>12, <1>7, <2>1 DEF BufferInv, BufferType, Writers
    <2>6. BufferType' /\ SingleCopy' /\ FlushedAtRest'
      BY <1>2, <1>8, <2>1, <2>2, <2>4, <2>5
         DEF BufferInv, BufferType, SingleCopy, FlushedAtRest
    <2>7. WritersFull'
      <3>1. ASSUME NEW x \in Bufs, writer'[x].at # "none"
            PROVE  allocated /\ x # b /\ Cur(x) = BufFrames
        <4>1. CASE writer[x].at # "none"
          BY <1>5, <1>7, <4>1 DEF WritersFull
        <4>2. CASE writer[x].at = "none"
          <5>1. full /\ x = cropBuf
            BY <1>1, <2>1, <3>1, <4>2 DEF BufferInv, BufferType, Writers
          <5> QED BY <1>1, <1>12, <1>7, <5>1 DEF SessionInv, StoreImage, CanStore
        <4> QED BY <4>1, <4>2
      <3> QED BY <1>2, <1>8, <3>1 DEF WritersFull
    <2>8. WritersOfTheirFile'
      <3>1. ASSUME NEW x \in Bufs, writer'[x].at = "writing"
            PROVE  writer'[x] = writer[x] /\ Cur(x) <= Cur(x)'
        BY <1>1, <1>13, <2>1, <3>1 DEF BufferInv, BufferType, Writers
      <3> QED BY <1>2, <3>1, <1>13, <1>14 DEF BufferInv, WritersOfTheirFile
    <2> QED BY <1>9, <2>6, <2>7, <2>8 DEF BufferInv
  <1>11. CASE ~edmacFree
    <2>1. UNCHANGED <<edmacFree, copies, writer>>
      BY <1>11 DEF StoreImage
    <2>2. BufferType' /\ SingleCopy' /\ FlushedAtRest'
      BY <1>2, <1>8, <2>1 DEF BufferInv, BufferType, SingleCopy, FlushedAtRest
    <2>3. WritersFull'
      BY <1>2, <1>5, <1>7, <1>8, <2>1 DEF WritersFull
    <2>4. WritersOfTheirFile'
      BY <1>2, <2>1, <1>13, <1>14 DEF BufferInv, WritersOfTheirFile
    <2> QED BY <1>9, <2>2, <2>3, <2>4 DEF BufferInv
  <1> QED BY <1>10, <1>11

LEMMA ReplaceKeepsLength ==
    ASSUME NEW S, NEW s \in Seq(S), NEW i \in 1..Len(s), NEW v \in S
    PROVE  [s EXCEPT ![i] = v] \in Seq(S) /\ Len([s EXCEPT ![i] = v]) = Len(s)
  OBVIOUS

LEMMA BufferCopyEnds ==
    ASSUME BufferInv, Ended => Ended', CopyEnds
    PROVE  BufferInv'
  <1>1. PICK c \in copies :
          /\ copies' = copies \ {c} /\ edmacFree' = TRUE
          /\ memory' = IF c.pos > Cur(c.buf) THEN memory
                       ELSE [memory EXCEPT ![c.buf][c.pos] = c.value]
          /\ UNCHANGED <<pushVars, eventVars, stop, workerVars, fileVars, writer>>
    BY DEF CopyEnds
  <1>2. /\ UNCHANGED <<captured, target, stamp, saved, writer>>
        /\ UNCHANGED <<allocated, cropBuf, worker, sessions, open, file>>
        /\ copies' = {} /\ edmacFree'
    BY <1>1 DEF pushVars, workerVars, fileVars, BufferInv, SingleCopy
  <1>3. edmacFree' \in BOOLEAN
    BY <1>1, Zenon
  <1>4. memory' \in [Bufs -> Seq(Values)] /\ \A b \in Bufs : Cur(b)' = Cur(b)
    <2>1. CASE c.pos > Cur(c.buf)
      BY <1>1, <2>1 DEF Cur, BufferInv, BufferType
    <2>2. CASE ~(c.pos > Cur(c.buf))
      <3>1. c.buf \in Bufs /\ c.value \in Values /\ c.pos \in 1..BufFrames
        BY DEF BufferInv, BufferType, Copies
      <3>2. memory[c.buf] \in Seq(Values) /\ c.pos \in 1..Len(memory[c.buf])
        BY <2>2, <3>1, SizesAssumption DEF BufferInv, BufferType, Cur
      <3>3. PICK new \in Seq(Values) : /\ new = [memory[c.buf] EXCEPT ![c.pos] = c.value]
                                       /\ Len(new) = Len(memory[c.buf])
        <4>1. /\ [memory[c.buf] EXCEPT ![c.pos] = c.value] \in Seq(Values)
              /\ Len([memory[c.buf] EXCEPT ![c.pos] = c.value]) = Len(memory[c.buf])
          BY <3>1, <3>2, ReplaceKeepsLength
        <4> QED BY <4>1
      <3>4. memory' = [memory EXCEPT ![c.buf] = new]
        BY <1>1, <2>2, <3>3
      <3>5. \A b \in Bufs : memory'[b] = IF b = c.buf THEN new ELSE memory[b]
        BY <3>1, <3>4 DEF BufferInv, BufferType
      <3> QED BY <3>1, <3>3, <3>4, <3>5 DEF BufferInv, BufferType, Cur
    <2> QED BY <2>1, <2>2
  <1>5. CaptureType' /\ BufferType' /\ SingleCopy' /\ FlushedAtRest'
    BY <1>2, <1>3, <1>4 DEF BufferInv, CaptureType, BufferType, SingleCopy, FlushedAtRest
  <1>6. RoomKept' /\ WritersOfTheirFile' /\ (WritersFull => WritersFull')
    BY <1>2, <1>4 DEF BufferInv, RoomKept, WritersOfTheirFile, WritersFull
  <1> QED BY <1>5, <1>6 DEF BufferInv

LEMMA BufferWriteBegins ==
    ASSUME SessionInv, BufferInv, Ended => Ended', NEW b \in Bufs, WriteBegins(b)
    PROVE  BufferInv'
  <1>1. /\ writer[b].at = "created" /\ UNCHANGED <<captured, target, stamp>>
        /\ UNCHANGED <<saved, memory, copies, edmacFree>>
        /\ UNCHANGED <<allocated, cropBuf, worker, sessions, open, file>>
        /\ writer' = [writer EXCEPT ![b] =
             IF allocated /\ file # None
             THEN [at |-> "writing", size |-> Cur(b), file |-> file] ELSE NoWrite]
    BY DEF WriteBegins, pushVars, workerVars, fileVars
  <1>2. \A x \in Bufs : Cur(x) \in 0..BufFrames /\ Cur(x)' = Cur(x)
    BY <1>1, SizesAssumption DEF BufferInv, RoomKept, BufferType, Cur
  <1>3. /\ [at |-> "writing", size |-> Cur(b), file |-> file] \in Writers
        /\ NoWrite \in Writers
    BY <1>2, SizesAssumption DEF Writers, NoWrite, SessionInv, SessionType
  <1>4. /\ writer' \in [Bufs -> Writers]
        /\ \A x \in Bufs \ {b} : writer'[x] = writer[x]
        /\ writer'[b] = IF allocated /\ file # None
                        THEN [at |-> "writing", size |-> Cur(b), file |-> file] ELSE NoWrite
    BY <1>1, <1>3 DEF BufferInv, BufferType
  <1>5. \A x \in Bufs : writer'[x].at # "none" => writer[x].at # "none"
    BY <1>1, <1>4
  <1>6. CaptureType' /\ BufferType' /\ SingleCopy' /\ RoomKept'
    BY <1>1, <1>2, <1>4 DEF BufferInv, CaptureType, BufferType, SingleCopy, RoomKept
  <1>7. FlushedAtRest' /\ (WritersFull => WritersFull')
    <2>1. \A c \in copies : c.buf \in Bufs
      BY DEF BufferInv, BufferType, Copies
    <2> QED BY <1>1, <1>2, <1>5, <2>1 DEF BufferInv, FlushedAtRest, WritersFull
  <1>8. WritersOfTheirFile'
    <2>1. ASSUME writer'[b].at = "writing"
          PROVE  /\ writer'[b].file # None /\ writer'[b].file <= sessions
                 /\ worker # "start_file" /\ writer'[b].size = Cur(b)
      <3>1. file # None /\ writer'[b] = [at |-> "writing", size |-> Cur(b), file |-> file]
        BY <1>4, <2>1 DEF NoWrite
      <3>2. writer'[b].file = file /\ writer'[b].size = Cur(b)
        BY <3>1
      <3>3. state = "ACTIVE" /\ file = sessions /\ sessions \in Nat
        BY <3>1, BoundAssumption DEF SessionInv, SessionType
      <3> QED BY <3>1, <3>2, <3>3 DEF SessionInv
    <2>2. ASSUME NEW x \in Bufs, writer'[x].at = "writing"
          PROVE  /\ writer'[x].file # None /\ writer'[x].file <= sessions
                 /\ worker = "start_file" => writer'[x].file < sessions
                 /\ open /\ writer'[x].file = file => writer'[x].size <= Cur(x)
      <3>1. CASE x = b
        BY <1>2, <2>1, <2>2, <3>1, SizesAssumption
      <3>2. CASE x # b
        BY <1>4, <2>2, <3>2 DEF BufferInv, WritersOfTheirFile
      <3> QED BY <3>1, <3>2
    <2> QED BY <1>1, <1>2, <2>2 DEF WritersOfTheirFile
  <1> QED BY <1>6, <1>7, <1>8 DEF BufferInv

LEMMA BufferWriteEnds ==
    ASSUME SessionInv, BufferInv, Ended => Ended', NEW b \in Bufs, WriteEnds(b)
    PROVE  BufferInv'
  <1>1. /\ writer[b].at = "writing" /\ UNCHANGED <<captured, target, stamp>>
        /\ UNCHANGED <<copies, edmacFree>>
        /\ UNCHANGED <<allocated, cropBuf, worker, sessions, open, file>>
        /\ writer' = [writer EXCEPT ![b] = NoWrite]
        /\ memory' = [memory EXCEPT ![b] = <<>>]
        /\ saved' = IF open /\ writer[b].file = file
                THEN saved \o SubSeq(memory[b], 1, writer[b].size) ELSE saved
    BY DEF WriteEnds, pushVars, workerVars
  <1>2. memory[b] \in Seq(Values) /\ saved \in Seq(Values) /\ writer[b].size \in Nat
    BY SizesAssumption DEF BufferInv, BufferType, Writers
  <1>3. saved' \in Seq(Values)
    <2>1. CASE open /\ writer[b].file = file
      <3>1. writer[b].size <= Len(memory[b])
        BY <1>1, <2>1 DEF BufferInv, WritersOfTheirFile, Cur
      <3>2. SubSeq(memory[b], 1, writer[b].size) \in Seq(Values)
        BY <1>2, <3>1
      <3> QED BY <1>1, <1>2, <2>1, <3>2
    <2>2. CASE ~(open /\ writer[b].file = file)
      BY <1>1, <1>2, <2>2
    <2> QED BY <2>1, <2>2
  <1>4. /\ writer' \in [Bufs -> Writers] /\ writer'[b].at = "none"
        /\ \A x \in Bufs \ {b} : writer'[x] = writer[x]
    BY <1>1, SizesAssumption DEF BufferInv, BufferType, Writers, NoWrite
  <1>5. /\ memory' \in [Bufs -> Seq(Values)] /\ Cur(b)' = 0
        /\ \A x \in Bufs \ {b} : Cur(x)' = Cur(x)
    BY <1>1 DEF BufferInv, BufferType, Cur
  <1>6. CaptureType' /\ BufferType' /\ SingleCopy'
    BY <1>1, <1>3, <1>4, <1>5 DEF BufferInv, CaptureType, BufferType, SingleCopy
  <1>7. RoomKept'
    BY <1>5, SizesAssumption DEF BufferInv, RoomKept
  <1>8. FlushedAtRest' /\ (WritersFull => WritersFull')
    <2>1. \A c \in copies : c.buf \in Bufs
      BY DEF BufferInv, BufferType, Copies
    <2> QED BY <1>1, <1>4, <1>5, <2>1 DEF BufferInv, FlushedAtRest, WritersFull
  <1>9. WritersOfTheirFile'
    BY <1>1, <1>4, <1>5 DEF BufferInv, WritersOfTheirFile
  <1> QED BY <1>6, <1>7, <1>8, <1>9 DEF BufferInv

LEMMA BufferWorker ==
    ASSUME EventInv, SessionInv, BufferInv, EndInv, Ended => Ended', Worker
    PROVE  BufferInv'
  <1>1. CASE DropImage \/ IgnoreStart \/ IgnoreStop
    <2>1. UNCHANGED Buffers /\ UNCHANGED <<allocated, cropBuf, worker, sessions, open, file>>
          /\ UNCHANGED <<captured, target, stamp>>
      BY <1>1 DEF DropImage, IgnoreStart, IgnoreStop, Handled, Buffers, fileVars, pushVars
    <2>2. CaptureType'
      BY <2>1 DEF BufferInv, CaptureType
    <2> QED BY <2>1, <2>2, BuffersAlone
  <1>2. CASE ImageFindsNoBuffer
    <2>1. /\ UNCHANGED Buffers /\ UNCHANGED <<allocated, worker, sessions, open, file>>
          /\ UNCHANGED <<captured, target, stamp>> /\ cropBuf' = None
      BY <1>2 DEF ImageFindsNoBuffer, Handled, Buffers, fileVars, pushVars
    <2>2. CaptureType' /\ BufferType' /\ SingleCopy' /\ FlushedAtRest'
      BY <2>1 DEF BufferInv, CaptureType, BufferType, SingleCopy, FlushedAtRest, Buffers
    <2>3. RoomKept' /\ WritersOfTheirFile'
      BY <2>1 DEF BufferInv, RoomKept, WritersOfTheirFile, Cur, Buffers
    <2>4. WritersFull => WritersFull'
      BY <2>1 DEF WritersFull, Cur, Buffers, Bufs, None
    <2> QED BY <2>2, <2>3, <2>4 DEF BufferInv
  <1>3. CASE StoreImage
    BY <1>3, BufferStore
  <1>4. CASE StartAllocates
    <2>1. /\ worker = "receive" /\ state = "INACTIVE" /\ cropBuf = None
          /\ memory' = [b \in Bufs |-> <<>>] /\ sessions' = sessions + 1
          /\ UNCHANGED <<saved, copies, edmacFree, writer, captured, target, stamp, open, file>>
      BY <1>4 DEF StartAllocates, Received, fileVars, pushVars
    <2>2. memory' \in [Bufs -> Seq(Values)] /\ \A b \in Bufs : Cur(b)' = 0
      BY <2>1 DEF Cur
    <2>3. CaptureType' /\ BufferType' /\ SingleCopy' /\ FlushedAtRest' /\ RoomKept'
      BY <2>1, <2>2, SizesAssumption
         DEF BufferInv, CaptureType, BufferType, SingleCopy, FlushedAtRest, RoomKept
    <2>4. ~allocated /\ ~open /\ sessions \in Nat
      BY <2>1, BoundAssumption DEF SessionInv, SessionType
    <2>5. WritersFull => WritersFull'
      BY <2>1, <2>4 DEF WritersFull
    <2>6. WritersOfTheirFile'
      <3>1. \A b \in Bufs : writer[b].file \in Int \cup {None}
        BY BoundAssumption DEF BufferInv, BufferType, Writers
      <3> QED BY <2>1, <2>4, <3>1 DEF BufferInv, WritersOfTheirFile, None
    <2> QED BY <2>3, <2>5, <2>6 DEF BufferInv
  <1>5. CASE StartHasNoName \/ StopCloses
    <2>1. /\ UNCHANGED Buffers /\ UNCHANGED <<allocated, cropBuf, sessions, file>>
          /\ UNCHANGED <<captured, target, stamp>> /\ worker' # "start_file"
          /\ open' => open
      BY <1>5 DEF StartHasNoName, StopCloses, Release, WaitAt, Buffers, fileVars, pushVars
    <2>2. CaptureType' /\ BufferType' /\ SingleCopy' /\ FlushedAtRest'
      BY <2>1 DEF BufferInv, CaptureType, BufferType, SingleCopy, FlushedAtRest, Buffers
    <2>3. RoomKept' /\ WritersOfTheirFile' /\ (WritersFull => WritersFull')
      BY <2>1 DEF BufferInv, RoomKept, WritersOfTheirFile, WritersFull, Cur, Buffers
    <2> QED BY <2>2, <2>3 DEF BufferInv
  <1>6. CASE StartRecords
    <2>1. /\ UNCHANGED <<memory, copies, edmacFree, writer>>
          /\ UNCHANGED <<allocated, cropBuf, sessions>>
          /\ UNCHANGED <<captured, target, stamp>>
          /\ worker = "start_file" /\ worker' = "receive" /\ state = "INACTIVE"
          /\ \/ file' = sessions /\ open' = TRUE /\ saved' = <<>>
             \/ UNCHANGED <<file, open, saved>>
      BY <1>6 DEF StartRecords, Release, fileVars, pushVars, SessionInv
    <2>6. ~open
      BY <2>1 DEF SessionInv
    <2>7. saved' \in Seq(Values)
      <3>1. <<>> \in Seq(Values) /\ saved \in Seq(Values)
        BY DEF BufferInv, BufferType
      <3> QED BY <2>1, <3>1
    <2>2. saved' \in Seq(Values) /\ ~open
      BY <2>6, <2>7
    <2>3. CaptureType' /\ BufferType' /\ SingleCopy' /\ FlushedAtRest'
      BY <2>1, <2>2 DEF BufferInv, CaptureType, BufferType, SingleCopy, FlushedAtRest
    <2>4. RoomKept' /\ (WritersFull => WritersFull')
      BY <2>1 DEF BufferInv, RoomKept, WritersFull, Cur
    <2>5. WritersOfTheirFile'
      <3>1. ASSUME NEW b \in Bufs, writer[b].at = "writing"
            PROVE  /\ writer[b].file # None /\ writer[b].file <= sessions
                   /\ writer[b].file # sessions
        <4>1. writer[b].file \in Int
          BY <3>1, BoundAssumption DEF BufferInv, BufferType, Writers, WritersOfTheirFile
        <4> QED BY <2>1, <3>1, <4>1, BoundAssumption
                DEF BufferInv, WritersOfTheirFile, SessionInv, SessionType
      <3>2. open' => file' = sessions
        BY <2>1, <2>2
      <3> QED BY <2>1, <3>1, <3>2 DEF WritersOfTheirFile
    <2> QED BY <2>3, <2>4, <2>5 DEF BufferInv
  <1>7. CASE StopFrees
    <2>1. /\ worker = "stop_free" /\ worker' = "receive" /\ memory' = [b \in Bufs |-> <<>>]
          /\ UNCHANGED <<saved, copies, edmacFree, writer, captured, target, stamp, open, sessions>>
      BY <1>7 DEF StopFrees, Release, pushVars
    <2>2. memory' \in [Bufs -> Seq(Values)] /\ \A b \in Bufs : Cur(b)' = 0
      BY <2>1 DEF Cur
    <2>3. CaptureType' /\ BufferType' /\ SingleCopy' /\ FlushedAtRest' /\ RoomKept'
      BY <2>1, <2>2, SizesAssumption
         DEF BufferInv, CaptureType, BufferType, SingleCopy, FlushedAtRest, RoomKept
    <2>4. Ended' /\ ~open
      BY <2>1 DEF EndInv, SessionInv
    <2>5. WritersOfTheirFile'
      BY <2>1, <2>4 DEF BufferInv, WritersOfTheirFile
    <2> QED BY <2>3, <2>4, <2>5 DEF BufferInv
  <1> QED BY <1>1, <1>2, <1>3, <1>4, <1>5, <1>6, <1>7 DEF Worker

LEMMA BufferStep ==
    ASSUME EventInv, SessionInv, EndInv, BufferInv, [Next]_vars
    PROVE  BufferInv'
  <1>1. Ended => Ended'
    BY EndedStays
  <1>2. CASE Key \/ (\E t \in Stops : StopTask(t)) \/ UNCHANGED vars
    <2>1. UNCHANGED Buffers /\ UNCHANGED <<allocated, cropBuf, worker, sessions, open, file>>
          /\ UNCHANGED <<captured, target, stamp>>
      BY <1>2 DEF Key, KeyStops, KeyStarts, StopTask, StopBegins, StopGets, StopPosts,
                  Buffers, workerVars, fileVars, pushVars, vars
    <2>2. CaptureType'
      BY <2>1 DEF BufferInv, CaptureType
    <2> QED BY <1>1, <2>1, <2>2, BuffersAlone
  <1>3. CASE \E b \in Bufs : Write(b)
    BY <1>1, <1>3, BufferWriteBegins, BufferWriteEnds DEF Write
  <1> QED BY <1>1, <1>2, <1>3, BufferVsync, BufferWorker, BufferCopyEnds DEF Next

-----------------------------------------------------------------------------
(* The theorems                                                            *)

IInv == EventInv /\ SessionInv /\ EndInv /\ BufferInv

(* The parts of the invariant hold at first and are preserved by every step. *)
THEOREM Inductive == Spec => []IInv
  <1>1. Init => IInv
    BY EventInit, SessionInit, EndInit, BufferInit DEF IInv
  <1>2. IInv /\ [Next]_vars => IInv'
    BY EventStep, SessionStep, EndStep, BufferStep DEF IInv
  <1> QED BY <1>1, <1>2, PTL DEF Spec

LEMMA IInvTypes == IInv => TypeOK
  <1> SUFFICES ASSUME IInv PROVE TypeOK
    OBVIOUS
  <1>1. Len(queue) <= QLen
    BY LengthBound DEF IInv
  <1>2. /\ captured \in [Bufs -> None..MaxFrames] /\ target \in Bufs \cup {None}
        /\ stamp \in 0..MaxFrames /\ saved \in Seq(0..MaxFrames)
        /\ memory \in [Bufs -> Seq(0..MaxFrames)]
        /\ copies \subseteq [buf : Bufs, pos : 1..BufFrames, src : Bufs, value : 0..MaxFrames]
        /\ edmacFree \in BOOLEAN
        /\ writer \in [Bufs -> [at : {"none", "created", "writing"}, size : 0..BufFrames,
                                file : 1..MaxSessions \cup {None}]]
    BY DEF IInv, BufferInv, CaptureType, BufferType, Values, Copies, Writers
  <1>3. /\ SessionType /\ lvRequests \in -1..MaxSessions
    BY BoundAssumption DEF IInv, SessionInv, SessionType
  <1> QED BY <1>1, <1>2, <1>3 DEF IInv, EventInv, EventType, SessionType, TypeOK

(* An event of the pool belongs to one party at a time, posting one never
   fails, and of the events that are dropped only the first frame's and those
   of stop tasks that gave up are lost: get_empty_event, send_stop_command,
   raw_vid_vsync_cbr and the worker, for any length of the queue. *)
THEOREM EventsAreSound == Spec => []EventPool
  <1>1. IInv => EventPool
    BY IInvTypes, EveryEventFits, OneLostFrame DEF IInv, EventInv, EventPool
  <1> QED BY <1>1, Inductive, PTL

(* A copy by EDMAC goes to a place that no other copy and no raw_write task
   uses, within its crop buffer: the worker's use of edmac_sem, of cur and of
   the two buffers, for any number of frames in a buffer. *)
THEOREM CopiesAreSafe == Spec => []CopySafe
  <1>1. ASSUME IInv PROVE CopySafe
    <2>1. Cardinality(copies) <= 1
      <3>1. copies = {} \/ \E c \in copies : copies = {c}
        <4>1. ASSUME NEW c \in copies PROVE copies = {c}
          BY <1>1, <4>1 DEF IInv, BufferInv, SingleCopy
        <4> QED BY <4>1
      <3>2. CASE copies = {}
        BY <3>2, FS_EmptySet
      <3>3. CASE \E c \in copies : copies = {c}
        <4>1. Cardinality(copies) = 1
          BY <3>3, FS_Singleton
        <4> QED BY <4>1
      <3> QED BY <3>1, <3>2, <3>3
    <2> QED BY <1>1, <2>1 DEF IInv, BufferInv, SingleCopy, OneCopy, CopySafe
  <1> QED BY <1>1, Inductive, PTL

(* raw_lv_request and raw_lv_release are called in turns by the worker, also
   when a start is given up: for any failures. *)
THEOREM RequestsArePaired == Spec => []LvPaired
  <1>1. IInv => LvPaired
    BY DEF IInv, SessionInv, SessionType, LvPaired
  <1> QED BY <1>1, Inductive, PTL

-----------------------------------------------------------------------------
(* The order of the frames, for a worker that keeps up.  At each vsync the *)
(* queue is empty and no copy runs, so that one frame is on its way at     *)
(* most: in the queue, or being copied.                                    *)
IsFrame(e) == etype[e] = "IMAGE_DATA" /\ src[e] # None
Flying     == \E e \in Queued : IsFrame(e)

(* Nobody prepares a stop command before frames are prevented. *)
PreparedInv == \A e \in Events : etype[e] = "PREPARING" => prevent

(* The camera has frame number stamp in its hands, the one before is on its way. *)
Captures ==
    /\ count = 0 => frame = None /\ stamp = 0
    /\ frame # None => stamp > 0 /\ CaptureEnds[frame] = stamp
    /\ \A e \in Queued : IsFrame(e) => src[e] = 1 - frame /\ captured[src[e]] = stamp - 1

(* Each frame that was on its way has a place. *)
Stored  == Len(saved) + (Cur(0) + Cur(1))
Numbers == IF stamp = 0 THEN Stored = 0 /\ ~Flying
           ELSE Stored + (IF Flying THEN 1 ELSE 0) = stamp - 1

Follows(m, n) == \A i \in DOMAIN m : m[i] = n + i

(* The buffer being filled goes on where the full one ends, and that one
   where the file does.  Its last place may still wait for its copy, or remain
   without one when frames are prevented. *)
LastStored == Flying \/ (~prevent /\ copies = {})
Filling(b, o) ==
    /\ writer[o].at = "none" => memory[o] = <<>>
    /\ \A i \in DOMAIN memory[b] :
        i < Cur(b) \/ LastStored => memory[b][i] = Len(saved) + Cur(o) + i
    /\ \A c \in copies : c.buf = b /\ c.pos = Cur(b) /\ (prevent \/ c.value = Stored)

Writing ==
    \A b \in Bufs : writer[b].at # "none" =>
        /\ writer[1 - b].at = "none"
        /\ Follows(memory[b], Len(saved))
        /\ writer[b].at = "writing" => writer[b].size = Cur(b) /\ writer[b].file = file

Flow ==
    /\ WritersFull /\ Writing
    /\ prevent \/ Captures
    /\ \A e, f \in Queued : IsFrame(e) /\ IsFrame(f) => e = f
    /\ Flying \/ cropBuf = None => copies = {}
    /\ cropBuf # None => Numbers /\ Filling(cropBuf, 1 - cropBuf)

(* Before the first recording, and after it *)
Fresh ==
    /\ count = 0 /\ frame = None /\ stamp = 0 /\ saved = <<>> /\ copies = {} /\ ~Flying
    /\ \A b \in Bufs : memory[b] = <<>> /\ writer[b].at = "none"
Spent == Ended /\ \A b \in Bufs : memory[b] = <<>>

OrderInv ==
    keepsUp =>
        /\ Follows(saved, 0)
        /\ Spent \/ ((state = "INACTIVE" => Fresh) /\ (open => Flow))

-----------------------------------------------------------------------------
(* Nobody prepares a stop command before frames are prevented *)

LEMMA PreparedStep ==
    ASSUME EventInv, EndInv, PreparedInv, [Next]_vars
    PROVE  PreparedInv'
  <1>1. prevent => prevent'
    BY PreventStays
  <1>2. ASSUME NEW x, NEW type, type # "PREPARING", etype' = [etype EXCEPT ![x] = type]
        PROVE  PreparedInv'
    BY <1>1, <1>2 DEF PreparedInv, EventInv, EventType
  <1>3. ASSUME etype' = etype PROVE PreparedInv'
    BY <1>1, <1>3 DEF PreparedInv
  <1>4. ASSUME NEW t \in Stops, StopTask(t) PROVE PreparedInv'
    <2>1. CASE StopBegins(t)
      BY <1>3, <2>1 DEF StopBegins, eventVars
    <2>2. CASE StopGets(t)
      BY <1>1, <2>2 DEF StopGets, EndInv, PreparedInv
    <2>3. CASE StopPosts(t)
      BY <1>2, <2>3 DEF StopPosts, Fill
    <2> QED BY <1>4, <2>1, <2>2, <2>3 DEF StopTask
  <1>5. CASE Key \/ Vsync
    BY <1>2, <1>3, <1>5
       DEF Key, KeyStops, KeyStarts, Vsync, VsyncPrevented, VsyncNoMemory, VsyncNoEvent, VsyncFrame,
           Fill, eventVars
  <1>6. CASE Worker
    BY <1>2, <1>3, <1>6
       DEF Worker, DropImage, ImageFindsNoBuffer, StoreImage, IgnoreStart, IgnoreStop, StartAllocates,
           StopCloses, StartHasNoName, StartRecords, StopFrees, Handled, WaitAt, Release, Fill
  <1>7. CASE CopyEnds \/ (\E b \in Bufs : Write(b)) \/ UNCHANGED vars
    BY <1>3, <1>7 DEF CopyEnds, Write, WriteBegins, WriteEnds, vars, eventVars
  <1> QED BY <1>4, <1>5, <1>6, <1>7 DEF Next

-----------------------------------------------------------------------------
(* The end of a recording: the memories are empty and stay so              *)

LEMMA SpentStays ==
    ASSUME IInv, Spent, Follows(saved, 0), [Next]_vars
    PROVE  Spent' /\ Follows(saved', 0)
  <1>1. Ended' /\ \A b \in Bufs : memory[b] = <<>> /\ Cur(b) = 0
    BY EndedStays DEF IInv, Spent, Cur
  <1>2. ASSUME UNCHANGED <<saved, memory>> PROVE Spent' /\ Follows(saved', 0)
    BY <1>1, <1>2 DEF Spent
  <1>3. ASSUME memory' = [b \in Bufs |-> <<>>], saved' = saved \/ saved' = <<>>
        PROVE  Spent' /\ Follows(saved', 0)
    BY <1>1, <1>3 DEF Spent, Follows
  <1>4. CASE Key \/ Vsync \/ (\E t \in Stops : StopTask(t)) \/ (\E b \in Bufs : WriteBegins(b))
             \/ UNCHANGED vars
    BY <1>2, <1>4
       DEF Key, KeyStops, KeyStarts, Vsync, VsyncPrevented, VsyncNoMemory, VsyncNoEvent, VsyncFrame,
           StopTask, StopBegins, StopGets, StopPosts, WriteBegins, fileVars, vars
  <1>5. CASE DropImage \/ ImageFindsNoBuffer \/ IgnoreStart \/ IgnoreStop \/ StartHasNoName
             \/ StopCloses
    BY <1>2, <1>5
       DEF DropImage, ImageFindsNoBuffer, IgnoreStart, IgnoreStop, StartHasNoName, StopCloses, fileVars
  <1>6. ~StoreImage
    <2>1. ASSUME StoreImage PROVE Head(queue) \in Queued /\ etype[Head(queue)] = "IMAGE_DATA"
      BY <2>1, TailQueued DEF StoreImage, Received, IInv, EventInv, EventType, QueueSound, Queued
    <2> QED BY <2>1 DEF Spent, Ended
  <1>7. CASE StartAllocates \/ StopFrees
    BY <1>3, <1>7 DEF StartAllocates, StopFrees, fileVars
  <1>8. CASE StartRecords
    BY <1>1, <1>8 DEF StartRecords, fileVars, Spent, Follows
  <1>9. CASE CopyEnds
    <2>1. PICK c \in copies :
            /\ memory' = IF c.pos > Cur(c.buf) THEN memory
                         ELSE [memory EXCEPT ![c.buf][c.pos] = c.value]
            /\ UNCHANGED fileVars
      BY <1>9 DEF CopyEnds
    <2>2. c.pos > Cur(c.buf)
      BY <1>1, SizesAssumption DEF IInv, BufferInv, BufferType, Copies
    <2> QED BY <1>2, <2>1, <2>2 DEF fileVars
  <1>10. ASSUME NEW b \in Bufs, WriteEnds(b) PROVE Spent' /\ Follows(saved', 0)
    <2>1. /\ memory' = [memory EXCEPT ![b] = <<>>] /\ writer[b].at = "writing"
          /\ saved' = IF open /\ writer[b].file = file
                      THEN saved \o SubSeq(memory[b], 1, writer[b].size) ELSE saved
      BY <1>10 DEF WriteEnds
    <2>2. saved' = saved
      <3>1. saved \in Seq(Values) /\ writer[b].size \in Nat
        BY SizesAssumption DEF IInv, BufferInv, BufferType, Writers
      <3>2. CASE open /\ writer[b].file = file
        <4>1. writer[b].size = 0
          BY <1>1, <2>1, <3>1, <3>2 DEF IInv, BufferInv, WritersOfTheirFile
        <4>2. SubSeq(memory[b], 1, writer[b].size) = <<>>
          BY <1>1, <4>1
        <4>3. saved' = saved \o <<>>
          BY <2>1, <3>2, <4>2
        <4> QED BY <3>1, <4>3
      <3> QED BY <2>1, <3>2
    <2>3. \A x \in Bufs : memory'[x] = <<>>
      BY <1>1, <2>1 DEF IInv, BufferInv, BufferType
    <2> QED BY <1>1, <2>2, <2>3 DEF Spent
  <1> QED BY <1>4, <1>5, <1>6, <1>7, <1>8, <1>9, <1>10 DEF Next, Worker, Write

-----------------------------------------------------------------------------
(* Before a recording: nothing is in the memories, or on its way to them   *)

LEMMA OrderInit == Init => OrderInv /\ PreparedInv
  <1> SUFFICES ASSUME Init PROVE OrderInv /\ PreparedInv
    OBVIOUS
  <1>1. ~open /\ Queued = {} /\ Follows(saved, 0)
    BY DEF Init, Queued, Follows
  <1>2. Fresh
    BY <1>1 DEF Init, Fresh, NoWrite, Flying
  <1>3. PreparedInv
    BY DEF Init, PreparedInv
  <1> QED BY <1>1, <1>2, <1>3 DEF OrderInv

-----------------------------------------------------------------------------
(* The frames in the queue: only the vsync adds one, only the worker takes
   one *)

FramesFewer ==
    \A e \in Queued' : IsFrame(e)' => e \in Queued /\ IsFrame(e) /\ src'[e] = src[e]
FramesKept == FramesFewer /\ \A e \in Queued : IsFrame(e) => e \in Queued' /\ IsFrame(e)'

LEMMA OtherFilled ==
    ASSUME EventInv, NEW x \in Events \ Queued, NEW type, NEW from, type # "IMAGE_DATA",
           Fill(x, type, from), queue' = queue \/ queue' = Append(queue, x)
    PROVE  FramesKept
  <1>1. Queued \subseteq Events /\ Queued \subseteq Queued' /\ Queued' \subseteq Queued \cup {x}
    <2>3. Queued \subseteq Events
      BY DEF Queued, EventInv, EventType
    <2>1. CASE queue' = queue
      <3>1. Queued' = Queued
        BY <2>1 DEF Queued
      <3> QED BY <2>3, <3>1
    <2>2. CASE queue' = Append(queue, x)
      <3>1. Queued' = Queued \cup {x}
        BY <2>2, AppendQueued DEF EventInv, EventType, QueueSound
      <3> QED BY <2>3, <3>1
    <2> QED BY <2>1, <2>2
  <1>2. /\ etype'[x] = type /\ etype' = [etype EXCEPT ![x] = type] /\ src' = [src EXCEPT ![x] = from]
        /\ etype \in [Events -> EventTypes] /\ src \in [Events -> Bufs \cup {None}]
    BY DEF Fill, EventInv, EventType
  <1>3. \A e \in Queued : etype'[e] = etype[e] /\ src'[e] = src[e]
    BY <1>1, <1>2
  <1> QED BY <1>1, <1>2, <1>3 DEF FramesKept, FramesFewer, IsFrame

LEMMA HeadTaken ==
    ASSUME EventInv, queue # <<>>, Handled \/ (\E point \in {"start_file", "stop_free"} : WaitAt(point))
    PROVE  /\ Head(queue) \in Queued /\ Queued' = Queued \ {Head(queue)}
           /\ FramesFewer /\ (~IsFrame(Head(queue)) => FramesKept)
           /\ \A e \in Queued : e # Head(queue) => etype'[e] = etype[e] /\ src'[e] = src[e]
  <1>1. queue' = Tail(queue) /\ Queued \subseteq Events
    BY DEF Handled, WaitAt, Queued, EventInv, EventType
  <1>2. Head(queue) \in Queued /\ Queued' = Queued \ {Head(queue)}
    BY <1>1, TailQueued DEF EventInv, EventType, QueueSound
  <1>3. \A e \in Queued : e # Head(queue) => etype'[e] = etype[e] /\ src'[e] = src[e]
    BY <1>1, <1>2 DEF Handled, WaitAt, Fill, EventInv, EventType
  <1>4. FramesFewer /\ (~IsFrame(Head(queue)) => FramesKept)
    BY <1>2, <1>3 DEF FramesFewer, FramesKept, IsFrame
  <1> QED BY <1>2, <1>3, <1>4

LEMMA FramesEffect ==
    ASSUME IInv, [Next]_vars, ~VsyncFrame
    PROVE  /\ FramesFewer
           /\ FramesKept \/ DropImage \/ ImageFindsNoBuffer \/ StoreImage
  <1>0. EventInv
    BY DEF IInv
  <1>1. ASSUME UNCHANGED eventVars PROVE FramesKept
    BY <1>1 DEF FramesKept, FramesFewer, IsFrame, Queued, eventVars
  <1>2. CASE \/ KeyStops \/ VsyncPrevented \/ VsyncNoMemory \/ VsyncNoEvent \/ CopyEnds
             \/ \E t \in Stops : StopBegins(t)
             \/ \E b \in Bufs : Write(b)
             \/ UNCHANGED vars
    <2>1. UNCHANGED eventVars
      BY <1>2 DEF KeyStops, VsyncPrevented, VsyncNoMemory, VsyncNoEvent, CopyEnds,
                  StopBegins, Write, WriteBegins, WriteEnds, vars
    <2> QED BY <1>1, <2>1 DEF FramesKept
  <1>3. ASSUME NEW t \in Stops, StopGets(t) PROVE FramesKept
    <2>1. CASE Empty = {}
      BY <1>1, <1>3, <2>1 DEF StopGets, EmptyEvent, eventVars
    <2>2. CASE Empty # {}
      <3>1. EmptyEvent \in Events \ Queued
        BY <2>2, EmptyEventIn DEF IInv, EventInv, QueueSound
      <3>2. Fill(EmptyEvent, "PREPARING", None) /\ queue' = queue
        BY <1>3, <2>2, NoneIsNoEvent DEF StopGets
      <3> QED BY <1>0, <3>1, <3>2, OtherFilled
    <2> QED BY <2>1, <2>2
  <1>4. ASSUME NEW t \in Stops, StopPosts(t) PROVE FramesKept
    <2>1. stop[t].event \in Events \ Queued
      BY <1>4 DEF StopPosts, IInv, EventInv, StopsSound, QueueSound, Posting
    <2>2. /\ Fill(stop[t].event, "COMMAND_STOP", None)
          /\ queue' = queue \/ queue' = Append(queue, stop[t].event)
      BY <1>4 DEF StopPosts, Post
    <2> QED BY <1>0, <2>1, <2>2, OtherFilled
  <1>5. CASE KeyStarts
    <2>1. EmptyEvent \in Events \ Queued
      BY <1>5, EmptyEventIn, NoneIsNoEvent DEF KeyStarts, IInv, EventInv, QueueSound
    <2>2. /\ Fill(EmptyEvent, "COMMAND_START", None)
          /\ queue' = queue \/ queue' = Append(queue, EmptyEvent)
      BY <1>5 DEF KeyStarts, Post
    <2>3. FramesKept
      BY <1>0, <2>1, <2>2, OtherFilled
    <2> QED BY <2>3 DEF FramesKept
  <1>6. CASE StartHasNoName \/ StartRecords \/ StopFrees
    <2>1. Release /\ worker # "receive"
      BY <1>6 DEF StartHasNoName, StartRecords, StopFrees
    <2>2. current \in Events \ Queued
      BY <2>1 DEF IInv, EventInv, EventType, Working, QueueSound
    <2>3. FramesKept
      BY <1>0, <2>1, <2>2, OtherFilled DEF Release
    <2> QED BY <2>3 DEF FramesKept
  <1>7. CASE DropImage \/ ImageFindsNoBuffer \/ StoreImage
    <2>1. queue # <<>> /\ Handled
      BY <1>7 DEF DropImage, ImageFindsNoBuffer, StoreImage, Received
    <2> QED BY <1>0, <1>7, <2>1, HeadTaken
  <1>8. CASE IgnoreStart \/ IgnoreStop \/ StartAllocates \/ StopCloses
    <2>1. /\ queue # <<>> /\ ~IsFrame(Head(queue))
          /\ Handled \/ (\E point \in {"start_file", "stop_free"} : WaitAt(point))
      BY <1>8 DEF IgnoreStart, IgnoreStop, StartAllocates, StopCloses, Received, IsFrame
    <2>2. FramesKept
      BY <1>0, <2>1, HeadTaken
    <2> QED BY <2>2 DEF FramesKept
  <1> QED BY <1>2, <1>3, <1>4, <1>5, <1>6, <1>7, <1>8
          DEF Next, Key, Vsync, Worker, StopTask, FramesKept

(* Before the first recording nothing changes but the commands. *)
LEMMA FreshStays ==
    ASSUME IInv, Fresh, state = "INACTIVE", state' = "INACTIVE", [Next]_vars
    PROVE  Fresh' /\ saved' = saved
  <1>1. ~CopyEnds /\ ~StoreImage /\ ~ImageFindsNoBuffer /\ ~StartRecords /\ ~StopCloses /\ ~StopFrees
    BY DEF Fresh, CopyEnds, StoreImage, ImageFindsNoBuffer, CanStore, StartRecords, StopCloses,
           StopFrees, IInv, SessionInv
  <1>2. ~Vsync /\ ~KeyStops
    BY DEF Vsync, VsyncPrevented, VsyncNoMemory, VsyncNoEvent, VsyncFrame, KeyStops
  <1>3. ASSUME NEW b \in Bufs PROVE ~Write(b)
    BY DEF Fresh, Write, WriteBegins, WriteEnds
  <1>4. FramesFewer
    BY <1>2, FramesEffect DEF Vsync
  <1>5. ASSUME UNCHANGED <<count, frame, stamp, saved, copies, writer>>,
               memory' = memory \/ memory' = [b \in Bufs |-> <<>>]
        PROVE  Fresh' /\ saved' = saved
    <2>1. ~Flying'
      BY <1>4 DEF Fresh, FramesFewer, Flying
    <2>2. \A b \in Bufs : memory'[b] = <<>>
      BY <1>5 DEF Fresh
    <2> QED BY <1>5, <2>1, <2>2 DEF Fresh
  <1>6. CASE KeyStarts \/ (\E t \in Stops : StopTask(t)) \/ UNCHANGED vars
    BY <1>5, <1>6 DEF KeyStarts, StopTask, StopBegins, StopGets, StopPosts, vars, pushVars, fileVars
  <1>7. CASE DropImage \/ IgnoreStart \/ IgnoreStop \/ StartAllocates \/ StartHasNoName
    BY <1>5, <1>7 DEF DropImage, IgnoreStart, IgnoreStop, StartAllocates, StartHasNoName,
                      pushVars, fileVars
  <1> QED BY <1>1, <1>2, <1>3, <1>6, <1>7 DEF Next, Key, Worker

LEMMA StartsRecording ==
    ASSUME IInv, Fresh, StartRecords
    PROVE  open' => Flow'
  <1>1. /\ worker = "start_file" /\ UNCHANGED <<prevent, count, captured, frame, target, stamp>>
        /\ UNCHANGED <<cropBuf, memory, copies, writer, queue>>
        /\ open' => saved' = <<>>
    <2>1. ~open
      BY DEF StartRecords, IInv, SessionInv
    <2> QED BY <2>1 DEF StartRecords, Release, pushVars, fileVars
  <1>2. cropBuf \in Bufs /\ 1 - cropBuf \in Bufs
    BY <1>1 DEF IInv, SessionInv, SessionType, Bufs
  <1>3. FramesFewer
    <2>1. ~VsyncFrame /\ Next
      BY <1>1 DEF VsyncFrame, Next, Worker, IInv, SessionInv
    <2> QED BY <2>1, FramesEffect
  <1>4. ~Flying'
    BY <1>3 DEF FramesFewer, Fresh, Flying
  <1>5. \A b \in Bufs : memory'[b] = <<>> /\ Cur(b)' = 0 /\ writer'[b].at = "none"
    BY <1>1 DEF Fresh, Cur
  <1>6. ASSUME open' PROVE Numbers' /\ Filling(cropBuf, 1 - cropBuf)'
    <2>1. Len(saved') = 0 /\ stamp' = 0 /\ copies' = {} /\ saved' = <<>>
      BY <1>1, <1>6 DEF Fresh
    <2>2. Numbers'
      BY <1>4, <1>5, <2>1 DEF Numbers, Stored, Bufs
    <2>3. Filling(cropBuf, 1 - cropBuf)'
      BY <1>1, <1>2, <1>5, <2>1 DEF Filling
    <2> QED BY <2>2, <2>3
  <1>7. Captures'
    BY <1>1, <1>4 DEF Fresh, Captures, Flying
  <1>8. WritersFull' /\ Writing' /\ copies' = {}
    BY <1>1, <1>5 DEF WritersFull, Writing, Fresh
  <1> QED BY <1>4, <1>6, <1>7, <1>8 DEF Flow, Flying

-----------------------------------------------------------------------------
(* While a recording has its file open                                     *)

(* What holds of the worker, and the types the arithmetic below needs *)
LEMMA Recording ==
    ASSUME IInv, open
    PROVE  /\ state = "ACTIVE" /\ worker = "receive" /\ current = None
           /\ file # None /\ allocated
           /\ BufFrames \in Nat /\ BufFrames > 0 /\ stamp \in Nat /\ Len(saved) \in Nat
           /\ saved \in Seq(Values)
           /\ \A b \in Bufs : Cur(b) \in 0..BufFrames /\ memory[b] \in Seq(Values)
  <1>1. /\ state = "ACTIVE" /\ worker = "receive" /\ current = None /\ file # None /\ allocated
    BY DEF IInv, SessionInv, EventInv, Working
  <1>2. \A b \in Bufs : Cur(b) \in 0..BufFrames /\ memory[b] \in Seq(Values)
    BY SizesAssumption DEF IInv, BufferInv, BufferType, RoomKept, Cur
  <1>3. stamp \in Nat /\ saved \in Seq(Values)
    BY BoundAssumption DEF IInv, BufferInv, BufferType, CaptureType, Values
  <1> QED BY <1>1, <1>2, <1>3, SizesAssumption

(* The steps that leave the memories alone, with what is on its way to them *)
LEMMA MemoriesKept ==
    ASSUME IInv, Flow, UNCHANGED <<memory, writer, cropBuf, allocated, saved, file>>,
           prevent => prevent', cropBuf # None /\ LastStored' => LastStored,
           \A d \in copies' : \E c \in copies :
               d.buf = c.buf /\ d.pos = c.pos /\ (prevent' \/ d.value = c.value)
    PROVE  /\ WritersFull' /\ Writing'
           /\ cropBuf # None => Stored' = Stored /\ Filling(cropBuf, 1 - cropBuf)'
  <1>1. \A b \in Bufs : Cur(b)' = Cur(b)
    BY DEF Cur
  <1>2. WritersFull' /\ Writing'
    BY <1>1 DEF Flow, WritersFull, Writing
  <1>3. ASSUME cropBuf # None PROVE Stored' = Stored /\ Filling(cropBuf, 1 - cropBuf)'
    <2>1. cropBuf \in Bufs /\ 1 - cropBuf \in Bufs /\ Stored' = Stored
      BY <1>1, <1>3 DEF IInv, SessionInv, SessionType, Bufs, Stored
    <2>2. Filling(cropBuf, 1 - cropBuf)
      BY <1>3 DEF Flow
    <2>3. \A d \in copies' : d.buf = cropBuf /\ d.pos = Cur(cropBuf)
                             /\ (prevent' \/ d.value = Stored)
      BY <2>2 DEF Filling
    <2> QED BY <1>1, <1>3, <2>1, <2>2, <2>3 DEF Filling
  <1> QED BY <1>2, <1>3

(* The steps that leave the frames where they are *)
LEMMA FlowKept ==
    ASSUME IInv, open, Flow, FramesFewer, FramesKept \/ cropBuf = None,
           prevent => prevent', count' = 0 => count = 0,
           UNCHANGED <<frame, target, captured, stamp>>,
           UNCHANGED <<memory, copies, writer, cropBuf, allocated, saved, file>>
    PROVE  Flow'
  <1>1. Flying' => Flying
    BY DEF Flying, FramesFewer
  <1>2. cropBuf # None => (Flying <=> Flying')
    BY <1>1 DEF Flying, FramesKept
  <1>3. cropBuf # None /\ LastStored' => LastStored
    BY <1>1 DEF LastStored
  <1>4. /\ WritersFull' /\ Writing'
        /\ cropBuf # None => Stored' = Stored /\ Filling(cropBuf, 1 - cropBuf)'
    BY <1>3, MemoriesKept
  <1>5. prevent' \/ Captures'
    <2>1. CASE prevent
      BY <2>1
    <2>2. CASE ~prevent
      <3>1. Captures
        BY <2>2 DEF Flow
      <3>2. \A e \in Queued' : IsFrame(e)' => e \in Queued /\ IsFrame(e) /\ src'[e] = src[e]
        BY DEF FramesFewer
      <3>3. CaptureEnds' = CaptureEnds
        BY DEF CaptureEnds
      <3> QED BY <3>1, <3>2, <3>3 DEF Captures
    <2> QED BY <2>1, <2>2
  <1>6. \A e, f \in Queued' : IsFrame(e)' /\ IsFrame(f)' => e = f
    BY DEF Flow, FramesFewer
  <1>7. Flying' \/ cropBuf' = None => copies' = {}
    BY <1>1 DEF Flow
  <1>8. cropBuf # None => Numbers'
    BY <1>2, <1>4 DEF Flow, Numbers
  <1> QED BY <1>4, <1>5, <1>6, <1>7, <1>8 DEF Flow

(* Frames are prevented: the copies that run may save what is no frame, in
   the last place, which is not counted on any more. *)
LEMMA FlowPrevented ==
    ASSUME IInv, open, Flow, VsyncPrevented
    PROVE  Flow'
  <1>1. /\ prevent /\ prevent' /\ copies' = Disturb(Bufs)
        /\ UNCHANGED <<stamp, queue, etype, src, cropBuf, allocated, file, saved, memory, writer>>
    BY DEF VsyncPrevented, eventVars, workerVars, fileVars
  <1>2. Queued' = Queued /\ \A e \in Queued : IsFrame(e)' <=> IsFrame(e)
    BY <1>1 DEF Queued, IsFrame
  <1>3. Flying' <=> Flying
    BY <1>1, <1>2 DEF Flying
  <1>4. /\ copies' = {} <=> copies = {}
        /\ \A d \in copies' : \E c \in copies : d.buf = c.buf /\ d.pos = c.pos
    <2>1. copies \subseteq Copies
      BY DEF IInv, BufferInv, BufferType
    <2> QED BY <1>1, <2>1 DEF Disturb, Copies
  <1>5. /\ WritersFull' /\ Writing'
        /\ cropBuf # None => Stored' = Stored /\ Filling(cropBuf, 1 - cropBuf)'
    <2>1. LastStored' => LastStored
      BY <1>1, <1>3 DEF LastStored
    <2> QED BY <1>1, <1>4, <2>1, MemoriesKept
  <1>6. \A e, f \in Queued' : IsFrame(e)' /\ IsFrame(f)' => e = f
    BY <1>2 DEF Flow
  <1>7. Flying' \/ cropBuf' = None => copies' = {}
    BY <1>1, <1>3, <1>4 DEF Flow
  <1>8. cropBuf # None => Numbers'
    BY <1>1, <1>3, <1>5 DEF Flow, Numbers
  <1> QED BY <1>1, <1>5, <1>6, <1>7, <1>8 DEF Flow

(* With all events in use, and nothing on its way, frames are prevented, or
   one of the events is that of the first vsync. *)
LEMMA EventsInUse ==
    ASSUME EventInv, EndInv, PreparedInv, Empty = {}, queue = <<>>, current = None, ~prevent
    PROVE  count > 0
  <1>1. Queued = {} /\ 1 \in Events /\ etype[1] # "EMPTY" /\ None \notin Events
    BY SizesAssumption, NoneIsNoEvent DEF Queued, Events, Empty
  <1>2. Posting = {}
    BY DEF EndInv, Posting
  <1>3. 1 \in Lost
    BY <1>1, <1>2 DEF Lost
  <1> QED BY <1>1, <1>3 DEF EventInv, LostOnce, PreparedInv

LEMMA FlowNoEvent ==
    ASSUME IInv, PreparedInv, open, Flow, keepsUp, VsyncNoEvent
    PROVE  Flow'
  <1>1. /\ ~prevent /\ queue = <<>> /\ current = None /\ copies = {} /\ Empty = {}
        /\ captured' = CaptureFrames /\ frame' = CurrentFrame /\ target' = None
        /\ count' = (IF count = 0 THEN 1 ELSE 2)
        /\ UNCHANGED <<prevent, stamp, queue, etype, src, cropBuf, allocated, file, saved, memory,
                       copies, writer>>
    BY DEF VsyncNoEvent, InTime, eventVars, workerVars, fileVars
  <1>2. count > 0
    BY <1>1, EventsInUse DEF IInv
  <1>3. captured' = CaptureEnds /\ frame' = frame /\ Captures
    BY <1>1, <1>2 DEF CaptureFrames, CurrentFrame, Flow
  <1>4. Queued = {} /\ Queued' = {} /\ ~Flying /\ ~Flying'
    BY <1>1 DEF Queued, Flying
  <1>5. Captures'
    <2>1. ASSUME frame # None PROVE stamp > 0 /\ CaptureEnds'[frame] = stamp
      <3>1. frame \in Bufs /\ stamp > 0 /\ CaptureEnds[frame] = stamp
        BY <1>3, <2>1 DEF Captures, IInv, EventInv, EventType
      <3> QED BY <1>1, <1>3, <3>1 DEF CaptureEnds, None, Bufs
    <2> QED BY <1>1, <1>2, <1>3, <1>4, <2>1 DEF Captures
  <1>6. /\ WritersFull' /\ Writing'
        /\ cropBuf # None => Stored' = Stored /\ Filling(cropBuf, 1 - cropBuf)'
    <2>1. LastStored
      BY <1>1 DEF LastStored
    <2> QED BY <1>1, <2>1, MemoriesKept
  <1>7. cropBuf # None => Numbers'
    BY <1>1, <1>4, <1>6 DEF Flow, Numbers
  <1> QED BY <1>1, <1>4, <1>5, <1>6, <1>7 DEF Flow


(* The frame that was captured last is posted, with the number before the
   one of the frame that the camera starts on. *)
LEMMA FlowFrame ==
    ASSUME IInv, open, Flow, keepsUp, VsyncFrame
    PROVE  Flow'
  <1>0. stamp \in Nat /\ frame \in Bufs \cup {None} /\ count \in 0..2
    BY Recording DEF IInv, EventInv, EventType
  <1>1. /\ ~prevent /\ queue = <<>> /\ copies = {} /\ Empty # {}
        /\ count' > 0 /\ Fill(EmptyEvent, "IMAGE_DATA", CurrentFrame)
        /\ frame' = OtherFrame(CurrentFrame) /\ target' = frame'
        /\ captured' = [b \in Bufs |-> IF b = frame' THEN Hole ELSE CaptureFrames[b]]
        /\ stamp' = (IF frame' = None THEN stamp ELSE stamp + 1)
        /\ UNCHANGED <<prevent, cropBuf, allocated, file, saved, memory, writer>>
    BY DEF VsyncFrame, InTime, workerVars, fileVars
  <1>2. copies' = {}
    BY <1>1 DEF VsyncFrame, Disturb
  <1>3. Queued = {} /\ ~Flying /\ Captures /\ (cropBuf # None => Numbers)
    BY <1>1 DEF Queued, Flying, Flow
  <1>4. /\ EmptyEvent \in Events /\ etype'[EmptyEvent] = "IMAGE_DATA"
        /\ src'[EmptyEvent] = CurrentFrame
    <2>1. EmptyEvent \in Events
      BY <1>1, EmptyEventIn
    <2> QED BY <1>1, <2>1 DEF Fill, IInv, EventInv, EventType
  <1>5. /\ WritersFull' /\ Writing'
        /\ cropBuf # None => Stored' = Stored /\ Filling(cropBuf, 1 - cropBuf)'
    <2>1. LastStored
      BY <1>1 DEF LastStored
    <2> QED BY <1>1, <1>2, <2>1, MemoriesKept
  <1>6. frame' # None => CaptureEnds'[frame'] = stamp'
    <2>1. frame' \in Bufs \cup {None}
      BY <1>1, FramesType DEF IInv, EventInv
    <2> QED BY <1>1, <2>1 DEF CaptureEnds
  <1>7. ASSUME Captures', \A e, f \in Queued' : e = f, cropBuf # None => Numbers'
        PROVE  Flow'
    BY <1>1, <1>2, <1>5, <1>7 DEF Flow
  <1>8. CASE count = 0
    <2>1. Queued' = {} /\ ~Flying'
      BY <1>3, <1>8 DEF VsyncFrame, PostsFrame, Queued, Flying
    <2>2. frame' = 1 /\ stamp = 0 /\ stamp' = 1
      BY <1>1, <1>3, <1>8 DEF CurrentFrame, OtherFrame, None, Captures
    <2>3. Captures'
      BY <1>1, <1>6, <2>1, <2>2 DEF Captures
    <2>4. cropBuf # None => Numbers'
      BY <1>3, <1>5, <2>1, <2>2 DEF Numbers
    <2> QED BY <1>7, <2>1, <2>3, <2>4
  <1>9. CASE count # 0
    <2>1. /\ CurrentFrame = frame /\ CaptureFrames = CaptureEnds
      BY <1>9 DEF CurrentFrame, CaptureFrames
    <2>2. Queued' = {EmptyEvent}
      <3>1. Post(EmptyEvent) /\ Posts
        BY <1>0, <1>1, <1>9, EveryEventFits DEF VsyncFrame, PostsFrame, IInv, PostSucceeds
      <3>2. queue' = Append(queue, EmptyEvent)
        BY <3>1 DEF Post
      <3>3. Queued' = Queued \cup {EmptyEvent}
        BY <1>3, <1>4, <3>2, AppendQueued DEF IInv, EventInv, EventType, QueueSound
      <3> QED BY <1>3, <3>3
    <2>3. CASE frame = None
      <3>1. frame' = None /\ stamp' = stamp /\ ~Flying'
        BY <1>1, <1>4, <2>1, <2>2, <2>3 DEF OtherFrame, Flying, IsFrame
      <3>2. Captures'
        BY <1>1, <3>1 DEF Captures, Flying
      <3>3. cropBuf # None => Numbers'
        BY <1>3, <1>5, <3>1 DEF Numbers
      <3> QED BY <1>7, <2>2, <3>2, <3>3
    <2>4. CASE frame # None
      <3>1. /\ frame \in Bufs /\ frame' = 1 - frame /\ frame' # None /\ frame' # frame
            /\ stamp' = stamp + 1 /\ stamp > 0 /\ CaptureEnds[frame] = stamp
        BY <1>0, <1>1, <1>3, <2>1, <2>4 DEF OtherFrame, Captures, Bufs, None
      <3>2. captured'[frame] = stamp
        BY <1>1, <2>1, <3>1
      <3>3. src'[EmptyEvent] = frame /\ Flying'
        BY <1>4, <2>1, <2>2, <2>4 DEF Flying, IsFrame
      <3>4. src'[EmptyEvent] = 1 - frame' /\ captured'[src'[EmptyEvent]] = stamp' - 1
        BY <1>0, <3>1, <3>2, <3>3 DEF Bufs
      <3>5. Captures'
        BY <1>0, <1>1, <1>6, <2>2, <3>1, <3>4 DEF Captures
      <3>6. cropBuf # None => Numbers'
        <4>1. Stored \in Nat
          BY Recording DEF Stored, Bufs
        <4> QED BY <1>0, <1>3, <1>5, <3>1, <3>3, <4>1 DEF Numbers
      <3> QED BY <1>7, <2>2, <3>5, <3>6
    <2> QED BY <2>3, <2>4
  <1> QED BY <1>8, <1>9


(* The worker has the one frame that was in the queue. *)
LEMMA ImageTaken ==
    ASSUME IInv, open, Flow, StoreImage \/ ImageFindsNoBuffer
    PROVE  /\ Head(queue) \in Queued /\ IsFrame(Head(queue)) /\ Flying /\ ~Flying'
           /\ copies = {} /\ edmacFree /\ cropBuf \in Bufs /\ 1 - cropBuf \in Bufs
           /\ cropBuf # 1 - cropBuf
  <1>1. queue # <<>> /\ Handled /\ IsFrame(Head(queue)) /\ cropBuf # None
    BY DEF StoreImage, ImageFindsNoBuffer, Received, CanStore, IsFrame, Source
  <1>2. /\ Head(queue) \in Queued /\ Queued' = Queued \ {Head(queue)} /\ FramesFewer
    BY <1>1, HeadTaken DEF IInv
  <1>3. Flying /\ ~Flying'
    BY <1>1, <1>2 DEF Flying, FramesFewer, Flow
  <1>4. copies = {} /\ edmacFree
    BY <1>3, Zenon DEF Flow, IInv, BufferInv, SingleCopy
  <1>5. cropBuf \in Bufs /\ 1 - cropBuf \in Bufs /\ cropBuf # 1 - cropBuf
    BY <1>1 DEF IInv, SessionInv, SessionType, Bufs
  <1> QED BY <1>1, <1>2, <1>3, <1>4, <1>5

LEMMA FlowNoBuffer ==
    ASSUME IInv, open, Flow, ImageFindsNoBuffer
    PROVE  Flow'
  <1>1. /\ cropBuf' = None /\ ~Flying' /\ copies = {} /\ Handled /\ queue # <<>>
        /\ UNCHANGED <<prevent, count, captured, frame, target, stamp>>
        /\ UNCHANGED <<allocated, file, saved, memory, copies, writer>>
    BY ImageTaken DEF ImageFindsNoBuffer, Received, pushVars, fileVars
  <1>2. Captures => Captures'
    BY <1>1 DEF Captures, CaptureEnds, Flying
  <1>3. WritersFull' /\ Writing'
    BY <1>1 DEF Flow, WritersFull, Writing, Cur, Bufs, None
  <1> QED BY <1>1, <1>2, <1>3 DEF Flow, Flying

(* The frame gets the last place of a buffer, and the buffer that was full
   is handed over. *)
LEMMA FlowStore ==
    ASSUME IInv, open, Flow, StoreImage
    PROVE  Flow'
  <1>1. /\ Head(queue) \in Queued /\ IsFrame(Head(queue)) /\ Flying /\ ~Flying'
        /\ copies = {} /\ edmacFree
    BY ImageTaken
  <1>2. PICK b \in Bufs, o \in Bufs :
            b = cropBuf /\ o = 1 - cropBuf /\ b # o /\ b = 1 - o /\ \A x \in Bufs : x \in {b, o}
    <2>1. cropBuf \in Bufs /\ 1 - cropBuf \in Bufs /\ cropBuf # 1 - cropBuf
      BY ImageTaken
    <2> QED BY <2>1 DEF Bufs
  <1>3. /\ b # None /\ o # None /\ (IsFull(b) => Cur(o) = 0)
        /\ UNCHANGED <<prevent, count, captured, frame, target, stamp>>
        /\ UNCHANGED <<allocated, file, saved>>
    BY <1>2 DEF StoreImage, pushVars, fileVars, Bufs, None
  <1>4. /\ BufFrames \in Nat /\ BufFrames > 0 /\ stamp \in Nat /\ Len(saved) \in Nat
        /\ Cur(b) \in Nat /\ Cur(o) \in Nat /\ Cur(b) <= BufFrames
        /\ memory[b] \in Seq(Values) /\ memory[o] \in Seq(Values) /\ allocated
    BY <1>2, Recording
  <1>5. WritersFull /\ Writing /\ Numbers /\ Filling(b, o)
    BY <1>2, <1>3 DEF Flow
  <1>6. /\ \A i \in 1..Cur(b) : memory[b][i] = Len(saved) + Cur(o) + i
        /\ writer[b].at = "none"
    BY <1>1, <1>2, <1>4, <1>5 DEF Filling, LastStored, Cur, WritersFull
  <1>7. Captures => Captures'
    BY <1>1, <1>3 DEF Captures, CaptureEnds, Flying
  <1>8. Stored \in Nat /\ Stored = stamp - 2 /\ Stored = Len(saved) + (Cur(b) + Cur(o))
    <2>1. Stored \in Nat /\ Stored = Len(saved) + (Cur(b) + Cur(o))
      BY <1>2, <1>4 DEF Stored, Bufs
    <2> QED BY <1>1, <1>4, <1>5, <2>1 DEF Numbers
  <1>9. prevent \/ FrameIn(Source) = stamp - 1
    <2>1. ASSUME ~prevent PROVE captured[Source] = stamp - 1
      BY <1>1, <2>1 DEF Flow, Captures, Source
    <2> QED BY <1>4, <1>8, <2>1 DEF FrameIn, None
  <1>10. ASSUME NEW c \in Bufs, memory' = [memory EXCEPT ![c] = Append(@, Hole)]
         PROVE  /\ Cur(c)' = Cur(c) + 1 /\ \A i \in 1..Cur(c) : memory'[c][i] = memory[c][i]
                /\ DOMAIN memory'[c] = 1..(Cur(c) + 1)
                /\ \A x \in Bufs \ {c} : memory'[x] = memory[x] /\ Cur(x)' = Cur(x)
                /\ Stored' = Stored + 1 /\ Numbers'
    <2>1. memory[c] \in Seq(Values) /\ memory'[c] = Append(memory[c], Hole)
      BY <1>2, <1>4, <1>10 DEF IInv, BufferInv, BufferType
    <2>2. /\ Cur(c)' = Cur(c) + 1 /\ \A i \in 1..Cur(c) : memory'[c][i] = memory[c][i]
          /\ DOMAIN memory'[c] = 1..(Cur(c) + 1)
      BY <2>1 DEF Cur
    <2>3. \A x \in Bufs \ {c} : memory'[x] = memory[x] /\ Cur(x)' = Cur(x)
      BY <1>10 DEF Cur, IInv, BufferInv, BufferType
    <2>4. Stored' = Stored + 1
      BY <1>2, <1>3, <1>4, <1>8, <2>2, <2>3 DEF Stored, Bufs
    <2>5. Numbers'
      BY <1>1, <1>3, <1>4, <1>8, <2>4 DEF Numbers
    <2> QED BY <2>2, <2>3, <2>4, <2>5
  <1>11. ASSUME WritersFull', Writing', cropBuf' \in Bufs, Numbers', Filling(cropBuf, 1 - cropBuf)'
         PROVE  Flow'
    BY <1>1, <1>3, <1>7, <1>11 DEF Flow, Flying, Bufs, None
  <1>12. CASE ~IsFull(b)
    <2>1. cropBuf' = b /\ writer' = writer
      BY <1>1, <1>2, <1>12 DEF StoreImage
    <2>2. memory' = [memory EXCEPT ![b] = Append(@, Hole)]
      BY <1>1, <1>2, <1>12 DEF StoreImage
    <2>3. \A c \in copies' : c.buf = b /\ c.pos = Cur(b) + 1 /\ c.value = FrameIn(Source)
      BY <1>1, <1>2, <1>12 DEF StoreImage
    <2>4. copies' # {}
      BY <1>1, <1>2, <1>12 DEF StoreImage
    <2>5. Cur(b)' = Cur(b) + 1 /\ DOMAIN memory'[b] = 1..(Cur(b) + 1)
          /\ \A i \in 1..Cur(b) : memory'[b][i] = memory[b][i]
      BY <1>10, <2>2
    <2>6. memory'[o] = memory[o] /\ Cur(o)' = Cur(o)
      BY <1>2, <1>10, <2>2
    <2>7. Numbers' /\ Stored' = Stored + 1
      BY <1>10, <2>2
    <2>8. WritersFull' /\ Writing'
      BY <1>2, <1>3, <1>5, <1>6, <2>1, <2>6 DEF WritersFull, Writing
    <2>9. Filling(b, o)'
      <3>1. writer'[o].at = "none" => memory'[o] = <<>>
        BY <1>5, <2>1, <2>6 DEF Filling
      <3>2. ~LastStored'
        BY <1>1, <2>4 DEF LastStored
      <3>3. \A i \in DOMAIN memory'[b] :
               i < Cur(b)' => memory'[b][i] = Len(saved') + Cur(o)' + i
        BY <1>3, <1>4, <1>6, <2>5, <2>6
      <3>4. \A c \in copies' : c.buf = b /\ c.pos = Cur(b)' /\ (prevent' \/ c.value = Stored')
        BY <1>3, <1>4, <1>8, <1>9, <2>3, <2>5, <2>7
      <3> QED BY <3>1, <3>2, <3>3, <3>4 DEF Filling
    <2> QED BY <1>2, <1>11, <2>1, <2>7, <2>8, <2>9
  <1>13. CASE IsFull(b)
    <2>1. cropBuf' = o /\ writer' = [writer EXCEPT ![b].at = "created"]
      BY <1>1, <1>2, <1>13 DEF StoreImage
    <2>2. memory' = [memory EXCEPT ![o] = Append(@, Hole)]
      BY <1>1, <1>2, <1>13 DEF StoreImage
    <2>3. \A c \in copies' : c.buf = o /\ c.pos = Cur(o) + 1 /\ c.value = FrameIn(Source)
      BY <1>1, <1>2, <1>13 DEF StoreImage
    <2>4. copies' # {}
      BY <1>1, <1>2, <1>13 DEF StoreImage
    <2>5. Cur(o)' = 1 /\ DOMAIN memory'[o] = 1..1 /\ Cur(o) = 0
      <3>1. Cur(o) = 0
        BY <1>3, <1>13
      <3>2. Cur(o)' = Cur(o) + 1 /\ DOMAIN memory'[o] = 1..(Cur(o) + 1)
        BY <1>10, <2>2
      <3> QED BY <3>1, <3>2
    <2>6. memory'[b] = memory[b] /\ Cur(b)' = Cur(b) /\ Cur(b) = BufFrames
      BY <1>2, <1>10, <1>13, <2>2 DEF IsFull
    <2>7. Numbers' /\ Stored' = Stored + 1
      BY <1>10, <2>2
    <2>8. /\ writer'[b].at = "created" /\ writer'[o] = writer[o] /\ writer[o].at = "none"
      BY <1>2, <1>4, <1>5, <2>1, <2>5 DEF WritersFull, IInv, BufferInv, BufferType, Writers
    <2>9. Follows(memory[b], Len(saved))
      <3>1. ASSUME NEW i \in DOMAIN memory[b] PROVE memory[b][i] = Len(saved) + i
        <4>1. i \in 1..Cur(b)
          BY <1>4, <3>1 DEF Cur
        <4> QED BY <1>4, <1>6, <2>5, <4>1
      <3> QED BY <3>1 DEF Follows
    <2>10. WritersFull' /\ Writing'
      BY <1>2, <1>3, <1>4, <2>1, <2>6, <2>8, <2>9 DEF WritersFull, Writing
    <2>11. Filling(o, b)'
      <3>1. ~LastStored'
        BY <1>1, <2>4 DEF LastStored
      <3>2. \A i \in DOMAIN memory'[o] : ~(i < Cur(o)')
        BY <2>5
      <3>3. \A c \in copies' : c.buf = o /\ c.pos = Cur(o)' /\ (prevent' \/ c.value = Stored')
        BY <1>3, <1>4, <1>8, <1>9, <2>3, <2>5, <2>7
      <3> QED BY <2>8, <3>1, <3>2, <3>3 DEF Filling
    <2> QED BY <1>2, <1>11, <2>1, <2>7, <2>10, <2>11
  <1> QED BY <1>12, <1>13

(* The copy is done: the last place holds its frame, unless frames are
   prevented. *)
LEMMA FlowCopyEnds ==
    ASSUME IInv, open, Flow, CopyEnds
    PROVE  Flow'
  <1>1. PICK c \in copies :
          /\ copies' = copies \ {c}
          /\ memory' = IF c.pos > Cur(c.buf) THEN memory
                       ELSE [memory EXCEPT ![c.buf][c.pos] = c.value]
          /\ UNCHANGED <<pushVars, eventVars, workerVars, fileVars, writer>>
    BY DEF CopyEnds
  <1>2. /\ copies' = {} /\ ~Flying /\ cropBuf # None /\ Queued' = Queued
        /\ UNCHANGED <<prevent, count, captured, frame, target, stamp, etype, src>>
        /\ UNCHANGED <<cropBuf, allocated, file, saved, writer>>
    BY <1>1 DEF IInv, BufferInv, SingleCopy, Flow, pushVars, eventVars, workerVars, fileVars, Queued
  <1>3. PICK b \in Bufs, o \in Bufs :
            b = cropBuf /\ o = 1 - cropBuf /\ b # o /\ b = 1 - o /\ \A x \in Bufs : x \in {b, o}
    BY <1>2 DEF IInv, SessionInv, SessionType, Bufs
  <1>4. Filling(b, o) /\ Numbers /\ WritersFull /\ Writing /\ ~Flying'
    BY <1>2, <1>3 DEF Flow, Flying, IsFrame
  <1>5. /\ memory[b] \in Seq(Values) /\ Cur(b) \in Nat /\ Cur(o) \in Nat /\ Len(saved) \in Nat
        /\ c.buf = b /\ c.pos = Cur(b) /\ Cur(b) \in 1..Len(memory[b]) /\ c.value \in Values
        /\ prevent \/ c.value = Stored
    <2>1. c.pos \in Nat /\ c.pos > 0 /\ c.value \in Values
      BY SizesAssumption DEF IInv, BufferInv, BufferType, Copies
    <2>2. memory[b] \in Seq(Values) /\ Cur(b) \in Nat /\ Cur(o) \in Nat /\ Len(saved) \in Nat
      BY <1>3, Recording
    <2>3. c.buf = b /\ c.pos = Cur(b) /\ (prevent \/ c.value = Stored)
      BY <1>4 DEF Filling
    <2> QED BY <2>1, <2>2, <2>3 DEF Cur
  <1>6. /\ memory'[b] = [memory[b] EXCEPT ![Cur(b)] = c.value] /\ memory'[o] = memory[o]
        /\ Cur(b)' = Cur(b) /\ Cur(o)' = Cur(o) /\ DOMAIN memory'[b] = DOMAIN memory[b]
    <2>1. memory' = [memory EXCEPT ![b] = [memory[b] EXCEPT ![Cur(b)] = c.value]]
      BY <1>1, <1>5
    <2>2. memory'[b] = [memory[b] EXCEPT ![Cur(b)] = c.value] /\ memory'[o] = memory[o]
      BY <1>3, <2>1 DEF IInv, BufferInv, BufferType
    <2>3. Len(memory'[b]) = Len(memory[b]) /\ memory'[b] \in Seq(Values)
      BY <1>5, <2>2, ReplaceKeepsLength
    <2> QED BY <1>5, <2>2, <2>3 DEF Cur
  <1>7. Stored' = Stored /\ Numbers' /\ Stored = Len(saved) + Cur(o) + Cur(b)
    <2>1. Stored' = Stored /\ Stored = Len(saved) + Cur(o) + Cur(b)
      BY <1>2, <1>3, <1>5, <1>6 DEF Stored, Bufs
    <2> QED BY <1>2, <1>4, <2>1 DEF Numbers
  <1>8. WritersFull' /\ Writing'
    BY <1>2, <1>3, <1>4, <1>6 DEF WritersFull, Writing
  <1>9. Filling(b, o)'
    <2>1. ASSUME NEW i \in DOMAIN memory'[b], i < Cur(b)' \/ LastStored'
          PROVE  memory'[b][i] = Len(saved') + Cur(o)' + i
      <3>1. i \in 1..Cur(b) /\ i \in DOMAIN memory[b]
        BY <1>5, <1>6, <2>1 DEF Cur
      <3>2. CASE i < Cur(b)
        <4>1. memory[b][i] = Len(saved) + Cur(o) + i
          BY <1>4, <3>1, <3>2 DEF Filling
        <4> QED BY <1>2, <1>6, <3>1, <3>2, <4>1
      <3>3. CASE i = Cur(b)
        <4>1. ~prevent
          BY <1>2, <1>4, <1>6, <2>1, <3>1, <3>3 DEF LastStored
        <4>2. c.value = Stored
          BY <1>5, <4>1
        <4> QED BY <1>2, <1>6, <1>7, <3>1, <3>3, <4>2
      <3> QED BY <1>5, <3>1, <3>2, <3>3
    <2>2. writer'[o].at = "none" => memory'[o] = <<>>
      BY <1>2, <1>4, <1>6 DEF Filling
    <2> QED BY <1>2, <2>1, <2>2 DEF Filling
  <1>10. Captures => Captures'
    BY <1>2 DEF Captures, CaptureEnds, IsFrame
  <1>11. \A e, f \in Queued' : IsFrame(e)' /\ IsFrame(f)' => e = f
    BY <1>2 DEF Flow, IsFrame
  <1> QED BY <1>2, <1>3, <1>7, <1>8, <1>9, <1>10, <1>11 DEF Flow


LEMMA FlowWriteBegins ==
    ASSUME IInv, open, Flow, NEW w \in Bufs, WriteBegins(w)
    PROVE  Flow'
  <1>1. /\ writer[w].at = "created" /\ file # None /\ allocated
        /\ writer' = [writer EXCEPT ![w] = [at |-> "writing", size |-> Cur(w), file |-> file]]
        /\ UNCHANGED <<prevent, count, captured, frame, target, stamp, etype, src>>
        /\ UNCHANGED <<cropBuf, allocated, file, saved, memory, copies>> /\ Queued' = Queued
    BY Recording DEF WriteBegins, pushVars, eventVars, workerVars, fileVars, Queued
  <1>2. /\ \A b \in Bufs \ {w} : writer'[b] = writer[b]
        /\ writer'[w].at = "writing" /\ writer'[w].size = Cur(w) /\ writer'[w].file = file
    BY <1>1 DEF IInv, BufferInv, BufferType
  <1>3. \A b \in Bufs : Cur(b)' = Cur(b) /\ 1 - b \in Bufs /\ 1 - b # b
    BY <1>1 DEF Cur, Bufs
  <1>4. Flying' = Flying
    BY <1>1 DEF Flying, IsFrame
  <1>5. Writing'
    <2>1. Writing
      BY DEF Flow
    <2>2. \A b \in Bufs : writer'[b].at # "none" <=> writer[b].at # "none"
      BY <1>1, <1>2
    <2>3. ASSUME NEW b \in Bufs, writer'[b].at # "none"
          PROVE  /\ writer'[1 - b].at = "none" /\ Follows(memory[b], Len(saved))
                 /\ writer'[b].at = "writing" => writer'[b].size = Cur(b) /\ writer'[b].file = file
      BY <1>2, <1>3, <2>1, <2>2, <2>3 DEF Writing
    <2> QED BY <1>1, <1>3, <2>3 DEF Writing
  <1>6. WritersFull'
    BY <1>1, <1>2, <1>3 DEF Flow, WritersFull
  <1>7. Captures => Captures'
    BY <1>1 DEF Captures, CaptureEnds, IsFrame
  <1>8. \A e, f \in Queued' : IsFrame(e)' /\ IsFrame(f)' => e = f
    BY <1>1 DEF Flow, IsFrame
  <1>9. ASSUME cropBuf # None PROVE Numbers' /\ Filling(cropBuf, 1 - cropBuf)'
    <2>1. PICK b \in Bufs, o \in Bufs :
            b = cropBuf /\ o = 1 - cropBuf /\ b # o /\ b = 1 - o /\ \A x \in Bufs : x \in {b, o}
      BY <1>9 DEF IInv, SessionInv, SessionType, Bufs
    <2>2. Numbers /\ Filling(b, o) /\ Stored' = Stored
      BY <1>1, <1>3, <1>9, <2>1 DEF Flow, Stored, Bufs
    <2>3. Numbers'
      BY <1>1, <1>4, <2>2 DEF Numbers
    <2>4. LastStored' => LastStored
      BY <1>1, <1>4 DEF LastStored
    <2>5. writer'[o].at = "none" => writer[o].at = "none"
      BY <1>2, <2>1
    <2>6. Filling(b, o)'
      BY <1>1, <1>3, <2>1, <2>2, <2>4, <2>5 DEF Filling
    <2> QED BY <1>1, <2>1, <2>3, <2>6
  <1> QED BY <1>1, <1>4, <1>5, <1>6, <1>7, <1>8, <1>9 DEF Flow

LEMMA ConcatFollows ==
    ASSUME NEW S, NEW s \in Seq(S), NEW m \in Seq(S), Follows(s, 0), Follows(m, Len(s))
    PROVE  /\ Follows(s \o m, 0) /\ Len(s \o m) = Len(s) + Len(m)
  <1>1. /\ s \o m \in Seq(S) /\ Len(s \o m) = Len(s) + Len(m)
        /\ Len(s) \in Nat /\ Len(m) \in Nat
        /\ DOMAIN (s \o m) = 1..(Len(s) + Len(m)) /\ DOMAIN s = 1..Len(s) /\ DOMAIN m = 1..Len(m)
    OBVIOUS
  <1>2. ASSUME NEW i \in 1..(Len(s) + Len(m)) PROVE (s \o m)[i] = 0 + i
    <2>1. CASE i <= Len(s)
      <3>1. (s \o m)[i] = s[i] /\ i \in DOMAIN s
        BY <1>1, <2>1
      <3> QED BY <3>1 DEF Follows
    <2>2. CASE i > Len(s)
      <3>1. (s \o m)[i] = m[i - Len(s)] /\ i - Len(s) \in DOMAIN m
        BY <1>1, <2>2
      <3>2. m[i - Len(s)] = Len(s) + (i - Len(s))
        BY <3>1 DEF Follows
      <3> QED BY <1>1, <3>1, <3>2
    <2> QED BY <1>1, <2>1, <2>2
  <1> QED BY <1>1, <1>2 DEF Follows

(* A full buffer is at the end of the file: what followed it follows the file. *)
LEMMA FlowWriteEnds ==
    ASSUME IInv, open, Flow, Follows(saved, 0), NEW w \in Bufs, WriteEnds(w)
    PROVE  Flow' /\ Follows(saved', 0)
  <1>1. /\ writer[w].at = "writing"
        /\ saved' = IF open /\ writer[w].file = file
                    THEN saved \o SubSeq(memory[w], 1, writer[w].size) ELSE saved
        /\ memory' = [memory EXCEPT ![w] = <<>>] /\ writer' = [writer EXCEPT ![w] = NoWrite]
        /\ UNCHANGED <<prevent, count, captured, frame, target, stamp, etype, src>>
        /\ UNCHANGED <<cropBuf, allocated, file, copies>> /\ Queued' = Queued
    BY DEF WriteEnds, pushVars, eventVars, workerVars, Queued
  <1>2. /\ Len(saved) \in Nat /\ saved \in Seq(Values) /\ memory[w] \in Seq(Values)
        /\ \A b \in Bufs : Cur(b) \in Nat
    BY Recording
  <1>3. /\ writer[1 - w].at = "none" /\ Follows(memory[w], Len(saved)) /\ writer[w].size = Cur(w)
        /\ writer[w].file = file /\ w # cropBuf
    BY <1>1 DEF Flow, Writing, WritersFull
  <1>4. saved' = saved \o memory[w]
    <2>1. SubSeq(memory[w], 1, Len(memory[w])) = memory[w]
      BY <1>2
    <2> QED BY <1>1, <1>3, <2>1 DEF Cur
  <1>5. Follows(saved', 0) /\ Len(saved') = Len(saved) + Cur(w)
    BY <1>2, <1>3, <1>4, ConcatFollows DEF Cur
  <1>6. /\ memory'[w] = <<>> /\ Cur(w)' = 0 /\ writer'[w].at = "none"
        /\ \A b \in Bufs \ {w} : memory'[b] = memory[b] /\ Cur(b)' = Cur(b) /\ writer'[b] = writer[b]
    BY <1>1 DEF IInv, BufferInv, BufferType, Cur, NoWrite
  <1>7. \A b \in Bufs : writer'[b].at = "none"
    BY <1>3, <1>6 DEF Bufs
  <1>8. WritersFull' /\ Writing'
    BY <1>7 DEF WritersFull, Writing
  <1>9. Flying' = Flying
    BY <1>1 DEF Flying, IsFrame
  <1>10. Captures => Captures'
    BY <1>1 DEF Captures, CaptureEnds, IsFrame
  <1>11. \A e, f \in Queued' : IsFrame(e)' /\ IsFrame(f)' => e = f
    BY <1>1 DEF Flow, IsFrame
  <1>12. ASSUME cropBuf # None PROVE Numbers' /\ Filling(cropBuf, 1 - cropBuf)'
    <2>1. PICK b \in Bufs : b = cropBuf /\ w = 1 - cropBuf /\ b # w /\ \A x \in Bufs : x \in {b, w}
      BY <1>3, <1>12 DEF IInv, SessionInv, SessionType, Bufs
    <2>2. Numbers /\ Filling(b, w)
      BY <1>12, <2>1 DEF Flow
    <2>3. Stored' = Stored
      BY <1>2, <1>5, <1>6, <2>1 DEF Stored, Bufs
    <2>4. Numbers'
      BY <1>1, <1>9, <2>2, <2>3 DEF Numbers
    <2>5. LastStored' => LastStored
      BY <1>1, <1>9 DEF LastStored
    <2>6. memory'[b] = memory[b] /\ Cur(b)' = Cur(b) /\ Len(saved') + Cur(w)' = Len(saved) + Cur(w)
      BY <1>2, <1>5, <1>6, <2>1
    <2>7. Filling(b, w)'
      BY <1>1, <1>6, <2>2, <2>3, <2>5, <2>6 DEF Filling
    <2> QED BY <1>1, <2>1, <2>4, <2>7
  <1> QED BY <1>1, <1>5, <1>8, <1>9, <1>10, <1>11, <1>12 DEF Flow

-----------------------------------------------------------------------------
(* All steps                                                               *)

LEMMA FlowStep ==
    ASSUME IInv, PreparedInv, open, open', Flow, Follows(saved, 0), keepsUp, [Next]_vars
    PROVE  Flow' /\ Follows(saved', 0)
  <1>0. state = "ACTIVE" /\ worker = "receive" /\ current = None /\ file # None /\ allocated
    BY Recording
  <1>1. CASE VsyncFrame \/ VsyncNoEvent \/ VsyncPrevented
    <2>1. saved' = saved
      BY <1>1 DEF VsyncFrame, VsyncNoEvent, VsyncPrevented, fileVars
    <2> QED BY <1>1, <2>1, FlowFrame, FlowNoEvent, FlowPrevented
  <1>2. CASE StoreImage \/ ImageFindsNoBuffer \/ CopyEnds
    <2>1. saved' = saved
      BY <1>2 DEF StoreImage, ImageFindsNoBuffer, CopyEnds, fileVars
    <2> QED BY <1>2, <2>1, FlowStore, FlowNoBuffer, FlowCopyEnds
  <1>3. ASSUME NEW b \in Bufs, Write(b) PROVE Flow' /\ Follows(saved', 0)
    <2>1. CASE WriteBegins(b)
      BY <2>1, FlowWriteBegins DEF WriteBegins, fileVars
    <2>2. CASE WriteEnds(b)
      BY <2>2, FlowWriteEnds
    <2> QED BY <1>3, <2>1, <2>2 DEF Write
  <1>4. CASE KeyStops \/ KeyStarts \/ VsyncNoMemory \/ (\E t \in Stops : StopTask(t))
             \/ IgnoreStart \/ IgnoreStop \/ DropImage \/ UNCHANGED vars
    <2>1. /\ UNCHANGED <<frame, target, captured, stamp>>
          /\ UNCHANGED <<memory, copies, writer, cropBuf, allocated, saved, file>>
          /\ count' = 0 => count = 0
      BY <1>4 DEF KeyStops, KeyStarts, VsyncNoMemory, StopTask, StopBegins, StopGets, StopPosts,
                  IgnoreStart, IgnoreStop, DropImage, vars, pushVars, fileVars, workerVars
    <2>2. prevent => prevent'
      BY PreventStays DEF IInv
    <2>3. CASE VsyncFrame \/ StoreImage \/ ImageFindsNoBuffer
      BY <1>1, <1>2, <2>3
    <2>4. CASE ~(VsyncFrame \/ StoreImage \/ ImageFindsNoBuffer)
      <3>1. FramesFewer /\ (FramesKept \/ DropImage)
        BY <2>4, FramesEffect
      <3>2. ASSUME DropImage PROVE FramesKept \/ cropBuf = None
        <4>1. queue # <<>> /\ Handled /\ (Source = None \/ cropBuf = None)
          BY <1>0, <3>2 DEF DropImage, Received
        <4>2. Source = None => FramesKept
          BY <4>1, HeadTaken DEF IInv, Source, IsFrame
        <4> QED BY <4>1, <4>2
      <3>3. Flow'
        BY <2>1, <2>2, <3>1, <3>2, FlowKept
      <3> QED BY <2>1, <3>3
    <2> QED BY <2>3, <2>4
  <1>5. ~StartAllocates /\ ~StartHasNoName /\ ~StartRecords /\ ~StopCloses /\ ~StopFrees
    BY <1>0 DEF StartAllocates, StartHasNoName, StartRecords, StopCloses, StopFrees
  <1> QED BY <1>1, <1>2, <1>3, <1>4, <1>5 DEF Next, Key, Vsync, Worker


(* Recordings start and end with two actions only; a file grows while it is
   open. *)
LEMMA OtherSteps ==
    ASSUME [Next]_vars, ~StartRecords, ~StopFrees
    PROVE  state' = state /\ (open' => open) /\ (saved' = saved \/ open')
  <1>1. CASE Key \/ Vsync \/ (\E t \in Stops : StopTask(t)) \/ CopyEnds \/ UNCHANGED vars
    <2>1. UNCHANGED <<workerVars, fileVars>>
      BY <1>1 DEF Key, KeyStops, KeyStarts, Vsync, VsyncPrevented, VsyncNoMemory, VsyncNoEvent,
                  VsyncFrame, StopTask, StopBegins, StopGets, StopPosts, CopyEnds, vars
    <2> QED BY <2>1 DEF workerVars, fileVars
  <1>2. CASE DropImage \/ ImageFindsNoBuffer \/ StoreImage \/ IgnoreStart \/ IgnoreStop
             \/ StartAllocates \/ StartHasNoName
    BY <1>2 DEF DropImage, ImageFindsNoBuffer, StoreImage, IgnoreStart, IgnoreStop, StartAllocates,
                StartHasNoName, fileVars
  <1>3. CASE StopCloses
    BY <1>3 DEF StopCloses
  <1>4. ASSUME NEW b \in Bufs, Write(b)
        PROVE  state' = state /\ (open' => open) /\ (saved' = saved \/ open')
    BY <1>4 DEF Write, WriteBegins, WriteEnds, workerVars, fileVars
  <1> QED BY <1>1, <1>2, <1>3, <1>4 DEF Next, Worker

LEMMA OrderStep ==
    ASSUME IInv, PreparedInv, OrderInv, [Next]_vars
    PROVE  OrderInv'
  <1>1. SUFFICES ASSUME keepsUp' PROVE /\ Follows(saved', 0)
                                       /\ Spent' \/ ((state' = "INACTIVE" => Fresh') /\ (open' => Flow'))
    BY DEF OrderInv
  <1>2. keepsUp
    BY <1>1
       DEF Next, Key, KeyStops, KeyStarts, Vsync, VsyncPrevented, VsyncNoMemory, VsyncNoEvent,
           VsyncFrame, CopyEnds, StopTask, StopBegins, StopGets, StopPosts, Write, WriteBegins,
           WriteEnds, Worker, DropImage, ImageFindsNoBuffer, StoreImage, IgnoreStart, IgnoreStop,
           StartAllocates, StartHasNoName, StartRecords, StopCloses, StopFrees, vars
  <1>3. Follows(saved, 0) /\ (Spent \/ ((state = "INACTIVE" => Fresh) /\ (open => Flow)))
    BY <1>2 DEF OrderInv
  <1>4. open => state = "ACTIVE"
    BY DEF IInv, SessionInv
  <1>5. CASE Spent
    BY <1>3, <1>5, SpentStays
  <1>6. CASE StartRecords /\ ~Spent
    <2>1. state = "INACTIVE" /\ state' = "ACTIVE"
      BY <1>6 DEF StartRecords, IInv, SessionInv
    <2>2. Fresh /\ (open' => Flow')
      BY <1>3, <1>6, <2>1, StartsRecording
    <2>3. saved' = saved \/ saved' = <<>>
      BY <1>6 DEF StartRecords, fileVars
    <2> QED BY <1>3, <2>1, <2>2, <2>3 DEF Follows
  <1>7. CASE StopFrees
    <2>1. Ended' /\ memory' = [b \in Bufs |-> <<>>] /\ saved' = saved
      BY <1>7, EndedStays DEF StopFrees, IInv, EndInv
    <2> QED BY <1>3, <2>1 DEF Spent
  <1>8. CASE ~Spent /\ ~StartRecords /\ ~StopFrees
    <2>1. state' = state /\ (open' => open) /\ (saved' = saved \/ open')
      BY <1>8, OtherSteps
    <2>2. CASE state = "INACTIVE"
      <3>1. ~open /\ ~open' /\ Fresh
        BY <1>3, <1>4, <1>8, <2>1, <2>2
      <3> QED BY <1>3, <2>1, <2>2, <3>1, FreshStays
    <2>3. CASE open'
      <3>1. Flow
        BY <1>3, <1>8, <2>1, <2>3
      <3> QED BY <1>2, <1>3, <1>4, <2>1, <2>3, <3>1, FlowStep
    <2>4. CASE state # "INACTIVE" /\ ~open'
      <3>1. Follows(saved', 0)
        BY <1>3, <2>1, <2>4
      <3> QED BY <2>1, <2>4, <3>1
    <2> QED BY <2>2, <2>3, <2>4
  <1> QED BY <1>5, <1>6, <1>7, <1>8


(* A worker that keeps up saves the frames in the order of their capture, none
   left out: raw_vid_vsync_cbr, the worker, edmac_cbr_w and write_buf_to_disk,
   for any number of events, of frames in a crop buffer and of stop tasks, any
   moment at which the recording is stopped and any failures. *)
THEOREM FramesAreInOrder == Spec => []SavedInOrder
  <1>1. Init => IInv /\ PreparedInv /\ OrderInv
    BY EventInit, SessionInit, EndInit, BufferInit, OrderInit DEF IInv
  <1>2. IInv /\ PreparedInv /\ OrderInv /\ [Next]_vars => IInv' /\ PreparedInv' /\ OrderInv'
    BY EventStep, SessionStep, EndStep, BufferStep, PreparedStep, OrderStep DEF IInv
  <1>3. IInv /\ OrderInv => SavedInOrder
    <2>1. ASSUME IInv, OrderInv, keepsUp, NEW i \in DOMAIN saved PROVE saved[i] = i
      <3>1. i \in Nat /\ saved[i] = 0 + i
        BY <2>1 DEF OrderInv, Follows, IInv, BufferInv, BufferType
      <3> QED BY <3>1
    <2> QED BY <2>1 DEF SavedInOrder
  <1> QED BY <1>1, <1>2, <1>3, PTL DEF Spec
=============================================================================
