------------------------------- MODULE RawVid -------------------------------
(***************************************************************************)
(* The raw_vid module (modules/raw_video/raw_vid): event_pusher.c fills    *)
(* events from a fixed pool and posts pointers to them to one message      *)
(* queue, worker.c receives, acts and gives the events back.  The actors:  *)
(*                                                                         *)
(*   vsync   raw_vid_vsync_cbr, not interrupted by the tasks below;        *)
(*   key     raw_vid_keypress_cbr, in the task that handles the buttons;   *)
(*   stops   the tasks created to run send_stop_command;                   *)
(*   worker  the only reader of the queue;                                 *)
(*   writer  raw_write tasks, which save a full crop buffer to the card;   *)
(*   dma     the EDMAC copy that crops a frame into a crop buffer.         *)
(*                                                                         *)
(* The camera writes each captured frame to the buffer of the last         *)
(* raw_lv_redirect_edmac, valid for one frame (CONFIG_EDMAC_RAW_SLURP).    *)
(* Nobody waits while holding events_sem, so take_semaphore(events_sem)    *)
(* does not time out, and get_empty_event is one step.                     *)
(* Events differ in nothing but their contents, so the first empty one     *)
(* stands for the one get_empty_event finds.                               *)
(*                                                                         *)
(* A definition marked "mutant" is a slip one could make in the definition *)
(* that follows it; no formula below uses it.                              *)
(***************************************************************************)
EXTENDS Integers, Sequences, FiniteSets

CONSTANTS
    QLen,        \* RAW_VID_Q_LEN: events, and places in the queue
    BufFrames,   \* frames that fit in a crop buffer
    MaxTries,    \* max_tries of send_stop_command
    Paces,       \* whether each frame is dealt with before the next vsync
    Failures,    \* which of the failures below the environment may produce
    MaxStops,    \* bound: stop tasks at a time
    MaxFrames,   \* bound: frames captured in the whole behaviour
    MaxSessions  \* bound: recordings

FailureKinds == {"capture",  \* fio_malloc of a capture frame
                 "crop",     \* fio_malloc of the crop buffers
                 "name",     \* get_numbered_file_name
                 "file"}     \* FIO_CreateFile

ASSUME SizesAssumption == {QLen, BufFrames, MaxTries} \subseteq Nat \ {0}
ASSUME EnvAssumption   == Paces \subseteq BOOLEAN /\ Failures \subseteq FailureKinds
ASSUME BoundAssumption == {MaxStops, MaxFrames, MaxSessions} \subseteq Nat

Events == 1..QLen
Stops  == 1..MaxStops
Bufs   == {0, 1}
None   == -1
Hole   == 0     \* memory no copy was made to, or not the frame it was made for

VARIABLES
    keepsUp,     \* the worker is never late in this behaviour
    prevent,     \* prevent_recording
    count,       \* count of raw_vid_vsync_cbr
    captured,    \* capture_frames: the frame each holds, or None if not allocated
    frame,       \* frame of raw_vid_vsync_cbr: a capture buffer, or None
    target,      \* the capture buffer the camera is writing to, or None
    etype, src,  \* events[].type, events[].src
    queue,       \* event_q
    stop,        \* send_stop_command in each stop task: where, tries, event
    worker,      \* where the worker is
    current,     \* the event it works on, or None
    state,       \* recording_state
    file,        \* raw_vid_fp: the session it was opened in, or None
    open,        \* that file is open
    saved,       \* the blocks written to the file of the last session
    cropBuf,     \* crop_buf: one of crop_bufs, or None
    allocated,   \* crop_bufs are allocated
    memory,      \* what each of crop_bufs holds from start to cur
    copies,      \* EDMAC copies in progress
    edmacFree,   \* edmac_sem is there to be taken
    writer,      \* the raw_write task of each crop buffer
    lvRequests,  \* raw_lv_request_count
    stamp, sessions   \* counters of the bounds

pushVars   == <<prevent, count, captured, frame, target, stamp>>
eventVars  == <<etype, src, queue>>
workerVars == <<worker, current, state, cropBuf, allocated, lvRequests, sessions>>
fileVars   == <<file, open, saved>>
vars == <<keepsUp, pushVars, eventVars, stop, workerVars, fileVars,
          memory, copies, edmacFree, writer>>

NoStop   == [at |-> "none", tries |-> 0, event |-> None]
NoWrite  == [at |-> "none", size |-> 0, file |-> None]

Init ==
    /\ keepsUp \in Paces
    /\ prevent = FALSE /\ count = 0 /\ frame = None /\ target = None /\ stamp = 0
    /\ captured = [b \in Bufs |-> None]
    /\ etype = [e \in Events |-> "EMPTY"] /\ src = [e \in Events |-> None]
    /\ queue = <<>>
    /\ stop = [t \in Stops |-> NoStop]
    /\ worker = "receive" /\ current = None /\ state = "INACTIVE"
    /\ file = None /\ open = FALSE /\ saved = <<>>
    /\ cropBuf = None /\ allocated = FALSE /\ memory = [b \in Bufs |-> <<>>]
    /\ copies = {} /\ edmacFree = TRUE
    /\ writer = [b \in Bufs |-> NoWrite]
    /\ lvRequests = 0 /\ sessions = 0

-----------------------------------------------------------------------------
(* event_pusher.c: the event pool, the stop command                        *)

(* mutant: an event that is being prepared can be handed out again *)
EmptyOrPreparing == {e \in Events : etype[e] \in {"EMPTY", "PREPARING"}}

Empty == {e \in Events : etype[e] = "EMPTY"}

First(S) == CHOOSE i \in S : \A j \in S : i <= j

(* The result of get_empty_event: an empty event, None when there is none *)
EmptyEvent == IF Empty = {} THEN None ELSE First(Empty)

Fill(e, type, from) ==
    /\ etype' = [etype EXCEPT ![e] = type]
    /\ src'   = [src EXCEPT ![e] = from]

(* msg_queue_post: its result, and its effect *)
Posts   == Len(queue) < QLen
Post(e) == queue' = IF Posts THEN Append(queue, e) ELSE queue

FreeStops == {t \in Stops : stop[t].at = "none"}

(* task_create(send_stop_command) *)
CreateStop == FreeStops # {} /\ stop' = [stop EXCEPT ![First(FreeStops)].at = "created"]

StopBegins(t) ==
    /\ stop[t].at = "created"
    /\ prevent' = TRUE
    /\ stop' = [stop EXCEPT ![t].at = "getting"]
    /\ UNCHANGED <<keepsUp, count, captured, frame, target, stamp, eventVars,
                   workerVars, fileVars, memory, copies, edmacFree, writer>>

Retry(s) == [s EXCEPT !.tries = @ + 1]

(* One call of get_empty_event.  The task gives up after its last try,     *)
(* even when that one has found an event.                                  *)
StopGets(t) ==
    /\ stop[t].at = "getting"
    /\ LET e == EmptyEvent IN
        /\ IF e = None THEN UNCHANGED <<etype, src>> ELSE Fill(e, "PREPARING", None)
        /\ stop' = [stop EXCEPT ![t] =
             IF stop[t].tries = MaxTries THEN NoStop
             ELSE IF e = None THEN Retry(stop[t])
             ELSE [at |-> "posting", tries |-> 0, event |-> e]]
    /\ UNCHANGED <<keepsUp, pushVars, queue, workerVars, fileVars, memory,
                   copies, edmacFree, writer>>

StopPosts(t) ==
    /\ stop[t].at = "posting"
    /\ Fill(stop[t].event, "COMMAND_STOP", None)
    /\ Post(stop[t].event)
    /\ stop' = [stop EXCEPT ![t] =
         IF Posts \/ stop[t].tries = MaxTries THEN NoStop
                                              ELSE Retry(stop[t])]
    /\ UNCHANGED <<keepsUp, pushVars, workerVars, fileVars, memory, copies,
                   edmacFree, writer>>

-----------------------------------------------------------------------------
(* event_pusher.c: the keys and the vsync callback                         *)

(* The REC key, in LiveView, not recording H.264 *)
KeyStops ==
    /\ state = "ACTIVE"
    /\ CreateStop
    /\ UNCHANGED <<keepsUp, pushVars, eventVars, workerVars, fileVars, memory, copies,
                   edmacFree, writer>>

KeyStarts ==
    /\ state = "INACTIVE" /\ sessions < MaxSessions
    /\ EmptyEvent # None
    /\ Fill(EmptyEvent, "COMMAND_START", None) /\ Post(EmptyEvent)
    /\ UNCHANGED <<keepsUp, pushVars, stop, workerVars, fileVars, memory, copies,
                   edmacFree, writer>>

(* The capture of the last frame is complete at every vsync.               *)
CaptureEnds == [b \in Bufs |-> IF b = target THEN stamp ELSE captured[b]]

(* A frame that is copied while its buffer is overwritten or freed *)
Disturb(bufs) == {[c EXCEPT !.value = IF c.src \in bufs THEN Hole ELSE @] : c \in copies}

InTime == keepsUp => queue = <<>> /\ current = None /\ copies = {}

VsyncPrevented ==
    /\ state = "ACTIVE" /\ prevent
    /\ count' = 0
    /\ captured' = [b \in Bufs |-> None]
    /\ target' = None
    /\ copies' = Disturb(Bufs)
    /\ UNCHANGED <<keepsUp, prevent, frame, stamp, eventVars, stop, workerVars,
                   fileVars, memory, edmacFree, writer>>

(* count reaches 1 and one of the capture frames cannot be allocated *)
VsyncNoMemory ==
    /\ state = "ACTIVE" /\ ~prevent /\ count = 0 /\ "capture" \in Failures
    /\ count' = 1
    /\ CreateStop
    /\ UNCHANGED <<keepsUp, prevent, captured, frame, target, stamp, eventVars,
                   workerVars, fileVars, memory, copies, edmacFree, writer>>

(* The frames and the current one after the set-up of the first vsync *)
CaptureFrames == IF count = 0 THEN [b \in Bufs |-> Hole] ELSE CaptureEnds
CurrentFrame  == IF count = 0 THEN 0 ELSE frame

(* All events are in use.                                                  *)
VsyncNoEvent ==
    /\ state = "ACTIVE" /\ ~prevent /\ InTime
    /\ Empty = {}
    /\ count' = IF count = 0 THEN 1 ELSE 2
    /\ captured' = CaptureFrames /\ frame' = CurrentFrame /\ target' = None
    /\ CreateStop
    /\ UNCHANGED <<keepsUp, prevent, stamp, eventVars, workerVars, fileVars,
                   memory, copies, edmacFree, writer>>

(* The other frame, and the index of the buffer that was allocated *)
OtherFrame(f) == IF f = None THEN None ELSE 1 - f

(* mutant: the event of the first vsync is posted too *)
PostsAlways == TRUE

(* The event of the first vsync is not posted, there is no frame yet.      *)
PostsFrame == count > 0

VsyncFrame ==
    /\ state = "ACTIVE" /\ ~prevent /\ InTime /\ stamp < MaxFrames
    /\ count' = IF count = 0 THEN 1 ELSE 2
    /\ Empty # {}
    /\ Fill(EmptyEvent, "IMAGE_DATA", CurrentFrame)
    /\ IF PostsFrame THEN Post(EmptyEvent) ELSE UNCHANGED queue
    /\ frame' = OtherFrame(CurrentFrame)
    /\ captured' = [b \in Bufs |-> IF b = frame' THEN Hole ELSE CaptureFrames[b]]
    /\ target' = frame'
    /\ stamp' = IF frame' = None THEN stamp ELSE stamp + 1
    /\ copies' = Disturb({frame'})
    /\ IF PostsFrame /\ ~Posts THEN CreateStop ELSE UNCHANGED stop
    /\ UNCHANGED <<keepsUp, prevent, workerVars, fileVars, memory, edmacFree,
                   writer>>

-----------------------------------------------------------------------------
(* worker.c                                                                *)

(* msg_queue_receive, and the handling of the event up to release_event,  *)
(* which is one step where the worker does not wait in between.  The other *)
(* members of an empty event are not read before get_empty_event resets    *)
(* them.                                                                   *)
Received(type) == worker = "receive" /\ queue # <<>> /\ etype[Head(queue)] = type

Handled ==
    /\ Fill(Head(queue), "EMPTY", None)
    /\ queue' = Tail(queue)
    /\ UNCHANGED <<worker, current>>

WaitAt(point) ==
    /\ worker' = point /\ current' = Head(queue)
    /\ queue' = Tail(queue)
    /\ UNCHANGED <<etype, src>>

Release ==
    /\ Fill(current, "EMPTY", None)
    /\ worker' = "receive" /\ current' = None
    /\ UNCHANGED queue

Source == src[Head(queue)]

Cur(b) == Len(memory[b])

(* A frame there is nowhere to put: not recording, no source, no file, or  *)
(* no crop buffer since the other one was found in use.                    *)
DropImage ==
    /\ Received("IMAGE_DATA")
    /\ \/ state # "ACTIVE" \/ Source = None \/ file = None \/ cropBuf = None
    /\ Handled
    /\ UNCHANGED <<keepsUp, pushVars, stop, state, cropBuf, allocated, lvRequests,
                   sessions, fileVars, memory, copies, edmacFree, writer>>

(* What a copy from a capture frame finds: nothing of use if it was freed *)
FrameIn(b) == IF captured[b] = None THEN Hole ELSE captured[b]

CanStore == state = "ACTIVE" /\ Source # None /\ file # None /\ cropBuf # None

IsFull(b) == Cur(b) = BufFrames

(* The other crop buffer is still to be written out.                       *)
ImageFindsNoBuffer ==
    /\ Received("IMAGE_DATA") /\ CanStore
    /\ IsFull(cropBuf) /\ Cur(1 - cropBuf) # 0
    /\ cropBuf' = None
    /\ Handled
    /\ UNCHANGED <<keepsUp, pushVars, stop, state, allocated, lvRequests, sessions,
                   fileVars, memory, copies, edmacFree, writer>>

(* mutant: the full buffer is handed over before edmac_sem is taken *)
StoreImageFlushFirst ==
    /\ Received("IMAGE_DATA") /\ CanStore
    /\ IsFull(cropBuf) => Cur(1 - cropBuf) = 0
    /\ LET b == IF IsFull(cropBuf) THEN 1 - cropBuf ELSE cropBuf
       IN /\ cropBuf' = b
          /\ memory' = [memory EXCEPT ![b] = Append(@, Hole)]
          /\ writer' = IF IsFull(cropBuf)
                       THEN [writer EXCEPT ![cropBuf].at = "created"] ELSE writer
          /\ IF edmacFree
             THEN /\ edmacFree' = FALSE
                  /\ copies' = copies \cup {[buf |-> b, pos |-> Cur(b) + 1, src |-> Source,
                                            value |-> FrameIn(Source)]}
             ELSE UNCHANGED <<edmacFree, copies>>
    /\ Handled
    /\ UNCHANGED <<keepsUp, pushVars, stop, state, allocated, lvRequests, sessions, fileVars>>

(* The room for the frame is taken before edmac_sem is.  With the last     *)
(* copy still running the room stays unused, and a full buffer is not      *)
(* handed to a raw_write task.                                             *)
StoreImage ==
    /\ Received("IMAGE_DATA") /\ CanStore
    /\ IsFull(cropBuf) => Cur(1 - cropBuf) = 0
    /\ LET b == IF IsFull(cropBuf) THEN 1 - cropBuf ELSE cropBuf
       IN /\ cropBuf' = b
          /\ memory' = [memory EXCEPT ![b] = Append(@, Hole)]
          /\ IF edmacFree
             THEN /\ edmacFree' = FALSE
                  /\ copies' = copies \cup {[buf |-> b, pos |-> Cur(b) + 1, src |-> Source,
                                            value |-> FrameIn(Source)]}
                  /\ writer' = IF IsFull(cropBuf)
                               THEN [writer EXCEPT ![cropBuf].at = "created"] ELSE writer
             ELSE UNCHANGED <<edmacFree, copies, writer>>
    /\ Handled
    /\ UNCHANGED <<keepsUp, pushVars, stop, state, allocated, lvRequests, sessions,
                   fileVars>>

IgnoreStart ==
    /\ Received("COMMAND_START")
    /\ state # "INACTIVE" \/ cropBuf # None \/ "crop" \in Failures
    /\ Handled
    /\ UNCHANGED <<keepsUp, pushVars, stop, state, cropBuf, allocated, lvRequests,
                   sessions, fileVars, memory, copies, edmacFree, writer>>

StartAllocates ==
    /\ Received("COMMAND_START") /\ state = "INACTIVE" /\ cropBuf = None
    /\ sessions < MaxSessions
    /\ allocated' = TRUE /\ memory' = [b \in Bufs |-> <<>>] /\ cropBuf' = 0
    /\ lvRequests' = lvRequests + 1
    /\ sessions' = sessions + 1
    /\ WaitAt("start_file")
    /\ UNCHANGED <<keepsUp, pushVars, stop, state, fileVars,
                   copies, edmacFree, writer>>

(* Without a file name the start is given up with the crop buffers and     *)
(* the raw mode of LiveView kept.                                          *)
StartHasNoName ==
    /\ worker = "start_file"
    /\ file # None \/ "name" \in Failures
    /\ Release
    /\ UNCHANGED <<keepsUp, pushVars, stop, state, cropBuf, allocated, lvRequests,
                   sessions, fileVars, memory, copies, edmacFree, writer>>

(* Without a file the recording starts all the same.                       *)
StartRecords ==
    /\ worker = "start_file" /\ file = None
    /\ \/ /\ file' = sessions /\ open' = TRUE /\ saved' = <<>>
       \/ "file" \in Failures /\ UNCHANGED fileVars
    /\ state' = "ACTIVE"
    /\ Release
    /\ UNCHANGED <<keepsUp, pushVars, stop, cropBuf, allocated, lvRequests, sessions,
                   memory, copies, edmacFree, writer>>

IgnoreStop ==
    /\ Received("COMMAND_STOP") /\ state # "ACTIVE"
    /\ Handled
    /\ UNCHANGED <<keepsUp, pushVars, stop, state, cropBuf, allocated, lvRequests,
                   sessions, fileVars, memory, copies, edmacFree, writer>>

(* mutant: a stop command is obeyed in any state *)
StopClosesAgain ==
    /\ Received("COMMAND_STOP")
    /\ lvRequests' = lvRequests - 1
    /\ open' = FALSE
    /\ WaitAt("stop_free")
    /\ UNCHANGED <<keepsUp, pushVars, stop, state, cropBuf,
                   allocated, sessions, file, saved, memory, copies, edmacFree, writer>>

(* raw_vid_fp is reset only when FIO_CloseFile has returned.               *)
StopCloses ==
    /\ Received("COMMAND_STOP") /\ state = "ACTIVE"
    /\ lvRequests' = lvRequests - 1
    /\ open' = FALSE
    /\ WaitAt("stop_free")
    /\ UNCHANGED <<keepsUp, pushVars, stop, state, cropBuf,
                   allocated, sessions, file, saved, memory, copies, edmacFree, writer>>

(* mutant: recording_state is not reset *)
StopFreesStillActive ==
    /\ worker = "stop_free"
    /\ file' = None
    /\ cropBuf' = None /\ allocated' = FALSE /\ memory' = [b \in Bufs |-> <<>>]
    /\ state' = state
    /\ Release
    /\ UNCHANGED <<keepsUp, pushVars, stop, lvRequests, sessions, open, saved,
                   copies, edmacFree, writer>>

StopFrees ==
    /\ worker = "stop_free"
    /\ file' = None
    /\ cropBuf' = None /\ allocated' = FALSE /\ memory' = [b \in Bufs |-> <<>>]
    /\ state' = "INACTIVE"
    /\ Release
    /\ UNCHANGED <<keepsUp, pushVars, stop, lvRequests, sessions, open, saved,
                   copies, edmacFree, writer>>

(* edmac_cbr_w.  A copy into a buffer freed meanwhile leaves no trace.     *)
CopyEnds ==
    \E c \in copies :
        /\ copies' = copies \ {c} /\ edmacFree' = TRUE
        /\ memory' = IF c.pos > Cur(c.buf) THEN memory
                     ELSE [memory EXCEPT ![c.buf][c.pos] = c.value]
        /\ UNCHANGED <<keepsUp, pushVars, eventVars, stop, workerVars, fileVars, writer>>

(* write_buf_to_disk                                                       *)
WriteBegins(b) ==
    /\ writer[b].at = "created"
    /\ writer' = [writer EXCEPT ![b] =
         IF allocated /\ file # None
         THEN [at |-> "writing", size |-> Cur(b), file |-> file] ELSE NoWrite]
    /\ UNCHANGED <<keepsUp, pushVars, eventVars, stop, workerVars, fileVars,
                   memory, copies, edmacFree>>

(* Nothing reaches a file that was closed meanwhile.                       *)
WriteEnds(b) ==
    /\ writer[b].at = "writing"
    /\ saved' = IF open /\ writer[b].file = file
                THEN saved \o SubSeq(memory[b], 1, writer[b].size) ELSE saved
    /\ memory' = [memory EXCEPT ![b] = <<>>]
    /\ writer' = [writer EXCEPT ![b] = NoWrite]
    /\ UNCHANGED <<keepsUp, pushVars, eventVars, stop, workerVars, file, open,
                   copies, edmacFree>>

-----------------------------------------------------------------------------

Key   == KeyStops \/ KeyStarts
Vsync == VsyncPrevented \/ VsyncNoMemory \/ VsyncNoEvent \/ VsyncFrame
StopTask(t) == StopBegins(t) \/ StopGets(t) \/ StopPosts(t)
Worker == \/ DropImage \/ ImageFindsNoBuffer \/ StoreImage
          \/ IgnoreStart \/ StartAllocates \/ StartHasNoName \/ StartRecords
          \/ IgnoreStop \/ StopCloses \/ StopFrees
Write(b) == WriteBegins(b) \/ WriteEnds(b)

Next == Key \/ Vsync \/ Worker \/ CopyEnds \/ (\E t \in Stops : StopTask(t))
            \/ (\E b \in Bufs : Write(b))

Spec == Init /\ [][Next]_vars

(* The tasks run when they can; LiveView, the card and the user owe        *)
(* nothing.                                                                *)
FairSpec == Spec /\ WF_vars(Worker) /\ \A t \in Stops : WF_vars(StopTask(t))

-----------------------------------------------------------------------------

EventTypes == {"EMPTY", "PREPARING", "COMMAND_START", "COMMAND_STOP", "IMAGE_DATA"}

TypeOK ==
    /\ keepsUp \in BOOLEAN /\ prevent \in BOOLEAN /\ count \in 0..2
    /\ captured \in [Bufs -> None..MaxFrames] /\ frame \in Bufs \cup {None}
    /\ target \in Bufs \cup {None} /\ stamp \in 0..MaxFrames
    /\ etype \in [Events -> EventTypes] /\ src \in [Events -> Bufs \cup {None}]
    /\ queue \in Seq(Events) /\ Len(queue) <= QLen
    /\ stop \in [Stops -> [at : {"none", "created", "getting", "posting"},
                            tries : 0..MaxTries, event : Events \cup {None}]]
    /\ worker \in {"receive", "start_file", "stop_free"}
    /\ current \in Events \cup {None} /\ state \in {"ACTIVE", "INACTIVE"}
    /\ file \in 1..MaxSessions \cup {None} /\ open \in BOOLEAN
    /\ saved \in Seq(0..MaxFrames)
    /\ cropBuf \in Bufs \cup {None}
    /\ allocated \in BOOLEAN /\ memory \in [Bufs -> Seq(0..MaxFrames)]
    /\ copies \subseteq [buf : Bufs, pos : 1..BufFrames, src : Bufs, value : 0..MaxFrames]
    /\ edmacFree \in BOOLEAN
    /\ writer \in [Bufs -> [at : {"none", "created", "writing"}, size : 0..BufFrames,
                             file : 1..MaxSessions \cup {None}]]
    /\ lvRequests \in -1..MaxSessions /\ sessions \in 0..MaxSessions

Queued  == {queue[i] : i \in DOMAIN queue}
Posting == {stop[t].event : t \in {u \in Stops : stop[u].at = "posting"}}

(* An event is in the queue at most once, filled in, and then nobody else  *)
(* has it: not the worker, not a stop task that is still preparing it, and *)
(* get_empty_event does not hand it out again.                             *)
QueueSound ==
    /\ \A i, j \in DOMAIN queue : queue[i] = queue[j] => i = j
    /\ \A e \in Queued : etype[e] \in {"COMMAND_START", "COMMAND_STOP", "IMAGE_DATA"}
    /\ Queued \cap Posting = {} /\ current \notin Queued \cup Posting
    /\ \A t, u \in Stops :
        stop[t].at = "posting" /\ stop[u].at = "posting" /\ t # u
            => stop[t].event # stop[u].event

(* Whoever got an event can post it: the queue has a place for every event *)
(* of the pool, so that the error paths after msg_queue_post, one of which *)
(* forgets its event, are never taken.                                     *)
PostSucceeds == Empty # {} \/ Posting # {} => Posts

(* Events do not get lost, or the pool would run dry and recording stop:   *)
(* all that are not empty are on their way, except the one of the first    *)
(* vsync, which is never posted, and those a stop task got on its last try.*)
Lost == {e \in Events : etype[e] # "EMPTY"} \ (Queued \cup Posting \cup {current})
EventsNotLost ==
    /\ \A e \in Lost : etype[e] \in {"PREPARING", "IMAGE_DATA"}
    /\ Cardinality({e \in Lost : etype[e] = "IMAGE_DATA"}) <= 1

(* edmac_sem keeps a second copy from starting while one is running, also  *)
(* across the end of a recording and the start of the next.                *)
OneCopy == Cardinality(copies) <= 1 /\ (edmacFree <=> copies = {})

(* "We can safely flush": a buffer is handed to a raw_write task when no   *)
(* copy into it is running, and none starts before the task is done.       *)
FlushedAtRest == \A c \in copies : writer[c.buf].at = "none"

(* Frames never run past the end of a crop buffer, although the room is    *)
(* taken before it is known whether the frame can be copied, and although  *)
(* raw_write tasks empty the buffers at any time.                          *)
RoomKept == \A b \in Bufs : Cur(b) <= BufFrames

(* A worker that keeps up saves the frames in the order of their capture,  *)
(* each whole and none left out, up to where the recording ends.           *)
SavedInOrder == keepsUp => \A i \in DOMAIN saved : saved[i] = i

(* raw_lv_request and raw_lv_release are paired: one request is pending    *)
(* while a recording runs, and a start that is given up leaves one that    *)
(* keeps every further start from being accepted.                          *)
LvPaired ==
    /\ lvRequests \in {0, 1}
    /\ worker = "receive" => (lvRequests = 1 <=> state = "ACTIVE" \/ allocated)

(* Once a stop task has an event the recording ends, whatever is queued    *)
(* before it.                                                              *)
StopEnds == \A t \in Stops : (stop[t].at = "posting" ~> state = "INACTIVE")

(* "Consumer will re-enable recording when it is ready" (event_pusher.c,   *)
(* raw_vid_vsync_cbr): a recording that starts gets frames.  The code does *)
(* not keep this, for nobody calls allow_recording after init_worker.      *)
ReenabledOnStart == [][state = "INACTIVE" /\ state' = "ACTIVE" => ~prevent]_vars

(* An event of the pool is in one place at a time: posting one never      *)
(* fails, and only a frame that came before its recording loses one.      *)
EventPool == TypeOK /\ QueueSound /\ PostSucceeds /\ EventsNotLost

(* Each copy goes to a place of its own: no other copy runs, its buffer is *)
(* not being written to the card, and has room for it.                     *)
CopySafe == OneCopy /\ FlushedAtRest /\ RoomKept
=============================================================================
