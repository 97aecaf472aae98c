----------------------------- MODULE Tw68Capture -----------------------------
(***************************************************************************)
(* The file handles of the tw68 driver (tw68-video.c): open, the streaming *)
(* ioctls, read, close, and the two resources that keep a second handle    *)
(* from capturing.  The buffers go through the queue of BufferFifo, which  *)
(* the DMA queue of Tw68Queue implements.                                  *)
(*                                                                         *)
(* The v4l2 core lets one ioctl run at a time, VIDIOC_DQBUF excepted; read *)
(* and close take no such lock.  A handle is closed when no call is under  *)
(* way on it, and is read by one thread.  The vbi device has resources but *)
(* no buffers: its callbacks are stubs.                                    *)
(***************************************************************************)
EXTENDS Naturals, Sequences, SequencesExt

CONSTANTS
    Handles,    \* open files of the video and the vbi device, struct tw68_fh
    Mapped      \* the buffers that VIDIOC_REQBUFS has set up, <<h, number>>

ASSUME CaptureAssumption == Mapped \subseteq Handles \X (Nat \ {0})

VARIABLES
    pending, started, result,   \* the queue, see BufferFifo
    type,       \* fh->type, and NONE while the file is closed
    call,       \* the ioctl or close that is under way on a handle
    closing,    \* the handles that are being closed
    rd,         \* video_read on a handle
    streaming,  \* q->streaming
    reading,    \* q->reading, of the vbi queue
    stream,     \* q->stream: the buffers handed over by VIDIOC_QBUF
    res,        \* fh->resources
    devres      \* dev->resources

queue == <<pending, started, result>>
videobuf == <<streaming, reading, stream>>
resources == <<res, devres>>
handle == <<type, call, closing, rd, videobuf, resources>>

-----------------------------------------------------------------------------
\* A handle has its streaming buffers and the one of read(), fh->cap.read_buf.
StreamBufs(h) == {b \in Mapped : b[1] = h}
ReadBuf(h) == <<h, 0>>
CaptureBufs == Mapped \union {ReadBuf(h) : h \in Handles}

Q == INSTANCE BufferFifo WITH Bufs <- CaptureBufs

VIDEO == "video"
VBI == "vbi"
NONE == "none"

VideoHandles == {h \in Handles : type[h] = VIDEO}
VbiHandles == {h \in Handles : type[h] = VBI}

\* tw68_resource.
Resource(h) == type[h]

WithDriver(b) == result[b] = "driver"
Finished(b) == result[b] \in {"filled", "failed"}

\* Somebody holds the lock under which the v4l2 core calls ioctls.
IoctlLocked ==
    \E h \in Handles : h \notin closing
                       /\ call[h] \in {"requeue", "starting", "cancel", "drain",
                                       "resfree"}

\* Somebody holds dev->slock for more than a step: the loops of
\* videobuf_streamon and of videobuf_queue_cancel.
SlockHeld == \E h \in Handles : call[h] \in {"starting", "cancel"}

CaptureInit ==
    /\ Q!Init
    /\ type = [h \in Handles |-> NONE]
    /\ call = [h \in Handles |-> "closed"] /\ closing = {}
    /\ rd = [h \in Handles |-> "idle"]
    /\ streaming = {} /\ reading = {}
    /\ stream = [h \in Handles |-> <<>>]
    /\ res = [h \in Handles |-> {}] /\ devres = {}

-----------------------------------------------------------------------------
(* Resources.                                                              *)

\* A mistake: what another handle holds is taken as well.
ResGetShared(h, bit) ==
    /\ res' = [res EXCEPT ![h] = @ \union {bit}]
    /\ devres' = devres \union {bit}

\* res_get, when it succeeds.
ResGet(h, bit) ==
    /\ bit \in res[h] \/ bit \notin devres
    /\ res' = [res EXCEPT ![h] = @ \union {bit}]
    /\ devres' = devres \union {bit}

\* res_free, past its BUG_ON.
ResFree(h, bit) ==
    /\ res' = [res EXCEPT ![h] = @ \ {bit}]
    /\ devres' = devres \ {bit}

-----------------------------------------------------------------------------
(* The ioctls.                                                             *)

\* video_open, of the video or the vbi node.
Open(h) ==
    /\ call[h] = "closed"
    /\ \E t \in {VIDEO, VBI} : type' = [type EXCEPT ![h] = t]
    /\ call' = [call EXCEPT ![h] = "idle"]
    /\ UNCHANGED <<queue, closing, rd, videobuf, resources>>

\* An ioctl on h begins.
Ioctl(h) == call[h] = "idle" /\ ~IoctlLocked

\* A mistake: the buffer joins the stream at the wrong end.
QbufFront(h, b) ==
    /\ Ioctl(h) /\ result[b] = "app" /\ b \notin ToSet(stream[h])
    /\ stream' = [stream EXCEPT ![h] = <<b>> \o @]
    /\ \/ h \in streaming /\ ~SlockHeld /\ Q!Submit(b)
       \/ h \notin streaming /\ UNCHANGED queue
    /\ UNCHANGED <<type, call, closing, rd, streaming, reading, resources>>

\* VIDIOC_QBUF: the buffer joins the stream, and the queue when it streams.
Qbuf(h, b) ==
    /\ Ioctl(h) /\ result[b] = "app" /\ b \notin ToSet(stream[h])
    /\ stream' = [stream EXCEPT ![h] = Append(@, b)]
    /\ \/ h \in streaming /\ ~SlockHeld /\ Q!Submit(b)
       \/ h \notin streaming /\ UNCHANGED queue
    /\ UNCHANGED <<type, call, closing, rd, streaming, reading, resources>>

\* VIDIOC_REQBUFS, while nothing streams, frees the buffers there are.
Reqbufs(h) ==
    /\ Ioctl(h) /\ h \notin streaming \union reading
    /\ stream' = [stream EXCEPT ![h] = <<>>]
    /\ UNCHANGED <<queue, type, call, closing, rd, streaming, reading, resources>>

\* tw68_streamon takes the resource, also a vbi handle that is read and will
\* get -EBUSY.
StreamOn(h) ==
    /\ Ioctl(h) /\ ResGet(h, Resource(h))
    /\ call' = [call EXCEPT ![h] = "requeue"]
    /\ UNCHANGED <<queue, type, closing, rd, videobuf>>

\* tw68_buffer_requeue, for the video queue whatever the node: buffers that
\* were left waiting are started, one by one.
Requeue(h) ==
    /\ call[h] = "requeue" /\ Q!Start
    /\ UNCHANGED <<type, call, closing, rd, videobuf, resources>>

\* videobuf_streamon: unless the queue is read or streams already it begins
\* to stream.
VideobufStreamOn(h) ==
    /\ call[h] = "requeue"
    /\ \/ /\ h \in reading \union streaming
          /\ call' = [call EXCEPT ![h] = "idle"]
          /\ UNCHANGED streaming
       \/ /\ h \notin reading \union streaming /\ ~SlockHeld
          /\ streaming' = streaming \union {h}
          /\ call' = [call EXCEPT ![h] = "starting"]
    /\ UNCHANGED <<queue, type, closing, rd, reading, stream, resources>>

\* The buffers that wait in the stream are queued, in its order.
Starting(h) ==
    /\ call[h] = "starting"
    /\ LET waiting == {i \in 1..Len(stream[h]) : result[stream[h][i]] = "app"}
       IN \/ /\ \E i \in waiting : /\ \A j \in waiting : i <= j
                                   /\ Q!Submit(stream[h][i])
             /\ UNCHANGED call
          \/ /\ waiting = {}
             /\ call' = [call EXCEPT ![h] = "idle"]
             /\ UNCHANGED queue
    /\ UNCHANGED <<type, closing, rd, videobuf, resources>>

\* VIDIOC_DQBUF: the oldest buffer of the stream, when it has come back.
Dqbuf(h) ==
    /\ call[h] # "closed" /\ h \in streaming /\ stream[h] # <<>>
    /\ Finished(Head(stream[h])) /\ Q!Reclaim(Head(stream[h]))
    /\ stream' = [stream EXCEPT ![h] = Tail(@)]
    /\ UNCHANGED <<type, call, closing, rd, streaming, reading, resources>>

\* Where videobuf_streamoff begins, for tw68_streamoff and video_release.
Stop(h) ==
    /\ ~SlockHeld
    /\ streaming' = streaming \ {h}
    /\ call' = [call EXCEPT ![h] = "cancel"]

\* A mistake: it does not matter whether there is a stream.
StreamOffAlways(h) ==
    /\ Ioctl(h) /\ Stop(h)
    /\ UNCHANGED <<queue, type, closing, rd, reading, stream, resources>>

\* tw68_streamoff; without a stream it returns -EINVAL.
StreamOff(h) ==
    /\ Ioctl(h) /\ h \in streaming /\ Stop(h)
    /\ UNCHANGED <<queue, type, closing, rd, reading, stream, resources>>

\* Two mistakes: what has been started is cancelled as well, or nothing is.
CancelStarted(h) ==
    /\ call[h] = "cancel"
    /\ \/ \E i \in 1..Len(pending) :
             /\ pending[i] \in StreamBufs(h) /\ pending' = RemoveAt(pending, i)
             /\ result' = [result EXCEPT ![pending[i]] = "failed"]
             /\ UNCHANGED <<started, call>>
       \/ call' = [call EXCEPT ![h] = "drain"] /\ UNCHANGED queue
    /\ UNCHANGED <<type, closing, rd, videobuf, resources>>

CancelNone(h) ==
    /\ call[h] = "cancel" /\ call' = [call EXCEPT ![h] = "drain"]
    /\ UNCHANGED <<queue, type, closing, rd, videobuf, resources>>

\* videobuf_queue_cancel takes back what has not been started.
Cancel(h) ==
    /\ call[h] = "cancel"
    /\ LET waiting == {i \in (started + 1)..Len(pending) :
                          pending[i] \in StreamBufs(h)}
       IN \/ /\ \E i \in waiting : Q!Cancel(i)
             /\ UNCHANGED call
          \/ /\ waiting = {}
             /\ call' = [call EXCEPT ![h] = "drain"]
             /\ UNCHANGED queue
    /\ UNCHANGED <<type, closing, rd, videobuf, resources>>

\* A mistake: the buffers are freed without waiting for the driver.
DrainNoWait(h) ==
    /\ call[h] = "drain" /\ call' = [call EXCEPT ![h] = "resfree"]
    /\ stream' = [stream EXCEPT ![h] = <<>>]
    /\ UNCHANGED <<queue, type, closing, rd, streaming, reading, resources>>

\* It then releases each buffer, which waits for those that were started.
Drain(h) ==
    /\ call[h] = "drain"
    /\ \A b \in StreamBufs(h) : ~WithDriver(b)
    /\ result' = [b \in CaptureBufs |-> IF b \in StreamBufs(h) THEN "app"
                                        ELSE result[b]]
    /\ stream' = [stream EXCEPT ![h] = <<>>]
    /\ call' = [call EXCEPT ![h] = "resfree"]
    /\ UNCHANGED <<pending, started, type, closing, rd, streaming, reading, resources>>

\* res_free, the end of tw68_streamoff and of the first part of close.
FreeResource(h) ==
    /\ call[h] = "resfree" /\ ResFree(h, Resource(h))
    /\ call' = [call EXCEPT ![h] = IF h \in closing THEN "readbuf" ELSE "idle"]
    /\ UNCHANGED <<queue, type, closing, rd, videobuf>>

-----------------------------------------------------------------------------
(* read and close.                                                         *)

\* video_read, video device: nobody may be streaming.
ReadCheck(h) ==
    /\ call[h] # "closed" /\ h \notin closing /\ rd[h] = "idle"
    /\ VIDEO \notin devres
    /\ rd' = [rd EXCEPT ![h] = IF result[ReadBuf(h)] = "app" THEN "checked"
                               ELSE "wait"]
    /\ UNCHANGED <<queue, type, call, closing, videobuf, resources>>

\* videobuf_read_one queues a buffer, unless one is left from an earlier call.
ReadQueue(h) ==
    /\ rd[h] = "checked" /\ ~SlockHeld
    /\ Q!Submit(ReadBuf(h))
    /\ rd' = [rd EXCEPT ![h] = "wait"]
    /\ UNCHANGED <<type, call, closing, videobuf, resources>>

\* Its data are copied, and the buffer is freed after the last of them.
ReadCopy(h) ==
    /\ rd[h] = "wait" /\ Finished(ReadBuf(h))
    /\ \/ Q!Reclaim(ReadBuf(h))
       \/ result[ReadBuf(h)] = "filled" /\ UNCHANGED queue
    /\ rd' = [rd EXCEPT ![h] = "idle"]
    /\ UNCHANGED <<type, call, closing, videobuf, resources>>

\* A signal, or O_NONBLOCK: the call returns and the buffer stays.
ReadAbandon(h) ==
    /\ rd[h] = "wait" /\ WithDriver(ReadBuf(h))
    /\ rd' = [rd EXCEPT ![h] = "idle"]
    /\ UNCHANGED <<queue, type, call, closing, videobuf, resources>>

\* video_read, vbi device: it takes the resource and keeps it.  When it does
\* not stream, the queue is read from now on.
ReadVbi(h) ==
    /\ call[h] # "closed" /\ h \notin closing
    /\ ResGet(h, VBI)
    /\ reading' = IF h \in streaming THEN reading ELSE reading \union {h}
    /\ UNCHANGED <<queue, type, call, closing, rd, streaming, stream>>

\* video_poll, vbi device: a queue that does not stream is read from now on,
\* without the resource.
PollVbi(h) ==
    /\ call[h] # "closed" /\ h \notin closing
    /\ h \notin streaming /\ reading' = reading \union {h}
    /\ UNCHANGED <<queue, type, call, closing, rd, streaming, stream, resources>>

\* video_release, when the last call on h has returned.
Release(h) ==
    /\ call[h] = "idle"
    /\ rd[h] = "idle"
    /\ closing' = closing \union {h}
    /\ \/ VIDEO \in res[h] /\ Stop(h)
       \/ /\ VIDEO \notin res[h]
          /\ call' = [call EXCEPT ![h] = "readbuf"]
          /\ UNCHANGED streaming
    /\ UNCHANGED <<queue, type, rd, reading, stream, resources>>

\* A mistake: the buffer of read() goes whoever has it.
ReleaseReadBufNoWait(h) ==
    /\ call[h] = "readbuf" /\ call' = [call EXCEPT ![h] = "vbi"]
    /\ UNCHANGED <<queue, type, closing, rd, videobuf, resources>>

\* Then the buffer of read() goes, when the driver has let go of it, ...
ReleaseReadBuf(h) ==
    /\ call[h] = "readbuf"
    /\ \/ result[ReadBuf(h)] = "app" /\ UNCHANGED queue
       \/ Q!Reclaim(ReadBuf(h))
    /\ call' = [call EXCEPT ![h] = "vbi"]
    /\ UNCHANGED <<type, closing, rd, videobuf, resources>>

\* A mistake: close leaves the vbi resource to nobody.
ReleaseKeepVbi(h) ==
    /\ call[h] = "vbi" /\ call' = [call EXCEPT ![h] = "closed"]
    /\ type' = [type EXCEPT ![h] = NONE] /\ closing' = closing \ {h}
    /\ streaming' = streaming \ {h} /\ reading' = reading \ {h}
    /\ stream' = [stream EXCEPT ![h] = <<>>]
    /\ res' = [res EXCEPT ![h] = {}]
    /\ UNCHANGED <<queue, rd, devres>>

\* ... and vbi capture stops, with its resource, and the rest is freed.
ReleaseRest(h) ==
    /\ call[h] = "vbi" /\ call' = [call EXCEPT ![h] = "closed"]
    /\ type' = [type EXCEPT ![h] = NONE] /\ closing' = closing \ {h}
    /\ \/ VBI \in res[h] /\ ResFree(h, VBI)
       \/ VBI \notin res[h] /\ UNCHANGED resources
    /\ streaming' = streaming \ {h} /\ reading' = reading \ {h}
    /\ stream' = [stream EXCEPT ![h] = <<>>]
    /\ UNCHANGED <<queue, rd>>

-----------------------------------------------------------------------------
\* The interrupt and the timer, under dev->slock.
Driver ==
    /\ ~SlockHeld
    /\ Q!Deliver \/ Q!Timeout
    /\ UNCHANGED handle

\* What goes on without anybody asking for it.
Proceed(h) ==
    \/ Requeue(h) \/ VideobufStreamOn(h) \/ Starting(h)
    \/ Cancel(h) \/ Drain(h) \/ FreeResource(h)
    \/ ReleaseReadBuf(h) \/ ReleaseRest(h)

CaptureNext ==
    \/ \E h \in Handles : \/ Open(h) \/ StreamOn(h) \/ StreamOff(h) \/ Release(h)
                          \/ Proceed(h)
    \/ \E h \in VideoHandles :
          \/ \E b \in StreamBufs(h) : Qbuf(h, b)
          \/ Reqbufs(h) \/ Dqbuf(h)
          \/ ReadCheck(h) \/ ReadQueue(h) \/ ReadCopy(h) \/ ReadAbandon(h)
    \/ \E h \in VbiHandles : ReadVbi(h) \/ PollVbi(h)
    \/ Driver

CaptureSpec == CaptureInit /\ [][CaptureNext]_<<queue, handle>>

\* A call that can go on goes on, and the queue keeps its promise that what
\* has been started comes back: Tw68Queue shows that it does.  The interrupt
\* and the timer wait for dev->slock, a ticket lock, which gives every waiter
\* its turn: hence the strong fairness.
CaptureFairness ==
    /\ \A h \in Handles : WF_<<queue, handle>>(Proceed(h))
    /\ SF_<<queue, handle>>(started > 0 /\ Driver)

FairCaptureSpec == CaptureSpec /\ CaptureFairness

-----------------------------------------------------------------------------
(* Properties.                                                             *)

\* Every variable has its type.
CaptureTypeOK ==
    /\ pending \in Seq(CaptureBufs) /\ started \in 0..Len(pending)
    /\ result \in [CaptureBufs -> Q!Results]
    /\ type \in [Handles -> {NONE, VIDEO, VBI}]
    /\ call \in [Handles -> {"closed", "idle", "requeue", "starting", "cancel",
                             "drain", "resfree", "readbuf", "vbi"}]
    /\ closing \subseteq Handles
    /\ rd \in [Handles -> {"idle", "checked", "wait"}]
    /\ streaming \subseteq Handles /\ reading \subseteq Handles
    /\ stream \in [Handles -> Seq(CaptureBufs)]
    /\ res \in [Handles -> SUBSET {VIDEO, VBI}] /\ devres \subseteq {VIDEO, VBI}

\* Each resource of the device is held by one handle, and none is left taken
\* when its handle has gone: dev->resources is the sum of fh->resources.
ResourceExclusive ==
    /\ devres = UNION {res[h] : h \in Handles}
    /\ \A g, h \in Handles : g # h => res[g] \intersect res[h] = {}

\* The BUG_ON of res_free never fires: whoever streams, or is on the way out
\* of it, still has the resource that tw68_streamon took.
StreamerHasResource ==
    \A h \in Handles :
        h \in streaming \/ call[h] \in {"cancel", "drain", "resfree"}
            => Resource(h) \in res[h]

\* The driver has streaming buffers only of the handle that holds the video
\* resource, and when STREAMOFF has returned it has none of them left.
StoppedStreamLeavesNothing ==
    \A h \in VideoHandles :
        (\E b \in StreamBufs(h) : WithDriver(b)) =>
            VIDEO \in res[h] /\ (h \in streaming \/ call[h] \in {"cancel", "drain"})

\* When close has returned, no buffer of the handle is with the driver, which
\* would fill memory that has been freed.
ClosedOwnsNothing ==
    \A h \in Handles :
        call[h] = "closed" => \A b \in {ReadBuf(h)} \union StreamBufs(h) :
                                  result[b] = "app"

\* VIDIOC_DQBUF waits for the oldest buffer of the stream: it never waits
\* while a later one has been filled.
OldestComesFirst ==
    \A h \in VideoHandles \intersect streaming :
        \A i, j \in 1..Len(stream[h]) :
            i < j /\ Finished(stream[h][j]) => ~WithDriver(stream[h][i])

\* STREAMOFF, and the same part of close, do not wait for ever for buffers
\* that the engine has been given.
StreamOffReturns ==
    \A h \in Handles : call[h] = "cancel" ~> call[h] \in {"idle", "readbuf"}
=============================================================================
