------------------------- MODULE Tw68CaptureProofs -------------------------
(***************************************************************************)
(* For every set of handles and of buffers: a resource has one holder and  *)
(* the holder is who streams, a handle that has stopped or is closed has   *)
(* no buffer with the driver, DQBUF waits for the buffer that comes first, *)
(* and what STREAMOFF waits for comes nearer (Tw68Capture).                *)
(***************************************************************************)
EXTENDS Tw68Capture, SequenceTheorems, TLAPS

USE DEF VIDEO, VBI, NONE

\* The types of the queue and of the handles.
QueueTypes ==
    /\ pending \in Seq(CaptureBufs) /\ started \in 0..Len(pending)
    /\ result \in [CaptureBufs -> Q!Results]

\* A buffer is once in the queue, and is the driver's.
FifoWhole ==
    /\ \A i \in 1..Len(pending) : result[pending[i]] = "driver"
    /\ \A i, j \in 1..Len(pending) : pending[i] = pending[j] => i = j

\* How far a handle is, in its life, its ioctl and its close.
CallInv ==
    \A h \in Handles :
        /\ call[h] = "closed" <=> type[h] = NONE
        /\ call[h] = "closed" => rd[h] = "idle"
        /\ call[h] = "starting" => h \in streaming
        /\ call[h] \in {"closed", "cancel", "drain", "resfree"} => h \notin streaming
        /\ h \in closing => rd[h] = "idle"
                            /\ call[h] \notin {"closed", "idle", "requeue",
                                             "starting"}
        /\ call[h] \in {"readbuf", "vbi"} => h \in closing

\* A handle has the resource of its node only, from the first part of STREAMON
\* on, and gives up the video resource in the first part of close.
HeldInv ==
    \A h \in Handles :
        /\ res[h] \subseteq {type[h]}
        /\ call[h] = "requeue" => type[h] \in res[h]
        /\ call[h] \in {"readbuf", "vbi"} => VIDEO \notin res[h]

\* A streaming buffer that is in use belongs to a handle of the video node
\* that streams or is being stopped; a buffer of read() goes before close ends.
BufInv ==
    \A h \in Handles :
        /\ stream[h] # <<>> => type[h] = VIDEO
        /\ \A i \in 1..Len(stream[h]) : stream[h][i] \in StreamBufs(h)
        /\ \A b \in StreamBufs(h) : result[b] # "app" =>
              type[h] = VIDEO /\ (h \in streaming \/ call[h] \in {"cancel", "drain"})
        /\ call[h] \in {"vbi", "closed"} => result[ReadBuf(h)] = "app"

ResInv == ResourceExclusive /\ StreamerHasResource /\ HeldInv

Inv == CaptureTypeOK /\ FifoWhole /\ CallInv /\ ResInv /\ BufInv

-----------------------------------------------------------------------------
(* The queue.  It leaves the buffers with the application to it, but for   *)
(* the one that is submitted.                                              *)

\* The buffers that the driver lets go of are finished; the others stay.
LetsGo ==
    \A b \in CaptureBufs :
        \/ result'[b] = result[b]
        \/ result[b] = "driver" /\ result'[b] \in {"filled", "failed"}

LEMMA Bufs ==
    /\ \A h \in Handles : /\ ReadBuf(h) \in CaptureBufs
                          /\ StreamBufs(h) \subseteq CaptureBufs
    /\ \A g, h \in Handles : ReadBuf(g) \notin StreamBufs(h)
    /\ \A g, h \in Handles : g # h =>
          ReadBuf(g) # ReadBuf(h) /\ StreamBufs(g) \intersect StreamBufs(h) = {}
  BY CaptureAssumption DEF CaptureBufs, ReadBuf, StreamBufs

LEMMA SubmitQueue ==
    ASSUME QueueTypes, FifoWhole, NEW b \in CaptureBufs, Q!Submit(b)
    PROVE  /\ QueueTypes' /\ FifoWhole'
           /\ result[b] = "app" /\ result' = [result EXCEPT ![b] = "driver"]
  <1>1. /\ result[b] = "app" /\ pending' = Append(pending, b)
        /\ result' = [result EXCEPT ![b] = "driver"]
        /\ started' \in {started, started + 1}
        /\ started' = started + 1 => started <= Len(pending)
    BY DEF Q!Submit, QueueTypes
  <1>2. /\ pending' \in Seq(CaptureBufs) /\ Len(pending') = Len(pending) + 1
        /\ \A i \in 1..Len(pending) : pending'[i] = pending[i]
        /\ pending'[Len(pending) + 1] = b
    BY <1>1 DEF QueueTypes
  <1>3. QueueTypes'
    BY <1>1, <1>2 DEF QueueTypes, Q!Results
  <1>4. \A i \in 1..Len(pending) : pending[i] \in CaptureBufs /\ pending[i] # b
    BY <1>1 DEF QueueTypes, FifoWhole
  <1>5. FifoWhole'
    BY <1>1, <1>2, <1>4 DEF QueueTypes, FifoWhole
  <1> QED
    BY <1>1, <1>3, <1>5

LEMMA ReclaimQueue ==
    ASSUME QueueTypes, FifoWhole, NEW b \in CaptureBufs, Q!Reclaim(b)
    PROVE  /\ QueueTypes' /\ FifoWhole'
           /\ result' = [result EXCEPT ![b] = "app"]
           /\ UNCHANGED <<pending, started>>
  BY DEF Q!Reclaim, QueueTypes, FifoWhole, Q!Results

LEMMA DeliverQueue ==
    ASSUME QueueTypes, FifoWhole, Q!Deliver
    PROVE  QueueTypes' /\ FifoWhole' /\ LetsGo
  <1>1. /\ Len(pending) >= 1 /\ started >= 1
        /\ Head(pending) = pending[1] /\ pending[1] \in CaptureBufs
        /\ Tail(pending) \in Seq(CaptureBufs) /\ Len(Tail(pending)) = Len(pending) - 1
        /\ \A i \in 1..(Len(pending) - 1) : Tail(pending)[i] = pending[i + 1]
    BY DEF Q!Deliver, QueueTypes
  <1>2. /\ pending' = Tail(pending) /\ started' = started - 1
        /\ result' = [result EXCEPT ![pending[1]] = "filled"]
    BY <1>1 DEF Q!Deliver
  <1>3. QueueTypes' /\ LetsGo
    BY <1>1, <1>2 DEF QueueTypes, FifoWhole, LetsGo, Q!Results
  <1>4. \A i \in 1..Len(pending') :
           /\ i + 1 \in 1..Len(pending) /\ pending'[i] = pending[i + 1]
           /\ pending[i + 1] # pending[1] /\ pending[i + 1] \in CaptureBufs
    BY <1>1, <1>2 DEF QueueTypes, FifoWhole
  <1>5. FifoWhole'
    BY <1>2, <1>4 DEF QueueTypes, FifoWhole
  <1> QED
    BY <1>3, <1>5

LEMMA TimeoutQueue ==
    ASSUME QueueTypes, FifoWhole, Q!Timeout
    PROVE  QueueTypes' /\ FifoWhole' /\ LetsGo
  <1> DEFINE rest == SubSeq(pending, started + 1, Len(pending))
  <1>1. /\ rest \in Seq(CaptureBufs) /\ Len(rest) = Len(pending) - started
        /\ \A i \in 1..Len(rest) : rest[i] = pending[started + i]
    BY SMTT(60) DEF QueueTypes
  <1>2. /\ pending' = rest
        /\ started' = 0 \/ started' \in 1..Len(rest)
        /\ result' = [b \in CaptureBufs |->
                        IF \E i \in 1..started : pending[i] = b
                        THEN "failed" ELSE result[b]]
    BY DEF Q!Timeout
  <1>3. QueueTypes'
    BY <1>1, <1>2 DEF QueueTypes, Q!Results
  <1>4. LetsGo
    BY <1>2 DEF QueueTypes, FifoWhole, LetsGo
  <1>5. \A i \in 1..Len(rest) :
           /\ started + i \in 1..Len(pending) /\ pending[started + i] \in CaptureBufs
           /\ ~ \E k \in 1..started : pending[k] = pending[started + i]
    BY <1>1 DEF QueueTypes, FifoWhole
  <1> HIDE DEF rest
  <1>6. FifoWhole'
    <2>1. ASSUME NEW i \in 1..Len(rest) PROVE result'[rest[i]] = "driver"
      <3>1. rest[i] = pending[started + i] /\ result[pending[started + i]] = "driver"
        BY <1>1, <1>5 DEF FifoWhole
      <3> QED
        BY <1>2, <1>5, <3>1
    <2>2. ASSUME NEW i \in 1..Len(rest), NEW j \in 1..Len(rest), rest[i] = rest[j]
          PROVE  i = j
      <3>1. started + i = started + j
        BY <1>1, <1>5, <2>2 DEF FifoWhole
      <3> QED
        BY <3>1 DEF QueueTypes
    <2> QED
      BY <1>2, <2>1, <2>2 DEF FifoWhole
  <1> QED
    BY <1>3, <1>4, <1>6

\* Starting more changes nothing but how many have been started.
LEMMA StartQueue ==
    ASSUME QueueTypes, FifoWhole, Q!Start
    PROVE  QueueTypes' /\ FifoWhole' /\ UNCHANGED <<pending, result>>
  <1>1. /\ UNCHANGED <<pending, result>>
        /\ started' \in (started + 1)..Len(pending)
    BY DEF Q!Start
  <1>2. started' \in 0..Len(pending)
    BY <1>1 DEF QueueTypes
  <1> QED
    BY <1>1, <1>2 DEF QueueTypes, FifoWhole

LEMMA CancelPending ==
    ASSUME QueueTypes, NEW k \in 1..Len(pending), Q!Cancel(k)
    PROVE  /\ pending' \in Seq(CaptureBufs) /\ Len(pending') = Len(pending) - 1
           /\ \A i \in 1..Len(pending') :
                 pending'[i] = IF i < k THEN pending[i] ELSE pending[i + 1]
  <1> DEFINE before == SubSeq(pending, 1, k - 1)
             after == SubSeq(pending, k + 1, Len(pending))
  <1>0. Len(pending) \in Nat /\ k \in Nat /\ k >= 1 /\ k <= Len(pending)
    BY DEF QueueTypes
  <1>1. /\ before \in Seq(CaptureBufs) /\ Len(before) = k - 1
        /\ \A i \in 1..(k - 1) : before[i] = pending[i]
    BY DEF QueueTypes
  <1>2. /\ after \in Seq(CaptureBufs) /\ Len(after) = Len(pending) - k
        /\ \A i \in 1..Len(after) : after[i] = pending[k + i]
    BY DEF QueueTypes
  <1>3. pending' = before \o after
    BY DEF Q!Cancel
  <1> HIDE DEF before, after
  <1>4. Len(before \o after) = Len(before) + Len(after)
    BY <1>1, <1>2, ConcatProperties
  <1>5. \A i \in 1..(k - 1) : (before \o after)[i] = before[i]
    BY <1>0, <1>1, <1>2, ConcatProperties
  <1>6. \A i \in 1..(Len(pending) - 1) : i >= k =>
           (before \o after)[i] = after[i - (k - 1)]
              /\ i - (k - 1) \in 1..Len(after)
    BY <1>0, <1>1, <1>2, ConcatProperties
  <1>7. before \o after \in Seq(CaptureBufs) /\ Len(before \o after) = Len(pending) - 1
    BY <1>0, <1>1, <1>2, <1>4, ConcatProperties
  <1>8. ASSUME NEW i \in 1..(Len(pending) - 1)
        PROVE  (before \o after)[i] = IF i < k THEN pending[i] ELSE pending[i + 1]
    <2>1. CASE i < k
      <3>1. i \in 1..(k - 1)
        BY <2>1
      <3> QED
        BY <1>1, <1>5, <2>1, <3>1
    <2>2. CASE i >= k
      <3>1. k + (i - (k - 1)) = i + 1
        BY <1>0, <2>2
      <3>2. /\ (before \o after)[i] = after[i - (k - 1)]
            /\ i - (k - 1) \in 1..Len(after)
        BY <1>6, <2>2
      <3>3. after[i - (k - 1)] = pending[k + (i - (k - 1))]
        BY <1>2, <3>2
      <3> QED
        BY <1>0, <2>2, <3>1, <3>2, <3>3
    <2>3. i < k \/ i >= k
      BY <1>0
    <2> QED
      BY <2>1, <2>2, <2>3, Zenon
  <1> QED
    BY <1>3, <1>7, <1>8

LEMMA CancelQueue ==
    ASSUME QueueTypes, FifoWhole, NEW k \in 1..Len(pending), Q!Cancel(k)
    PROVE  QueueTypes' /\ FifoWhole' /\ LetsGo
  <1>0. Len(pending) \in Nat /\ k \in Nat /\ k >= 1 /\ k <= Len(pending)
    BY DEF QueueTypes
  <1>1. /\ result' = [result EXCEPT ![pending[k]] = "failed"]
        /\ started' = started /\ started < k
    BY DEF Q!Cancel, QueueTypes
  <1>2. /\ pending' \in Seq(CaptureBufs) /\ Len(pending') = Len(pending) - 1
        /\ \A i \in 1..Len(pending') :
              pending'[i] = IF i < k THEN pending[i] ELSE pending[i + 1]
    BY CancelPending
  <1>3. pending[k] \in CaptureBufs
    BY DEF QueueTypes
  <1>4. QueueTypes'
    BY <1>1, <1>2, <1>3 DEF QueueTypes, Q!Results
  <1>5. LetsGo
    BY <1>1, <1>3 DEF QueueTypes, FifoWhole, LetsGo
  <1>6. ASSUME NEW i \in 1..Len(pending')
        PROVE  LET j == IF i < k THEN i ELSE i + 1
               IN /\ j \in 1..Len(pending) /\ j # k /\ pending'[i] = pending[j]
                  /\ pending[j] \in CaptureBufs /\ pending[j] # pending[k]
    <2> DEFINE j == IF i < k THEN i ELSE i + 1
    <2>1. j \in 1..Len(pending) /\ j # k /\ pending'[i] = pending[j]
      BY <1>0, <1>2
    <2> HIDE DEF j
    <2>2. pending[j] \in CaptureBufs /\ pending[j] # pending[k]
      BY <2>1 DEF QueueTypes, FifoWhole
    <2> QED
      BY <2>1, <2>2 DEF j
  <1>7. ASSUME NEW i \in 1..Len(pending') PROVE result'[pending'[i]] = "driver"
    <2> DEFINE j == IF i < k THEN i ELSE i + 1
    <2>1. /\ j \in 1..Len(pending) /\ pending'[i] = pending[j]
          /\ pending[j] \in CaptureBufs /\ pending[j] # pending[k]
      BY <1>6
    <2> HIDE DEF j
    <2> QED
      BY <1>1, <2>1 DEF QueueTypes, FifoWhole
  <1>8. ASSUME NEW i \in 1..Len(pending'), NEW m \in 1..Len(pending'),
                pending'[i] = pending'[m]
         PROVE  i = m
    <2>1. (IF i < k THEN i ELSE i + 1) = (IF m < k THEN m ELSE m + 1)
      BY <1>6, <1>8 DEF FifoWhole
    <2> QED
      BY <1>0, <2>1
  <1>9. FifoWhole'
    BY <1>7, <1>8 DEF FifoWhole
  <1> QED
    BY <1>4, <1>5, <1>9

-----------------------------------------------------------------------------
(* Types.                                                                  *)

HandleTypes ==
    /\ type \in [Handles -> {NONE, VIDEO, VBI}]
    /\ call \in [Handles -> {"closed", "idle", "requeue", "starting", "cancel",
                             "drain", "resfree", "readbuf", "vbi"}]
    /\ closing \subseteq Handles
    /\ rd \in [Handles -> {"idle", "checked", "wait"}]
    /\ streaming \subseteq Handles /\ reading \subseteq Handles
    /\ stream \in [Handles -> Seq(CaptureBufs)]
    /\ res \in [Handles -> SUBSET {VIDEO, VBI}] /\ devres \subseteq {VIDEO, VBI}

LEMMA Types == CaptureTypeOK <=> QueueTypes /\ HandleTypes
  BY DEF CaptureTypeOK, QueueTypes, HandleTypes

LEMMA QueueStep ==
    ASSUME CaptureTypeOK, FifoWhole, [CaptureNext]_<<queue, handle>>
    PROVE  QueueTypes' /\ FifoWhole'
  <1>0. QueueTypes /\ HandleTypes
    BY Types
  <1>1. ASSUME UNCHANGED queue PROVE QueueTypes' /\ FifoWhole'
    BY <1>0, <1>1 DEF queue, QueueTypes, FifoWhole
  <1>2. ASSUME NEW h \in VideoHandles, NEW b \in StreamBufs(h), Qbuf(h, b)
        PROVE  QueueTypes' /\ FifoWhole'
    BY <1>0, <1>1, <1>2, Bufs, SubmitQueue DEF Qbuf, VideoHandles
  <1>3. ASSUME NEW h \in Handles, Starting(h) PROVE QueueTypes' /\ FifoWhole'
    <2>1. ASSUME NEW i \in 1..Len(stream[h]), Q!Submit(stream[h][i])
          PROVE  QueueTypes' /\ FifoWhole'
      <3>1. stream[h][i] \in CaptureBufs
        BY <1>0 DEF HandleTypes
      <3> QED
        BY <1>0, <2>1, <3>1, SubmitQueue
    <2> QED
      BY <1>1, <1>3, <2>1 DEF Starting
  <1>4. ASSUME NEW h \in VideoHandles, Dqbuf(h) PROVE QueueTypes' /\ FifoWhole'
    <2>1. Head(stream[h]) \in CaptureBufs
      BY <1>0, <1>4 DEF HandleTypes, Dqbuf, VideoHandles
    <2> QED
      BY <1>0, <1>4, <2>1, ReclaimQueue DEF Dqbuf
  <1>5. ASSUME NEW h \in Handles, Cancel(h) PROVE QueueTypes' /\ FifoWhole'
    <2>1. ASSUME NEW i \in (started + 1)..Len(pending), Q!Cancel(i)
          PROVE  QueueTypes' /\ FifoWhole'
      <3>1. i \in 1..Len(pending)
        BY <1>0 DEF QueueTypes
      <3> QED
        BY <1>0, <2>1, <3>1, CancelQueue
    <2> QED
      BY <1>1, <1>5, <2>1 DEF Cancel
  <1>6. ASSUME NEW h \in Handles, Drain(h) PROVE QueueTypes' /\ FifoWhole'
    <2>1. /\ pending' = pending /\ started' = started
          /\ \A b \in StreamBufs(h) : result[b] # "driver"
          /\ result' = [b \in CaptureBufs |-> IF b \in StreamBufs(h) THEN "app"
                                              ELSE result[b]]
      BY <1>6 DEF Drain, WithDriver
    <2>2. QueueTypes'
      BY <1>0, <2>1 DEF QueueTypes, Q!Results
    <2>3. \A i \in 1..Len(pending) : result'[pending[i]] = result[pending[i]]
      BY <1>0, <2>1 DEF QueueTypes, FifoWhole
    <2> QED
      BY <2>1, <2>2, <2>3 DEF FifoWhole
  <1>7. ASSUME NEW h \in VideoHandles, ReadQueue(h) PROVE QueueTypes' /\ FifoWhole'
    BY <1>0, <1>7, Bufs, SubmitQueue DEF ReadQueue, VideoHandles
  <1>8. ASSUME NEW h \in VideoHandles, ReadCopy(h) PROVE QueueTypes' /\ FifoWhole'
    BY <1>0, <1>1, <1>8, Bufs, ReclaimQueue DEF ReadCopy, VideoHandles
  <1>9. ASSUME NEW h \in Handles, ReleaseReadBuf(h) PROVE QueueTypes' /\ FifoWhole'
    BY <1>0, <1>1, <1>9, Bufs, ReclaimQueue DEF ReleaseReadBuf
  <1>10. CASE Driver
    BY <1>0, <1>10, DeliverQueue, TimeoutQueue DEF Driver
  <1>11. CASE UNCHANGED <<queue, handle>>
    BY <1>1, <1>11
  <1>12. ASSUME NEW h \in Handles,
                \/ Open(h) \/ StreamOn(h) \/ VideobufStreamOn(h) \/ StreamOff(h)
                \/ Release(h) \/ FreeResource(h) \/ ReleaseRest(h) \/ Reqbufs(h)
                \/ ReadCheck(h) \/ ReadAbandon(h) \/ ReadVbi(h) \/ PollVbi(h)
         PROVE  QueueTypes' /\ FifoWhole'
    BY <1>1, <1>12
    DEF Open, StreamOn, VideobufStreamOn, StreamOff, Release, FreeResource,
        ReleaseRest, Reqbufs, ReadCheck, ReadAbandon, ReadVbi, PollVbi
  <1>13. ASSUME NEW h \in Handles, Requeue(h) PROVE QueueTypes' /\ FifoWhole'
    BY <1>0, <1>13, StartQueue DEF Requeue
  <1> QED
    BY <1>2, <1>3, <1>4, <1>5, <1>6, <1>7, <1>8, <1>9, <1>10, <1>11, <1>12, <1>13
    DEF CaptureNext, Proceed, VideoHandles, VbiHandles

LEMMA HandleTypesStep ==
    ASSUME CaptureTypeOK, CallInv, [CaptureNext]_<<queue, handle>>
    PROVE  HandleTypes'
  <1>0. HandleTypes
    BY Types
  <1>1. ASSUME NEW h \in Handles, Open(h) PROVE HandleTypes'
    BY <1>0, <1>1 DEF HandleTypes, Open, videobuf, resources
  <1>2. ASSUME NEW h \in Handles, StreamOn(h) PROVE HandleTypes'
    <2>1. Resource(h) \in {VIDEO, VBI}
      BY <1>0, <1>2 DEF HandleTypes, StreamOn, Ioctl, CallInv, Resource
    <2> QED
      BY <1>0, <1>2, <2>1 DEF HandleTypes, StreamOn, ResGet, videobuf
  <1>3. ASSUME NEW h \in Handles, StreamOff(h) \/ Release(h) PROVE HandleTypes'
    BY <1>0, <1>3 DEF HandleTypes, StreamOff, Release, Stop, videobuf, resources
  <1>4. ASSUME NEW h \in Handles, Starting(h) \/ Cancel(h) PROVE HandleTypes'
    BY <1>0, <1>4 DEF HandleTypes, Starting, Cancel, videobuf, resources
  <1>5. ASSUME NEW h \in Handles, Drain(h) PROVE HandleTypes'
    BY <1>0, <1>5 DEF HandleTypes, Drain, resources
  <1>6. ASSUME NEW h \in Handles, FreeResource(h) PROVE HandleTypes'
    BY <1>0, <1>6 DEF HandleTypes, FreeResource, ResFree, videobuf
  <1>7. ASSUME NEW h \in Handles, ReleaseReadBuf(h) PROVE HandleTypes'
    BY <1>0, <1>7 DEF HandleTypes, ReleaseReadBuf, videobuf, resources
  <1>8. ASSUME NEW h \in Handles, ReleaseRest(h) PROVE HandleTypes'
    <2>1. CASE ResFree(h, VBI)
      BY <1>0, <1>8, <2>1 DEF HandleTypes, ReleaseRest, ResFree
    <2>2. CASE UNCHANGED resources
      BY <1>0, <1>8, <2>2 DEF HandleTypes, ReleaseRest, resources
    <2> QED
      BY <1>8, <2>1, <2>2 DEF ReleaseRest
  <1>9. ASSUME NEW h \in Handles, NEW b \in StreamBufs(h), Qbuf(h, b)
        PROVE  HandleTypes'
    <2>1. b \in CaptureBufs
      BY Bufs
    <2> QED
      BY <1>0, <1>9, <2>1 DEF HandleTypes, Qbuf, resources
  <1>10. ASSUME NEW h \in Handles, Reqbufs(h) PROVE HandleTypes'
    BY <1>0, <1>10 DEF HandleTypes, Reqbufs, resources
  <1>11. ASSUME NEW h \in Handles, Dqbuf(h) PROVE HandleTypes'
    <2>1. Tail(stream[h]) \in Seq(CaptureBufs)
      BY <1>0, <1>11 DEF HandleTypes, Dqbuf
    <2> QED
      BY <1>0, <1>11, <2>1 DEF HandleTypes, Dqbuf, resources
  <1>12. ASSUME NEW h \in Handles,
                ReadCheck(h) \/ ReadQueue(h) \/ ReadCopy(h) \/ ReadAbandon(h)
         PROVE  HandleTypes'
    BY <1>0, <1>12
    DEF HandleTypes, ReadCheck, ReadQueue, ReadCopy, ReadAbandon, videobuf, resources
  <1>13. ASSUME NEW h \in Handles, ReadVbi(h) PROVE HandleTypes'
    BY <1>0, <1>13 DEF HandleTypes, ReadVbi, ResGet
  <1>14. ASSUME NEW h \in Handles, PollVbi(h) PROVE HandleTypes'
    BY <1>0, <1>14 DEF HandleTypes, PollVbi, resources
  <1>15. CASE Driver \/ UNCHANGED <<queue, handle>>
    BY <1>0, <1>15 DEF HandleTypes, Driver, handle, videobuf, resources
  <1>16. ASSUME NEW h \in Handles, Requeue(h) \/ VideobufStreamOn(h)
         PROVE  HandleTypes'
    BY <1>0, <1>16 DEF HandleTypes, Requeue, VideobufStreamOn, videobuf, resources
  <1> QED
    BY <1>1, <1>2, <1>3, <1>4, <1>5, <1>6, <1>7, <1>8, <1>9, <1>10, <1>11, <1>12,
       <1>13, <1>14, <1>15, <1>16
    DEF CaptureNext, Proceed, VideoHandles, VbiHandles

-----------------------------------------------------------------------------
(* Where a handle is.                                                      *)

LEMMA CallStep ==
    ASSUME CaptureTypeOK, CallInv, [CaptureNext]_<<queue, handle>>
    PROVE  CallInv'
  <1>0. HandleTypes
    BY Types
  <1>1. ASSUME NEW h \in Handles, Open(h) PROVE CallInv'
    BY <1>0, <1>1 DEF HandleTypes, CallInv, Open, videobuf
  <1>2. ASSUME NEW h \in Handles, StreamOn(h) PROVE CallInv'
    BY <1>0, <1>2 DEF HandleTypes, CallInv, StreamOn, Ioctl, videobuf
  <1>3. ASSUME NEW h \in Handles, StreamOff(h) PROVE CallInv'
    BY <1>0, <1>3 DEF HandleTypes, CallInv, StreamOff, Ioctl, Stop, videobuf
  <1>4. ASSUME NEW h \in Handles, Release(h) PROVE CallInv'
    BY <1>0, <1>4 DEF HandleTypes, CallInv, Release, Stop, videobuf
  <1>5. ASSUME NEW h \in Handles, Starting(h) \/ Cancel(h) PROVE CallInv'
    BY <1>0, <1>5 DEF HandleTypes, CallInv, Starting, Cancel, videobuf
  <1>6. ASSUME NEW h \in Handles, Drain(h) PROVE CallInv'
    BY <1>0, <1>6 DEF HandleTypes, CallInv, Drain
  <1>7. ASSUME NEW h \in Handles, FreeResource(h) PROVE CallInv'
    BY <1>0, <1>7 DEF HandleTypes, CallInv, FreeResource, videobuf
  <1>8. ASSUME NEW h \in Handles, ReleaseReadBuf(h) PROVE CallInv'
    BY <1>0, <1>8 DEF HandleTypes, CallInv, ReleaseReadBuf, videobuf
  <1>9. ASSUME NEW h \in Handles, ReleaseRest(h) PROVE CallInv'
    BY <1>0, <1>9 DEF HandleTypes, CallInv, ReleaseRest
  <1>10. ASSUME NEW h \in Handles,
                ReadCheck(h) \/ ReadQueue(h) \/ ReadCopy(h) \/ ReadAbandon(h)
         PROVE  CallInv'
    BY <1>0, <1>10
    DEF HandleTypes, CallInv, ReadCheck, ReadQueue, ReadCopy, ReadAbandon, videobuf
  <1>11. ASSUME UNCHANGED <<type, call, closing, rd, streaming>> PROVE CallInv'
    BY <1>11 DEF CallInv
  <1>12. ASSUME NEW h \in Handles, NEW b \in StreamBufs(h), Qbuf(h, b)
         PROVE  CallInv'
    BY <1>11, <1>12 DEF Qbuf
  <1>13. ASSUME NEW h \in Handles,
                Reqbufs(h) \/ Dqbuf(h) \/ ReadVbi(h) \/ PollVbi(h)
         PROVE  CallInv'
    BY <1>11, <1>13 DEF Reqbufs, Dqbuf, ReadVbi, PollVbi
  <1>14. CASE Driver \/ UNCHANGED <<queue, handle>>
    BY <1>11, <1>14 DEF Driver, handle, videobuf
  <1>15. ASSUME NEW h \in Handles, Requeue(h) PROVE CallInv'
    BY <1>11, <1>15 DEF Requeue, videobuf
  <1>16. ASSUME NEW h \in Handles, VideobufStreamOn(h) PROVE CallInv'
    BY <1>0, <1>16 DEF HandleTypes, CallInv, VideobufStreamOn
  <1> QED
    BY <1>1, <1>2, <1>3, <1>4, <1>5, <1>6, <1>7, <1>8, <1>9, <1>10, <1>12, <1>13,
       <1>14, <1>15, <1>16
    DEF CaptureNext, Proceed, VideoHandles, VbiHandles

-----------------------------------------------------------------------------
(* The resources.                                                          *)

\* res_get of the handle's own resource.
LEMMA GetKeeps ==
    ASSUME HandleTypes, ResInv, NEW h \in Handles, ResGet(h, type[h]),
           call[h] \notin {"readbuf", "vbi"} \/ type[h] = VBI,
           UNCHANGED <<type, closing>>,
           type[h] \in {VIDEO, VBI},
           \A g \in Handles : g # h => call'[g] = call[g]
                                       /\ (g \in streaming' <=> g \in streaming),
           call'[h] = call[h] \/ call'[h] = "requeue"
    PROVE  ResInv'
  <1>1. res' = [res EXCEPT ![h] = @ \union {type[h]}]
        /\ devres' = devres \union {type[h]}
    BY DEF ResGet
  <1>2. /\ \A g \in Handles : g # h => res'[g] = res[g] /\ type[h] \notin res[g]
        /\ res'[h] = res[h] \union {type[h]}
    BY <1>1 DEF ResGet, HandleTypes, ResInv, ResourceExclusive
  <1>3. devres' = UNION {res'[g] : g \in Handles}
    BY <1>1, <1>2 DEF ResInv, ResourceExclusive
  <1>4. ResourceExclusive'
    BY <1>2, <1>3 DEF ResInv, ResourceExclusive
  <1>5. StreamerHasResource'
    BY <1>2 DEF ResInv, StreamerHasResource, Resource
  <1>6. HeldInv'
    BY <1>2 DEF ResInv, HeldInv
  <1> QED
    BY <1>4, <1>5, <1>6 DEF ResInv

\* res_free of a resource the handle has, or no change.
LEMMA FreeKeeps ==
    ASSUME HandleTypes, ResourceExclusive, NEW h \in Handles,
           NEW bit \in res[h], ResFree(h, bit)
    PROVE  /\ ResourceExclusive'
           /\ \A g \in Handles : g # h => res'[g] = res[g]
           /\ res'[h] = res[h] \ {bit}
  <1>1. res' = [res EXCEPT ![h] = @ \ {bit}] /\ devres' = devres \ {bit}
    BY DEF ResFree
  <1>2. /\ \A g \in Handles : g # h => res'[g] = res[g] /\ bit \notin res[g]
        /\ res'[h] = res[h] \ {bit}
    BY <1>1 DEF HandleTypes, ResourceExclusive
  <1>3. devres' = UNION {res'[g] : g \in Handles}
    BY <1>1, <1>2 DEF ResourceExclusive
  <1> QED
    BY <1>2, <1>3 DEF ResourceExclusive

LEMMA ResStep ==
    ASSUME CaptureTypeOK, CallInv, ResInv, [CaptureNext]_<<queue, handle>>
    PROVE  ResInv'
  <1>0. HandleTypes
    BY Types
  <1> USE DEF ResInv, StreamerHasResource, HeldInv, Resource
  <1>1. ASSUME UNCHANGED resources PROVE ResourceExclusive'
    BY <1>1 DEF ResourceExclusive, resources
  <1>2. ASSUME NEW h \in Handles, Open(h) PROVE ResInv'
    <2>1. res[h] = {}
      BY <1>0, <1>2, SMTT(60) DEF Open, CallInv, HandleTypes
    <2> QED
      BY <1>0, <1>1, <1>2, <2>1
      DEF Open, resources, videobuf, CallInv, HandleTypes
  <1>3. ASSUME NEW h \in Handles, StreamOn(h) PROVE ResInv'
    <2>1. /\ call[h] = "idle" /\ ResGet(h, type[h]) /\ type[h] \in {VIDEO, VBI}
          /\ UNCHANGED <<type, closing>>
      BY <1>0, <1>3 DEF StreamOn, Ioctl, CallInv, HandleTypes
    <2>2. /\ \A g \in Handles : g # h => call'[g] = call[g]
                                       /\ (g \in streaming' <=> g \in streaming)
          /\ call'[h] = call[h] \/ call'[h] = "requeue"
      BY <1>0, <1>3 DEF StreamOn, HandleTypes, videobuf
    <2> QED
      BY <1>0, <2>1, <2>2, GetKeeps
  <1>4. ASSUME NEW h \in Handles, StreamOff(h) PROVE ResInv'
    BY <1>0, <1>1, <1>4 DEF StreamOff, Stop, Ioctl, resources, HandleTypes
  <1>5. ASSUME NEW h \in Handles, Release(h) PROVE ResInv'
    BY <1>0, <1>1, <1>5 DEF Release, Stop, resources, HandleTypes
  <1>6. ASSUME NEW h \in Handles, Starting(h) \/ Cancel(h) \/ Drain(h) PROVE ResInv'
    BY <1>0, <1>1, <1>6 DEF Starting, Cancel, Drain, resources, videobuf, HandleTypes
  <1>7. ASSUME NEW h \in Handles, FreeResource(h) PROVE ResInv'
    <2>1. /\ call[h] = "resfree" /\ ResFree(h, type[h]) /\ type[h] \in res[h]
          /\ UNCHANGED <<type, streaming>> /\ h \notin streaming
          /\ \A g \in Handles : g # h => call'[g] = call[g]
          /\ call'[h] \in {"idle", "readbuf"}
      BY <1>0, <1>7 DEF FreeResource, CallInv, videobuf, HandleTypes
    <2>2. /\ ResourceExclusive' /\ res'[h] = res[h] \ {type[h]}
          /\ \A g \in Handles : g # h => res'[g] = res[g]
      BY <1>0, <2>1, FreeKeeps
    <2>3. res'[h] = {}
      BY <2>2
    <2>4. StreamerHasResource' /\ HeldInv'
      BY <2>1, <2>2, <2>3
    <2> QED
      BY <2>2, <2>4
  <1>8. ASSUME NEW h \in Handles, ReleaseReadBuf(h) PROVE ResInv'
    BY <1>0, <1>1, <1>8 DEF ReleaseReadBuf, resources, videobuf, HandleTypes
  <1>9. ASSUME NEW h \in Handles, ReleaseRest(h) PROVE ResInv'
    <2>1. res'[h] = {} /\ ResourceExclusive'
          /\ \A g \in Handles : g # h => res'[g] = res[g]
      <3>1. CASE VBI \in res[h] /\ ResFree(h, VBI)
        BY <1>0, <1>9, <3>1, FreeKeeps DEF ReleaseRest, HandleTypes
      <3>2. CASE VBI \notin res[h] /\ UNCHANGED resources
        BY SMTT(60), <1>0, <1>1, <1>9, <3>2 DEF ReleaseRest, resources, HandleTypes
      <3> QED
        BY <1>9, <3>1, <3>2 DEF ReleaseRest
    <2> QED
      BY <1>0, <1>9, <2>1 DEF ReleaseRest, HandleTypes
  <1>10. ASSUME NEW h \in Handles, type[h] = VBI, ReadVbi(h) PROVE ResInv'
    BY <1>0, <1>10, GetKeeps DEF ReadVbi, HandleTypes
  <1>11. ASSUME UNCHANGED <<type, call, streaming, resources>> PROVE ResInv'
    BY <1>1, <1>11 DEF resources
  <1>12. ASSUME NEW h \in Handles, NEW b \in StreamBufs(h), Qbuf(h, b)
         PROVE  ResInv'
    BY <1>11, <1>12 DEF Qbuf
  <1>13. ASSUME NEW h \in Handles,
                \/ Reqbufs(h) \/ Dqbuf(h) \/ PollVbi(h)
                \/ ReadCheck(h) \/ ReadQueue(h) \/ ReadCopy(h) \/ ReadAbandon(h)
         PROVE  ResInv'
    BY <1>11, <1>13
    DEF Reqbufs, Dqbuf, PollVbi, ReadCheck, ReadQueue, ReadCopy, ReadAbandon, videobuf
  <1>14. CASE Driver \/ UNCHANGED <<queue, handle>>
    BY <1>11, <1>14 DEF Driver, handle, videobuf
  <1>15. ASSUME NEW h \in Handles, Requeue(h) PROVE ResInv'
    BY <1>11, <1>15 DEF Requeue, videobuf
  <1>16. ASSUME NEW h \in Handles, VideobufStreamOn(h) PROVE ResInv'
    BY <1>0, <1>1, <1>16 DEF VideobufStreamOn, resources, HandleTypes
  <1> QED
    BY <1>2, <1>3, <1>4, <1>5, <1>6, <1>7, <1>8, <1>9, <1>10, <1>12, <1>13, <1>14,
       <1>15, <1>16
    DEF CaptureNext, Proceed, VideoHandles, VbiHandles

-----------------------------------------------------------------------------
(* The buffers.                                                            *)

LEMMA BufStep ==
    ASSUME CaptureTypeOK, FifoWhole, CallInv, ResInv, BufInv,
           [CaptureNext]_<<queue, handle>>
    PROVE  BufInv'
  <1>0. QueueTypes /\ HandleTypes
    BY Types
  <1>1. ASSUME UNCHANGED <<type, streaming, stream>>,
               LetsGo \/ UNCHANGED result,
               \A g \in Handles :
                  \/ call'[g] = call[g]
                  \/ /\ call'[g] \notin {"vbi", "closed"}
                     /\ call[g] \notin {"cancel", "drain"}
        PROVE  BufInv'
    BY <1>0, <1>1, Bufs DEF BufInv, LetsGo, QueueTypes
  <1>2. ASSUME NEW h \in Handles, Open(h) PROVE BufInv'
    BY <1>0, <1>2, Bufs
    DEF Open, BufInv, CallInv, HandleTypes, videobuf, queue
  <1>3. ASSUME NEW h \in Handles, StreamOn(h) PROVE BufInv'
    <2>1. /\ \A g \in Handles : g # h => call'[g] = call[g]
          /\ call[h] = "idle" /\ call'[h] = "requeue"
          /\ UNCHANGED <<type, streaming, stream, result>>
      BY <1>0, <1>3 DEF StreamOn, Ioctl, queue, videobuf, HandleTypes
    <2> QED
      BY <1>1, <2>1
  <1>4. ASSUME NEW h \in Handles, StreamOff(h) PROVE BufInv'
    BY <1>0, <1>4 DEF StreamOff, Stop, Ioctl, BufInv, HandleTypes, queue
  <1>5. ASSUME NEW h \in Handles, Release(h) PROVE BufInv'
    <2>1. /\ UNCHANGED <<type, stream, result>>
          /\ call[h] = "idle"
          /\ \A g \in Handles : g # h => call'[g] = call[g]
                                     /\ (g \in streaming => g \in streaming')
          /\ \/ call'[h] = "cancel"
             \/ call'[h] = "readbuf" /\ streaming' = streaming
      BY <1>0, <1>5 DEF Release, Stop, HandleTypes, queue
    <2>2. ASSUME NEW g \in Handles
          PROVE  /\ g \in streaming \/ call[g] \in {"cancel", "drain"} =>
                       g \in streaming' \/ call'[g] \in {"cancel", "drain"}
                 /\ call'[g] \in {"vbi", "closed"} => call[g] \in {"vbi", "closed"}
      BY <2>1
    <2> QED
      BY <2>1, <2>2 DEF BufInv
  <1>6. ASSUME NEW h \in Handles, Starting(h) PROVE BufInv'
    <2>1. CASE UNCHANGED queue /\ call' = [call EXCEPT ![h] = "idle"]
      BY <1>0, <1>1, <1>6, <2>1 DEF Starting, queue, videobuf, HandleTypes
    <2>2. ASSUME NEW i \in 1..Len(stream[h]), Q!Submit(stream[h][i]), UNCHANGED call
          PROVE  BufInv'
      <3>1. /\ stream[h][i] \in StreamBufs(h) /\ stream[h][i] \in CaptureBufs
            /\ stream[h] # <<>> /\ type[h] = VIDEO /\ h \in streaming
        BY <1>0, <1>6, Bufs DEF BufInv, CallInv, Starting, HandleTypes
      <3>2. result' = [result EXCEPT ![stream[h][i]] = "driver"]
        BY <2>2 DEF Q!Submit
      <3>3. UNCHANGED <<type, streaming, stream, call>>
        BY <1>6, <2>2 DEF Starting, videobuf
      <3> DEFINE b == stream[h][i]
      <3>4. \A c \in CaptureBufs : c # b => result'[c] = result[c]
        BY <1>0, <3>2 DEF QueueTypes
      <3>5. /\ \A g \in Handles : ReadBuf(g) # b
            /\ \A g \in Handles : g # h => b \notin StreamBufs(g)
        BY <3>1, Bufs
      <3> HIDE DEF b
      <3> QED
        BY <3>1, <3>3, <3>4, <3>5, Bufs DEF BufInv
    <2> QED
      BY <1>6, <2>1, <2>2 DEF Starting
  <1>7. ASSUME NEW h \in Handles, Cancel(h) PROVE BufInv'
    <2>1. CASE UNCHANGED queue /\ call' = [call EXCEPT ![h] = "drain"]
      BY <1>0, <1>7, <2>1 DEF Cancel, BufInv, queue, videobuf, HandleTypes
    <2>2. ASSUME NEW i \in (started + 1)..Len(pending), Q!Cancel(i), UNCHANGED call
          PROVE  BufInv'
      <3>1. LetsGo
        BY <1>0, <2>2, CancelQueue DEF QueueTypes
      <3> QED
        BY <1>1, <1>7, <2>2, <3>1 DEF Cancel, videobuf
    <2> QED
      BY <1>7, <2>1, <2>2 DEF Cancel
  <1>8. ASSUME NEW h \in Handles, Drain(h) PROVE BufInv'
    BY <1>0, <1>8, Bufs DEF Drain, BufInv, HandleTypes
  <1>9. ASSUME NEW h \in Handles, FreeResource(h) PROVE BufInv'
    <2>1. /\ \A g \in Handles : g # h => call'[g] = call[g]
          /\ call[h] = "resfree" /\ call'[h] \in {"idle", "readbuf"}
          /\ UNCHANGED <<type, streaming, stream, result>>
      BY <1>0, <1>9 DEF FreeResource, queue, videobuf, HandleTypes
    <2> QED
      BY <1>1, <2>1
  <1>10. ASSUME NEW h \in Handles, ReleaseReadBuf(h) PROVE BufInv'
    <2>1. result'[ReadBuf(h)] = "app"
          /\ \A b \in CaptureBufs : b # ReadBuf(h) => result'[b] = result[b]
      BY <1>0, <1>10, Bufs, ReclaimQueue DEF ReleaseReadBuf, queue, QueueTypes
    <2>2. /\ UNCHANGED <<type, streaming, stream>>
          /\ \A g \in Handles : g # h => call'[g] = call[g]
          /\ call[h] = "readbuf"
      BY <1>0, <1>10 DEF ReleaseReadBuf, videobuf, HandleTypes
    <2> QED
      BY <2>1, <2>2, Bufs DEF BufInv
  <1>11. ASSUME NEW h \in Handles, ReleaseRest(h) PROVE BufInv'
    <2>1. \A b \in StreamBufs(h) : result[b] = "app"
      BY <1>0, <1>11
      DEF ReleaseRest, BufInv, ResInv, HeldInv, StreamerHasResource, Resource
    <2> QED
      BY <1>0, <1>11, <2>1, Bufs DEF ReleaseRest, BufInv, HandleTypes, queue
  <1>12. ASSUME NEW h \in VideoHandles, NEW b \in StreamBufs(h), Qbuf(h, b)
         PROVE  BufInv'
    <2>1. /\ h \in Handles /\ type[h] = VIDEO /\ b \in CaptureBufs
          /\ UNCHANGED <<type, call, streaming>>
          /\ stream' = [stream EXCEPT ![h] = Append(@, b)]
      BY <1>12, Bufs DEF Qbuf, VideoHandles
    <2>2. \/ h \in streaming /\ result' = [result EXCEPT ![b] = "driver"]
          \/ UNCHANGED result
      BY <1>12 DEF Qbuf, Q!Submit, queue
    <2>3. /\ \A g \in Handles : g # h => stream'[g] = stream[g]
          /\ \A i \in 1..Len(stream'[h]) :
                \/ stream'[h][i] = b
                \/ i \in 1..Len(stream[h]) /\ stream'[h][i] = stream[h][i]
      <3>1. stream[h] \in Seq(CaptureBufs) /\ Len(stream[h]) \in Nat
        BY <1>0, <2>1 DEF HandleTypes
      <3>2. stream'[h] = Append(stream[h], b)
        BY <1>0, <2>1 DEF HandleTypes
      <3>3. \A g \in Handles : g # h => stream'[g] = stream[g]
        BY <1>0, <2>1 DEF HandleTypes
      <3> QED
        BY <2>1, <3>1, <3>2, <3>3, AppendProperties
    <2>4. ASSUME NEW g \in Handles
          PROVE  /\ stream'[g] # <<>> => type[g] = VIDEO
                 /\ \A i \in 1..Len(stream'[g]) : stream'[g][i] \in StreamBufs(g)
      <3>1. CASE g = h
        BY <2>1, <2>3, <3>1 DEF BufInv
      <3>2. CASE g # h
        BY <2>3, <3>2 DEF BufInv
      <3> QED
        BY <3>1, <3>2
    <2>5. ASSUME NEW g \in Handles
          PROVE  /\ \A c \in StreamBufs(g) : result'[c] # "app" =>
                       /\ type[g] = VIDEO
                       /\ g \in streaming \/ call[g] \in {"cancel", "drain"}
                 /\ call[g] \in {"vbi", "closed"} => result'[ReadBuf(g)] = "app"
      BY <1>0, <2>1, <2>2, Bufs DEF BufInv, QueueTypes
    <2> QED
      BY <2>1, <2>4, <2>5 DEF BufInv
  <1>13. ASSUME NEW h \in VideoHandles, Reqbufs(h) PROVE BufInv'
    BY <1>0, <1>13 DEF Reqbufs, BufInv, HandleTypes, queue, VideoHandles
  <1>14. ASSUME NEW h \in VideoHandles, Dqbuf(h) PROVE BufInv'
    <2>1. /\ h \in Handles /\ type[h] = VIDEO /\ stream[h] \in Seq(CaptureBufs)
          /\ stream[h] # <<>>
          /\ UNCHANGED <<type, call, streaming>>
          /\ stream' = [stream EXCEPT ![h] = Tail(@)]
          /\ result' = [result EXCEPT ![Head(stream[h])] = "app"]
      BY <1>0, <1>14 DEF Dqbuf, VideoHandles, HandleTypes, Q!Reclaim
    <2>2. /\ \A g \in Handles : g # h => stream'[g] = stream[g]
          /\ \A i \in 1..Len(stream'[h]) :
                i + 1 \in 1..Len(stream[h]) /\ stream'[h][i] = stream[h][i + 1]
      BY <1>0, <2>1 DEF HandleTypes
    <2>3. \A b \in CaptureBufs : result'[b] # "app" => result'[b] = result[b]
      BY <1>0, <2>1 DEF QueueTypes
    <2>4. \A b \in CaptureBufs : result[b] = "app" => result'[b] = "app"
      BY <1>0, <2>1 DEF QueueTypes
    <2>5. ASSUME NEW g \in Handles
          PROVE  /\ stream'[g] # <<>> => type[g] = VIDEO
                 /\ \A i \in 1..Len(stream'[g]) : stream'[g][i] \in StreamBufs(g)
      <3>1. CASE g = h
        BY <2>1, <2>2, <3>1 DEF BufInv
      <3>2. CASE g # h
        BY <2>2, <3>2 DEF BufInv
      <3> QED
        BY <3>1, <3>2
    <2> QED
      BY <2>1, <2>3, <2>4, <2>5, Bufs DEF BufInv
  <1>15. ASSUME NEW h \in VideoHandles, ReadQueue(h) PROVE BufInv'
    <2>1. /\ h \in Handles /\ rd[h] = "checked" /\ call[h] \notin {"vbi", "closed"}
          /\ UNCHANGED <<type, call, streaming, stream>>
          /\ result' = [result EXCEPT ![ReadBuf(h)] = "driver"]
      BY <1>15 DEF ReadQueue, VideoHandles, CallInv, Q!Submit, videobuf
    <2> QED
      BY <1>0, <2>1, Bufs DEF BufInv, QueueTypes
  <1>16. ASSUME NEW h \in VideoHandles, ReadCopy(h) PROVE BufInv'
    <2>1. /\ UNCHANGED <<type, call, streaming, stream>>
          /\ \/ UNCHANGED result
             \/ result' = [result EXCEPT ![ReadBuf(h)] = "app"]
      BY <1>16 DEF ReadCopy, Q!Reclaim, queue, videobuf
    <2> QED
      BY <1>0, <2>1, Bufs DEF BufInv, QueueTypes
  <1>17. ASSUME NEW h \in Handles,
                ReadCheck(h) \/ ReadAbandon(h) \/ ReadVbi(h) \/ PollVbi(h)
         PROVE  BufInv'
    BY <1>1, <1>17 DEF ReadCheck, ReadAbandon, ReadVbi, PollVbi, queue, videobuf
  <1>18. CASE Driver
    <2>1. LetsGo
      BY <1>0, <1>18, DeliverQueue, TimeoutQueue DEF Driver
    <2> QED
      BY <1>1, <1>18, <2>1 DEF Driver, handle, videobuf
  <1>19. CASE UNCHANGED <<queue, handle>>
    BY <1>1, <1>19 DEF queue, handle, videobuf
  <1>20. ASSUME NEW h \in Handles, Requeue(h) PROVE BufInv'
    BY <1>0, <1>1, <1>20, StartQueue DEF Requeue, videobuf
  <1>21. ASSUME NEW h \in Handles, VideobufStreamOn(h) PROVE BufInv'
    <2>1. /\ \A g \in Handles : g # h => call'[g] = call[g]
          /\ call[h] = "requeue" /\ call'[h] \in {"idle", "starting"}
          /\ UNCHANGED <<type, stream, result>> /\ streaming \subseteq streaming'
      BY <1>0, <1>21 DEF VideobufStreamOn, queue, HandleTypes
    <2> QED
      BY <2>1 DEF BufInv
  <1> QED
    BY <1>2, <1>3, <1>4, <1>5, <1>6, <1>7, <1>8, <1>9, <1>10, <1>11, <1>12, <1>13,
       <1>14, <1>15, <1>16, <1>17, <1>18, <1>19, <1>20, <1>21
    DEF CaptureNext, Proceed, VideoHandles, VbiHandles

-----------------------------------------------------------------------------
(* The theorems.                                                           *)

LEMMA InvHolds == CaptureSpec => []Inv
  <1>1. ASSUME CaptureInit PROVE Inv
    <2>1. CaptureTypeOK
      BY <1>1, Bufs DEF CaptureInit, CaptureTypeOK, Q!Init, Q!Results
    <2>2. FifoWhole
      BY <1>1 DEF CaptureInit, FifoWhole, Q!Init
    <2>3. CallInv
      BY <1>1 DEF CaptureInit, CallInv
    <2>4. ResInv
      BY <1>1 DEF CaptureInit, ResInv, ResourceExclusive, StreamerHasResource,
                  HeldInv, Resource
    <2>5. BufInv
      BY <1>1, Bufs DEF CaptureInit, BufInv, Q!Init
    <2> QED
      BY <2>1, <2>2, <2>3, <2>4, <2>5 DEF Inv
  <1>2. Inv /\ [CaptureNext]_<<queue, handle>> => Inv'
    BY QueueStep, HandleTypesStep, CallStep, ResStep, BufStep, Types
    DEF Inv, CaptureTypeOK, QueueTypes, HandleTypes
  <1> QED
    BY <1>1, <1>2, PTL DEF CaptureSpec

\* Every variable has its type.
THEOREM CaptureTypesHold == CaptureSpec => []CaptureTypeOK
  <1>1. Inv => CaptureTypeOK
    BY DEF Inv
  <1> QED
    BY <1>1, InvHolds, PTL

\* However many handles open, read, stream and close, each resource has one
\* holder, and dev->resources is what the handles hold.
THEOREM ResourceExclusiveHolds == CaptureSpec => []ResourceExclusive
  <1>1. Inv => ResourceExclusive
    BY DEF Inv, ResInv
  <1> QED
    BY <1>1, InvHolds, PTL

\* The BUG_ON of res_free never fires: who is to give up a resource has it.
THEOREM StreamerHasResourceHolds == CaptureSpec => []StreamerHasResource
  <1>1. Inv => StreamerHasResource
    BY DEF Inv, ResInv
  <1> QED
    BY <1>1, InvHolds, PTL

\* When STREAMOFF has returned, the driver has no buffer of the stream.
THEOREM StoppedStreamLeavesNothingHolds == CaptureSpec => []StoppedStreamLeavesNothing
  <1>1. Inv => StoppedStreamLeavesNothing
    BY DEF Inv, ResInv, BufInv, StoppedStreamLeavesNothing, StreamerHasResource,
           Resource, WithDriver, VideoHandles
  <1> QED
    BY <1>1, InvHolds, PTL

\* When close has returned, the driver has no buffer of the handle.
THEOREM ClosedOwnsNothingHolds == CaptureSpec => []ClosedOwnsNothing
  <1>1. Inv => ClosedOwnsNothing
    BY DEF Inv, CallInv, BufInv, ClosedOwnsNothing
  <1> QED
    BY <1>1, InvHolds, PTL

-----------------------------------------------------------------------------
(***************************************************************************)
(* VIDIOC_DQBUF gives the buffers back in the order in which VIDIOC_QBUF   *)
(* took them, for every set of handles and of buffers: the stream of a     *)
(* handle and the queue of the driver agree on who comes first.            *)
(***************************************************************************)

\* What is the driver's is in its queue.
HeldQueued ==
    \A b \in CaptureBufs :
        result[b] = "driver" => \E k \in 1..Len(pending) : pending[k] = b

\* Before b is queued after c, or comes back before it, c is not.
Precedes(b, c) ==
    /\ result[c] # "app" => result[b] # "app"
    /\ Finished(c) => Finished(b)
    /\ \A k, m \in 1..Len(pending) : pending[k] = b /\ pending[m] = c => k < m

\* The buffers of a stream are all different, and those of a stream that runs
\* are queued and come back in its order; all are queued once it has started.
StreamOK(h) ==
    /\ \A i, j \in 1..Len(stream[h]) : i < j => stream[h][i] # stream[h][j]
    /\ h \in streaming =>
          \A i, j \in 1..Len(stream[h]) :
              i < j => Precedes(stream[h][i], stream[h][j])
    /\ h \in streaming /\ call[h] # "starting" =>
          \A i \in 1..Len(stream[h]) : result[stream[h][i]] # "app"

StreamInv == \A h \in Handles : StreamOK(h)

OrderInv == HeldQueued /\ StreamInv

-----------------------------------------------------------------------------
(* What a step does to the queue.                                          *)

Done == {"filled", "failed"}

\* The first n buffers come back.
Advance(n) ==
    /\ Len(pending') = Len(pending) - n
    /\ \A i \in 1..Len(pending') :
          i + n \in 1..Len(pending) /\ pending'[i] = pending[i + n]
    /\ \A k \in 1..n : result'[pending[k]] \in Done
    /\ \A b \in CaptureBufs :
          (\A k \in 1..n : pending[k] # b) => result'[b] = result[b]

\* A buffer is queued behind all others.
Joins(b) ==
    /\ Len(pending') = Len(pending) + 1 /\ pending'[Len(pending) + 1] = b
    /\ \A i \in 1..Len(pending) : pending'[i] = pending[i]
    /\ result[b] = "app" /\ result'[b] = "driver"
    /\ \A c \in CaptureBufs : c # b => result'[c] = result[c]

\* A buffer of the stream of h is taken back.
Leaves(k) ==
    /\ Len(pending') = Len(pending) - 1
    /\ \A i \in 1..Len(pending') :
          pending'[i] = IF i < k THEN pending[i] ELSE pending[i + 1]
    /\ result'[pending[k]] = "failed"
    /\ \A b \in CaptureBufs : b # pending[k] => result'[b] = result[b]

\* Some buffers that have come back are the application's again.
Returns(S) ==
    /\ UNCHANGED pending
    /\ \A b \in S : result[b] # "driver" /\ result'[b] = "app"
    /\ \A b \in CaptureBufs \ S : result'[b] = result[b]

LEMMA DeliverAdvances ==
    ASSUME QueueTypes, FifoWhole, Q!Deliver
    PROVE  \E n \in 0..Len(pending) : Advance(n)
  <1>1. /\ Len(pending) >= 1 /\ started >= 1 /\ Len(pending) \in Nat
        /\ Head(pending) = pending[1] /\ pending[1] \in CaptureBufs
        /\ Len(Tail(pending)) = Len(pending) - 1
        /\ \A i \in 1..(Len(pending) - 1) : Tail(pending)[i] = pending[i + 1]
    BY DEF Q!Deliver, QueueTypes
  <1>2. /\ pending' = Tail(pending)
        /\ result' = [result EXCEPT ![pending[1]] = "filled"]
    BY <1>1 DEF Q!Deliver
  <1>3. Advance(1)
    BY <1>1, <1>2 DEF Advance, Done, QueueTypes
  <1> QED
    BY <1>1, <1>3

LEMMA TimeoutAdvances ==
    ASSUME QueueTypes, FifoWhole, Q!Timeout
    PROVE  \E n \in 0..Len(pending) : Advance(n)
  <1> DEFINE rest == SubSeq(pending, started + 1, Len(pending))
  <1>1. /\ Len(rest) = Len(pending) - started /\ Len(pending) \in Nat
        /\ \A i \in 1..Len(rest) : rest[i] = pending[started + i]
        /\ \A k \in 1..started : pending[k] \in CaptureBufs
    BY DEF QueueTypes
  <1>2. /\ pending' = rest
        /\ result' = [b \in CaptureBufs |->
                        IF \E i \in 1..started : pending[i] = b
                        THEN "failed" ELSE result[b]]
    BY DEF Q!Timeout
  <1> HIDE DEF rest
  <1>3. Advance(started)
    BY <1>1, <1>2 DEF Advance, Done, QueueTypes
  <1> QED
    BY <1>3 DEF QueueTypes

LEMMA SubmitJoins ==
    ASSUME QueueTypes, NEW b \in CaptureBufs, Q!Submit(b)
    PROVE  Joins(b)
  <1>1. /\ result[b] = "app" /\ result' = [result EXCEPT ![b] = "driver"]
        /\ pending' = Append(pending, b)
    BY DEF Q!Submit
  <1>2. /\ Len(pending') = Len(pending) + 1 /\ pending'[Len(pending) + 1] = b
        /\ \A i \in 1..Len(pending) : pending'[i] = pending[i]
    BY <1>1, AppendProperties DEF QueueTypes
  <1> QED
    BY <1>1, <1>2 DEF Joins, QueueTypes

LEMMA CancelLeaves ==
    ASSUME QueueTypes, NEW k \in 1..Len(pending), Q!Cancel(k)
    PROVE  Leaves(k)
  <1>1. result' = [result EXCEPT ![pending[k]] = "failed"]
    BY DEF Q!Cancel
  <1>2. pending[k] \in CaptureBufs
    BY DEF QueueTypes
  <1>3. /\ Len(pending') = Len(pending) - 1
        /\ \A i \in 1..Len(pending') :
              pending'[i] = IF i < k THEN pending[i] ELSE pending[i + 1]
    BY CancelPending
  <1> QED
    BY <1>1, <1>2, <1>3 DEF Leaves, QueueTypes

-----------------------------------------------------------------------------
(* What is the driver's stays in its queue.                                *)

LEMMA AdvanceHeld ==
    ASSUME QueueTypes, FifoWhole, HeldQueued,
           NEW n \in 0..Len(pending), Advance(n)
    PROVE  HeldQueued'
  <1> SUFFICES ASSUME NEW b \in CaptureBufs, result'[b] = "driver"
               PROVE  \E k \in 1..Len(pending') : pending'[k] = b
    BY DEF HeldQueued
  <1>1. \A k \in 1..n : pending[k] # b
    BY DEF Advance, Done
  <1>2. PICK k \in 1..Len(pending) : pending[k] = b
    BY <1>1 DEF Advance, HeldQueued
  <1>3. Len(pending) \in Nat /\ n \in Nat /\ k \in Nat
    BY DEF QueueTypes
  <1>4. k - n \in 1..Len(pending')
    BY <1>1, <1>2, <1>3 DEF Advance
  <1>5. pending'[k - n] = pending[(k - n) + n] /\ (k - n) + n = k
    BY <1>3, <1>4 DEF Advance
  <1> QED
    BY <1>2, <1>4, <1>5

LEMMA JoinsHeld ==
    ASSUME QueueTypes, HeldQueued, NEW b \in CaptureBufs, Joins(b)
    PROVE  HeldQueued'
  <1>1. Len(pending) \in Nat
    BY DEF QueueTypes
  <1> QED
    BY <1>1 DEF HeldQueued, Joins

LEMMA LeavesHeld ==
    ASSUME QueueTypes, HeldQueued, NEW k \in 1..Len(pending), Leaves(k)
    PROVE  HeldQueued'
  <1> SUFFICES ASSUME NEW b \in CaptureBufs, result'[b] = "driver"
               PROVE  \E i \in 1..Len(pending') : pending'[i] = b
    BY DEF HeldQueued
  <1>1. b # pending[k] /\ result[b] = "driver"
    BY DEF Leaves
  <1>2. PICK m \in 1..Len(pending) : pending[m] = b
    BY <1>1 DEF HeldQueued
  <1>3. Len(pending) \in Nat /\ m # k
    BY <1>1, <1>2 DEF QueueTypes
  <1> DEFINE i == IF m < k THEN m ELSE m - 1
  <1>4. i \in 1..Len(pending') /\ (IF i < k THEN i = m ELSE i + 1 = m)
    BY <1>3 DEF Leaves
  <1>5. pending'[i] = pending[m]
    BY <1>4 DEF Leaves
  <1> QED
    BY <1>2, <1>4, <1>5

LEMMA ReturnsHeld ==
    ASSUME HeldQueued, NEW S, Returns(S)
    PROVE  HeldQueued'
  BY DEF HeldQueued, Returns

-----------------------------------------------------------------------------
(* Who comes first stays first.                                            *)

LEMMA AdvancePrecedes ==
    ASSUME QueueTypes, FifoWhole, HeldQueued, NEW n \in 0..Len(pending), Advance(n),
           NEW b \in CaptureBufs, NEW c \in CaptureBufs, b # c, Precedes(b, c)
    PROVE  Precedes(b, c)'
  <1>1. Len(pending) \in Nat /\ n \in Nat
    BY DEF QueueTypes
  <1>2. \A a \in CaptureBufs : result'[a] = result[a]
                                \/ (result[a] = "driver" /\ result'[a] \in Done)
    BY <1>1 DEF Advance, FifoWhole
  <1>3. ASSUME Finished(c)' PROVE Finished(b)'
    <2>1. CASE Finished(c)
      BY <1>2, <2>1 DEF Precedes, Finished, Done
    <2>2. CASE ~Finished(c)
      <3>1. PICK m \in 1..n : pending[m] = c
        BY <1>3, <2>2 DEF Advance, Finished
      <3>2. result[b] # "app"
        BY <1>1, <3>1 DEF Precedes, FifoWhole
      <3>3. CASE result[b] = "driver"
        <4>1. PICK k \in 1..Len(pending) : pending[k] = b
          BY <3>3 DEF HeldQueued
        <4>2. k < m
          BY <1>1, <3>1, <4>1 DEF Precedes
        <4>3. k \in 1..n
          BY <1>1, <4>2
        <4> QED
          BY <4>1, <4>3 DEF Advance, Done, Finished
      <3>4. CASE result[b] # "driver"
        <4>1. result[b] \in Done
          BY <3>2, <3>4 DEF QueueTypes, Q!Results, Done
        <4> QED
          BY <1>2, <4>1 DEF Done, Finished
      <3> QED
        BY <3>3, <3>4
    <2> QED
      BY <2>1, <2>2
  <1>4. ASSUME result'[c] # "app" PROVE result'[b] # "app"
    BY <1>2, <1>4 DEF Precedes, Done
  <1>5. ASSUME NEW k \in 1..Len(pending'), NEW m \in 1..Len(pending'),
               pending'[k] = b, pending'[m] = c
        PROVE  k < m
    <2>1. /\ k + n \in 1..Len(pending) /\ pending[k + n] = b
          /\ m + n \in 1..Len(pending) /\ pending[m + n] = c
      BY <1>5 DEF Advance
    <2>2. k + n < m + n
      BY <2>1 DEF Precedes
    <2> QED
      BY <1>1, <2>2 DEF Advance
  <1> QED
    BY <1>3, <1>4, <1>5 DEF Precedes

LEMMA JoinsPrecedes ==
    ASSUME QueueTypes, FifoWhole, NEW d \in CaptureBufs, Joins(d),
           NEW b \in CaptureBufs, NEW c \in CaptureBufs, b # c, Precedes(b, c),
           d = c => result[b] # "app"
    PROVE  Precedes(b, c)'
  <1>1. Len(pending) \in Nat
    BY DEF QueueTypes
  <1>2. \A i \in 1..Len(pending) : pending[i] # d
    BY DEF Joins, FifoWhole
  <1>3. ASSUME result'[c] # "app" PROVE result'[b] # "app"
    BY <1>3 DEF Joins, Precedes
  <1>4. ASSUME Finished(c)' PROVE Finished(b)'
    BY <1>4 DEF Joins, Precedes, Finished
  <1>5. ASSUME NEW k \in 1..Len(pending'), NEW m \in 1..Len(pending'),
               pending'[k] = b, pending'[m] = c
        PROVE  k < m
    <2>1. CASE d = b
      <3>1. result[c] = "app"
        BY <2>1 DEF Joins, Precedes
      <3>2. m = Len(pending) + 1 \/ m \in 1..Len(pending)
        BY <1>1 DEF Joins
      <3> QED
        BY <1>5, <2>1, <3>1, <3>2 DEF Joins, FifoWhole
    <2>2. CASE d # b
      <3>1. k \in 1..Len(pending) /\ pending[k] = b
        BY <1>1, <1>5, <2>2 DEF Joins
      <3>2. m = Len(pending) + 1 \/ (m \in 1..Len(pending) /\ pending[m] = c)
        BY <1>1, <1>5 DEF Joins
      <3> QED
        BY <1>1, <3>1, <3>2 DEF Precedes
    <2> QED
      BY <2>1, <2>2
  <1> QED
    BY <1>3, <1>4, <1>5 DEF Precedes

LEMMA LeavesPrecedes ==
    ASSUME QueueTypes, NEW d \in 1..Len(pending), Leaves(d),
           NEW b \in CaptureBufs, NEW c \in CaptureBufs, Precedes(b, c),
           pending[d] # b, pending[d] # c
    PROVE  Precedes(b, c)'
  <1>1. Len(pending) \in Nat /\ d \in Nat
    BY DEF QueueTypes
  <1>2. result'[b] = result[b] /\ result'[c] = result[c]
    BY DEF Leaves
  <1>3. ASSUME NEW k \in 1..Len(pending'), NEW m \in 1..Len(pending'),
               pending'[k] = b, pending'[m] = c
        PROVE  k < m
    <2> DEFINE At(i) == IF i < d THEN i ELSE i + 1
    <2>1. /\ At(k) \in 1..Len(pending) /\ pending[At(k)] = b
          /\ At(m) \in 1..Len(pending) /\ pending[At(m)] = c
      BY <1>1, <1>3 DEF Leaves
    <2>2. At(k) < At(m)
      BY <2>1 DEF Precedes
    <2> QED
      BY <1>1, <2>2 DEF Leaves
  <1> QED
    BY <1>2, <1>3 DEF Precedes, Finished

LEMMA JoinsLast ==
    ASSUME QueueTypes, FifoWhole, NEW d \in CaptureBufs, Joins(d),
           NEW b \in CaptureBufs, b # d, result[b] # "app"
    PROVE  Precedes(b, d)'
  <1>1. Len(pending) \in Nat
    BY DEF QueueTypes
  <1>2. \A i \in 1..Len(pending) : pending[i] # d
    BY DEF Joins, FifoWhole
  <1>3. ASSUME NEW k \in 1..Len(pending'), NEW m \in 1..Len(pending'),
               pending'[k] = b, pending'[m] = d
        PROVE  k < m
    <2>1. k \in 1..Len(pending)
      BY <1>1, <1>3 DEF Joins
    <2>2. m = Len(pending) + 1
      BY <1>1, <1>2, <1>3 DEF Joins
    <2> QED
      BY <1>1, <2>1, <2>2
  <1> QED
    BY <1>3 DEF Precedes, Joins, Finished

\* Returning is no hurry: only who is returned may lose the place.
LEMMA ReturnsPrecedes ==
    ASSUME NEW S, Returns(S),
           NEW b \in CaptureBufs, NEW c \in CaptureBufs, Precedes(b, c), b \notin S
    PROVE  Precedes(b, c)'
  BY DEF Returns, Precedes, Finished

-----------------------------------------------------------------------------
(* The streams.                                                            *)

\* Among the streaming buffers of a handle the order is kept.
KeepsOrder(h) ==
    /\ \A b, c \in StreamBufs(h) : b # c /\ Precedes(b, c) => Precedes(b, c)'
    /\ \A b \in StreamBufs(h) : result[b] # "app" => result'[b] # "app"

LEMMA AdvanceKeeps ==
    ASSUME QueueTypes, FifoWhole, HeldQueued, NEW n \in 0..Len(pending), Advance(n),
           NEW h \in Handles
    PROVE  KeepsOrder(h)
  <1>1. \A b \in CaptureBufs : result[b] # "app" => result'[b] # "app"
    BY DEF Advance, Done, QueueTypes
  <1> QED
    BY <1>1, Bufs, AdvancePrecedes DEF KeepsOrder

LEMMA JoinsKeeps ==
    ASSUME QueueTypes, FifoWhole, NEW d \in CaptureBufs, Joins(d),
           NEW h \in Handles, d \notin StreamBufs(h)
    PROVE  KeepsOrder(h)
  BY Bufs, JoinsPrecedes DEF KeepsOrder, Joins

LEMMA LeavesKeeps ==
    ASSUME QueueTypes, NEW k \in 1..Len(pending), Leaves(k),
           NEW h \in Handles, pending[k] \notin StreamBufs(h)
    PROVE  KeepsOrder(h)
  BY Bufs, LeavesPrecedes DEF KeepsOrder, Leaves

LEMMA ReturnsKeeps ==
    ASSUME NEW S, Returns(S), NEW h \in Handles, S \intersect StreamBufs(h) = {}
    PROVE  KeepsOrder(h)
  BY Bufs, ReturnsPrecedes DEF KeepsOrder, Returns

LEMMA SameKeeps ==
    ASSUME UNCHANGED <<pending, result>>, NEW h \in Handles
    PROVE  KeepsOrder(h)
  BY DEF KeepsOrder, Precedes, Finished

LEMMA StreamKept ==
    ASSUME BufInv, NEW h \in Handles, StreamOK(h),
           stream'[h] = stream[h], h \in streaming' => h \in streaming,
           call[h] = "starting" => call'[h] = "starting",
           h \in streaming => KeepsOrder(h)
    PROVE  StreamOK(h)'
  <1>1. \A i \in 1..Len(stream[h]) : stream[h][i] \in StreamBufs(h)
    BY DEF BufInv
  <1> QED
    BY <1>1 DEF StreamOK, KeepsOrder

LEMMA OrderStep ==
    ASSUME Inv, OrderInv, [CaptureNext]_<<queue, handle>>
    PROVE  OrderInv'
  <1>0. /\ QueueTypes /\ HandleTypes /\ FifoWhole /\ CallInv /\ BufInv
        /\ HeldQueued /\ StreamInv
    BY Types DEF Inv, OrderInv
  <1> USE DEF OrderInv, StreamInv
  <1>1. ASSUME UNCHANGED queue PROVE HeldQueued' /\ \A g \in Handles : KeepsOrder(g)
    BY <1>0, <1>1, SameKeeps DEF queue, HeldQueued
  \* Where only the queue moves, or a call goes on.
  <1>2. ASSUME HeldQueued', \A g \in Handles : g \in streaming => KeepsOrder(g),
               UNCHANGED stream, streaming' \subseteq streaming,
               \A g \in Handles : call[g] = "starting" => call'[g] = "starting"
        PROVE  OrderInv'
    BY <1>0, <1>2, StreamKept
  <1>3. ASSUME NEW h \in Handles, Open(h) PROVE OrderInv'
    BY <1>0, <1>1, <1>2, <1>3 DEF Open, videobuf, HandleTypes
  <1>4. ASSUME NEW h \in Handles, StreamOff(h) \/ Release(h) PROVE OrderInv'
    BY <1>0, <1>1, <1>2, <1>4 DEF StreamOff, Release, Stop, Ioctl, HandleTypes
  <1>5. ASSUME NEW h \in Handles, FreeResource(h) PROVE OrderInv'
    BY <1>0, <1>1, <1>2, <1>5 DEF FreeResource, videobuf, HandleTypes
  <1>6. ASSUME NEW h \in Handles,
               ReadCheck(h) \/ ReadAbandon(h) \/ ReadVbi(h) \/ PollVbi(h)
        PROVE  OrderInv'
    BY <1>1, <1>2, <1>6 DEF ReadCheck, ReadAbandon, ReadVbi, PollVbi, videobuf
  <1>7. CASE UNCHANGED <<queue, handle>>
    BY <1>1, <1>2, <1>7 DEF handle, videobuf
  <1>8. CASE Driver
    <2>1. PICK n \in 0..Len(pending) : Advance(n)
      BY <1>0, <1>8, DeliverAdvances, TimeoutAdvances DEF Driver
    <2>2. HeldQueued' /\ \A g \in Handles : KeepsOrder(g)
      BY <1>0, <2>1, AdvanceHeld, AdvanceKeeps
    <2> QED
      BY <1>2, <1>8, <2>2 DEF Driver, handle, videobuf
  <1>9. ASSUME NEW h \in VideoHandles, ReadQueue(h) PROVE OrderInv'
    <2>1. /\ h \in Handles /\ Joins(ReadBuf(h))
          /\ UNCHANGED <<call, streaming, stream>>
      BY <1>0, <1>9, Bufs, SubmitJoins DEF ReadQueue, VideoHandles, videobuf
    <2>2. HeldQueued' /\ \A g \in Handles : KeepsOrder(g)
      BY <1>0, <2>1, Bufs, JoinsHeld, JoinsKeeps
    <2> QED
      BY <1>2, <2>1, <2>2
  <1>10. ASSUME NEW h \in Handles, Q!Reclaim(ReadBuf(h)),
                UNCHANGED <<streaming, stream>>,
                \A g \in Handles : call[g] = "starting" => call'[g] = "starting"
         PROVE  OrderInv'
    <2>1. Returns({ReadBuf(h)})
      BY <1>0, <1>10, Bufs DEF Q!Reclaim, Returns, QueueTypes
    <2>2. HeldQueued' /\ \A g \in Handles : KeepsOrder(g)
      BY <1>0, <2>1, Bufs, ReturnsHeld, ReturnsKeeps
    <2> QED
      BY <1>2, <1>10, <2>2
  <1>11. ASSUME NEW h \in VideoHandles, ReadCopy(h) PROVE OrderInv'
    BY <1>1, <1>2, <1>10, <1>11 DEF ReadCopy, VideoHandles, videobuf
  <1>12. ASSUME NEW h \in Handles, ReleaseReadBuf(h) PROVE OrderInv'
    BY <1>0, <1>1, <1>2, <1>10, <1>12 DEF ReleaseReadBuf, videobuf, HandleTypes
  \* The stream of h itself changes, or whether it runs.
  <1>13. ASSUME NEW h \in Handles, HeldQueued', StreamOK(h)',
                \A g \in Handles : g # h =>
                    /\ stream'[g] = stream[g] /\ call'[g] = call[g]
                    /\ g \in streaming' => g \in streaming
                    /\ g \in streaming => KeepsOrder(g)
         PROVE  OrderInv'
    <2>1. ASSUME NEW g \in Handles PROVE StreamOK(g)'
      BY <1>0, <1>13, <2>1, StreamKept
    <2> QED
      BY <1>13, <2>1
  <1>14. ASSUME NEW h \in Handles, stream'[h] = <<>> PROVE StreamOK(h)'
    BY <1>14 DEF StreamOK
  <1>15. ASSUME NEW h \in VideoHandles, Reqbufs(h) PROVE OrderInv'
    BY <1>0, <1>1, <1>13, <1>14, <1>15 DEF Reqbufs, VideoHandles, HandleTypes
  <1>16. ASSUME NEW h \in Handles, ReleaseRest(h) PROVE OrderInv'
    BY <1>0, <1>1, <1>13, <1>14, <1>16 DEF ReleaseRest, HandleTypes
  <1>17. ASSUME NEW h \in Handles, Drain(h) PROVE OrderInv'
    <2>1. Returns(StreamBufs(h))
      BY <1>0, <1>17, Bufs DEF Drain, WithDriver, Returns
    <2>2. HeldQueued' /\ \A g \in Handles : g # h => KeepsOrder(g)
      BY <1>0, <2>1, Bufs, ReturnsHeld, ReturnsKeeps
    <2> QED
      BY <1>0, <1>13, <1>14, <1>17, <2>2 DEF Drain, HandleTypes
  <1>18. ASSUME NEW h \in Handles, Cancel(h) PROVE OrderInv'
    <2>1. CASE UNCHANGED queue
      BY <1>0, <1>1, <1>2, <1>18, <2>1 DEF Cancel, videobuf, HandleTypes
    <2>2. ASSUME NEW k \in (started + 1)..Len(pending), pending[k] \in StreamBufs(h),
                 Q!Cancel(k), UNCHANGED call
          PROVE  OrderInv'
      <3>1. k \in 1..Len(pending) /\ Leaves(k)
        BY <1>0, <2>2, CancelLeaves DEF QueueTypes
      <3>2. HeldQueued' /\ \A g \in Handles : g # h => KeepsOrder(g)
        BY <1>0, <2>2, <3>1, Bufs, LeavesHeld, LeavesKeeps
      <3>3. h \notin streaming
        BY <1>0, <1>18 DEF CallInv, Cancel
      <3> QED
        BY <1>2, <1>18, <2>2, <3>2, <3>3 DEF Cancel, videobuf
    <2> QED
      BY <1>18, <2>1, <2>2 DEF Cancel
  <1>19. ASSUME NEW h \in Handles, VideobufStreamOn(h) PROVE OrderInv'
    <2>1. /\ UNCHANGED queue /\ UNCHANGED stream /\ call[h] = "requeue"
          /\ \A g \in Handles : g # h => call'[g] = call[g]
                                     /\ (g \in streaming' => g \in streaming)
      BY <1>0, <1>19 DEF VideobufStreamOn, HandleTypes
    <2>2. CASE UNCHANGED streaming
      BY <1>1, <1>2, <2>1, <2>2
    <2>3. CASE h \notin streaming /\ call'[h] = "starting"
      <3>1. \A i \in 1..Len(stream[h]) : result[stream[h][i]] = "app"
        BY <1>0, <2>1, <2>3 DEF BufInv
      <3>2. ASSUME NEW i \in 1..Len(stream[h]), NEW j \in 1..Len(stream[h])
            PROVE  Precedes(stream[h][i], stream[h][j])'
        BY <1>0, <2>1, <3>1 DEF Precedes, Finished, FifoWhole, queue
      <3>3. StreamOK(h)'
        BY <1>0, <2>1, <2>3, <3>2 DEF StreamOK
      <3> QED
        BY <1>1, <1>13, <2>1, <3>3
    <2> QED
      BY <1>0, <1>19, <2>2, <2>3 DEF VideobufStreamOn, HandleTypes
  <1>20. ASSUME NEW h \in Handles, Starting(h) PROVE OrderInv'
    <2> DEFINE waiting == {i \in 1..Len(stream[h]) : result[stream[h][i]] = "app"}
    <2>1. CASE waiting = {} /\ UNCHANGED queue /\ call' = [call EXCEPT ![h] = "idle"]
      <3>1. UNCHANGED <<streaming, stream>>
        BY <1>20 DEF Starting, videobuf
      <3>2. \A i \in 1..Len(stream[h]) : result[stream[h][i]] # "app"
        BY <2>1
      <3>3. UNCHANGED <<pending, result>>
        BY <2>1 DEF queue
      <3>4. ASSUME NEW i \in 1..Len(stream[h]), NEW j \in 1..Len(stream[h]), i < j
            PROVE  Precedes(stream[h][i], stream[h][j])'
        BY <1>0, <1>20, <3>1, <3>3, <3>4
        DEF CallInv, Starting, StreamOK, Precedes, Finished
      <3>5. StreamOK(h)'
        <4> HIDE DEF waiting
        <4> QED
          BY <1>0, <3>1, <3>2, <3>3, <3>4 DEF StreamOK
      <3> QED
        BY <1>0, <1>1, <1>13, <2>1, <3>1, <3>5 DEF HandleTypes
    <2>2. ASSUME NEW k \in waiting, \A j \in waiting : k <= j,
                 Q!Submit(stream[h][k]), UNCHANGED call
          PROVE  OrderInv'
      <3> DEFINE d == stream[h][k]
      <3>1. /\ UNCHANGED <<streaming, stream>> /\ h \in streaming
            /\ k \in 1..Len(stream[h]) /\ d \in StreamBufs(h) /\ d \in CaptureBufs
        BY <1>0, <1>20, Bufs DEF Starting, videobuf, CallInv, BufInv
      <3>2. Joins(d)
        BY <1>0, <2>2, <3>1, SubmitJoins
      <3>3. HeldQueued' /\ \A g \in Handles : g # h => KeepsOrder(g)
        BY <1>0, <3>1, <3>2, Bufs, JoinsHeld, JoinsKeeps
      <3>4. ASSUME NEW i \in 1..Len(stream[h]), NEW j \in 1..Len(stream[h]), i < j
            PROVE  Precedes(stream[h][i], stream[h][j])'
        <4>1. /\ stream[h][i] # stream[h][j] /\ Precedes(stream[h][i], stream[h][j])
              /\ stream[h][i] \in CaptureBufs /\ stream[h][j] \in CaptureBufs
          BY <1>0, <3>1, <3>4, Bufs DEF StreamOK, BufInv
        <4>2. ASSUME d = stream[h][j] PROVE result[stream[h][i]] # "app"
          <5>1. k = j
            BY <1>0, <3>1, <4>2 DEF StreamOK, HandleTypes
          <5> QED
            BY <2>2, <3>4, <5>1
        <4> HIDE DEF d
        <4> QED
          BY <1>0, <3>1, <3>2, <4>1, <4>2, JoinsPrecedes
      <3>5. StreamOK(h)'
        BY <1>0, <1>20, <2>2, <3>1, <3>4 DEF StreamOK, Starting
      <3> QED
        BY <1>13, <2>2, <3>1, <3>3, <3>5
    <2> QED
      BY <1>20, <2>1, <2>2 DEF Starting
  <1>21. ASSUME NEW h \in VideoHandles, NEW b \in StreamBufs(h), Qbuf(h, b)
         PROVE  OrderInv'
    <2>1. /\ h \in Handles /\ b \in CaptureBufs /\ call[h] = "idle"
          /\ UNCHANGED <<call, streaming>>
          /\ \A g \in Handles : g # h => stream'[g] = stream[g]
      BY <1>0, <1>21, Bufs DEF Qbuf, Ioctl, VideoHandles, HandleTypes
    <2>2. /\ Len(stream'[h]) = Len(stream[h]) + 1 /\ Len(stream[h]) \in Nat
          /\ \A i \in 1..Len(stream[h]) : stream'[h][i] = stream[h][i]
          /\ stream'[h][Len(stream[h]) + 1] = b
      <3>1. stream[h] \in Seq(CaptureBufs) /\ stream'[h] = Append(stream[h], b)
        BY <1>0, <1>21, <2>1 DEF Qbuf, HandleTypes
      <3> QED
        BY <2>1, <3>1, AppendProperties, LenProperties
    <2>3. \A i \in 1..Len(stream[h]) : /\ stream[h][i] # b
                                      /\ stream[h][i] \in StreamBufs(h)
                                      /\ stream[h][i] \in CaptureBufs
      BY <1>0, <1>21, <2>1, Bufs DEF Qbuf, ToSet, BufInv
    <2>4. \A i \in 1..(Len(stream[h]) + 1) :
             i = Len(stream[h]) + 1 \/ i \in 1..Len(stream[h])
      BY <2>2
    <2>5. ASSUME NEW i \in 1..Len(stream'[h]), NEW j \in 1..Len(stream'[h]), i < j
          PROVE  i \in 1..Len(stream[h]) /\ stream'[h][i] # stream'[h][j]
      BY SMTT(60), <1>0, <2>1, <2>2, <2>3, <2>4, <2>5 DEF StreamOK
    <2>6. CASE h \notin streaming /\ UNCHANGED queue
      <3>1. StreamOK(h)'
        BY <2>1, <2>5, <2>6 DEF StreamOK
      <3> QED
        BY <1>1, <1>13, <2>1, <2>6, <3>1
    <2>7. CASE h \in streaming /\ Q!Submit(b)
      <3>1. Joins(b)
        BY <1>0, <2>1, <2>7, SubmitJoins
      <3>2. HeldQueued' /\ \A g \in Handles : g # h => KeepsOrder(g)
        BY <1>0, <2>1, <3>1, Bufs, JoinsHeld, JoinsKeeps
      <3>3. \A i \in 1..Len(stream[h]) : result[stream[h][i]] # "app"
        BY <1>0, <2>1, <2>7 DEF StreamOK
      <3>4. ASSUME NEW i \in 1..Len(stream'[h]), NEW j \in 1..Len(stream'[h]), i < j
            PROVE  Precedes(stream[h][i], stream[h][j])'
        <4>1. i \in 1..Len(stream[h]) /\ stream'[h][i] = stream[h][i]
          BY <2>2, <2>5, <3>4
        <4>2. PICK c1 \in CaptureBufs : c1 = stream'[h][i]
          BY <2>3, <4>1
        <4>3. PICK c2 \in CaptureBufs : c2 = stream'[h][j]
          BY <2>1, <2>2, <2>3, <2>4
        <4>4. CASE j \in 1..Len(stream[h])
          <5>1. c1 # c2 /\ Precedes(c1, c2)
            BY <1>0, <2>1, <2>2, <2>7, <3>4, <4>1, <4>2, <4>3, <4>4 DEF StreamOK
          <5>2. c2 # b
            BY <2>2, <2>3, <4>3, <4>4
          <5>3. Precedes(c1, c2)'
            BY <1>0, <2>1, <3>1, <5>1, <5>2, JoinsPrecedes
          <5> QED
            BY <4>2, <4>3, <5>3
        <4>5. CASE j = Len(stream[h]) + 1
          <5>1. c2 = b
            BY <2>2, <4>3, <4>5
          <5>2. c1 # b /\ result[c1] # "app"
            BY <2>3, <3>3, <4>1, <4>2
          <5>3. Precedes(c1, b)'
            BY <1>0, <2>1, <3>1, <5>2, JoinsLast
          <5> QED
            BY <4>2, <4>3, <5>1, <5>3
        <4> QED
          BY <2>2, <2>4, <4>4, <4>5
      <3>5. \A i \in 1..Len(stream'[h]) : result'[stream'[h][i]] # "app"
        BY <2>1, <2>2, <2>3, <2>4, <3>1, <3>3 DEF Joins
      <3>6. StreamOK(h)'
        BY <2>5, <3>4, <3>5 DEF StreamOK
      <3> QED
        BY <1>13, <2>1, <3>2, <3>6
    <2> QED
      BY <1>21, <2>6, <2>7 DEF Qbuf
  <1>22. ASSUME NEW h \in VideoHandles, Dqbuf(h) PROVE OrderInv'
    <2>1. /\ h \in Handles /\ h \in streaming /\ stream[h] # <<>>
          /\ UNCHANGED <<call, streaming>>
          /\ \A g \in Handles : g # h => stream'[g] = stream[g]
      BY <1>0, <1>22 DEF Dqbuf, VideoHandles, HandleTypes
    <2>2. /\ Len(stream[h]) \in Nat /\ 1 \in 1..Len(stream[h])
          /\ Head(stream[h]) = stream[h][1]
          /\ \A i \in 1..Len(stream'[h]) :
                i + 1 \in 1..Len(stream[h]) /\ stream'[h][i] = stream[h][i + 1]
      <3>1. stream[h] \in Seq(CaptureBufs) /\ stream'[h] = Tail(stream[h])
        BY <1>0, <1>22, <2>1 DEF Dqbuf, HandleTypes
      <3> QED
        BY <2>1, <3>1
    <2> DEFINE d == stream[h][1]
    <2>3. d \in StreamBufs(h) /\ d \in CaptureBufs
      BY <1>0, <2>1, <2>2, Bufs DEF BufInv
    <2>4. Returns({d})
      BY <1>0, <1>22, <2>2, <2>3 DEF Dqbuf, Q!Reclaim, Returns, QueueTypes
    <2>5. HeldQueued' /\ \A g \in Handles : g # h => KeepsOrder(g)
      BY <1>0, <2>1, <2>3, <2>4, Bufs, ReturnsHeld, ReturnsKeeps
    <2>6. \A i \in 1..Len(stream'[h]) :
             /\ stream[h][i + 1] # d /\ stream[h][i + 1] \in CaptureBufs
             /\ stream'[h][i] = stream[h][i + 1]
      BY <1>0, <2>1, <2>2, Bufs DEF StreamOK, BufInv
    <2>7. ASSUME NEW i \in 1..Len(stream'[h]), NEW j \in 1..Len(stream'[h]), i < j
          PROVE  (stream[h][i] # stream[h][j] /\ Precedes(stream[h][i], stream[h][j]))'
      <3>1. /\ i + 1 \in 1..Len(stream[h]) /\ j + 1 \in 1..Len(stream[h])
            /\ i + 1 < j + 1
        BY <2>2, <2>7
      <3>2. PICK c1 \in CaptureBufs : c1 = stream[h][i + 1] /\ c1 = stream'[h][i]
        BY <2>6
      <3>3. PICK c2 \in CaptureBufs : c2 = stream[h][j + 1] /\ c2 = stream'[h][j]
        BY <2>6
      <3>4. c1 # c2 /\ Precedes(c1, c2) /\ c1 # d
        BY <1>0, <2>1, <2>6, <3>1, <3>2, <3>3 DEF StreamOK
      <3>5. Precedes(c1, c2)'
        BY <2>4, <3>4, ReturnsPrecedes
      <3> QED
        BY <3>2, <3>3, <3>4, <3>5
    <2>8. ASSUME call[h] # "starting", NEW i \in 1..Len(stream'[h])
          PROVE  result'[stream'[h][i]] # "app"
      <3>1. /\ i + 1 \in 1..Len(stream[h]) /\ stream[h][i + 1] # d
            /\ stream[h][i + 1] \in CaptureBufs /\ stream'[h][i] = stream[h][i + 1]
        BY <2>2, <2>6
      <3>2. result[stream[h][i + 1]] # "app"
        BY <1>0, <2>1, <2>8, <3>1 DEF StreamOK
      <3> HIDE DEF d
      <3> QED
        BY <2>4, <3>1, <3>2 DEF Returns
    <2>9. StreamOK(h)'
      BY <2>1, <2>7, <2>8 DEF StreamOK
    <2> QED
      BY <1>13, <2>1, <2>5, <2>9
  <1>23. ASSUME NEW h \in Handles, StreamOn(h) PROVE OrderInv'
    BY <1>0, <1>1, <1>2, <1>23 DEF StreamOn, Ioctl, videobuf, HandleTypes
  <1>24. ASSUME NEW h \in Handles, Requeue(h) PROVE OrderInv'
    <2>1. HeldQueued' /\ \A g \in Handles : KeepsOrder(g)
      BY <1>0, <1>24, StartQueue, SameKeeps DEF Requeue, HeldQueued
    <2> QED
      BY <1>2, <1>24, <2>1 DEF Requeue, videobuf
  <1> QED
    BY <1>3, <1>4, <1>5, <1>6, <1>7, <1>8, <1>9, <1>11, <1>12, <1>15, <1>16, <1>17,
       <1>18, <1>19, <1>20, <1>21, <1>22, <1>23, <1>24
    DEF CaptureNext, Proceed, VideoHandles, VbiHandles

-----------------------------------------------------------------------------
\* While a handle streams, no later buffer of its stream has come back while
\* DQBUF waits for an earlier one: frames reach the application in the order
\* in which it has queued the buffers, whatever other handles do.
THEOREM OldestComesFirstHolds == CaptureSpec => []OldestComesFirst
  <1>1. CaptureInit => OrderInv
    BY Bufs
    DEF CaptureInit, OrderInv, HeldQueued, StreamInv, StreamOK, Precedes, Q!Init
  <1>2. Inv /\ OrderInv /\ [CaptureNext]_<<queue, handle>> => OrderInv'
    BY OrderStep
  <1>3. OrderInv => OldestComesFirst
    BY DEF OrderInv, StreamInv, StreamOK, Precedes, OldestComesFirst, Finished,
           WithDriver, VideoHandles
  <1> QED
    BY <1>1, <1>2, <1>3, InvHolds, PTL DEF CaptureSpec

-----------------------------------------------------------------------------
(***************************************************************************)
(* STREAMOFF and close wait in "drain" for buffers that the driver has.    *)
(* Why this ends, short of fairness: all of them have been started, so     *)
(* that the queue owes them; none is added; and each delivery or timeout   *)
(* brings every one of them nearer to the head of the queue.               *)
(***************************************************************************)

\* What videobuf_queue_cancel could not take back has been started.
DrainWaitsForStarted ==
    \A h \in Handles : call[h] = "drain" =>
        \A i \in 1..Len(pending) : pending[i] \in StreamBufs(h) => i <= started

\* While a handle drains, a buffer of its stream that is in the queue was there
\* before, and no nearer to the head; if the driver moved, it was behind.
DrainAdvances ==
    \A h \in Handles : call[h] = "drain" =>
        \A i \in 1..Len(pending') : pending'[i] \in StreamBufs(h) =>
            \E k \in 1..Len(pending) :
                /\ pending[k] = pending'[i] /\ i <= k
                /\ Driver => i < k

\* What a step of the queue does to the places of the buffers of h: none
\* is added, none goes back, and what has been started stays so.
KeepsPlaces(h) ==
    \A i \in 1..Len(pending') : pending'[i] \in StreamBufs(h) =>
        \E k \in 1..Len(pending) :
            /\ pending[k] = pending'[i] /\ i <= k
            /\ k <= started => i <= started'

LEMMA SubmitPlaces ==
    ASSUME QueueTypes, NEW h \in Handles, NEW b \in CaptureBufs \ StreamBufs(h),
           Q!Submit(b)
    PROVE  KeepsPlaces(h)
  <1>1. Joins(b) /\ started <= started' /\ Len(pending) \in Nat
    <2>1. started' \in {started, started + 1} /\ started \in Nat
      BY DEF Q!Submit, QueueTypes
    <2> QED
      BY <2>1, SubmitJoins DEF QueueTypes
  <1>2. \A i \in 1..Len(pending') : i \in 1..Len(pending) \/ pending'[i] = b
    BY <1>1 DEF Joins
  <1>3. ASSUME NEW i \in 1..Len(pending) PROVE i <= started => i <= started'
    BY <1>1 DEF Q!Submit, QueueTypes
  <1> QED
    BY <1>1, <1>2, <1>3 DEF KeepsPlaces, Joins

LEMMA CancelPlaces ==
    ASSUME QueueTypes, NEW h \in Handles, NEW c \in (started + 1)..Len(pending),
           Q!Cancel(c)
    PROVE  KeepsPlaces(h)
  <1>1. /\ c \in 1..Len(pending) /\ c > started
        /\ Len(pending) \in Nat /\ started \in Nat /\ started' = started
    BY DEF Q!Cancel, QueueTypes
  <1>2. /\ Len(pending') = Len(pending) - 1
        /\ \A i \in 1..Len(pending') :
              pending'[i] = IF i < c THEN pending[i] ELSE pending[i + 1]
    BY <1>1, CancelPending
  <1>3. ASSUME NEW i \in 1..Len(pending')
        PROVE  \E k \in 1..Len(pending) :
                  pending[k] = pending'[i] /\ i <= k /\ (k <= started => i <= started')
    <2>1. CASE i < c
      BY <1>1, <1>2, <2>1
    <2>2. CASE i >= c
      <3>1. i + 1 \in 1..Len(pending) /\ pending'[i] = pending[i + 1]
        BY <1>1, <1>2, <2>2
      <3>2. i <= i + 1 /\ (i + 1 <= started => i <= started')
        BY <1>1
      <3> QED
        BY <3>1, <3>2
    <2> QED
      BY <1>1, <2>1, <2>2
  <1> QED
    BY <1>3 DEF KeepsPlaces

LEMMA SamePlaces ==
    ASSUME QueueTypes, NEW h \in Handles, pending' = pending,
           started <= started', started' \in Nat
    PROVE  KeepsPlaces(h)
  BY DEF KeepsPlaces, QueueTypes

\* The driver moves: what has been started goes forward or away.
LEMMA DriverPlaces ==
    ASSUME QueueTypes, Q!Deliver \/ Q!Timeout, NEW h \in Handles,
           \A i \in 1..Len(pending) : pending[i] \in StreamBufs(h) => i <= started
    PROVE  \A i \in 1..Len(pending') : pending'[i] \in StreamBufs(h) =>
              \E k \in 1..Len(pending) :
                  pending[k] = pending'[i] /\ i < k /\ i <= started'
  <1>1. CASE Q!Deliver
    <2>1. /\ Len(pending) \in Nat /\ started \in Nat /\ started' = started - 1
          /\ Len(pending') = Len(pending) - 1
          /\ \A i \in 1..(Len(pending) - 1) : pending'[i] = pending[i + 1]
      BY <1>1 DEF Q!Deliver, QueueTypes
    <2>2. ASSUME NEW i \in 1..Len(pending'), pending'[i] \in StreamBufs(h)
          PROVE  /\ i + 1 \in 1..Len(pending) /\ pending[i + 1] = pending'[i]
                 /\ i < i + 1 /\ i <= started'
      <3>1. i + 1 \in 1..Len(pending) /\ pending[i + 1] = pending'[i]
        BY <2>1
      <3>2. i + 1 <= started
        BY <2>2, <3>1
      <3> QED
        BY <2>1, <3>1, <3>2
    <2> QED
      BY <2>2
  <1>2. CASE Q!Timeout
    <2> DEFINE rest == SubSeq(pending, started + 1, Len(pending))
    <2>1. /\ Len(rest) = Len(pending) - started /\ Len(pending) \in Nat
          /\ started \in Nat
          /\ \A i \in 1..Len(rest) : rest[i] = pending[started + i]
      BY SMTT(60) DEF QueueTypes
    <2>2. pending' = rest
      BY <1>2 DEF Q!Timeout
    <2> HIDE DEF rest
    <2>3. ASSUME NEW i \in 1..Len(pending') PROVE pending'[i] \notin StreamBufs(h)
      <3>1. /\ started + i \in 1..Len(pending) /\ ~(started + i <= started)
            /\ pending'[i] = pending[started + i]
        BY <2>1, <2>2
      <3> QED
        BY <3>1
    <2> QED
      BY <2>3
  <1> QED
    BY <1>1, <1>2

\* Who drains keeps the places unless the driver moves, and drains on or is
\* done.
LEMMA DrainPlaces ==
    ASSUME Inv, [CaptureNext]_<<queue, handle>>, ~Driver,
           NEW h \in Handles, call[h] = "drain"
    PROVE  KeepsPlaces(h)
  <1>0. QueueTypes /\ HandleTypes /\ FifoWhole /\ CallInv /\ BufInv
    BY Types DEF Inv
  <1>1. ASSUME UNCHANGED <<pending, started>> PROVE KeepsPlaces(h)
    BY <1>0, <1>1, SamePlaces DEF QueueTypes
  <1>2. ASSUME NEW g \in VideoHandles, NEW b \in StreamBufs(g), Qbuf(g, b)
        PROVE  KeepsPlaces(h)
    <2>1. g # h /\ b \in CaptureBufs \ StreamBufs(h)
      BY <1>2, Bufs DEF Qbuf, Ioctl, VideoHandles
    <2> QED
      BY <1>0, <1>1, <1>2, <2>1, SubmitPlaces DEF Qbuf, queue
  <1>3. ASSUME NEW g \in Handles, Starting(g) PROVE KeepsPlaces(h)
    <2>1. ASSUME NEW i \in 1..Len(stream[g]), Q!Submit(stream[g][i])
          PROVE  KeepsPlaces(h)
      <3>1. g # h /\ stream[g][i] \in StreamBufs(g)
        BY <1>0, <1>3 DEF Starting, BufInv
      <3>2. stream[g][i] \in CaptureBufs \ StreamBufs(h)
        BY <3>1, Bufs
      <3> QED
        BY <1>0, <2>1, <3>2, SubmitPlaces
    <2> QED
      BY <1>1, <1>3, <2>1 DEF Starting, queue
  <1>4. ASSUME NEW g \in Handles, Cancel(g) PROVE KeepsPlaces(h)
    BY <1>0, <1>1, <1>4, CancelPlaces DEF Cancel, queue
  <1>5. ASSUME NEW g \in Handles, Requeue(g) PROVE KeepsPlaces(h)
    <2>1. pending' = pending /\ started' \in (started + 1)..Len(pending)
      BY <1>5 DEF Requeue, Q!Start
    <2>2. started <= started' /\ started' \in Nat
      BY <1>0, <2>1 DEF QueueTypes
    <2> QED
      BY <1>0, <2>1, <2>2, SamePlaces
  <1>6. ASSUME NEW g \in VideoHandles, ReadQueue(g) PROVE KeepsPlaces(h)
    <2>1. ReadBuf(g) \in CaptureBufs \ StreamBufs(h)
      BY Bufs DEF VideoHandles
    <2> QED
      BY <1>0, <1>6, <2>1, SubmitPlaces DEF ReadQueue
  <1>7. ASSUME NEW g \in Handles,
               \/ Open(g) \/ StreamOn(g) \/ VideobufStreamOn(g) \/ StreamOff(g)
               \/ Release(g) \/ Drain(g) \/ FreeResource(g) \/ ReleaseReadBuf(g)
               \/ ReleaseRest(g) \/ Reqbufs(g) \/ Dqbuf(g) \/ ReadCheck(g)
               \/ ReadCopy(g) \/ ReadAbandon(g) \/ ReadVbi(g) \/ PollVbi(g)
        PROVE  KeepsPlaces(h)
    BY <1>1, <1>7
    DEF Open, StreamOn, VideobufStreamOn, StreamOff, Release, Drain, FreeResource,
        ReleaseReadBuf, ReleaseRest, Reqbufs, Dqbuf, ReadCheck, ReadCopy,
        ReadAbandon, ReadVbi, PollVbi, Q!Reclaim, queue
  <1>8. CASE UNCHANGED <<queue, handle>>
    BY <1>1, <1>8 DEF queue
  <1> QED
    BY <1>2, <1>3, <1>4, <1>5, <1>6, <1>7, <1>8
    DEF CaptureNext, Proceed, VideoHandles, VbiHandles

\* A handle begins to drain when nothing of it waits to be started.
LEMMA DrainBegins ==
    ASSUME Inv, [CaptureNext]_<<queue, handle>>,
           NEW h \in Handles, call'[h] = "drain", call[h] # "drain"
    PROVE  /\ UNCHANGED <<pending, started>>
           /\ \A i \in 1..Len(pending) : pending[i] \in StreamBufs(h)
                                             => i <= started
  <1>0. QueueTypes /\ HandleTypes
    BY Types DEF Inv
  <1>1. ASSUME UNCHANGED call PROVE FALSE
    BY <1>1
  <1>2. ASSUME NEW g \in Handles, NEW c, call' = [call EXCEPT ![g] = c],
               c # "drain"
        PROVE  FALSE
    BY <1>0, <1>2 DEF HandleTypes
  <1>3. ASSUME NEW g \in Handles, Cancel(g)
        PROVE  /\ g = h /\ UNCHANGED <<pending, started>>
               /\ \A i \in (started + 1)..Len(pending) :
                     pending[i] \notin StreamBufs(h)
    BY <1>0, <1>1, <1>3 DEF Cancel, HandleTypes, queue
  <1>4. ASSUME NEW g \in Handles, Cancel(g)
        PROVE  \A i \in 1..Len(pending) : pending[i] \in StreamBufs(h)
                                             => i <= started
    <2>1. ASSUME NEW i \in 1..Len(pending), i > started
          PROVE  i \in (started + 1)..Len(pending)
      BY <1>0, <2>1 DEF QueueTypes
    <2> QED
      BY <1>0, <1>3, <1>4, <2>1 DEF QueueTypes
  <1>5. ASSUME NEW g \in Handles,
               \/ Open(g) \/ StreamOn(g) \/ Requeue(g) \/ VideobufStreamOn(g)
               \/ Starting(g) \/ StreamOff(g) \/ Release(g) \/ Drain(g)
               \/ FreeResource(g) \/ ReleaseReadBuf(g) \/ ReleaseRest(g)
        PROVE  FALSE
    BY <1>1, <1>2, <1>5
    DEF Open, StreamOn, Requeue, VideobufStreamOn, Starting, StreamOff, Release,
        Stop, Drain, FreeResource, ReleaseReadBuf, ReleaseRest
  <1>6. ASSUME NEW g \in Handles, NEW b,
               \/ Qbuf(g, b) \/ Reqbufs(g) \/ Dqbuf(g) \/ ReadCheck(g)
               \/ ReadQueue(g) \/ ReadCopy(g) \/ ReadAbandon(g) \/ ReadVbi(g)
               \/ PollVbi(g)
        PROVE  FALSE
    BY <1>1, <1>6
    DEF Qbuf, Reqbufs, Dqbuf, ReadCheck, ReadQueue, ReadCopy, ReadAbandon, ReadVbi,
        PollVbi
  <1>7. CASE Driver \/ UNCHANGED <<queue, handle>>
    BY <1>1, <1>7 DEF Driver, handle
  <1> QED
    BY <1>3, <1>4, <1>5, <1>6, <1>7
    DEF CaptureNext, Proceed, VideoHandles, VbiHandles

LEMMA DrainStep ==
    ASSUME Inv, DrainWaitsForStarted, [CaptureNext]_<<queue, handle>>
    PROVE  DrainWaitsForStarted' /\ DrainAdvances
  <1>0. QueueTypes /\ QueueTypes'
    BY Types, QueueStep DEF Inv
  <1>1. ASSUME NEW h \in Handles, call[h] = "drain"
        PROVE  /\ \A i \in 1..Len(pending') : pending'[i] \in StreamBufs(h)
                     => i <= started'
               /\ \A i \in 1..Len(pending') : pending'[i] \in StreamBufs(h)
                     => \E k \in 1..Len(pending) :
                           /\ pending[k] = pending'[i] /\ i <= k
                           /\ Driver => i < k
    <2>1. \A i \in 1..Len(pending) : pending[i] \in StreamBufs(h) => i <= started
      BY <1>1 DEF DrainWaitsForStarted
    <2>2. CASE Driver
      <3>1. \A i \in 1..Len(pending') : pending'[i] \in StreamBufs(h) =>
              \E k \in 1..Len(pending) :
                  pending[k] = pending'[i] /\ i < k /\ i <= started'
        BY <1>0, <2>1, <2>2, DriverPlaces DEF Driver
      <3>2. \A i \in 1..Len(pending'), k \in 1..Len(pending) : i < k => i <= k
        BY <1>0 DEF QueueTypes
      <3> QED
        BY <3>1, <3>2
    <2>3. CASE ~Driver
      BY <1>1, <2>1, <2>3, DrainPlaces DEF KeepsPlaces
    <2> QED
      BY <2>2, <2>3
  <1>2. DrainWaitsForStarted'
    <2> SUFFICES ASSUME NEW h \in Handles, call'[h] = "drain",
                        NEW i \in 1..Len(pending'), pending'[i] \in StreamBufs(h)
                 PROVE  i <= started'
      BY DEF DrainWaitsForStarted, StreamBufs
    <2>1. CASE call[h] = "drain"
      BY <1>1, <2>1
    <2>2. CASE call[h] # "drain"
      BY <2>2, DrainBegins
    <2> QED
      BY <2>1, <2>2
  <1>3. DrainAdvances
    BY <1>1 DEF DrainAdvances
  <1> QED
    BY <1>2, <1>3

LEMMA DrainInit == ASSUME CaptureInit PROVE DrainWaitsForStarted
  BY DEF CaptureInit, DrainWaitsForStarted

\* STREAMOFF and close wait only for what has been started.  While they wait
\* for a buffer, then, the driver has one to deliver or to fail.
THEOREM DrainWaitsForStartedHolds == CaptureSpec => []DrainWaitsForStarted
  <1>1. CaptureInit => DrainWaitsForStarted
    BY DrainInit
  <1>2. Inv /\ DrainWaitsForStarted /\ [CaptureNext]_<<queue, handle>>
          => DrainWaitsForStarted'
    BY DrainStep
  <1> QED
    BY <1>1, <1>2, InvHolds, PTL DEF CaptureSpec

\* No step gives the driver another buffer to wait for, and each of the
\* driver's steps brings all of those that are waited for nearer to their end.
THEOREM DrainAdvancesHolds == CaptureSpec => [][DrainAdvances]_<<queue, handle>>
  <1>1. Inv /\ DrainWaitsForStarted /\ [CaptureNext]_<<queue, handle>>
          => DrainAdvances
    BY DrainStep
  <1> QED
    BY <1>1, InvHolds, DrainWaitsForStartedHolds, PTL DEF CaptureSpec
=============================================================================
