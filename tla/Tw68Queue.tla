------------------------------ MODULE Tw68Queue ------------------------------
(***************************************************************************)
(* The video DMA queue of the tw68 driver: the two buffer lists of         *)
(* struct tw68_dmaqueue, the functions that move buffers between them      *)
(* (tw68-core.c), the callbacks they call (tw68-video.c), the watchdog     *)
(* timer, the interrupt handler, and the part of the chip they drive: the  *)
(* DMAP engine that runs one RISC program per buffer, its interrupt status *)
(* and mask, and the scaler.                                               *)
(*                                                                         *)
(* What runs under dev->slock is one action.  The chip, the read and the   *)
(* acknowledgement of the interrupt status, and the expiry of the timer    *)
(* hold no lock, and are actions of their own.  The videobuf layer is the  *)
(* environment: it prepares, queues, cancels, dequeues and releases        *)
(* buffers in every order the state of a buffer allows.                    *)
(***************************************************************************)
EXTENDS Naturals, Sequences, SequencesExt

CONSTANTS
    Bufs,          \* the buffers, struct tw68_buf
    Dims,          \* width, height and pixel format: what buf_compat compares
    Fields,        \* the field order of a capture, V4L2_FIELD_*
    Stopper,       \* the stopper program the engine idles in
    Off,           \* the engine with TW68_DMAP_EN clear
    DMAPI,         \* the interrupt bit of a finished program
    Faults,        \* the other bits of board_virqmask that can be raised:
                   \* FFOF, FFERR, PABORT, DMAPERR, FDMIS, HLOCK, VLOCK
    MaxIrqLoops    \* passes of the loop in tw68_irq (10 in the code)

ASSUME QueueAssumption ==
    /\ Bufs # {} /\ Dims # {} /\ Fields # {}
    /\ Stopper \notin Bufs /\ Off \notin Bufs /\ Stopper # Off
    /\ DMAPI \notin Faults
    /\ MaxIrqLoops \in Nat \ {0}

VARIABLES
    active,     \* q->active: chained, being filled in this order
    queued,     \* q->queued: waiting for a change of settings
    state,      \* buf->vb.state
    geom,       \* buf->vb.width, height, buf->fmt (dim) and buf->vb.field
    jmp,        \* where the jump that ends the program of a buffer leads
    timer,      \* q->timeout is pending
    firing,     \* it has expired, tw68_buffer_timeout has not run yet
    irq,        \* tw68_irq: where it is, the status it took, the pass
    pp,         \* the program the engine is in (TW68_DMAP_PP)
    hwgeom,     \* what tw68_set_scale last wrote for the scaler
    intstat,    \* TW68_INTSTAT, the bits of board_virqmask
    intmask,    \* TW68_INTMASK lets them through
    full,       \* history: the buffers the engine has filled, since they
                \* went to the active list and until they are taken back
    lateIrq     \* history: start_dma has run while tw68_irq was between its
                \* acknowledgement of a DMAPI and the wakeup for it

lists == <<active, queued>>
chip == <<pp, hwgeom, intstat, intmask>>
vars == <<active, queued, state, geom, jmp, timer, firing, irq,
          pp, hwgeom, intstat, intmask, full, lateIrq>>

-----------------------------------------------------------------------------
BufStates == {"NEEDS_INIT", "PREPARED", "QUEUED", "ACTIVE", "DONE", "ERROR",
              "IDLE"}
IntBits == {DMAPI} \union Faults
Geoms == [dim : Dims, field : Fields]

IrqIdle == [pc |-> "idle", status |-> {}, loop |-> 0]

\* tw68_irq has acknowledged a DMAPI and not yet called tw68_wakeup for it.
WakeupPending == irq.pc = "serve" /\ DMAPI \in irq.status

\* A mistake: every buffer is chained, whatever its size and format.
BufCompatAlways(prev, buf) == TRUE

\* tw68_check_video_fmt: the programs can be chained without a change of
\* format.  The field order is not compared.
BufCompat(prev, buf) == geom[prev].dim = geom[buf].dim

Init ==
    /\ active = <<>> /\ queued = <<>>
    /\ state = [b \in Bufs |-> "NEEDS_INIT"]
    /\ geom \in [Bufs -> Geoms]
    /\ \A b, c \in Bufs : geom[b] = geom[c]
    /\ jmp = [b \in Bufs |-> Stopper]
    /\ timer = FALSE /\ firing = FALSE
    /\ irq = IrqIdle
    /\ pp = Off
    /\ hwgeom \in Geoms
    /\ intstat = {} /\ intmask = FALSE
    /\ full = {}
    /\ lateIrq = FALSE

-----------------------------------------------------------------------------
(* The callbacks of the queue.                                             *)

\* Two mistakes: interrupts that are already pending are not forgotten; and
\* the address is written while the engine runs, which ignores it.
StartDmaKeepIntstat(b) ==
    /\ pp' = b /\ hwgeom' = geom[b]
    /\ intmask' = TRUE
    /\ lateIrq' = (lateIrq \/ WakeupPending)
    /\ UNCHANGED intstat

StartDmaNoStop(b) ==
    /\ pp' = IF pp = Off THEN b ELSE pp
    /\ hwgeom' = geom[b] /\ intstat' = {} /\ intmask' = TRUE
    /\ lateIrq' = (lateIrq \/ WakeupPending)

\* tw68_video_start_dma: set the scaler, point the engine at the program of
\* b, forget pending interrupts, and let interrupts through.
StartDma(b) ==
    /\ pp' = b
    /\ hwgeom' = geom[b]
    /\ intstat' = {}
    /\ intmask' = TRUE
    /\ lateIrq' = IF WakeupPending THEN TRUE ELSE lateIrq

NoStartDma == UNCHANGED <<pp, hwgeom, intstat, intmask, lateIrq>>

\* buffer_activate re-arms the timer; mod_timer does the same elsewhere.
ModTimer == timer' = TRUE

\* A mistake: moving buffers to the active list leaves their jumps alone.
LinkNone(s, n) == jmp

\* The jump of program s[i] leads to s[i + 1] for every i below n.
LinkFirst(s, n) ==
    [b \in Bufs |-> IF \E i \in 1..(n - 1) : s[i] = b
                    THEN s[(CHOOSE i \in 1..(n - 1) : s[i] = b) + 1]
                    ELSE jmp[b]]

\* n is the length of the longest run at the head of s of buffers each
\* compatible with the one before it.
CompatRun(s, n) ==
    /\ n \in 1..Len(s)
    /\ \A i \in 1..(n - 1) : BufCompat(s[i], s[i + 1])
    /\ n < Len(s) => ~BufCompat(s[n], s[n + 1])

\* tw68_buffer_requeue, called with the lists act and que and the states st:
\* restart the head of the active list or, when there is none, make the
\* compatible buffers at the head of the queued list the active list.
Requeue(act, que, st) ==
    \/ /\ act # <<>>
       /\ StartDma(Head(act)) /\ ModTimer
       /\ active' = act /\ queued' = que /\ state' = st
       /\ UNCHANGED jmp
    \/ /\ act = <<>> /\ que = <<>>
       /\ NoStartDma
       /\ active' = act /\ queued' = que /\ state' = st
       /\ UNCHANGED <<jmp, timer>>
    \/ /\ act = <<>>
       /\ \E n \in 1..Len(que) :
            /\ CompatRun(que, n)
            /\ active' = SubSeq(que, 1, n)
            /\ queued' = SubSeq(que, n + 1, Len(que))
            /\ state' = [b \in Bufs |-> IF \E i \in 1..n : que[i] = b
                                        THEN "ACTIVE" ELSE st[b]]
            /\ jmp' = LinkFirst(que, n)
       /\ StartDma(Head(que)) /\ ModTimer

-----------------------------------------------------------------------------
(* The videobuf layer and its callbacks.                                   *)

\* buffer_prepare: a buffer that is not in the driver's hands takes the
\* geometry of its file handle.  Pinning the memory of a fresh buffer may
\* fail, which leaves the buffer without memory and with the new geometry.
Prepare(b) ==
    /\ state[b] \in {"NEEDS_INIT", "IDLE"}
    /\ \E g \in Geoms : geom' = [geom EXCEPT ![b] = g]
    /\ \/ state' = [state EXCEPT ![b] = "PREPARED"]
       \/ state[b] = "NEEDS_INIT" /\ UNCHANGED state
    /\ UNCHANGED <<lists, jmp, timer, firing, irq, chip, full, lateIrq>>

\* tw68_buffer_queue, the buffer that starts the active list, and the engine.
QueueFirst(b) ==
    /\ queued = <<>> /\ active = <<>>
    /\ active' = <<b>>
    /\ StartDma(b) /\ ModTimer
    /\ state' = [state EXCEPT ![b] = "ACTIVE"]
    /\ jmp' = [jmp EXCEPT ![b] = Stopper]
    /\ UNCHANGED queued

\* A mistake: a compatible buffer joins the active list although an earlier
\* one still waits.
QueueChainedOvertakes(b) ==
    /\ active # <<>> /\ BufCompat(Last(active), b)
    /\ active' = Append(active, b) /\ ModTimer
    /\ state' = [state EXCEPT ![b] = "ACTIVE"]
    /\ jmp' = [jmp EXCEPT ![b] = Stopper, ![Last(active)] = b]
    /\ NoStartDma /\ UNCHANGED queued

\* The buffer that is chained to the active list: the program before it,
\* which may be running, now jumps to it.
QueueChained(b) ==
    /\ queued = <<>> /\ active # <<>> /\ BufCompat(Last(active), b)
    /\ active' = Append(active, b)
    /\ ModTimer
    /\ state' = [state EXCEPT ![b] = "ACTIVE"]
    /\ jmp' = [jmp EXCEPT ![b] = Stopper, ![Last(active)] = b]
    /\ NoStartDma
    /\ UNCHANGED queued

\* The buffer that has to wait, for other settings or for one that does.
QueueWaiting(b) ==
    /\ \/ queued # <<>>
       \/ active # <<>> /\ ~BufCompat(Last(active), b)
    /\ queued' = Append(queued, b)
    /\ state' = [state EXCEPT ![b] = "QUEUED"]
    /\ jmp' = [jmp EXCEPT ![b] = Stopper]
    /\ NoStartDma
    /\ UNCHANGED <<active, timer>>

\* buffer_queue, called with dev->slock held.
BufferQueue(b) ==
    /\ state[b] = "PREPARED"
    /\ QueueFirst(b) \/ QueueChained(b) \/ QueueWaiting(b)
    /\ UNCHANGED <<geom, firing, irq, full>>

\* A mistake: a cancelled buffer stays linked.
QueueCancelLinked(b) ==
    /\ b \in ToSet(queued)
    /\ state' = [state EXCEPT ![b] = "ERROR"]
    /\ UNCHANGED <<lists, geom, jmp, timer, firing, irq, chip, full, lateIrq>>

\* videobuf_queue_cancel, on the way out of VIDIOC_STREAMOFF, takes back a
\* buffer that has not reached the engine.  It does so for every queued
\* buffer of its file handle with dev->slock held throughout; here each is a
\* step, and others may come between two of them.  Active buffers stay.
QueueCancel(b) ==
    /\ \E i \in 1..Len(queued) : queued[i] = b /\ queued' = RemoveAt(queued, i)
    /\ state' = [state EXCEPT ![b] = "ERROR"]
    /\ UNCHANGED <<active, geom, jmp, timer, firing, irq, chip, full, lateIrq>>

\* VIDIOC_DQBUF: the application gets a finished buffer back.
Dequeue(b) ==
    /\ state[b] \in {"DONE", "ERROR"}
    /\ state' = [state EXCEPT ![b] = "IDLE"]
    /\ full' = full \ {b}
    /\ UNCHANGED <<lists, geom, jmp, timer, firing, irq, chip, lateIrq>>

\* tw68_dma_free, called from buffer_release: wait until the driver has let
\* go of the buffer, then free its memory and its program.  The jump of a
\* freed program has no meaning; it is set back to a fixed value.
DmaFree(b) ==
    /\ state[b] \notin {"ACTIVE", "QUEUED", "NEEDS_INIT"}
    /\ state' = [state EXCEPT ![b] = "NEEDS_INIT"]
    /\ jmp' = [jmp EXCEPT ![b] = Stopper]
    /\ full' = full \ {b}
    /\ UNCHANGED <<lists, geom, timer, firing, irq, chip, lateIrq>>

-----------------------------------------------------------------------------
(* The timer.                                                              *)

\* 500 ms after the last mod_timer the timer is no longer pending, and its
\* function is about to run; del_timer and mod_timer do not stop it.
TimerExpire ==
    /\ timer /\ ~firing
    /\ timer' = FALSE /\ firing' = TRUE
    /\ UNCHANGED <<lists, state, geom, jmp, irq, chip, full, lateIrq>>

\* tw68_buffer_timeout: every active buffer has failed, then requeue.
BufferTimeout ==
    /\ firing /\ firing' = FALSE
    /\ Requeue(<<>>, queued,
               [b \in Bufs |-> IF b \in ToSet(active) THEN "ERROR"
                               ELSE state[b]])
    /\ UNCHANGED <<geom, irq, full>>

-----------------------------------------------------------------------------
(* The interrupt.                                                          *)

\* A mistake: the passes are counted one too high.
TakeStatusOffByOne(pass) ==
    /\ irq' = [pc |-> "serve", status |-> intstat, loop |-> pass + 1]
    /\ intstat' = {}

\* The handler takes the pending bits and acknowledges them, which is the
\* first thing tw68_irq_video_done does.
TakeStatus(pass) ==
    /\ irq' = [pc |-> "serve", status |-> intstat, loop |-> pass]
    /\ intstat' = {}

\* tw68_irq is called when a bit is pending and let through.
IrqEnter ==
    /\ irq.pc = "idle" /\ intmask /\ intstat # {}
    /\ TakeStatus(1)
    /\ UNCHANGED <<lists, state, geom, jmp, timer, firing, pp, hwgeom, intmask,
                   full, lateIrq>>

\* A mistake: the timer is stopped before the list is looked at.
WakeupDelTimer ==
    /\ timer' = FALSE
    /\ active' = IF active = <<>> THEN <<>> ELSE Tail(active)
    /\ state' = [b \in Bufs |-> IF active # <<>> /\ b = Head(active)
                                THEN "DONE" ELSE state[b]]

\* tw68_wakeup: hand over the head of the active list as filled, or stop the
\* timer when there is none.
Wakeup ==
    \/ /\ active = <<>>
       /\ timer' = FALSE
       /\ UNCHANGED <<active, state>>
    \/ /\ active # <<>>
       /\ active' = Tail(active)
       /\ state' = [state EXCEPT ![Head(active)] = "DONE"]
       /\ ModTimer

\* The body of tw68_irq_video_done.  Only DMAPI has an effect on the queue.
IrqVideoDone ==
    /\ irq.pc = "serve"
    /\ irq' = [irq EXCEPT !.pc = "reread", !.status = {}]
    /\ \/ DMAPI \in irq.status /\ Wakeup
       \/ DMAPI \notin irq.status /\ UNCHANGED <<active, state, timer>>
    /\ UNCHANGED <<queued, geom, jmp, firing, chip, full, lateIrq>>

\* The end of a pass: leave when nothing is pending, otherwise go round
\* again; after the last pass give up and clear the mask.
IrqReread ==
    /\ irq.pc = "reread"
    /\ \/ /\ intstat = {}
          /\ irq' = IrqIdle
          /\ UNCHANGED <<intstat, intmask>>
       \/ /\ intstat # {} /\ irq.loop < MaxIrqLoops
          /\ TakeStatus(irq.loop + 1)
          /\ UNCHANGED intmask
       \/ /\ intstat # {} /\ irq.loop = MaxIrqLoops
          /\ irq' = IrqIdle
          /\ intmask' = FALSE
          /\ UNCHANGED intstat
    /\ UNCHANGED <<lists, state, geom, jmp, timer, firing, pp, hwgeom, full,
                   lateIrq>>

-----------------------------------------------------------------------------
(* The chip.                                                               *)

\* The program of b is whole: generated, and ending in a jump.
HasProgram(b) == state[b] \notin {"NEEDS_INIT", "PREPARED"}

\* The engine reaches the jump that ends a program, which carries
\* RISC_INT_BIT, and follows it.  In the stopper it loops, raising nothing.
EngineFinish ==
    /\ pp \in Bufs /\ HasProgram(pp)
    /\ full' = full \union (IF pp \in ToSet(active) THEN {pp} ELSE {})
    /\ pp' = jmp[pp]
    /\ intstat' = intstat \union {DMAPI}
    /\ UNCHANGED <<lists, state, geom, jmp, timer, firing, irq, hwgeom, intmask,
                   lateIrq>>

\* The engine is in memory that was freed or is being rewritten: it may go
\* anywhere, and raise anything.
EngineWild ==
    /\ pp \in Bufs /\ ~HasProgram(pp)
    /\ pp' \in Bufs \union {Stopper, Off}
    /\ \E bits \in SUBSET IntBits : intstat' = intstat \union bits
    /\ UNCHANGED <<lists, state, geom, jmp, timer, firing, irq, hwgeom, intmask,
                   full, lateIrq>>

\* A bit other than DMAPI is raised: the FIFO overflows, the bus aborts, ...
HwFault ==
    /\ pp # Off
    /\ \E bit \in Faults : intstat' = intstat \union {bit}
    /\ UNCHANGED <<lists, state, geom, jmp, timer, firing, irq, pp, hwgeom,
                   intmask, full, lateIrq>>

-----------------------------------------------------------------------------
Videobuf ==
    \E b \in Bufs : \/ Prepare(b) \/ BufferQueue(b) \/ QueueCancel(b)
                    \/ Dequeue(b) \/ DmaFree(b)

Next ==
    \/ Videobuf
    \/ TimerExpire \/ BufferTimeout
    \/ IrqEnter \/ IrqVideoDone \/ IrqReread
    \/ EngineFinish \/ EngineWild \/ HwFault

Spec == Init /\ [][Next]_vars

(***************************************************************************)
(* Fairness.  A pending timer that is not re-armed expires, its function   *)
(* runs, and the interrupt handler, once entered, goes on.  A timer that   *)
(* is re-armed, by a wakeup or by a buffer joining the active list, does   *)
(* not have to expire: any of those steps is enough.  Nothing is assumed   *)
(* of the chip, which may never finish a buffer, or of the application.    *)
(***************************************************************************)
TimerStep ==
    /\ timer
    /\ \/ TimerExpire
       \/ DMAPI \in irq.status /\ IrqVideoDone
       \/ \E b \in Bufs : BufferQueue(b) /\ active' # active

Fairness ==
    /\ WF_vars(TimerStep)
    /\ WF_vars(BufferTimeout)
    /\ WF_vars(IrqVideoDone)
    /\ WF_vars(IrqReread)

FairSpec == Spec /\ Fairness

-----------------------------------------------------------------------------
(* Properties.                                                             *)

\* Every variable has its type.
TypeOK ==
    /\ active \in Seq(Bufs) /\ queued \in Seq(Bufs)
    /\ state \in [Bufs -> BufStates]
    /\ geom \in [Bufs -> Geoms] /\ hwgeom \in Geoms
    /\ jmp \in [Bufs -> Bufs \union {Stopper}]
    /\ timer \in BOOLEAN /\ firing \in BOOLEAN
    /\ irq \in [pc : {"idle", "serve", "reread"}, status : SUBSET IntBits,
                loop : 0..MaxIrqLoops]
    /\ pp \in Bufs \union {Stopper, Off}
    /\ intstat \in SUBSET IntBits /\ intmask \in BOOLEAN
    /\ full \in SUBSET Bufs /\ lateIrq \in BOOLEAN

\* A buffer is linked into exactly the list its state names, once: list_del
\* in tw68_wakeup, tw68_buffer_timeout and videobuf_queue_cancel never meets
\* a buffer that is on no list, and no list holds a buffer that the
\* application may dequeue, prepare again or free.
ListsMatchState ==
    /\ IsInjective(active) /\ IsInjective(queued)
    /\ \A b \in Bufs : /\ b \in ToSet(active) <=> state[b] = "ACTIVE"
                       /\ b \in ToSet(queued) <=> state[b] = "QUEUED"

\* The jumps of the active programs follow the active list and end in the
\* stopper: the engine fills the buffers in the order in which tw68_wakeup
\* hands them over, and no jump leads out of the list.
ChainFollowsActive ==
    \A i \in 1..Len(active) :
        jmp[active[i]] = IF i < Len(active) THEN active[i + 1] ELSE Stopper

\* The scaler is set for the size and format of every active buffer: what
\* needs other settings waits in the queued list until tw68_buffer_requeue
\* restarts the engine.
ScalerFitsActive ==
    \A i \in 1..Len(active) : geom[active[i]].dim = hwgeom.dim

\* While a buffer is active the timer is pending, or its function is about
\* to run: a chip that stops delivering is noticed.
WatchdogArmed == active # <<>> => timer \/ firing

\* A buffer is handed over as DONE only after the engine has filled it,
\* unless start_dma ran while an acknowledged DMAPI was on its way to
\* tw68_wakeup.
DoneIsFull == ~lateIrq => \A b \in Bufs : state[b] = "DONE" => b \in full

\* While there are active buffers the engine is in one of their programs or
\* in the stopper, unless start_dma ran in the window above.
EngineInActive ==
    ~lateIrq /\ active # <<>> => pp \in ToSet(active) \union {Stopper}

\* The queue keeps the promise of BufferFifo: the active list followed by the
\* queued list is the line of buffers, the active ones are those started,
\* and where a buffer is for the application follows from its state.
Fifo == INSTANCE BufferFifo WITH
    pending <- active \o queued,
    started <- Len(active),
    result <- [b \in Bufs |->
                  CASE state[b] \in {"ACTIVE", "QUEUED"} -> "driver"
                    [] state[b] = "DONE" -> "filled"
                    [] state[b] = "ERROR" -> "failed"
                    [] OTHER -> "app"]

InOrderOnce == Fifo!Spec

\* The same with its fairness: what has been started comes back.
StartedComesBack == Fifo!FairSpec

\* What the comments promise and the code does not keep.

\* tw68_wakeup is "called when the driver completes filling a buffer".
WakeupMeansFilled == \A b \in Bufs : state[b] = "DONE" => b \in full

\* For a buffer that is not compatible "we must change settings before
\* filling it", and the queued list is there "to do this": somebody is left
\* to call tw68_buffer_requeue for what is on it.
QueuedIsServed == queued # <<>> => active # <<>> \/ timer \/ firing
=============================================================================
