----------------------------- MODULE Tw68Restart -----------------------------
(***************************************************************************)
(* The callers of tw68_buffer_requeue that Tw68Queue leaves out: streamon, *)
(* and the way into and out of a suspend.                                  *)
(*                                                                         *)
(* VIDIOC_STREAMON calls it without dev->slock, so that its steps mix with *)
(* the interrupt, the timer, read() and close(); ioctls are serialised, so *)
(* one call is under way at a time.  Where somebody changes the lists      *)
(* under it the model ends: it shows that this happens, and not what a     *)
(* walk over lists that are being changed does next.                       *)
(*                                                                         *)
(* tw68_suspend takes no lock either.                                      *)
(* Its caller has frozen the user processes, outside any call, but not the *)
(* interrupt and the timer.                                                *)
(***************************************************************************)
EXTENDS Tw68Queue

CONSTANT None       \* no buffer: NULL

ASSUME RestartAssumption == None \notin Bufs

VARIABLES
    on,         \* tw68_buffer_requeue for streamon: where it is, buf and prev
    power,      \* tw68_suspend, tw68_resume: how far they got
    raced       \* the lists have changed under a streamon that was in
                \* tw68_buffer_requeue; the model ends here

restart == <<on, power, raced>>

-----------------------------------------------------------------------------
OnIdle == [pc |-> "idle", buf |-> None, prev |-> None]

RestartInit == Init /\ on = OnIdle /\ power = "run" /\ raced = FALSE

(* streamon.                                                               *)

\* The head of the active list is to be restarted; with none, the head of
\* the queued list becomes active, and after it what is compatible with prev.
OnRead ==
    /\ on.pc \in {"idle", "next"}
    /\ \/ /\ on.pc = "idle" /\ active # <<>>
          /\ on' = [on EXCEPT !.pc = "start", !.buf = Head(active)]
       \/ /\ on.pc = "idle" /\ active = <<>> /\ queued # <<>>
          /\ on' = [on EXCEPT !.pc = "move", !.buf = Head(queued)]
       \/ /\ on.pc = "next" /\ queued # <<>>
          /\ BufCompat(on.prev, Head(queued))
          /\ on' = [on EXCEPT !.pc = "move", !.buf = Head(queued)]
       \/ /\ on.pc = "next"
          /\ queued # <<>> => ~BufCompat(on.prev, Head(queued))
          /\ on' = OnIdle
    /\ UNCHANGED <<vars, power, raced>>

\* list_move_tail.
OnMove ==
    /\ on.pc = "move"
    /\ active' = Append(active, on.buf) /\ queued' = Tail(queued)
    /\ on' = [on EXCEPT !.pc = IF on.prev = None THEN "startmoved"
                               ELSE "activate"]
    /\ UNCHANGED <<state, geom, jmp, timer, firing, irq, chip, full, lateIrq,
                   power, raced>>

\* start_dma for a head, of which the second is yet to be activated.
OnStart ==
    /\ on.pc \in {"start", "startmoved"}
    /\ StartDma(on.buf)
    /\ on' = [on EXCEPT !.pc = IF on.pc = "start" THEN "arm" ELSE "activate"]
    /\ UNCHANGED <<lists, state, geom, jmp, timer, firing, irq, full, power,
                   raced>>

\* mod_timer, which ends the restart of an active head.
OnArm ==
    /\ on.pc = "arm"
    /\ ModTimer /\ on' = OnIdle
    /\ UNCHANGED <<lists, state, geom, jmp, firing, irq, chip, full, lateIrq,
                   power, raced>>

\* A mistake: the program before the moved buffer does not jump to it.
OnActivateUnlinked ==
    /\ on.pc = "activate"
    /\ state' = [state EXCEPT ![on.buf] = "ACTIVE"] /\ ModTimer
    /\ on' = [pc |-> "next", buf |-> None, prev |-> on.buf]
    /\ UNCHANGED <<lists, geom, jmp, firing, irq, chip, full, lateIrq, power,
                   raced>>

\* buffer_activate for a moved buffer, and the jump to it.
OnActivate ==
    /\ on.pc = "activate"
    /\ state' = [state EXCEPT ![on.buf] = "ACTIVE"] /\ ModTimer
    /\ jmp' = IF on.prev = None THEN jmp ELSE [jmp EXCEPT ![on.prev] = on.buf]
    /\ on' = [pc |-> "next", buf |-> None, prev |-> on.buf]
    /\ UNCHANGED <<lists, geom, firing, irq, chip, full, lateIrq, power,
                   raced>>

-----------------------------------------------------------------------------
(* Suspend and resume.                                                     *)

\* tw68_suspend: stop the engine, mask the interrupts, wait for a handler,
\* stop the timer (but not a function that has begun), cut the power.
SuspendEngine ==
    /\ power = "run" /\ on = OnIdle /\ power' = "stopped"
    /\ pp' = Off
    /\ UNCHANGED <<lists, state, geom, jmp, timer, firing, irq, hwgeom, intstat,
                   intmask, full, lateIrq, on, raced>>

SuspendMask ==
    /\ power = "stopped" /\ power' = "masked"
    /\ intmask' = FALSE
    /\ UNCHANGED <<lists, state, geom, jmp, timer, firing, irq, pp, hwgeom,
                   intstat, full, lateIrq, on, raced>>

SuspendSync ==
    /\ power = "masked" /\ irq.pc = "idle" /\ power' = "synced"
    /\ UNCHANGED <<vars, on, raced>>

SuspendTimer ==
    /\ power = "synced" /\ power' = "untimed"
    /\ timer' = FALSE
    /\ UNCHANGED <<lists, state, geom, jmp, firing, irq, chip, full, lateIrq, on,
                   raced>>

\* Without power the chip runs nothing and keeps nothing.
SuspendPower ==
    /\ power = "untimed" /\ power' = "off"
    /\ pp' = Off /\ intstat' = {} /\ intmask' = FALSE
    /\ hwgeom' \in Geoms
    /\ UNCHANGED <<lists, state, geom, jmp, timer, firing, irq, full, lateIrq, on,
                   raced>>

\* A mistake: a head that is active is taken to be running.
RequeueQueuedOnly ==
    /\ active' = active /\ queued' = queued /\ state' = state
    /\ NoStartDma /\ UNCHANGED <<jmp, timer>>

\* The first half of what tw68_resume does under dev->slock.
ResumeRequeue == Requeue(active, queued, state)

\* tw68_resume.  After video_q it requeues vbi_q, whose lists and callbacks
\* nobody has initialised: the oops leaves dev->slock taken, and the model
\* ends here.
Resume ==
    /\ power = "off" /\ power' = "oops"
    /\ ResumeRequeue
    /\ UNCHANGED <<geom, firing, irq, full, on, raced>>

-----------------------------------------------------------------------------
\* What others do beside streamon.
Beside ==
    /\ raced' = (on # OnIdle /\ lists' # lists)
    /\ UNCHANGED <<on, power>>

\* The processes run, and call the driver, only outside a suspend.
Processes == power = "run" /\ Videobuf /\ Beside

\* The interrupt and the timer.
Deferred ==
    /\ power # "oops"
    /\ TimerExpire \/ BufferTimeout \/ IrqEnter \/ IrqVideoDone \/ IrqReread
    /\ Beside

Chip ==
    /\ power \notin {"off", "oops"}
    /\ EngineFinish \/ EngineWild
    /\ Beside

RestartNext ==
    /\ ~raced
    /\ \/ Processes \/ Deferred \/ Chip
       \/ power = "run" /\ (OnRead \/ OnMove \/ OnStart \/ OnArm \/ OnActivate)
       \/ SuspendEngine \/ SuspendMask \/ SuspendSync \/ SuspendTimer
       \/ SuspendPower \/ Resume

RestartSpec == RestartInit /\ [][RestartNext]_<<vars, restart>>
-----------------------------------------------------------------------------
(* Properties.                                                             *)

\* Every variable has its type.
RestartTypeOK ==
    /\ TypeOK
    /\ on \in [pc : {"idle", "start", "arm", "move", "startmoved", "activate",
                     "next"},
               buf : Bufs \union {None}, prev : Bufs \union {None}]
    /\ power \in {"run", "stopped", "masked", "synced", "untimed", "off", "oops"}
    /\ raced \in BOOLEAN

\* When streamon has left tw68_buffer_requeue, and the lists never changed
\* under it, it has done what it would do with dev->slock, in spite of the
\* engine, the interrupt and the timer between its steps: the lists, the
\* states and the jumps agree, and the scaler fits, unless the power is off.
RequeueLeavesQueueWhole ==
    on = OnIdle =>
        /\ ListsMatchState /\ ChainFollowsActive
        /\ power # "off" => ScalerFitsActive

\* The same for the watchdog: only a suspend leaves active buffers unguarded.
OnlySuspendDisarms ==
    on = OnIdle /\ power \in {"run", "stopped", "masked", "synced"}
        => WatchdogArmed

\* When resume has requeued, nothing waits for an empty list, and the engine
\* and the watchdog have been started for the first of the active buffers.
ResumeServes ==
    power = "oops" =>
        /\ queued # <<>> => active # <<>>
        /\ active # <<>> => pp = Head(active) /\ timer

\* What the comments promise and the code does not keep.

\* tw68_buffer_requeue "resends a current buffer": what streamon starts is
\* the head of the active list until it has been started.
ResendsCurrent ==
    on.pc = "start" => active # <<>> /\ Head(active) = on.buf
=============================================================================
