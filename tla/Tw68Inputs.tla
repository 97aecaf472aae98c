----------------------------- MODULE Tw68Inputs -----------------------------
(***************************************************************************)
(* Which camera a frame comes from (tw68-video.c, tw68-cards.c).           *)
(* VIDIOC_S_INPUT only notes what is asked for in dev->input.  The         *)
(* multiplexer of the chip is switched by start_dma and by                 *)
(* buffer_activate, that is, when a buffer joins the active list of        *)
(* Tw68Queue; dev->hw_input remembers what it was switched to.             *)
(*                                                                         *)
(* Both run under dev->slock.  S_INPUT takes dev->lock, a mutex that       *)
(* neither the timer nor read() holds, and so may come between any two of  *)
(* their reads of dev->input.                                              *)
(***************************************************************************)
EXTENDS Tw68Queue

CONSTANTS
    Inputs,     \* the inputs of the board, card_in(dev, 0) and so on
    Input0      \* card_in(dev, 0)

ASSUME InputsAssumption == Input0 \in Inputs

VARIABLES
    input,      \* dev->input
    hw_input,   \* dev->hw_input
    mux,        \* TW68_INFORM, the bits of the multiplexer
    torn,       \* an S_INPUT has come between two reads of dev->input by
                \* start_dma that are to agree; the model ends here
    seen,       \* history: the inputs from which an active buffer is filled
    asked       \* history: what dev->input has been while it is active

inputs == <<input, hw_input, mux, torn, seen, asked>>

-----------------------------------------------------------------------------
\* tw68_board_init1 and tw68_hw_init1.
InputsInit ==
    /\ Init
    /\ input = Input0 /\ hw_input = Input0 /\ mux = Input0
    /\ torn = FALSE
    /\ seen = [b \in Bufs |-> {}] /\ asked = [b \in Bufs |-> {}]

\* The histories of the buffers that are active, or done and not yet taken
\* back, when in this step dev->input has the values of now, and the
\* multiplexer those of passed before it gets its last one.
Note(now, passed) ==
    /\ seen' = [b \in Bufs |->
                   CASE state'[b] = "ACTIVE" ->
                            IF pp' = b THEN seen[b] \union passed \union {mux'}
                            ELSE seen[b]
                     [] state'[b] = "DONE" -> seen[b]
                     [] OTHER -> {}]
    /\ asked' = [b \in Bufs |-> CASE state'[b] = "ACTIVE" -> asked[b] \union now
                                  [] state'[b] = "DONE" -> asked[b]
                                  [] OTHER -> {}]

\* Two mistakes: the register is not written, or only start_dma switches.
SwitchUnwritten ==
    /\ hw_input' = input
    /\ UNCHANGED <<input, mux, torn>>
    /\ Note({input}, {})

SwitchAtStartOnly ==
    /\ UNCHANGED <<input, hw_input, mux, torn>>
    /\ Note({input}, {})

\* buffer_activate for a chained buffer: the frame before it is being filled.
SwitchActivate ==
    /\ hw_input' = input
    /\ mux' = IF hw_input = input THEN mux ELSE input
    /\ UNCHANGED <<input, torn>>
    /\ Note({input}, {})

\* start_dma for the first buffer, and then buffer_activate for each, with the
\* engine running.  start_dma reads dev->input to compare it, to assign it to
\* dev->hw_input, and to write it to the register; buffer_activate reads it
\* again, and between the first and the last buffer takes it through between.
\* All of them are the same unless an S_INPUT comes between two reads.
SwitchStart(between) ==
    \E assigned, written, last \in Inputs :
        /\ hw_input = input => assigned = hw_input /\ written = mux
        /\ torn' = (hw_input # input /\ assigned # written)
        /\ input' = last /\ hw_input' = last
        /\ mux' = IF last = assigned THEN written ELSE last
        /\ Note({assigned, last} \union between, {written} \union between)

NoSwitch ==
    /\ UNCHANGED <<input, hw_input, mux, torn>>
    /\ Note({}, {})

-----------------------------------------------------------------------------
\* VIDIOC_S_INPUT: video_mux.
SInput(i) ==
    /\ input' = i
    /\ UNCHANGED <<vars, hw_input, mux, torn>>
    /\ Note({i}, {})

\* A buffer is queued: it starts the engine, it is chained, or it waits.
InputQueue(b) ==
    /\ BufferQueue(b)
    /\ \/ active = <<>> /\ queued = <<>> /\ SwitchStart({})
       \/ active # <<>> /\ active' # active /\ SwitchActivate
       \/ active' = active /\ NoSwitch

\* The watchdog, which starts what waits.
InputTimeout ==
    /\ BufferTimeout
    /\ \/ queued # <<>>
          /\ \E between \in SUBSET Inputs :
                /\ Len(active') = 1 => between = {}
                /\ SwitchStart(between)
       \/ queued = <<>> /\ NoSwitch

\* Everything else leaves the input alone.
InputOther ==
    /\ \/ \E b \in Bufs : Prepare(b) \/ QueueCancel(b) \/ Dequeue(b) \/ DmaFree(b)
       \/ TimerExpire \/ IrqEnter \/ IrqVideoDone \/ IrqReread
       \/ EngineFinish \/ EngineWild \/ HwFault
    /\ NoSwitch

InputsNext ==
    /\ ~torn
    /\ \/ \E i \in Inputs : SInput(i)
       \/ \E b \in Bufs : InputQueue(b)
       \/ InputTimeout
       \/ InputOther

InputsSpec == InputsInit /\ [][InputsNext]_<<vars, inputs>>

-----------------------------------------------------------------------------
(* Properties.                                                             *)

\* Every variable has its type.
InputsTypeOK ==
    /\ TypeOK
    /\ input \in Inputs /\ hw_input \in Inputs /\ mux \in Inputs
    /\ torn \in BOOLEAN
    /\ seen \in [Bufs -> SUBSET Inputs] /\ asked \in [Bufs -> SUBSET Inputs]

\* dev->hw_input is the setting of the multiplexer, which ENUMINPUT relies on
\* and which spares the write of the register, unless an S_INPUT came in the
\* window above.
HwInputIsMux == torn \/ hw_input = mux

\* No part of a frame comes from an input that nobody has asked for since the
\* buffer was activated: what is queued after an S_INPUT, and comes back
\* before the next, is from the new input alone.
FramesFromAsked ==
    torn \/ \A b \in Bufs : seen[b] \subseteq asked[b]
=============================================================================
