--------------------------- MODULE Tw68InputsProofs ---------------------------
(***************************************************************************)
(* For every set of buffers and of inputs: the multiplexer is where        *)
(* dev->hw_input says, and no part of a frame comes from an input that     *)
(* nobody has asked for while its buffer was active (Tw68Inputs).          *)
(***************************************************************************)
EXTENDS Tw68Inputs, Tw68QueueProofs

-----------------------------------------------------------------------------
(* The inductive invariant.                                                *)

InputTypes ==
    /\ input \in Inputs /\ hw_input \in Inputs /\ mux \in Inputs
    /\ torn \in BOOLEAN
    /\ seen \in [Bufs -> SUBSET Inputs] /\ asked \in [Bufs -> SUBSET Inputs]

\* The input the multiplexer is at has been asked for since any of the active
\* buffers was activated, whichever of them the engine goes to next.
MuxWasAsked == torn \/ \A b \in Bufs : state[b] = "ACTIVE" => mux \in asked[b]

InputsInv ==
    /\ Inv /\ InputTypes /\ HwInputIsMux /\ MuxWasAsked /\ FramesFromAsked

-----------------------------------------------------------------------------
(* The queue below.                                                        *)

\* A step here is a step of the queue, or leaves it alone: what is proved of
\* Tw68Queue holds here.
LEMMA QueueSteps == ASSUME [InputsNext]_<<vars, inputs>> PROVE [Next]_vars
<1>1. ASSUME NEW i \in Inputs, SInput(i) PROVE UNCHANGED vars
  BY <1>1 DEF SInput
<1>2. ASSUME NEW b \in Bufs, InputQueue(b) PROVE Next
  BY <1>2 DEF InputQueue, Next, Videobuf
<1>3. ASSUME InputTimeout PROVE Next
  BY <1>3 DEF InputTimeout, Next
<1>4. ASSUME InputOther PROVE Next
  BY <1>4 DEF InputOther, Next, Videobuf
<1> QED
  BY <1>1, <1>2, <1>3, <1>4 DEF InputsNext

\* No buffer becomes active.
NoneJoins == \A b \in Bufs : state'[b] = "ACTIVE" => state[b] = "ACTIVE"

LEMMA OthersJoinNone ==
    ASSUME Inv, \/ InputOther
                \/ InputTimeout /\ queued = <<>>
                \/ \E b \in Bufs : InputQueue(b) /\ active' = active
    PROVE  NoneJoins
<1> SUFFICES ASSUME NEW c \in Bufs, state'[c] = "ACTIVE"
             PROVE  state[c] = "ACTIVE"
  BY DEF NoneJoins
<1> USE DEF Inv, TypeOK
<1>1. ASSUME NEW b \in Bufs, InputQueue(b), active' = active
      PROVE  state[c] = "ACTIVE"
  <2>1. ~QueueFirst(b)
    <3>1. <<b>> # <<>>
      <4>1. Len(<<b>>) # Len(<<>>)
        OBVIOUS
      <4> QED
        BY <4>1
    <3> QED
      BY <1>1, <3>1 DEF QueueFirst
  <2>2. ~QueueChained(b)
    <3>1. Len(Append(active, b)) = Len(active) + 1 /\ Len(active) \in Nat
      BY AppendAt
    <3> QED
      BY <1>1, <3>1 DEF QueueChained
  <2>3. QueueWaiting(b)
    BY <1>1, <2>1, <2>2 DEF InputQueue, BufferQueue
  <2> QED
    BY <2>3 DEF QueueWaiting
<1>2. ASSUME InputTimeout, queued = <<>> PROVE state[c] = "ACTIVE"
  <2>1. TimeoutEmpties \/ \E n \in 1..Len(queued) : TimeoutAdvances(n)
    BY <1>2, TimeoutCases DEF InputTimeout
  <2>2. TimeoutEmpties
    <3>1. Len(queued) = 0
      BY <1>2
    <3> QED
      BY <2>1, <3>1
  <2> QED
    BY <2>2 DEF TimeoutEmpties
<1>3. ASSUME NEW b \in Bufs, Prepare(b) \/ QueueCancel(b) \/ Dequeue(b) \/ DmaFree(b)
      PROVE  state[c] = "ACTIVE"
  BY <1>3 DEF Prepare, QueueCancel, Dequeue, DmaFree
<1>4. ASSUME IrqVideoDone PROVE state[c] = "ACTIVE"
  BY <1>4 DEF IrqVideoDone, Wakeup
<1>5. ASSUME \/ TimerExpire \/ IrqEnter \/ IrqReread
             \/ EngineFinish \/ EngineWild \/ HwFault
      PROVE  state[c] = "ACTIVE"
  BY <1>5 DEF TimerExpire, IrqEnter, IrqReread, EngineFinish, EngineWild, HwFault
<1> QED
  BY <1>1, <1>2, <1>3, <1>4, <1>5 DEF InputOther

-----------------------------------------------------------------------------
(* What a step does to the input.                                          *)

\* The multiplexer is set to an input that is noted as asked for, or stays
\* while no buffer becomes active; a torn read ends the model.
LEMMA Switches ==
    ASSUME InputsInv, InputsNext
    PROVE  \E now, passed \in SUBSET Inputs :
              /\ Note(now, passed)
              /\ torn' \/ passed \subseteq now
              /\ input' \in Inputs /\ hw_input' \in Inputs /\ mux' \in Inputs
              /\ torn' \in BOOLEAN
              /\ torn' \/ hw_input' = mux'
              /\ torn' \/ mux' \in now \/ (mux' = mux /\ NoneJoins)
<1> USE DEF InputsInv, InputTypes, HwInputIsMux
<1>0. ~torn
  BY DEF InputsNext
<1>1. ASSUME NEW i \in Inputs, SInput(i)
      PROVE  /\ Note({i}, {}) /\ input' = i /\ UNCHANGED <<hw_input, mux, torn>>
             /\ NoneJoins
  BY <1>1 DEF SInput, NoneJoins, vars
<1>2. ASSUME SwitchActivate
      PROVE  /\ Note({input}, {}) /\ UNCHANGED <<input, torn>>
             /\ hw_input' = input /\ mux' = input
  BY <1>0, <1>2 DEF SwitchActivate
<1>3. ASSUME NEW between \in SUBSET Inputs, SwitchStart(between)
      PROVE  \E last \in Inputs, now, passed \in SUBSET Inputs :
                /\ Note(now, passed) /\ last \in now
                /\ torn' \/ passed \subseteq now
                /\ input' = last /\ hw_input' = last
                /\ torn' \in BOOLEAN /\ mux' \in Inputs
                /\ torn' \/ mux' = last
  <2>1. PICK assigned \in Inputs, written \in Inputs, last \in Inputs :
           /\ hw_input = input => assigned = hw_input /\ written = mux
           /\ torn' = (hw_input # input /\ assigned # written)
           /\ input' = last /\ hw_input' = last
           /\ mux' = IF last = assigned THEN written ELSE last
           /\ Note({assigned, last} \union between, {written} \union between)
    BY <1>3 DEF SwitchStart
  <2>2. torn' \in BOOLEAN /\ mux' \in Inputs
    BY <2>1
  <2>3. torn' \/ assigned = written
    BY <1>0, <2>1
  <2>4. torn' \/ mux' = last
    BY <2>1, <2>3
  <2> DEFINE now == {assigned, last} \union between
             passed == {written} \union between
  <2>5. now \in SUBSET Inputs /\ passed \in SUBSET Inputs /\ last \in now
        /\ (torn' \/ passed \subseteq now)
    BY <2>3
  <2>6. Note(now, passed)
    BY <2>1
  <2> HIDE DEF now, passed
  <2> QED
    BY <2>1, <2>2, <2>4, <2>5, <2>6
<1>4. ASSUME NoSwitch, NoneJoins
      PROVE  Note({}, {}) /\ UNCHANGED <<input, hw_input, mux, torn>> /\ NoneJoins
  BY <1>4 DEF NoSwitch
<1>5. {} \in SUBSET Inputs /\ \A i \in Inputs : {i} \in SUBSET Inputs
  OBVIOUS
<1>6. \/ \E i \in Inputs : SInput(i)
      \/ SwitchActivate
      \/ \E between \in SUBSET Inputs : SwitchStart(between)
      \/ NoSwitch /\ NoneJoins
  BY OthersJoinNone DEF InputsNext, InputQueue, InputTimeout, InputOther
<1> QED
  BY <1>0, <1>1, <1>2, <1>3, <1>4, <1>5, <1>6

LEMMA InputsInvStep ==
    ASSUME QueueAssumption, InputsInv, [InputsNext]_<<vars, inputs>>
    PROVE  InputsInv'
<1>1. Inv'
  BY QueueSteps, TypeStep, ListsStep, ScalerStep, ChainStep, WatchdogStep
     DEF InputsInv, Inv, ListsMatchState
<1>2. CASE UNCHANGED <<vars, inputs>>
  BY <1>1, <1>2 DEF InputsInv, InputTypes, HwInputIsMux, MuxWasAsked,
                    FramesFromAsked, vars, inputs
<1>3. CASE InputsNext
  <2>1. PICK now \in SUBSET Inputs, passed \in SUBSET Inputs :
              /\ Note(now, passed)
              /\ torn' \/ passed \subseteq now
              /\ input' \in Inputs /\ hw_input' \in Inputs /\ mux' \in Inputs
              /\ torn' \in BOOLEAN
              /\ torn' \/ hw_input' = mux'
              /\ torn' \/ mux' \in now \/ (mux' = mux /\ NoneJoins)
    BY <1>3, Switches
  <2>2. seen' \in [Bufs -> SUBSET Inputs] /\ asked' \in [Bufs -> SUBSET Inputs]
    BY <2>1 DEF Note, InputsInv, InputTypes
  <2>3. ASSUME NEW b \in Bufs, state'[b] = "ACTIVE", ~torn' PROVE mux' \in asked'[b]
    <3>1. asked'[b] = asked[b] \union now
      BY <2>1, <2>3 DEF Note
    <3>2. ~torn
      BY <1>3 DEF InputsNext
    <3> QED
      BY <2>1, <2>3, <3>1, <3>2 DEF InputsInv, MuxWasAsked, NoneJoins
  <2>4. ASSUME NEW b \in Bufs, ~torn' PROVE seen'[b] \subseteq asked'[b]
    <3>1. seen[b] \subseteq asked[b]
      BY <1>3 DEF InputsInv, FramesFromAsked, InputsNext
    <3>2. CASE state'[b] = "ACTIVE"
      <4>1. asked'[b] = asked[b] \union now
            /\ seen'[b] = (IF pp' = b THEN seen[b] \union passed \union {mux'}
                            ELSE seen[b])
        BY <2>1, <3>2 DEF Note
      <4> QED
        BY <2>1, <2>3, <2>4, <3>1, <3>2, <4>1
    <3>3. CASE state'[b] = "DONE"
      BY <2>1, <3>1, <3>3 DEF Note
    <3>4. CASE state'[b] \notin {"ACTIVE", "DONE"}
      BY <2>1, <3>4 DEF Note
    <3> QED
      BY <3>2, <3>3, <3>4
  <2>5. InputTypes'
    BY <2>1, <2>2 DEF InputTypes
  <2>6. HwInputIsMux'
    BY <2>1 DEF HwInputIsMux
  <2> QED
    BY <1>1, <2>3, <2>4, <2>5, <2>6 DEF InputsInv, MuxWasAsked, FramesFromAsked
<1> QED
  BY <1>2, <1>3

-----------------------------------------------------------------------------
(* The theorems.                                                           *)

\* The queue with its inputs is a queue: dropping the input from a behaviour
\* of Tw68Inputs leaves a behaviour of Tw68Queue.
THEOREM InputsRefineQueue == InputsSpec => Spec
<1>1. InputsInit => Init
  BY DEF InputsInit
<1>2. [InputsNext]_<<vars, inputs>> => [Next]_vars
  BY QueueSteps
<1> QED
  BY <1>1, <1>2, PTL DEF InputsSpec, Spec

\* The inductive invariant: while a buffer is active the multiplexer is at an
\* input that has been asked for since the buffer was activated.
THEOREM InputsInvHolds == InputsSpec => []InputsInv
<1>1. InputsInit => InputsInv
  <2> SUFFICES ASSUME InputsInit PROVE InputsInv
    OBVIOUS
  <2>1. Inv
    <3>1. Len(<<>>) = 0
      OBVIOUS
    <3>2. ScalerFitsActive /\ ChainFollowsActive /\ QueuedStops /\ WatchdogArmed
      BY <3>1 DEF InputsInit, Init, ScalerFitsActive, ChainFollowsActive,
                  QueuedStops, WatchdogArmed
    <3> QED
      BY <3>2, QueueAssumption, TypeInit, ListsInit DEF InputsInit, Inv
  <2>2. InputTypes /\ HwInputIsMux /\ FramesFromAsked
    BY InputsAssumption
       DEF InputsInit, InputsAssumption, InputTypes, HwInputIsMux, FramesFromAsked
  <2>3. MuxWasAsked
    BY DEF InputsInit, Init, MuxWasAsked
  <2> QED
    BY <2>1, <2>2, <2>3 DEF InputsInv
<1>2. InputsInv /\ [InputsNext]_<<vars, inputs>> => InputsInv'
  BY QueueAssumption, InputsInvStep
<1> QED
  BY <1>1, <1>2, PTL DEF InputsSpec

\* dev->hw_input is where the multiplexer of the chip is, so that start_dma and
\* buffer_activate are right to skip the write when it is dev->input, unless an
\* S_INPUT came between the reads of start_dma.
THEOREM HwInputIsMuxHolds == InputsSpec => []HwInputIsMux
  BY InputsInvHolds, PTL DEF InputsInv

\* No part of a frame comes from an input that nobody has asked for since the
\* buffer was activated: none from before the last S_INPUT, when the buffer was
\* queued after it.
THEOREM FramesFromAskedHolds == InputsSpec => []FramesFromAsked
  BY InputsInvHolds, PTL DEF InputsInv
=============================================================================
