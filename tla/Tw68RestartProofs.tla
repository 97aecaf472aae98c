-------------------------- MODULE Tw68RestartProofs --------------------------
(***************************************************************************)
(* Proofs about Tw68Restart, for every set of buffers, dimensions, fields  *)
(* and interrupt bits: what tw68_buffer_requeue leaves behind when it is   *)
(* called without dev->slock and nobody changes the lists under it, what a *)
(* suspend and a resume make of the queue, and that with all of them the   *)
(* buffers come back in order, once, and filled.                           *)
(***************************************************************************)
EXTENDS Tw68Restart, Tw68QueueProofs

-----------------------------------------------------------------------------
(* The inductive invariant.                                                *)

\* streamon has moved the buffer to the active list and not activated it.
Halfway == on.pc \in {"startmoved", "activate"}

\* The lists agree with the states, but for a buffer that is halfway.
ListsMatchButOne ==
    /\ IsInjective(active) /\ IsInjective(queued)
    /\ Halfway => on.buf \in ToSet(active) /\ state[on.buf] = "QUEUED"
    /\ \A b \in Bufs :
         /\ b \in ToSet(active)
              <=> (state[b] = "ACTIVE" \/ (Halfway /\ b = on.buf))
         /\ b \in ToSet(queued)
              <=> (state[b] = "QUEUED" /\ ~(Halfway /\ b = on.buf))

\* The jump to the moved buffer is missing until it is activated.
ChainButOne ==
    \A i \in 1..Len(active) :
        jmp[active[i]] = IF i < Len(active)
                              /\ ~(on.pc = "activate" /\ i = Len(active) - 1)
                         THEN active[i + 1] ELSE Stopper

\* The active buffers need one setting of the scaler, which is made unless
\* the power is off or streamon is about to make it.
OneDim ==
    \A i, j \in 1..Len(active) : geom[active[i]].dim = geom[active[j]].dim

ScalerFitsSoon ==
    power = "off" \/ on.pc = "startmoved" \/ ScalerFitsActive

\* The timer of a list that streamon has just begun is yet to be started.
ArmedSoon ==
    power \in {"run", "stopped", "masked", "synced"}
      => WatchdogArmed \/ (Halfway /\ on.prev = None)

\* What streamon knows of the lists, at each of its steps.
OnPlace ==
    \/ on = OnIdle
    \/ /\ on.pc \in {"start", "arm"} /\ on.prev = None
       /\ active # <<>> /\ on.buf = Head(active)
    \/ /\ on.pc = "move" /\ queued # <<>> /\ on.buf = Head(queued)
       /\ \/ on.prev = None /\ active = <<>>
          \/ /\ active # <<>> /\ on.prev = Last(active)
             /\ BufCompat(on.prev, on.buf)
    \/ on.pc = "startmoved" /\ on.prev = None /\ active = <<on.buf>>
    \/ /\ on.pc = "activate" /\ active # <<>> /\ on.buf = Last(active)
       /\ \/ on.prev = None /\ Len(active) = 1
          \/ Len(active) > 1 /\ on.prev = active[Len(active) - 1]
    \/ /\ on.pc = "next" /\ on.buf = None
       /\ active # <<>> /\ on.prev = Last(active)

Undisturbed ==
    /\ ListsMatchButOne /\ ChainButOne /\ QueuedStops
    /\ OneDim /\ ScalerFitsSoon /\ ArmedSoon /\ OnPlace

RestartInv ==
    /\ RestartTypeOK
    /\ power # "run" => on = OnIdle
    /\ raced => on # OnIdle
    /\ raced \/ Undisturbed
    /\ ResumeServes

-----------------------------------------------------------------------------
(* Facts about the invariant.                                              *)

Listed(b) == b \in ToSet(active) \/ b \in ToSet(queued)

\* A buffer on a list is one the driver has.
LEMMA ListedStates ==
    ASSUME TypeOK, ListsMatchButOne, NEW b \in Bufs
    PROVE  Listed(b) <=> state[b] \in {"ACTIVE", "QUEUED"}
  BY DEF ListsMatchButOne, Listed

\* The members of the lists, by position.
LEMMA MembersAt ==
    ASSUME TypeOK
    PROVE  /\ Len(active) \in Nat /\ Len(queued) \in Nat
           /\ DOMAIN active = 1..Len(active) /\ DOMAIN queued = 1..Len(queued)
           /\ \A i \in 1..Len(active) : active[i] \in Bufs /\ Listed(active[i])
           /\ \A i \in 1..Len(queued) : queued[i] \in Bufs /\ Listed(queued[i])
<1>1. /\ DOMAIN active = 1..Len(active) /\ Len(active) \in Nat
      /\ DOMAIN queued = 1..Len(queued) /\ Len(queued) \in Nat
      /\ \A i \in 1..Len(active) : active[i] \in Bufs
      /\ \A i \in 1..Len(queued) : queued[i] \in Bufs
  BY DEF TypeOK
<1> QED
  BY <1>1 DEF Listed, ToSet

\* Without a buffer halfway it is the invariant of Tw68Queue, the scaler and
\* the timer apart.
LEMMA AtRest ==
    ASSUME ~Halfway
    PROVE  /\ ListsMatchButOne <=> ListsMatchState
           /\ ChainButOne <=> ChainFollowsActive
<1>1. ListsMatchButOne <=> ListsMatchState
  BY DEF ListsMatchButOne, ListsMatchState
<1>2. on.pc # "activate"
  BY DEF Halfway
<1>3. ChainButOne <=> ChainFollowsActive
  BY <1>2 DEF ChainButOne, ChainFollowsActive
<1> QED
  BY <1>1, <1>3

LEMMA IdleAtRest == on = OnIdle => ~Halfway /\ on.pc = "idle" /\ on.prev = None
  BY DEF OnIdle, Halfway

LEMMA FitsIsOneDim == ASSUME TypeOK, ScalerFitsActive PROVE OneDim
  BY DEF ScalerFitsActive, OneDim

-----------------------------------------------------------------------------
(* What the others do beside streamon, without touching the lists.         *)

Other ==
    \/ Videobuf
    \/ TimerExpire \/ BufferTimeout
    \/ IrqEnter \/ IrqVideoDone \/ IrqReread
    \/ EngineFinish \/ EngineWild

LEMMA OtherIsNext == Other => [Next]_vars
  BY DEF Other, Next

\* Nothing about a buffer on a list changes, and no other buffer becomes one
\* of the driver's.
Untouched ==
    /\ \A b \in Bufs : Listed(b) => /\ state'[b] = state[b]
                                    /\ geom'[b] = geom[b]
                                    /\ jmp'[b] = jmp[b]
    /\ \A b \in Bufs : ~Listed(b) => state'[b] \notin {"ACTIVE", "QUEUED"}
    /\ hwgeom' = hwgeom
    /\ WatchdogArmed => WatchdogArmed'

LEMMA OtherUntouched ==
    ASSUME TypeOK, ListsMatchButOne, Other, lists' = lists
    PROVE  Untouched
<1> DEFINE same == \A b \in Bufs : /\ state'[b] = state[b]
                                   /\ geom'[b] = geom[b] /\ jmp'[b] = jmp[b]
<1>0. /\ active' = active /\ queued' = queued
      /\ \A b \in Bufs : Listed(b) <=> state[b] \in {"ACTIVE", "QUEUED"}
  BY ListedStates DEF lists
<1>1. ASSUME NEW b \in Bufs, Prepare(b) \/ Dequeue(b) \/ DmaFree(b)
      PROVE  Untouched
  <2>1. state[b] \notin {"ACTIVE", "QUEUED"}
    BY <1>1 DEF Prepare, Dequeue, DmaFree
  <2>2. state'[b] \notin {"ACTIVE", "QUEUED"}
    BY <1>1, <2>1 DEF Prepare, Dequeue, DmaFree, TypeOK
  <2>3. \A c \in Bufs \ {b} : /\ state'[c] = state[c] /\ geom'[c] = geom[c]
                              /\ jmp'[c] = jmp[c]
    BY <1>1 DEF Prepare, Dequeue, DmaFree, TypeOK
  <2>4. UNCHANGED <<hwgeom, timer, firing>>
    BY <1>1 DEF Prepare, Dequeue, DmaFree, chip
  <2> QED
    BY <1>0, <2>1, <2>2, <2>3, <2>4 DEF Untouched, WatchdogArmed
<1>2. ASSUME NEW b \in Bufs, BufferQueue(b) \/ QueueCancel(b)
      PROVE  FALSE
  <2>1. CASE BufferQueue(b)
    <3>1. Len(Append(active, b)) # Len(active) /\ Len(Append(queued, b)) # Len(queued)
      BY AppendAt DEF TypeOK
    <3>2. <<b>> # <<>>
      OBVIOUS
    <3>3. \/ active = <<>> /\ active' = <<b>>
          \/ active' = Append(active, b) \/ queued' = Append(queued, b)
      BY <2>1 DEF BufferQueue, QueueFirst, QueueChained, QueueWaiting
    <3>4. active = <<>> => active' # <<b>>
      BY <1>0, <3>2
    <3>5. active' # Append(active, b) /\ queued' # Append(queued, b)
      BY <1>0, <3>1
    <3> QED
      BY <3>3, <3>4, <3>5
  <2>2. CASE QueueCancel(b)
    <3>1. PICK i \in 1..Len(queued) : queued' = RemoveAt(queued, i)
      BY <2>2 DEF QueueCancel
    <3>2. Len(RemoveAt(queued, i)) = Len(queued) - 1 /\ Len(queued) \in Nat
      BY RemoveSet DEF TypeOK, ListsMatchButOne
    <3>3. Len(RemoveAt(queued, i)) # Len(queued)
      BY <3>2
    <3> QED
      BY <1>0, <3>1, <3>3
  <2> QED
    BY <1>2, <2>1, <2>2
<1>3. ASSUME BufferTimeout PROVE Untouched
  <2>1. queued = <<>>
    <3>1. SUFFICES ASSUME NEW n \in 1..Len(queued),
                          queued' = SubSeq(queued, n + 1, Len(queued))
                   PROVE  FALSE
      BY <1>3, TimeoutMoves
    <3>2. Len(queued') = Len(queued) - n /\ Len(queued) \in Nat
      BY <3>1, CutAt DEF TypeOK
    <3> QED
      BY <1>0, <3>2
  <2>2. /\ active' = <<>> /\ NoStartDma /\ UNCHANGED <<geom, jmp, timer>>
        /\ \A b \in Bufs \ ToSet(active) : state'[b] = state[b]
    <3>1. \A n \in 1..Len(queued) : FALSE
      BY <2>1
    <3> QED
      BY <1>3, <3>1, TimeoutMoves
  <2>3. active = <<>> /\ ToSet(active) = {}
    BY <1>0, <2>2 DEF ToSet
  <2>4. same
    BY <2>2, <2>3
  <2> QED
    BY <1>0, <2>2, <2>3, <2>4 DEF Untouched, WatchdogArmed, NoStartDma
<1>4. ASSUME IrqVideoDone PROVE Untouched
  <2>1. active # <<>> => DMAPI \notin irq.status
    <3>1. active # <<>> => Len(Tail(active)) # Len(active)
      BY TailAt DEF TypeOK
    <3> QED
      BY <1>0, <1>4, <3>1 DEF IrqVideoDone, Wakeup
  <2>2. UNCHANGED <<state, geom, jmp, firing, hwgeom>>
    BY <1>4, <2>1 DEF IrqVideoDone, Wakeup, chip
  <2>3. active # <<>> => UNCHANGED timer
    BY <1>4, <2>1 DEF IrqVideoDone
  <2> QED
    BY <1>0, <2>2, <2>3 DEF Untouched, WatchdogArmed
<1>5. ASSUME \/ TimerExpire \/ IrqEnter \/ IrqReread
             \/ EngineFinish \/ EngineWild
      PROVE  Untouched
  <2>1. UNCHANGED <<state, geom, jmp, hwgeom>>
    BY <1>5 DEF TimerExpire, IrqEnter, IrqReread, EngineFinish, EngineWild,
                lists, chip
  <2>2. timer \/ firing => timer' \/ firing'
    BY <1>5 DEF TimerExpire, IrqEnter, IrqReread, EngineFinish, EngineWild
  <2> QED
    BY <1>0, <2>1, <2>2 DEF Untouched, WatchdogArmed
<1> QED
  BY <1>1, <1>2, <1>3, <1>4, <1>5 DEF Other, Videobuf

LEMMA BesideMoving ==
    ASSUME RestartTypeOK, Undisturbed, Other, lists' = lists,
           UNCHANGED <<on, power>>
    PROVE  Undisturbed'
<1>1. /\ TypeOK /\ ListsMatchButOne /\ ChainButOne /\ QueuedStops
      /\ OneDim /\ ScalerFitsSoon /\ ArmedSoon /\ OnPlace
  BY DEF RestartTypeOK, Undisturbed
<1>2. Untouched /\ UNCHANGED <<active, queued, hwgeom>>
  BY <1>1, OtherUntouched DEF Untouched, lists
<1>3. /\ \A b \in Bufs : Listed(b) => /\ state'[b] = state[b]
                                     /\ geom'[b] = geom[b] /\ jmp'[b] = jmp[b]
      /\ \A b \in Bufs : ~Listed(b) => state'[b] \notin {"ACTIVE", "QUEUED"}
  BY <1>2 DEF Untouched
<1>4. /\ \A i \in 1..Len(active) : active[i] \in Bufs /\ Listed(active[i])
      /\ \A i \in 1..Len(queued) : queued[i] \in Bufs /\ Listed(queued[i])
      /\ Len(active) \in Nat /\ Len(queued) \in Nat
  BY <1>1, MembersAt
<1>5. ListsMatchButOne'
  <2>1. Halfway' <=> Halfway
    BY DEF Halfway
  <2>2. IsInjective(active') /\ IsInjective(queued')
    BY <1>1, <1>2 DEF ListsMatchButOne
  <2>3. ASSUME Halfway
        PROVE  on'.buf \in ToSet(active') /\ state'[on'.buf] = "QUEUED"
    <3>1. on.buf \in ToSet(active) /\ state[on.buf] = "QUEUED" /\ on.buf \in Bufs
      BY <1>1, <2>3 DEF ListsMatchButOne, ToSet, TypeOK
    <3> QED
      BY <1>2, <1>3, <3>1 DEF Listed
  <2>4. ASSUME NEW b \in Bufs
        PROVE  /\ b \in ToSet(active')
                    <=> (state'[b] = "ACTIVE" \/ (Halfway /\ b = on.buf))
               /\ b \in ToSet(queued')
                    <=> (state'[b] = "QUEUED" /\ ~(Halfway /\ b = on.buf))
    <3>1. CASE Listed(b)
      BY <1>1, <1>2, <1>3, <3>1 DEF ListsMatchButOne
    <3>2. CASE ~Listed(b)
      <4>1. /\ b \notin ToSet(active) /\ b \notin ToSet(queued)
            /\ state'[b] \notin {"ACTIVE", "QUEUED"}
        BY <1>3, <3>2 DEF Listed
      <4>2. ~(Halfway /\ b = on.buf)
        BY <1>1, <4>1 DEF ListsMatchButOne
      <4> QED
        BY <1>2, <4>1, <4>2
    <3> QED
      BY <3>1, <3>2
  <2> QED
    BY <2>1, <2>2, <2>3, <2>4 DEF ListsMatchButOne
<1>6. ChainButOne' /\ QueuedStops'
  BY <1>1, <1>2, <1>3, <1>4 DEF ChainButOne, QueuedStops
<1>7. OneDim'
  BY <1>1, <1>2, <1>3, <1>4 DEF OneDim
<1>8. ScalerFitsSoon'
  <2>1. ScalerFitsActive => ScalerFitsActive'
    BY <1>2, <1>3, <1>4 DEF ScalerFitsActive
  <2> QED
    BY <1>1, <2>1 DEF ScalerFitsSoon
<1>9. ArmedSoon'
  BY <1>1, <1>2 DEF ArmedSoon, Untouched, Halfway
<1>10. OnPlace'
  <2>1. CASE on.pc = "move" /\ active # <<>> /\ on # OnIdle
    <3>1. /\ queued # <<>> /\ on.buf = Head(queued)
          /\ \/ on.prev = None /\ active = <<>>
             \/ on.prev = Last(active) /\ BufCompat(on.prev, on.buf)
      BY <1>1, <2>1 DEF OnPlace
    <3>2. /\ Head(queued) = queued[1] /\ 1 \in 1..Len(queued)
          /\ Last(active) = active[Len(active)]
          /\ Len(active) \in 1..Len(active)
      BY <1>1, <2>1, <3>1, TailAt, LastAt DEF TypeOK
    <3>3. /\ geom'[Head(queued)] = geom[Head(queued)]
          /\ geom'[Last(active)] = geom[Last(active)]
      BY <1>3, <1>4, <3>2
    <3> QED
      BY <1>2, <2>1, <3>1, <3>3 DEF OnPlace, BufCompat
  <2>2. CASE ~(on.pc = "move" /\ active # <<>> /\ on # OnIdle)
    BY <1>1, <1>2, <2>2 DEF OnPlace
  <2> QED
    BY <2>1, <2>2
<1> QED
  BY <1>5, <1>6, <1>7, <1>8, <1>9, <1>10 DEF Undisturbed

\* Outside tw68_buffer_requeue they are steps of Tw68Queue.  The power is off
\* for the chip and the processes.
LEMMA BesideIdle ==
    ASSUME RestartTypeOK, Undisturbed, Other, on = OnIdle,
           power = "off" => \/ TimerExpire \/ BufferTimeout
                            \/ IrqEnter \/ IrqVideoDone \/ IrqReread,
           UNCHANGED <<on, power>>
    PROVE  Undisturbed'
<1>1. /\ TypeOK /\ ListsMatchButOne /\ ChainButOne /\ QueuedStops
      /\ OneDim /\ ScalerFitsSoon /\ ArmedSoon
  BY DEF RestartTypeOK, Undisturbed
<1>2. ~Halfway /\ ~Halfway' /\ on.pc # "startmoved" /\ on'.pc # "startmoved"
  BY IdleAtRest DEF Halfway
<1>3. ListsMatchState /\ ChainFollowsActive
  BY <1>1, <1>2, AtRest
<1>4. [Next]_vars
  BY OtherIsNext
<1>5. ListsMatchState' /\ ChainFollowsActive' /\ QueuedStops' /\ TypeOK'
  BY <1>1, <1>3, <1>4, QueueAssumption, TypeStep, ListsStep, ChainStep
     DEF ListsMatchState
<1>6. ListsMatchButOne' /\ ChainButOne'
  <2>1. ListsMatchButOne'
    BY <1>2, <1>5 DEF ListsMatchButOne, ListsMatchState
  <2>2. on'.pc # "activate"
    BY <1>2 DEF Halfway
  <2>3. ChainButOne'
    BY <1>5, <2>2 DEF ChainButOne, ChainFollowsActive
  <2> QED
    BY <2>1, <2>3
<1>7. OneDim' /\ ScalerFitsSoon'
  <2>1. CASE power # "off"
    <3>1. ScalerFitsActive'
      BY <1>1, <1>2, <1>3, <1>4, <2>1, ScalerStep DEF ScalerFitsSoon
    <3>2. OneDim'
      BY <1>5, <3>1 DEF ScalerFitsActive, OneDim
    <3> QED
      BY <3>1, <3>2 DEF ScalerFitsSoon
  <2>2. CASE power = "off"
    <3>1. ScalerFitsSoon'
      BY <2>2 DEF ScalerFitsSoon
    <3>2. CASE BufferTimeout
      <4>1. UNCHANGED geom
            /\ (TimeoutEmpties \/ \E n \in 1..Len(queued) : TimeoutAdvances(n))
        BY <1>1, <1>3, <3>2, TimeoutCases
      <4>2. CASE TimeoutEmpties
        <5>1. Len(active') = 0
          BY <4>2 DEF TimeoutEmpties
        <5> QED
          BY <3>1, <5>1 DEF OneDim
      <4>3. ASSUME NEW n \in 1..Len(queued), TimeoutAdvances(n) PROVE OneDim'
        <5>1. ScalerFitsActive'
          BY <1>1, <4>1, <4>3, AdvanceScaler
        <5> QED
          BY <1>5, <5>1 DEF ScalerFitsActive, OneDim
      <4> QED
        BY <3>1, <4>1, <4>2, <4>3
    <3>3. CASE IrqVideoDone
      <4>1. UNCHANGED geom
            /\ (active' = active \/ (active # <<>> /\ active' = Tail(active)))
        BY <3>3 DEF IrqVideoDone, Wakeup
      <4>2. CASE active # <<>> /\ active' = Tail(active)
        <5>1. /\ Len(active') = Len(active) - 1 /\ Len(active) \in Nat
              /\ \A i \in 1..Len(active') : active'[i] = active[i + 1]
          BY <1>1, <4>2, TailAt DEF TypeOK
        <5>2. \A i \in 1..Len(active') : i + 1 \in 1..Len(active)
          BY <5>1
        <5>3. OneDim'
          BY <1>1, <4>1, <5>1, <5>2 DEF OneDim
        <5> QED
          BY <3>1, <5>3
      <4> QED
        BY <1>1, <3>1, <4>1, <4>2 DEF OneDim
    <3>4. CASE TimerExpire \/ IrqEnter \/ IrqReread
      <4>1. UNCHANGED <<active, geom>>
        BY <3>4 DEF TimerExpire, IrqEnter, IrqReread, lists
      <4> QED
        BY <1>1, <3>1, <4>1 DEF OneDim
    <3> QED
      BY <2>2, <3>2, <3>3, <3>4
  <2> QED
    BY <2>1, <2>2
<1>8. ArmedSoon'
  <2>1. power \in {"run", "stopped", "masked", "synced"} => WatchdogArmed
    BY <1>1, <1>2 DEF ArmedSoon
  <2>2. WatchdogArmed => WatchdogArmed'
    BY <1>1, <1>3, <1>4, WatchdogStep
  <2> QED
    BY <2>1, <2>2 DEF ArmedSoon
<1> QED
  BY <1>5, <1>6, <1>7, <1>8 DEF Undisturbed, OnPlace

-----------------------------------------------------------------------------
(* The steps of streamon.                                                  *)

\* Between two buffers streamon finds the invariant of Tw68Queue.
LEMMA Rest ==
    ASSUME Undisturbed, ~Halfway, power = "run"
    PROVE  /\ ListsMatchState /\ ChainFollowsActive /\ QueuedStops
           /\ ScalerFitsActive /\ WatchdogArmed
  BY AtRest DEF Undisturbed, ScalerFitsSoon, ArmedSoon, Halfway

LEMMA RestAgain ==
    ASSUME TypeOK', ~Halfway', OnPlace',
           ListsMatchState', ChainFollowsActive', QueuedStops',
           ScalerFitsActive', WatchdogArmed'
    PROVE  Undisturbed'
<1>1. ListsMatchButOne'
  BY DEF ListsMatchButOne, ListsMatchState
<1>2. on'.pc # "activate"
  BY DEF Halfway
<1>3. ChainButOne'
  BY <1>2 DEF ChainButOne, ChainFollowsActive
<1>4. OneDim'
  BY DEF ScalerFitsActive, OneDim
<1> QED
  BY <1>1, <1>3, <1>4 DEF Undisturbed, ScalerFitsSoon, ArmedSoon

LEMMA OnTypes ==
    ASSUME RestartTypeOK
    PROVE  /\ DOMAIN on = {"pc", "buf", "prev"}
           /\ on = [pc |-> on.pc, buf |-> on.buf, prev |-> on.prev]
           /\ on.buf \in Bufs \union {None} /\ on.prev \in Bufs \union {None}
  BY DEF RestartTypeOK

LEMMA OnReadStep ==
    ASSUME RestartTypeOK, Undisturbed, power = "run", OnRead
    PROVE  RestartTypeOK' /\ Undisturbed'
<1>1. /\ TypeOK /\ OnPlace
      /\ UNCHANGED <<active, queued, state, geom, jmp, timer, firing, irq, pp,
                     hwgeom, intstat, intmask, full, lateIrq, power, raced>>
  BY DEF OnRead, RestartTypeOK, Undisturbed, vars
<1>2. /\ active # <<>> => Head(active) \in Bufs
      /\ queued # <<>> => Head(queued) \in Bufs
  BY <1>1, TailAt DEF TypeOK
<1>3. on.pc \in {"idle", "next"} /\ ~Halfway
  BY DEF OnRead, Halfway
<1>4. on.pc = "idle" => on = OnIdle
  BY <1>1, <1>3 DEF OnPlace, OnIdle
<1>5. on.pc = "next" => active # <<>> /\ on.prev = Last(active)
  BY <1>1 DEF OnPlace, OnIdle
<1>6. /\ on' \in [pc : {"idle", "start", "arm", "move", "startmoved", "activate",
                        "next"},
                  buf : Bufs \union {None}, prev : Bufs \union {None}]
      /\ ~Halfway' /\ OnPlace'
  <2>1. CASE on.pc = "idle" /\ active # <<>>
             /\ on' = [on EXCEPT !.pc = "start", !.buf = Head(active)]
    <3>1. on' = [pc |-> "start", buf |-> Head(active), prev |-> on.prev]
      BY <2>1, OnTypes
    <3>2. on'.pc = "start" /\ on'.buf = Head(active) /\ on'.prev = None
      BY <1>4, <2>1, <3>1, IdleAtRest
    <3>3. ~Halfway' /\ OnPlace'
      BY <1>1, <2>1, <3>2 DEF OnPlace, Halfway
    <3> QED
      BY <1>2, <2>1, <3>1, <3>3, OnTypes
  <2>2. CASE on.pc = "idle" /\ active = <<>> /\ queued # <<>>
             /\ on' = [on EXCEPT !.pc = "move", !.buf = Head(queued)]
    <3>1. on' = [pc |-> "move", buf |-> Head(queued), prev |-> on.prev]
      BY <2>2, OnTypes
    <3>2. on'.pc = "move" /\ on'.buf = Head(queued) /\ on'.prev = None
      BY <1>4, <2>2, <3>1, IdleAtRest
    <3>3. ~Halfway' /\ OnPlace'
      BY <1>1, <2>2, <3>2 DEF OnPlace, Halfway
    <3> QED
      BY <1>2, <2>2, <3>1, <3>3, OnTypes
  <2>3. CASE /\ on.pc = "next" /\ queued # <<>>
             /\ BufCompat(on.prev, Head(queued))
             /\ on' = [on EXCEPT !.pc = "move", !.buf = Head(queued)]
    <3>1. on' = [pc |-> "move", buf |-> Head(queued), prev |-> on.prev]
      BY <2>3, OnTypes
    <3>2. on'.pc = "move" /\ on'.buf = Head(queued) /\ on'.prev = on.prev
      BY <3>1
    <3>3. BufCompat(on.prev, on.buf)'
      BY <1>1, <2>3, <3>2 DEF BufCompat
    <3>4. ~Halfway' /\ OnPlace'
      BY <1>1, <1>5, <2>3, <3>2, <3>3 DEF OnPlace, Halfway
    <3> QED
      BY <1>2, <2>3, <3>1, <3>4, OnTypes
  <2>4. CASE on' = OnIdle
    BY <2>4 DEF OnIdle, OnPlace, Halfway
  <2> QED
    BY <2>1, <2>2, <2>3, <2>4 DEF OnRead
<1>7. TypeOK'
  BY <1>1 DEF TypeOK
<1>8. /\ ListsMatchState' /\ ChainFollowsActive' /\ QueuedStops'
      /\ ScalerFitsActive' /\ WatchdogArmed'
  BY <1>1, <1>3, Rest DEF ListsMatchState, ChainFollowsActive, QueuedStops,
                          ScalerFitsActive, WatchdogArmed
<1> QED
  BY <1>1, <1>6, <1>7, <1>8, RestAgain DEF RestartTypeOK

LEMMA OnMoveStep ==
    ASSUME RestartTypeOK, Undisturbed, power = "run", OnMove
    PROVE  RestartTypeOK' /\ Undisturbed'
<1> DEFINE buf == on.buf
           n == Len(active)
<1>1. /\ TypeOK /\ OnPlace /\ on.pc = "move" /\ ~Halfway
      /\ active' = Append(active, buf) /\ queued' = Tail(queued)
      /\ on' = [on EXCEPT !.pc = IF on.prev = None THEN "startmoved"
                                 ELSE "activate"]
      /\ UNCHANGED <<state, geom, jmp, timer, firing, irq, pp, hwgeom, intstat,
                     intmask, full, lateIrq, power, raced>>
  BY DEF OnMove, RestartTypeOK, Undisturbed, chip, Halfway
<1>2. /\ ListsMatchState /\ ChainFollowsActive /\ QueuedStops
      /\ ScalerFitsActive /\ WatchdogArmed
  BY <1>1, Rest
<1>3. /\ queued # <<>> /\ buf = Head(queued)
      /\ \/ on.prev = None /\ active = <<>>
         \/ /\ active # <<>> /\ on.prev = Last(active)
            /\ BufCompat(on.prev, buf)
  BY <1>1 DEF OnPlace, OnIdle
<1>4. /\ buf \in Bufs /\ buf = queued[1] /\ Len(queued) \in Nat \ {0}
      /\ Tail(queued) \in Seq(Bufs) /\ Len(Tail(queued)) = Len(queued) - 1
      /\ \A i \in 1..Len(Tail(queued)) : Tail(queued)[i] = queued[i + 1]
  BY <1>1, <1>3, TailAt DEF TypeOK
<1>5. /\ Append(active, buf) \in Seq(Bufs) /\ n \in Nat
      /\ Len(Append(active, buf)) = n + 1
      /\ \A i \in 1..n : Append(active, buf)[i] = active[i]
      /\ Append(active, buf)[n + 1] = buf
  BY <1>1, <1>4, AppendAt DEF TypeOK
<1>6. state[buf] = "QUEUED" /\ buf \notin ToSet(active) /\ buf \in ToSet(queued)
  <2>1. buf \in ToSet(queued)
    BY <1>1, <1>2, <1>3, TailSet DEF TypeOK, ListsMatchState
  <2> QED
    BY <1>2, <1>4, <2>1 DEF ListsMatchState
<1>7. /\ on'.buf = buf /\ on'.prev = on.prev
      /\ on'.pc = IF on.prev = None THEN "startmoved" ELSE "activate"
      /\ on' \in [pc : {"idle", "start", "arm", "move", "startmoved", "activate",
                        "next"},
                  buf : Bufs \union {None}, prev : Bufs \union {None}]
  BY <1>1 DEF RestartTypeOK
<1>8. /\ active # <<>> => /\ Last(active) = active[n] /\ n \in Nat \ {0}
                          /\ Last(active) \in Bufs
      /\ active = <<>> => n = 0
  BY <1>1, LastAt DEF TypeOK
<1>9. /\ on.prev = None => active = <<>> /\ n = 0
      /\ on.prev # None => /\ active # <<>> /\ n \in Nat \ {0}
                           /\ on.prev = active[n]
                           /\ geom[active[n]].dim = geom[buf].dim
  BY <1>3, <1>8, RestartAssumption DEF BufCompat
<1>10. TypeOK'
  <2>1. active' \in Seq(Bufs) /\ queued' \in Seq(Bufs)
    BY <1>1, <1>4, <1>5
  <2> QED
    BY <1>1, <2>1 DEF TypeOK
<1>11. ListsMatchButOne'
  <2>1. /\ IsInjective(active') /\ ToSet(active') = ToSet(active) \union {buf}
    BY <1>1, <1>2, <1>4, <1>6, AppendSet DEF TypeOK, ListsMatchState
  <2>2. /\ IsInjective(queued') /\ ToSet(queued') = ToSet(queued) \ {buf}
    BY <1>1, <1>2, <1>3, TailSet DEF TypeOK, ListsMatchState
  <2>3. Halfway'
    BY <1>7 DEF Halfway
  <2> HIDE DEF buf
  <2> QED
    BY <1>1, <1>2, <1>6, <1>7, <2>1, <2>2, <2>3
       DEF ListsMatchButOne, ListsMatchState
<1>12. Len(active') = n + 1 /\ Len(queued') = Len(queued) - 1
  BY <1>1, <1>4, <1>5
<1>13. ChainButOne'
  <2>1. jmp[buf] = Stopper
    BY <1>2, <1>4 DEF QueuedStops
  <2>2. \A i \in 1..n : jmp[active[i]] = IF i < n THEN active[i + 1] ELSE Stopper
    BY <1>2 DEF ChainFollowsActive
  <2>3. n > 0 => on'.pc = "activate"
    BY <1>5, <1>7, <1>9
  <2> SUFFICES ASSUME NEW i \in 1..(n + 1)
               PROVE  jmp[active'[i]] =
                        IF i < n + 1 /\ ~(on'.pc = "activate" /\ i = n)
                        THEN active'[i + 1] ELSE Stopper
    <3>1. Len(active') - 1 = n
      BY <1>5, <1>12
    <3> HIDE DEF n
    <3> QED
      BY <1>1, <1>12, <3>1 DEF ChainButOne
  <2> HIDE DEF n, buf
  <2>4. CASE i = n + 1
    BY <1>1, <1>5, <2>1, <2>4
  <2>5. CASE i = n
    <3>1. i \in 1..n /\ n > 0
      BY <1>5, <2>5
    <3> QED
      BY <1>1, <1>5, <2>2, <2>3, <2>5, <3>1
  <2>6. CASE i < n
    <3>1. i \in 1..n /\ i + 1 \in 1..n
      BY <1>5, <2>6
    <3> QED
      BY <1>1, <1>5, <2>2, <2>6, <3>1
  <2> QED
    BY <1>5, <2>4, <2>5, <2>6
<1>14. QueuedStops'
  BY <1>1, <1>2, <1>4 DEF QueuedStops
<1>15. OneDim' /\ ScalerFitsSoon'
  <2>1. \A i \in 1..n : geom[active[i]].dim = hwgeom.dim
    BY <1>2 DEF ScalerFitsActive
  <2>2. CASE on.prev = None
    <3>1. Len(active') = 1
      BY <1>9, <1>12, <2>2
    <3> QED
      BY <1>7, <2>2, <3>1 DEF OneDim, ScalerFitsSoon
  <2>3. CASE on.prev # None
    <3>1. geom[buf].dim = hwgeom.dim
      BY <1>9, <2>1, <2>3
    <3>2. \A i \in 1..(n + 1) : geom[active'[i]].dim = hwgeom.dim
      BY <1>1, <1>5, <2>1, <3>1
    <3> HIDE DEF n
    <3> QED
      BY <1>1, <1>12, <3>2 DEF OneDim, ScalerFitsSoon, ScalerFitsActive
  <2> QED
    BY <2>2, <2>3
<1>16. ArmedSoon'
  <2>1. CASE on.prev = None
    BY <1>7, <2>1 DEF ArmedSoon, Halfway
  <2>2. CASE on.prev # None
    BY <1>1, <1>2, <1>9, <2>2 DEF ArmedSoon, WatchdogArmed
  <2> QED
    BY <2>1, <2>2
<1>17. OnPlace'
  <2>1. CASE on.prev = None
    <3>1. Append(<<>>, buf) = <<buf>>
      BY <1>4
    <3> QED
      BY <1>1, <1>7, <1>9, <2>1, <3>1 DEF OnPlace
  <2>2. CASE on.prev # None
    <3>1. active' # <<>>
      BY <1>5, <1>12
    <3>2. Last(active') = buf
      BY <1>1, <1>5, <1>12 DEF Last
    <3>3. Len(active') > 1 /\ active'[Len(active') - 1] = on.prev
      BY <1>1, <1>5, <1>9, <1>12, <2>2
    <3> QED
      BY <1>7, <2>2, <3>1, <3>2, <3>3 DEF OnPlace
  <2> QED
    BY <2>1, <2>2
<1> QED
  BY <1>1, <1>7, <1>10, <1>11, <1>13, <1>14, <1>15, <1>16, <1>17
     DEF RestartTypeOK, Undisturbed

LEMMA OnStartStep ==
    ASSUME RestartTypeOK, Undisturbed, power = "run", OnStart
    PROVE  RestartTypeOK' /\ Undisturbed'
<1>1. /\ TypeOK /\ OnPlace /\ on.pc \in {"start", "startmoved"}
      /\ ListsMatchButOne /\ ChainButOne /\ QueuedStops /\ OneDim /\ ArmedSoon
      /\ UNCHANGED <<active, queued, state, geom, jmp, timer, firing, irq, full,
                     power, raced>>
      /\ pp' = on.buf /\ hwgeom' = geom[on.buf] /\ intstat' = {} /\ intmask' = TRUE
      /\ lateIrq' = IF WakeupPending THEN TRUE ELSE lateIrq
      /\ on' = [on EXCEPT !.pc = IF on.pc = "start" THEN "arm" ELSE "activate"]
  BY DEF OnStart, StartDma, RestartTypeOK, Undisturbed, lists
<1>2. /\ on'.buf = on.buf /\ on'.prev = on.prev
      /\ on'.pc = IF on.pc = "start" THEN "arm" ELSE "activate"
      /\ on' \in [pc : {"idle", "start", "arm", "move", "startmoved", "activate",
                        "next"},
                  buf : Bufs \union {None}, prev : Bufs \union {None}]
  BY <1>1 DEF RestartTypeOK
<1>3. active # <<>> /\ on.prev = None
      /\ IF on.pc = "start" THEN on.buf = Head(active) ELSE active = <<on.buf>>
  BY <1>1 DEF OnPlace, OnIdle
<1>4. /\ Len(active) \in Nat \ {0} /\ Head(active) = active[1]
      /\ active[1] \in Bufs
  BY <1>1, <1>3, TailAt DEF TypeOK
<1>5. on.buf = active[1]
  BY <1>1, <1>3, <1>4
<1>6. TypeOK'
  BY <1>1, <1>4, <1>5 DEF TypeOK
<1>7. Halfway' <=> Halfway
  BY <1>1, <1>2 DEF Halfway
<1>8. ListsMatchButOne'
  BY <1>1, <1>2, <1>7 DEF ListsMatchButOne
<1>9. ChainButOne' /\ QueuedStops'
  <2>1. on.pc = "startmoved" => Len(active) = 1
    BY <1>1, <1>3
  <2>2. QueuedStops'
    BY <1>1 DEF QueuedStops
  <2>3. \A i \in 1..Len(active) : ~(on'.pc = "activate" /\ i = Len(active) - 1)
                                  /\ ~(on.pc = "activate" /\ i = Len(active) - 1)
    <3>1. on.pc # "activate"
      BY <1>1
    <3>2. CASE on.pc = "start"
      BY <1>2, <3>1, <3>2
    <3>3. CASE on.pc = "startmoved"
      <4>1. \A i \in 1..Len(active) : i # Len(active) - 1
        BY SMTT(60), <2>1, <3>3
      <4> QED
        BY <3>1, <4>1
    <3> QED
      BY <1>1, <3>2, <3>3
  <2>4. ChainButOne'
    BY <1>1, <2>3 DEF ChainButOne
  <2> QED
    BY <2>2, <2>4
<1>10. OneDim' /\ ScalerFitsSoon'
  <2>1. OneDim'
    BY <1>1 DEF OneDim
  <2>2. ScalerFitsActive'
    BY <1>1, <1>4, <1>5 DEF OneDim, ScalerFitsActive
  <2> QED
    BY <2>1, <2>2 DEF ScalerFitsSoon
<1>11. ArmedSoon'
  BY <1>1, <1>2, <1>7 DEF ArmedSoon, WatchdogArmed
<1>12. OnPlace'
  <2>1. CASE on.pc = "start"
    BY <1>1, <1>2, <1>3, <2>1 DEF OnPlace
  <2>2. CASE on.pc = "startmoved"
    <3>1. Len(active) = 1
      BY <1>3, <2>2
    <3>2. Last(active) = on.buf
      BY <1>5, <3>1 DEF Last
    <3> QED
      BY <1>1, <1>2, <1>3, <2>2, <3>1, <3>2 DEF OnPlace
  <2> QED
    BY <1>1, <2>1, <2>2
<1> QED
  BY <1>1, <1>2, <1>6, <1>8, <1>9, <1>10, <1>11, <1>12
     DEF RestartTypeOK, Undisturbed

LEMMA OnArmStep ==
    ASSUME RestartTypeOK, Undisturbed, power = "run", OnArm
    PROVE  RestartTypeOK' /\ Undisturbed'
<1>1. /\ TypeOK /\ on.pc = "arm" /\ ~Halfway /\ on' = OnIdle /\ timer' = TRUE
      /\ UNCHANGED <<active, queued, state, geom, jmp, firing, irq, pp, hwgeom,
                     intstat, intmask, full, lateIrq, power, raced>>
  BY DEF OnArm, ModTimer, RestartTypeOK, Undisturbed, lists, chip, Halfway
<1>2. TypeOK'
  BY <1>1 DEF TypeOK
<1>3. /\ ListsMatchState' /\ ChainFollowsActive' /\ QueuedStops'
      /\ ScalerFitsActive' /\ WatchdogArmed'
  BY <1>1, Rest DEF ListsMatchState, ChainFollowsActive, QueuedStops,
                    ScalerFitsActive, WatchdogArmed
<1>4. ~Halfway' /\ OnPlace'
  BY <1>1 DEF OnIdle, Halfway, OnPlace
<1> QED
  BY <1>1, <1>2, <1>3, <1>4, RestAgain DEF RestartTypeOK, OnIdle

LEMMA OnActivateStep ==
    ASSUME RestartTypeOK, Undisturbed, power = "run", OnActivate
    PROVE  RestartTypeOK' /\ Undisturbed'
<1> DEFINE buf == on.buf
           n == Len(active)
<1>1. /\ TypeOK /\ OnPlace /\ on.pc = "activate" /\ Halfway
      /\ ListsMatchButOne /\ ChainButOne /\ QueuedStops /\ ScalerFitsSoon
      /\ state' = [state EXCEPT ![buf] = "ACTIVE"] /\ timer' = TRUE
      /\ jmp' = IF on.prev = None THEN jmp ELSE [jmp EXCEPT ![on.prev] = buf]
      /\ on' = [pc |-> "next", buf |-> None, prev |-> buf]
      /\ UNCHANGED <<active, queued, geom, firing, irq, pp, hwgeom, intstat,
                     intmask, full, lateIrq, power, raced>>
  BY DEF OnActivate, ModTimer, RestartTypeOK, Undisturbed, lists, chip, Halfway
<1>2. /\ active # <<>> /\ buf = Last(active)
      /\ \/ on.prev = None /\ n = 1
         \/ n > 1 /\ on.prev = active[n - 1]
  BY <1>1 DEF OnPlace, OnIdle
<1>3. n \in Nat \ {0} /\ buf = active[n] /\ buf \in Bufs
  BY <1>1, <1>2, LastAt DEF TypeOK
<1>4. /\ \A i \in 1..n : active[i] \in Bufs
      /\ \A i, j \in 1..n : active[i] = active[j] => i = j
      /\ IsInjective(active)
  BY <1>1, MembersAt DEF ListsMatchButOne, IsInjective
<1>5. on.prev # None => n > 1 /\ n - 1 \in 1..n /\ on.prev = active[n - 1]
                        /\ on.prev \in Bufs
  BY <1>2, <1>3, <1>4
<1>6. on.prev = None => n = 1
  <2>1. n > 1 => active[n - 1] \in Bufs
    BY <1>3, <1>4
  <2> QED
    BY <1>2, <2>1, RestartAssumption
<1>7. TypeOK' /\ on' \in [pc : {"idle", "start", "arm", "move", "startmoved",
                                "activate", "next"},
                          buf : Bufs \union {None}, prev : Bufs \union {None}]
  <2>1. jmp' \in [Bufs -> Bufs \union {Stopper}]
    BY <1>1, <1>3, <1>5 DEF TypeOK
  <2>2. state' \in [Bufs -> BufStates]
    BY <1>1, <1>3 DEF TypeOK, BufStates
  <2>3. TypeOK'
    BY <1>1, <2>1, <2>2 DEF TypeOK
  <2> QED
    BY <1>1, <1>3, <2>3
<1>8. ~Halfway' /\ OnPlace'
  <2>1. on'.pc = "next" /\ on'.buf = None /\ on'.prev = Last(active)
    BY <1>1, <1>2
  <2> QED
    BY <1>1, <1>2, <2>1 DEF Halfway, OnPlace
<1>9. ListsMatchState'
  <2>1. buf \in ToSet(active) /\ state[buf] = "QUEUED"
    BY <1>1 DEF ListsMatchButOne
  <2>2. state'[buf] = "ACTIVE" /\ \A b \in Bufs \ {buf} : state'[b] = state[b]
    BY <1>1, <1>3 DEF TypeOK
  <2>3. /\ IsInjective(active') /\ IsInjective(queued')
        /\ \A b \in Bufs :
             /\ b \in ToSet(active) <=> (state[b] = "ACTIVE" \/ b = buf)
             /\ b \in ToSet(queued) <=> (state[b] = "QUEUED" /\ b # buf)
    BY <1>1 DEF ListsMatchButOne
  <2> HIDE DEF buf
  <2> QED
    BY <1>1, <2>1, <2>2, <2>3 DEF ListsMatchState
<1>10. /\ on.prev # None => on.prev \in ToSet(active)
       /\ \A i \in 1..Len(queued) : queued[i] \in Bufs
                                    /\ queued[i] \notin ToSet(active)
  <2>1. DOMAIN active = 1..n /\ DOMAIN queued = 1..Len(queued)
        /\ \A i \in 1..Len(queued) : queued[i] \in Bufs
    BY <1>1, MembersAt
  <2>2. \A i \in 1..n : active[i] \in ToSet(active)
    BY <2>1 DEF ToSet
  <2>3. \A i \in 1..Len(queued) : queued[i] \in ToSet(queued)
    BY <2>1 DEF ToSet
  <2>4. \A b \in Bufs : b \in ToSet(queued) => b \notin ToSet(active)
    BY <1>1 DEF ListsMatchButOne
  <2> QED
    BY <1>5, <2>1, <2>2, <2>3, <2>4
<1>11. QueuedStops'
  <2>1. ASSUME NEW i \in 1..Len(queued) PROVE jmp'[queued[i]] = jmp[queued[i]]
    <3>1. queued[i] \in Bufs /\ (on.prev # None => queued[i] # on.prev)
      BY <1>10
    <3>2. CASE on.prev = None
      BY <1>1, <3>2
    <3>3. CASE on.prev # None
      BY <1>1, <3>1, <3>3 DEF TypeOK
    <3> QED
      BY <3>2, <3>3
  <2> QED
    BY <1>1, <2>1 DEF QueuedStops
<1>12. ChainFollowsActive'
  <2>1. \A i \in 1..n : jmp[active[i]] = IF i < n /\ i # n - 1
                                         THEN active[i + 1] ELSE Stopper
    BY <1>1 DEF ChainButOne
  <2> SUFFICES ASSUME NEW i \in 1..n
               PROVE  jmp'[active[i]] = IF i < n THEN active[i + 1] ELSE Stopper
    BY <1>1 DEF ChainFollowsActive
  <2>2. CASE on.prev = None
    <3>1. n = 1 /\ jmp' = jmp
      BY <1>1, <1>6, <2>2
    <3>2. i = 1 /\ ~(i < n)
      BY <3>1
    <3> QED
      BY <2>1, <3>1, <3>2
  <2>3. CASE on.prev # None
    <3>1. /\ jmp'[active[n - 1]] = buf
          /\ \A b \in Bufs \ {active[n - 1]} : jmp'[b] = jmp[b]
      BY <1>1, <1>5, <2>3 DEF TypeOK
    <3>2. CASE i = n - 1
      BY <1>3, <3>1, <3>2
    <3>3. CASE i # n - 1
      <4>1. active[i] \in Bufs /\ active[i] # active[n - 1]
        BY <1>4, <1>5, <2>3, <3>3
      <4> QED
        BY <2>1, <3>1, <3>3, <4>1
    <3> QED
      BY <3>2, <3>3
  <2> QED
    BY <2>2, <2>3
<1>13. ScalerFitsActive' /\ WatchdogArmed'
  BY <1>1 DEF ScalerFitsSoon, ScalerFitsActive, WatchdogArmed
<1> QED
  BY <1>1, <1>7, <1>8, <1>9, <1>11, <1>12, <1>13, RestAgain DEF RestartTypeOK

-----------------------------------------------------------------------------
(* The steps of a suspend, and the resume.                                 *)

\* None of them touches the lists before the resume.
LEMMA SuspendStep ==
    ASSUME RestartTypeOK, Undisturbed, on = OnIdle,
           \/ SuspendEngine \/ SuspendMask \/ SuspendSync \/ SuspendTimer
           \/ SuspendPower
    PROVE  RestartTypeOK' /\ Undisturbed'
<1>1. /\ TypeOK /\ ListsMatchButOne /\ ChainButOne /\ QueuedStops
      /\ OneDim /\ ScalerFitsSoon /\ ArmedSoon
  BY DEF RestartTypeOK, Undisturbed
<1>2. /\ UNCHANGED <<active, queued, state, geom, jmp, firing, irq, full, lateIrq,
                     on, raced>>
      /\ pp' \in {pp, Off} /\ intmask' \in BOOLEAN /\ intstat' \in SUBSET IntBits
      /\ hwgeom' \in Geoms /\ timer' \in BOOLEAN
      /\ power' \in {"stopped", "masked", "synced", "untimed", "off"}
      /\ power' = "off" \/ (power # "off" /\ hwgeom' = hwgeom)
      /\ power' \in {"stopped", "masked", "synced"}
           => /\ power \in {"run", "stopped", "masked", "synced"}
              /\ timer' = timer
  <2>1. CASE SuspendEngine
    BY <1>1, <2>1 DEF SuspendEngine, lists, TypeOK
  <2>2. CASE SuspendMask
    BY <1>1, <2>2 DEF SuspendMask, lists, TypeOK
  <2>3. CASE SuspendSync
    BY <1>1, <2>3 DEF SuspendSync, vars, TypeOK
  <2>4. CASE SuspendTimer
    BY <1>1, <2>4 DEF SuspendTimer, lists, chip, TypeOK
  <2>5. CASE SuspendPower
    BY <1>1, <2>5 DEF SuspendPower, lists, TypeOK
  <2> QED
    BY <2>1, <2>2, <2>3, <2>4, <2>5
<1>3. RestartTypeOK'
  <2>1. TypeOK'
    BY <1>1, <1>2 DEF TypeOK
  <2> QED
    BY <1>2, <2>1 DEF RestartTypeOK
<1>4. ListsMatchButOne' /\ ChainButOne' /\ QueuedStops' /\ OneDim'
  BY <1>1, <1>2 DEF ListsMatchButOne, ChainButOne, QueuedStops, OneDim, Halfway
<1>5. ScalerFitsSoon'
  BY <1>1, <1>2, IdleAtRest DEF ScalerFitsSoon, ScalerFitsActive
<1>6. ArmedSoon'
  BY <1>1, <1>2, IdleAtRest DEF ArmedSoon, WatchdogArmed
<1> QED
  BY <1>2, <1>3, <1>4, <1>5, <1>6 DEF Undisturbed, OnPlace

\* The requeue of a resume restarts what was active, or what waited.
LEMMA ResumeStep ==
    ASSUME RestartTypeOK, Undisturbed, on = OnIdle, Resume
    PROVE  RestartTypeOK' /\ Undisturbed' /\ ResumeServes'
<1>1. /\ TypeOK /\ ListsMatchButOne /\ ChainButOne /\ QueuedStops /\ OneDim
      /\ Requeue(active, queued, state) /\ power' = "oops"
      /\ UNCHANGED <<geom, firing, irq, full, on, raced>>
  BY DEF RestartTypeOK, Undisturbed, Resume, ResumeRequeue
<1>2. ~Halfway /\ on.pc # "activate" /\ ListsMatchState /\ ChainFollowsActive
  BY <1>1, IdleAtRest, AtRest
<1>3. ASSUME TypeOK', ListsMatchState', ChainFollowsActive', QueuedStops',
             ScalerFitsActive'
      PROVE  RestartTypeOK' /\ Undisturbed'
  <2>1. ListsMatchButOne' /\ ~Halfway'
    BY <1>1, <1>2, <1>3 DEF ListsMatchButOne, ListsMatchState, Halfway
  <2>2. ChainButOne'
    BY <1>1, <1>2, <1>3 DEF ChainButOne, ChainFollowsActive
  <2>3. OneDim' /\ ScalerFitsSoon'
    <3>1. OneDim'
      BY <1>3 DEF OneDim, ScalerFitsActive
    <3> QED
      BY <1>3, <3>1 DEF ScalerFitsSoon
  <2>4. ArmedSoon' /\ OnPlace'
    BY <1>1 DEF ArmedSoon, OnPlace
  <2> QED
    BY <1>1, <1>3, <2>1, <2>2, <2>3, <2>4 DEF RestartTypeOK, Undisturbed
<1>4. CASE active # <<>>
  <2>1. /\ UNCHANGED <<active, queued, state, jmp>> /\ timer' = TRUE
        /\ StartDma(Head(active))
    BY <1>1, <1>4 DEF Requeue, ModTimer
  <2>2. Len(active) \in Nat \ {0} /\ Head(active) = active[1] /\ active[1] \in Bufs
    BY <1>1, <1>4, TailAt DEF TypeOK
  <2>3. TypeOK'
    BY <1>1, <2>1, <2>2 DEF TypeOK, StartDma
  <2>4. ListsMatchState' /\ ChainFollowsActive' /\ QueuedStops'
    BY <1>1, <1>2, <2>1 DEF ListsMatchState, ChainFollowsActive, QueuedStops
  <2>5. ScalerFitsActive'
    BY <1>1, <2>1, <2>2 DEF ScalerFitsActive, OneDim, StartDma
  <2>6. ResumeServes'
    BY <1>4, <2>1 DEF ResumeServes, StartDma
  <2> QED
    BY <1>3, <2>3, <2>4, <2>5, <2>6
<1>5. CASE active = <<>> /\ queued = <<>>
  <2>1. UNCHANGED <<active, queued, state, jmp, timer>> /\ NoStartDma
    <3>1. \A k \in 1..Len(queued) : FALSE
      BY <1>5
    <3> QED
      BY <1>1, <1>5, <3>1 DEF Requeue
  <2>2. TypeOK'
    BY <1>1, <2>1 DEF TypeOK, NoStartDma
  <2>3. ListsMatchState' /\ ChainFollowsActive' /\ QueuedStops'
    BY <1>1, <1>2, <2>1 DEF ListsMatchState, ChainFollowsActive, QueuedStops
  <2>4. ScalerFitsActive' /\ ResumeServes'
    <3>1. Len(active') = 0
      BY <1>5, <2>1
    <3> QED
      BY <1>5, <2>1, <3>1 DEF ScalerFitsActive, ResumeServes
  <2> QED
    BY <1>3, <2>2, <2>3, <2>4
<1>6. CASE active = <<>> /\ queued # <<>>
  <2>1. PICK n \in 1..Len(queued) :
            /\ CompatRun(queued, n)
            /\ active' = SubSeq(queued, 1, n)
            /\ queued' = SubSeq(queued, n + 1, Len(queued))
            /\ state' = [b \in Bufs |-> IF \E i \in 1..n : queued[i] = b
                                        THEN "ACTIVE" ELSE state[b]]
            /\ jmp' = LinkFirst(queued, n)
    BY <1>1, <1>6 DEF Requeue
  <2>2. StartDma(Head(queued)) /\ timer' = TRUE
    BY <1>1, <1>6 DEF Requeue, ModTimer
  <2>3. \A b \in Bufs : state[b] # "ACTIVE"
    <3>1. ToSet(active) = {}
      BY <1>6 DEF ToSet
    <3> QED
      BY <1>2, <3>1 DEF ListsMatchState
  <2>4. TimeoutAdvances(n)
    BY <2>1, <2>2, <2>3 DEF TimeoutAdvances
  <2>5. /\ ListsMatchState' /\ ChainFollowsActive' /\ QueuedStops'
        /\ ScalerFitsActive'
    BY <1>1, <1>2, <2>4, AdvanceLists, AdvanceChain, AdvanceScaler
  <2>6. /\ active' \in Seq(Bufs) /\ queued' \in Seq(Bufs) /\ Head(queued) \in Bufs
        /\ Len(active') = n /\ active'[1] = queued[1] /\ Head(queued) = queued[1]
    <3>1. queued \in Seq(Bufs) /\ 1 \in 1..n
      BY <1>1 DEF TypeOK
    <3> QED
      BY <2>1, <3>1, CutAt
  <2>7. TypeOK'
    <3>1. jmp' \in [Bufs -> Bufs \union {Stopper}]
      BY <1>1, <1>2, <2>1, LinkFirstAt DEF TypeOK, ListsMatchState
    <3>2. state' \in [Bufs -> BufStates]
      BY <1>1, <2>1 DEF TypeOK, BufStates
    <3> QED
      BY <1>1, <2>2, <2>6, <3>1, <3>2 DEF TypeOK, StartDma
  <2>8. ResumeServes'
    <3>1. active' # <<>> /\ Head(active') = active'[1]
      BY <2>6, TailAt
    <3> QED
      BY <2>2, <2>6, <3>1 DEF ResumeServes, StartDma
  <2> QED
    BY <1>3, <2>5, <2>7, <2>8
<1> QED
  BY <1>4, <1>5, <1>6

-----------------------------------------------------------------------------
(* The invariant.                                                          *)

LEMMA RestartInvInit == ASSUME RestartInit PROVE RestartInv
<1>1. /\ TypeOK /\ ListsMatchState /\ active = <<>> /\ queued = <<>>
  BY QueueAssumption, TypeInit, ListsInit DEF RestartInit, Init
<1>2. on = OnIdle /\ power = "run" /\ raced = FALSE
  BY DEF RestartInit
<1>3. Len(active) = 0 /\ Len(queued) = 0
  BY <1>1
<1>4. ~Halfway /\ on.pc = "idle"
  BY <1>2, IdleAtRest
<1>5. ListsMatchButOne /\ ChainButOne /\ QueuedStops
  BY <1>1, <1>3, <1>4 DEF ListsMatchButOne, ListsMatchState, ChainButOne,
                          QueuedStops
<1>6. OneDim /\ ScalerFitsSoon /\ ArmedSoon
  BY <1>1, <1>3 DEF OneDim, ScalerFitsSoon, ScalerFitsActive, ArmedSoon,
                    WatchdogArmed
<1>7. RestartTypeOK
  BY <1>1, <1>2 DEF RestartTypeOK, OnIdle
<1> QED
  BY <1>2, <1>5, <1>6, <1>7 DEF RestartInv, Undisturbed, OnPlace, ResumeServes

\* The interrupt, the timer, the chip and the other calls.
LEMMA BesideStep ==
    ASSUME RestartInv, ~raced, Other, Beside, power # "oops",
           on # OnIdle => power = "run",
           power = "off" => \/ TimerExpire \/ BufferTimeout
                            \/ IrqEnter \/ IrqVideoDone \/ IrqReread
    PROVE  RestartInv'
<1>1. /\ RestartTypeOK /\ Undisturbed /\ UNCHANGED <<on, power>>
      /\ raced' = (on # OnIdle /\ lists' # lists)
      /\ power # "run" => on = OnIdle
  BY DEF RestartInv, Beside
<1>2. TypeOK /\ IsInjective(queued)
  BY <1>1 DEF RestartTypeOK, Undisturbed, ListsMatchButOne
<1>3. TypeOK'
  BY <1>2, QueueAssumption, OtherIsNext, TypeStep
<1>4. RestartTypeOK'
  BY <1>1, <1>3 DEF RestartTypeOK
<1>5. raced' \/ Undisturbed'
  <2>1. CASE on = OnIdle
    BY <1>1, <2>1, BesideIdle
  <2>2. CASE on # OnIdle /\ lists' = lists
    BY <1>1, <2>2, BesideMoving
  <2> QED
    BY <1>1, <2>1, <2>2
<1>6. ResumeServes'
  BY <1>1 DEF ResumeServes
<1> QED
  BY <1>1, <1>4, <1>5, <1>6 DEF RestartInv

LEMMA RestartInvStep ==
    ASSUME RestartInv, [RestartNext]_<<vars, restart>>
    PROVE  RestartInv'
<1>1. CASE UNCHANGED <<vars, restart>>
  <2>1. UNCHANGED <<active, queued, state, geom, jmp, timer, firing, irq, pp,
                    hwgeom, intstat, intmask, full, lateIrq, on, power, raced>>
    BY <1>1 DEF vars, restart
  <2>2. RestartTypeOK'
    BY <2>1 DEF RestartInv, RestartTypeOK, TypeOK
  <2>3. Undisturbed => Undisturbed'
    BY <2>1 DEF Undisturbed, ListsMatchButOne, ChainButOne, QueuedStops, OneDim,
                ScalerFitsSoon, ScalerFitsActive, ArmedSoon, WatchdogArmed,
                OnPlace, Halfway, BufCompat
  <2> QED
    BY <2>1, <2>2, <2>3 DEF RestartInv, ResumeServes
<1>2. ASSUME ~raced, Processes PROVE RestartInv'
  BY <1>2, BesideStep DEF Processes, Other
<1>3. ASSUME ~raced, Deferred PROVE RestartInv'
  <2>1. on # OnIdle => power = "run"
    BY DEF RestartInv
  <2>2. Other /\ Beside /\ power # "oops"
        /\ (\/ TimerExpire \/ BufferTimeout
            \/ IrqEnter \/ IrqVideoDone \/ IrqReread)
    BY <1>3 DEF Deferred, Other
  <2> QED
    BY <1>3, <2>1, <2>2, BesideStep
<1>4. ASSUME ~raced, Chip PROVE RestartInv'
  <2>1. on # OnIdle => power = "run"
    BY DEF RestartInv
  <2>2. Other /\ Beside /\ power \notin {"off", "oops"}
    BY <1>4 DEF Chip, Other
  <2> QED
    BY <1>4, <2>1, <2>2, BesideStep
<1>5. ASSUME ~raced, power = "run",
             OnRead \/ OnMove \/ OnStart \/ OnArm \/ OnActivate
      PROVE  RestartInv'
  <2>1. RestartTypeOK /\ Undisturbed
    BY <1>5 DEF RestartInv
  <2>2. RestartTypeOK' /\ Undisturbed'
    BY <1>5, <2>1, OnReadStep, OnMoveStep, OnStartStep, OnArmStep, OnActivateStep
  <2>3. power' = "run" /\ raced' = raced
    BY <1>5 DEF OnRead, OnMove, OnStart, OnArm, OnActivate
  <2> QED
    BY <1>5, <2>2, <2>3 DEF RestartInv, ResumeServes
<1>6. ASSUME ~raced, \/ SuspendEngine \/ SuspendMask \/ SuspendSync
                     \/ SuspendTimer \/ SuspendPower
      PROVE  RestartInv'
  <2>1. /\ power' \in {"stopped", "masked", "synced", "untimed", "off"}
        /\ UNCHANGED <<on, raced>>
        /\ power = "run" => on = OnIdle
    BY <1>6 DEF SuspendEngine, SuspendMask, SuspendSync, SuspendTimer,
                SuspendPower
  <2>2. RestartTypeOK /\ Undisturbed /\ on = OnIdle
    BY <1>6, <2>1 DEF RestartInv
  <2>3. RestartTypeOK' /\ Undisturbed'
    BY <1>6, <2>2, SuspendStep
  <2> QED
    BY <1>6, <2>1, <2>2, <2>3 DEF RestartInv, ResumeServes
<1>7. ASSUME ~raced, Resume PROVE RestartInv'
  <2>1. power = "off" /\ UNCHANGED <<on, raced>>
    BY <1>7 DEF Resume
  <2>2. RestartTypeOK /\ Undisturbed /\ on = OnIdle
    BY <1>7, <2>1 DEF RestartInv
  <2>3. RestartTypeOK' /\ Undisturbed' /\ ResumeServes'
    BY <1>7, <2>2, ResumeStep
  <2> QED
    BY <1>7, <2>1, <2>2, <2>3 DEF RestartInv
<1> QED
  BY <1>1, <1>2, <1>3, <1>4, <1>5, <1>6, <1>7 DEF RestartNext

-----------------------------------------------------------------------------
(* The theorems.                                                           *)

\* The inductive invariant: wherever streamon and a suspend are, as long as
\* nobody has changed the lists under streamon, the queue is as
\* tw68_buffer_requeue will complete it.
THEOREM RestartInvHolds == RestartSpec => []RestartInv
<1>1. RestartInit => RestartInv
  BY RestartInvInit
<1>2. RestartInv /\ [RestartNext]_<<vars, restart>> => RestartInv'
  BY RestartInvStep
<1> QED
  BY <1>1, <1>2, PTL DEF RestartSpec

\* Every variable keeps its type, also where the lists change under streamon.
THEOREM RestartTypesHold == RestartSpec => []RestartTypeOK
<1>1. RestartInv => RestartTypeOK
  BY DEF RestartInv
<1> QED
  BY <1>1, RestartInvHolds, PTL

\* When streamon has left tw68_buffer_requeue it has done, without the lock,
\* what it does with it: the lists, the states and the jumps agree, and the
\* scaler fits until the power is cut.
THEOREM QueueWholeHolds == RestartSpec => []RequeueLeavesQueueWhole
<1>1. RestartInv => RequeueLeavesQueueWhole
  <2> SUFFICES ASSUME RestartInv, on = OnIdle
               PROVE  /\ ListsMatchState /\ ChainFollowsActive
                      /\ power # "off" => ScalerFitsActive
    BY DEF RequeueLeavesQueueWhole
  <2>1. ~Halfway /\ on.pc = "idle" /\ Undisturbed
    BY IdleAtRest DEF RestartInv
  <2> QED
    BY <2>1, AtRest DEF Undisturbed, ScalerFitsSoon
<1> QED
  BY <1>1, RestartInvHolds, PTL

\* Only a suspend leaves active buffers without a timer.
THEOREM OnlySuspendDisarmsHolds == RestartSpec => []OnlySuspendDisarms
<1>1. RestartInv => OnlySuspendDisarms
  BY IdleAtRest DEF RestartInv, Undisturbed, ArmedSoon, OnlySuspendDisarms
<1> QED
  BY <1>1, RestartInvHolds, PTL

\* A resume leaves nothing waiting for an empty list, and the engine and the
\* timer running for the first of the active buffers.
THEOREM ResumeServesHolds == RestartSpec => []ResumeServes
<1>1. RestartInv => ResumeServes
  BY DEF RestartInv
<1> QED
  BY <1>1, RestartInvHolds, PTL

-----------------------------------------------------------------------------
(***************************************************************************)
(* The promise of BufferFifo is kept by all of Tw68Restart: a streamon, a  *)
(* suspend or a resume at most starts buffers that were waiting, in their  *)
(* order.  This holds also of the step that changes the lists under        *)
(* streamon, with which the model ends.                                    *)
(***************************************************************************)

\* More of the line is started.
LEMMA IsStart ==
    ASSUME line' = line, place' = place,
           Len(active') \in (Len(active) + 1)..Len(line)
    PROVE  Fifo!Start
  BY DEF Fifo!Start, line, place, Place

\* A buffer keeps its place when it is activated.
LEMMA ActivateKeepsPlace ==
    ASSUME TypeOK,
           \A b \in Bufs : \/ state'[b] = state[b]
                           \/ state[b] = "QUEUED" /\ state'[b] = "ACTIVE"
    PROVE  place' = place
  BY DEF place, Place

LEMMA HeldOnLine == ASSUME TypeOK, ListsMatchButOne PROVE LineHeld
<1>1. \A b \in ToSet(active) \union ToSet(queued) : b \in Bufs
  BY DEF TypeOK, ToSet
<1>2. \A b \in Bufs : b \in ToSet(active) \union ToSet(queued)
                        => state[b] \in {"ACTIVE", "QUEUED"}
  BY ListedStates DEF Listed
<1>3. \A b \in Bufs : ~(b \in ToSet(active) /\ b \in ToSet(queued))
  BY DEF ListsMatchButOne
<1> QED
  BY <1>1, <1>2, <1>3 DEF LineHeld, Place

\* list_move_tail: the first of the waiting buffers becomes the last active.
LEMMA MoveStarts ==
    ASSUME TypeOK, queued # <<>>, UNCHANGED state,
           active' = Append(active, Head(queued)), queued' = Tail(queued)
    PROVE  Fifo!Start
<1>1. /\ Tail(queued) \in Seq(Bufs) /\ Len(Tail(queued)) = Len(queued) - 1
      /\ Len(queued) \in Nat \ {0} /\ Head(queued) = queued[1]
      /\ Head(queued) \in Bufs
      /\ \A i \in 1..(Len(queued) - 1) : Tail(queued)[i] = queued[i + 1]
  BY TailAt DEF TypeOK
<1>2. /\ active' \in Seq(Bufs) /\ Len(active') = Len(active) + 1
      /\ Len(active) \in Nat
      /\ \A i \in 1..Len(active) : active'[i] = active[i]
      /\ active'[Len(active) + 1] = queued[1]
  BY <1>1, AppendAt DEF TypeOK
<1>3. /\ line \in Seq(Bufs) /\ Len(line) = Len(active) + Len(queued)
      /\ \A i \in 1..Len(active) : line[i] = active[i]
      /\ \A i \in 1..Len(queued) : line[Len(active) + i] = queued[i]
  BY LineAt DEF TypeOK, line
<1>4. \A i \in 1..Len(active') : active'[i] = line[i]
  <2> SUFFICES ASSUME NEW i \in 1..Len(active') PROVE active'[i] = line[i]
    OBVIOUS
  <2>1. CASE i \in 1..Len(active)
    BY <1>2, <1>3, <2>1
  <2>2. CASE i = Len(active) + 1
    <3>1. 1 \in 1..Len(queued)
      BY <1>1
    <3> QED
      BY <1>2, <1>3, <2>2, <3>1
  <2> QED
    BY <1>2, <2>1, <2>2
<1>5. \A i \in 1..Len(queued') : queued'[i] = line[Len(active') + i]
  <2> SUFFICES ASSUME NEW i \in 1..Len(queued')
               PROVE  queued'[i] = line[Len(active') + i]
    OBVIOUS
  <2>1. /\ i + 1 \in 1..Len(queued) /\ queued'[i] = queued[i + 1]
        /\ Len(active') + i = Len(active) + (i + 1)
    BY <1>1, <1>2
  <2> QED
    BY <1>3, <2>1
<1>6. Len(line) = Len(active') + Len(queued') /\ queued' \in Seq(Bufs)
  BY <1>1, <1>2, <1>3
<1>7. line' = line
  <2>1. active' \o queued' = line
    BY <1>2, <1>3, <1>4, <1>5, <1>6, PartsJoin, SMTT(60)
  <2> QED
    BY <2>1 DEF line
<1>8. Len(active') \in (Len(active) + 1)..Len(line)
  BY <1>1, <1>2, <1>3
<1> QED
  BY <1>7, <1>8, IsStart DEF place

\* Resume restarts what was active, or starts what waited.
LEMMA ResumeStarts ==
    ASSUME TypeOK, ListsMatchState, Resume
    PROVE  Fifo!Start \/ UNCHANGED Fifo!fifo
<1>1. Requeue(active, queued, state)
  BY DEF Resume, ResumeRequeue
<1>2. CASE UNCHANGED <<active, queued, state>>
  BY <1>2, IsStutter DEF place
<1>3. ASSUME active = <<>>, NEW n \in 1..Len(queued),
             active' = SubSeq(queued, 1, n),
             queued' = SubSeq(queued, n + 1, Len(queued)),
             state' = [b \in Bufs |-> IF \E i \in 1..n : queued[i] = b
                                      THEN "ACTIVE" ELSE state[b]]
      PROVE  Fifo!Start
  <2>1. line' = queued /\ line = queued
    BY <1>3, CutJoins, ConcatEmptySeq DEF line, TypeOK
  <2>2. Len(active) = 0 /\ Len(active') = n /\ Len(queued) \in Nat
    BY <1>3, CutAt DEF TypeOK
  <2>3. \A i \in 1..n : queued[i] \in Bufs /\ state[queued[i]] = "QUEUED"
    BY ListAt DEF TypeOK
  <2>4. place' = place
    BY <1>3, <2>3, ActivateKeepsPlace
  <2>5. Len(active') \in (Len(active) + 1)..Len(line)
    BY <2>1, <2>2
  <2> QED
    BY <2>1, <2>4, <2>5, IsStart
<1>4. CASE active = <<>>
  <2>1. \/ UNCHANGED <<active, queued, state>>
        \/ \E n \in 1..Len(queued) :
              /\ active' = SubSeq(queued, 1, n)
              /\ queued' = SubSeq(queued, n + 1, Len(queued))
              /\ state' = [b \in Bufs |-> IF \E i \in 1..n : queued[i] = b
                                          THEN "ACTIVE" ELSE state[b]]
    BY <1>1, <1>4 DEF Requeue
  <2> QED
    BY <1>2, <1>3, <1>4, <2>1
<1>5. CASE active # <<>>
  BY <1>1, <1>2, <1>5 DEF Requeue
<1> QED
  BY <1>4, <1>5

LEMMA RestartFifoStep ==
    ASSUME RestartInv, [RestartNext]_<<vars, restart>>
    PROVE  [Fifo!Next]_(Fifo!fifo)
<1>1. ASSUME UNCHANGED <<active, queued, state>> PROVE UNCHANGED Fifo!fifo
  BY <1>1, IsStutter DEF place
<1>2. CASE UNCHANGED <<vars, restart>>
  BY <1>1, <1>2 DEF vars, lists
<1>3. ASSUME ~raced PROVE RestartTypeOK /\ TypeOK /\ Undisturbed /\ LineHeld
  BY <1>3, HeldOnLine DEF RestartInv, RestartTypeOK, Undisturbed
<1>4. ASSUME ~raced, Processes \/ Deferred \/ Chip PROVE [Fifo!Next]_(Fifo!fifo)
  <2>1. [Next]_vars
    BY <1>4, OtherIsNext DEF Processes, Deferred, Chip, Other
  <2> QED
    BY <1>3, <1>4, <2>1, FifoStep
<1>5. ASSUME OnRead \/ OnStart \/ OnArm PROVE UNCHANGED Fifo!fifo
  BY <1>1, <1>5 DEF OnRead, OnStart, OnArm, vars, lists
<1>6. ASSUME ~raced, OnMove PROVE Fifo!Next
  <2>1. queued # <<>> /\ on.buf = Head(queued)
    BY <1>3, <1>6 DEF Undisturbed, OnPlace, OnIdle, OnMove
  <2>2. Fifo!Start
    BY <1>3, <1>6, <2>1, MoveStarts DEF OnMove
  <2> QED
    BY <2>2 DEF Fifo!Next
<1>7. ASSUME ~raced, OnActivate PROVE UNCHANGED Fifo!fifo
  <2>1. state[on.buf] = "QUEUED" /\ state' = [state EXCEPT ![on.buf] = "ACTIVE"]
        /\ UNCHANGED <<active, queued>>
    BY <1>3, <1>7 DEF Undisturbed, ListsMatchButOne, Halfway, OnActivate, lists
  <2>2. \A b \in Bufs : \/ state'[b] = state[b]
                        \/ state[b] = "QUEUED" /\ state'[b] = "ACTIVE"
    BY <1>3, <1>7, <2>1 DEF TypeOK
  <2> QED
    BY <1>3, <1>7, <2>1, <2>2, ActivateKeepsPlace, IsStutter
<1>8. ASSUME \/ SuspendEngine \/ SuspendMask \/ SuspendSync \/ SuspendTimer
             \/ SuspendPower
      PROVE  UNCHANGED Fifo!fifo
  BY <1>1, <1>8 DEF SuspendEngine, SuspendMask, SuspendSync, SuspendTimer,
                    SuspendPower, vars, lists
<1>9. ASSUME ~raced, Resume PROVE [Fifo!Next]_(Fifo!fifo)
  <2>1. on = OnIdle
    BY <1>9 DEF RestartInv, Resume
  <2>2. ListsMatchState
    BY <1>3, <1>9, <2>1, IdleAtRest, AtRest DEF Undisturbed
  <2> QED
    BY <1>3, <1>9, <2>2, ResumeStarts DEF Fifo!Next
<1> QED
  BY <1>2, <1>4, <1>5, <1>6, <1>7, <1>8, <1>9 DEF RestartNext

\* With streamon's restarts, suspends and resumes, and without the lock in
\* tw68_buffer_requeue, the buffers handed to the driver still come back one
\* by one, each once, in their order.
THEOREM RestartKeepsThePromise == RestartSpec => InOrderOnce
<1>1. RestartInit => Fifo!Init
  BY FifoInit DEF RestartInit
<1>2. RestartInv /\ [RestartNext]_<<vars, restart>> => [Fifo!Next]_(Fifo!fifo)
  BY RestartFifoStep
<1> QED
  BY <1>1, <1>2, RestartInvHolds, PTL DEF RestartSpec, InOrderOnce, Fifo!Spec

-----------------------------------------------------------------------------
(***************************************************************************)
(* The engine stays in step with the active list through streamon's        *)
(* restarts and across a suspend: what comes back as DONE has been filled, *)
(* unless start_dma ran while an acknowledged DMAPI was under way.         *)
(***************************************************************************)

\* Where an engine that fills nothing may be: a suspend switches it off.
Resting == IF power = "run" THEN {Stopper} ELSE {Stopper, Off}

EngineInv == DoneIsFull /\ InStepWith(Resting)

LEMMA RestsMore ==
    ASSUME NEW r1, NEW r2, r1 \subseteq r2, InStepWith(r1)
    PROVE  InStepWith(r2)
  BY DEF InStepWith, FilledAhead

\* In the middle of a requeue the lists are in the state that the lemmas of
\* Tw68QueueProofs ask for.
LEMMA UndisturbedLists ==
    ASSUME TypeOK, ListsMatchButOne, ChainButOne
    PROVE  ActiveHeld /\ ChainLeadsOn
<1>1. \A i \in 1..Len(active) : active[i] \in Bufs /\ Listed(active[i])
  BY MembersAt
<1>2. ActiveHeld
  BY <1>1, ListedStates DEF ActiveHeld
<1>3. ChainLeadsOn
  BY DEF ChainButOne, ChainLeadsOn
<1> QED
  BY <1>2, <1>3

\* The waiting buffer that streamon moves is filled after the others.
LEMMA MoveInStep ==
    ASSUME NEW rest, TypeOK, InStepWith(rest), NEW b \in Bufs, queued # <<>>,
           active' = Append(active, b), UNCHANGED <<pp, intstat, irq, full, lateIrq>>
    PROVE  InStepWith(rest)'
<1> SUFFICES ASSUME ~lateIrq
             PROVE  \E m \in 0..Len(active') : FilledAhead(m, rest)'
  BY DEF InStepWith
<1>1. PICK m \in 0..Len(active) : FilledAhead(m, rest)
  BY DEF InStepWith
<1>2. /\ Len(active') = Len(active) + 1 /\ Len(active) \in Nat
      /\ \A i \in 1..Len(active) : active'[i] = active[i]
  BY AppendAt DEF TypeOK
<1>3. Pending' = Pending
  BY DEF Pending, WakeupPending
<1>4. \A i \in 1..m : active'[i] \in full'
  BY <1>1, <1>2 DEF FilledAhead
<1>5. pp' \in rest \/ (m < Len(active') /\ pp' = active'[m + 1])
  BY <1>1, <1>2 DEF FilledAhead
<1>6. Pending' <= m
  BY <1>1, <1>3 DEF FilledAhead
<1> QED
  BY <1>2, <1>4, <1>5, <1>6 DEF FilledAhead

LEMMA OnEngineStep ==
    ASSUME RestartInv, EngineInv, ~raced, power = "run",
           OnRead \/ OnMove \/ OnStart \/ OnArm \/ OnActivate
    PROVE  EngineInv'
<1>0. /\ RestartTypeOK /\ TypeOK /\ Undisturbed /\ OnPlace
      /\ InStepWith({Stopper}) /\ DoneIsFull
  BY DEF RestartInv, RestartTypeOK, Undisturbed, EngineInv, Resting
<1>1. power' = "run" /\ (InStepWith({Stopper})' => InStepWith(Resting)')
  <2>1. power' = "run"
    BY DEF OnRead, OnMove, OnStart, OnArm, OnActivate
  <2> QED
    BY <2>1 DEF Resting, InStepWith, FilledAhead
<1>2. DoneIsFull'
  <2>1. UNCHANGED full
    BY DEF OnRead, OnMove, OnStart, OnArm, OnActivate, vars
  <2>2. lateIrq' = lateIrq \/ lateIrq' = (IF WakeupPending THEN TRUE ELSE lateIrq)
    BY DEF OnRead, OnMove, OnStart, OnArm, OnActivate, StartDma, vars
  <2>3. lateIrq => lateIrq'
    BY <2>2
  <2>4. \A b \in Bufs : state'[b] = "DONE" => state[b] = "DONE"
    BY <1>0 DEF OnRead, OnMove, OnStart, OnArm, OnActivate, vars, TypeOK
  <2> QED
    BY <1>0, <2>1, <2>3, <2>4 DEF DoneIsFull
<1>3. CASE OnRead \/ OnArm \/ OnActivate
  <2>1. UNCHANGED <<active, queued, pp, intstat, irq, full, lateIrq>>
    BY <1>3 DEF OnRead, OnArm, OnActivate, vars, lists, chip
  <2>2. Pending' = Pending
    BY <2>1 DEF Pending, WakeupPending
  <2>3. InStepWith({Stopper})'
    BY <1>0, <2>1, <2>2, Keeps, PendingNat
  <2> QED
    BY <1>1, <1>2, <2>3 DEF EngineInv
<1>4. CASE OnMove
  <2>1. queued # <<>> /\ on.buf = Head(queued)
    BY <1>0, <1>4 DEF OnPlace, OnIdle, OnMove
  <2>2. on.buf \in Bufs
    BY <1>0, <2>1, TailAt DEF TypeOK
  <2>3. /\ active' = Append(active, on.buf)
        /\ UNCHANGED <<pp, intstat, irq, full, lateIrq>>
    BY <1>4 DEF OnMove, chip
  <2>4. InStepWith({Stopper})'
    BY <1>0, <2>1, <2>2, <2>3, MoveInStep
  <2> QED
    BY <1>1, <1>2, <2>4 DEF EngineInv
<1>5. CASE OnStart
  <2>1. StartDma(on.buf) /\ UNCHANGED <<active, queued, irq>>
    BY <1>5 DEF OnStart, lists
  <2>2. active # <<>> /\ (on.buf = Head(active) \/ active = <<on.buf>>)
    BY <1>0, <1>5 DEF OnPlace, OnIdle, OnStart
  <2>3. /\ Len(active) \in Nat \ {0} /\ Head(active) = active[1]
        /\ active[1] \in Bufs
    BY <1>0, <2>2, TailAt DEF TypeOK
  <2>4. on.buf = active[1]
    BY <2>2, <2>3
  <2>5. InStepWith({Stopper})'
    BY <2>1, <2>3, <2>4, Restarts
  <2> QED
    BY <1>1, <1>2, <2>5 DEF EngineInv
<1> QED
  BY <1>3, <1>4, <1>5

LEMMA SuspendEngineStep ==
    ASSUME RestartTypeOK, EngineInv,
           \/ SuspendEngine \/ SuspendMask \/ SuspendSync \/ SuspendTimer
           \/ SuspendPower
    PROVE  EngineInv'
<1>1. /\ UNCHANGED <<active, queued, state, irq, full, lateIrq>>
      /\ pp' \in {pp, Off} /\ intstat' \subseteq intstat
      /\ power' # "run"
  BY DEF SuspendEngine, SuspendMask, SuspendSync, SuspendTimer, SuspendPower,
         vars, lists, chip, RestartTypeOK, TypeOK
<1>2. TypeOK /\ DoneIsFull /\ InStepWith({Stopper, Off})
  <2>1. Resting \subseteq {Stopper, Off}
    BY DEF Resting
  <2> QED
    BY <2>1, RestsMore DEF EngineInv, RestartTypeOK
<1>3. DoneIsFull'
  BY <1>1, <1>2 DEF DoneIsFull
<1>4. Pending' <= Pending
  BY <1>1 DEF Pending, WakeupPending
<1>5. ASSUME ~lateIrq, active # <<>> \/ queued # <<>>
      PROVE  \E m \in 0..Len(active') : FilledAhead(m, {Stopper, Off})'
  <2>1. PICK m \in 0..Len(active) : FilledAhead(m, {Stopper, Off})
    BY <1>2, <1>5 DEF InStepWith
  <2>2. m \in Nat /\ Pending' <= m
    <3>1. m \in Nat
      BY <1>2 DEF TypeOK
    <3> QED
      BY <1>4, <2>1, <3>1, PendingNat DEF FilledAhead
  <2>3. FilledAhead(m, {Stopper, Off})'
    BY <1>1, <2>1, <2>2 DEF FilledAhead
  <2> QED
    BY <1>1, <2>3
<1>6. InStepWith(Resting)'
  BY <1>1, <1>5 DEF InStepWith, FilledAhead, Resting
<1> QED
  BY <1>3, <1>6 DEF EngineInv

LEMMA ResumeEngineStep ==
    ASSUME RestartTypeOK, EngineInv, Resume
    PROVE  EngineInv'
<1>1. /\ TypeOK /\ DoneIsFull /\ Requeue(active, queued, state)
      /\ UNCHANGED <<irq, full>> /\ power' = "oops"
  BY DEF RestartTypeOK, EngineInv, Resume, ResumeRequeue
<1>2. DoneIsFull'
  <2>1. \A b \in Bufs : state'[b] = "DONE" => state[b] = "DONE"
    BY <1>1 DEF Requeue
  <2>2. lateIrq => lateIrq'
    BY <1>1 DEF Requeue, StartDma, NoStartDma
  <2> QED
    BY <1>1, <2>1, <2>2 DEF DoneIsFull
<1>3. CASE active # <<>>
  <2>1. StartDma(Head(active)) /\ active' = active
    BY <1>1, <1>3 DEF Requeue
  <2>2. /\ Len(active) \in Nat \ {0} /\ Head(active) = active[1]
        /\ Head(active) \in Bufs
    BY <1>1, <1>3, TailAt DEF TypeOK
  <2>3. InStepWith({Stopper, Off})'
    BY <1>1, <2>1, <2>2, Restarts
  <2> QED
    BY <1>1, <1>2, <2>3 DEF EngineInv, Resting, InStepWith, FilledAhead
<1>4. CASE active = <<>> /\ queued = <<>>
  <2>1. active' = <<>> /\ queued' = <<>>
    <3>1. \A n \in 1..Len(queued) : FALSE
      BY <1>4
    <3> QED
      BY <1>1, <1>4, <3>1 DEF Requeue
  <2> QED
    BY <1>2, <2>1 DEF EngineInv, InStepWith
<1>5. CASE active = <<>> /\ queued # <<>>
  <2>1. PICK n \in 1..Len(queued) : active' = SubSeq(queued, 1, n)
    BY <1>1, <1>5 DEF Requeue
  <2>2. StartDma(Head(queued))
    BY <1>1, <1>5 DEF Requeue
  <2>3. /\ Len(active') \in Nat \ {0} /\ active'[1] = Head(queued)
        /\ Head(queued) \in Bufs
    BY <1>1, <1>5, <2>1, CutAt, TailAt DEF TypeOK
  <2>4. InStepWith({Stopper, Off})'
    BY <1>1, <2>2, <2>3, Restarts
  <2> QED
    BY <1>1, <1>2, <2>4 DEF EngineInv, Resting, InStepWith, FilledAhead
<1> QED
  BY <1>3, <1>4, <1>5

LEMMA EngineInvStep ==
    ASSUME RestartInv, EngineInv, [RestartNext]_<<vars, restart>>
    PROVE  EngineInv'
<1>1. CASE UNCHANGED <<vars, restart>>
  <2>1. UNCHANGED <<active, queued, state, irq, pp, intstat, full, lateIrq, power>>
    BY <1>1 DEF vars, restart
  <2>2. Pending' = Pending
    BY <2>1 DEF Pending, WakeupPending
  <2> QED
    BY <2>1, <2>2 DEF EngineInv, DoneIsFull, Resting, InStepWith, FilledAhead
<1>2. ASSUME ~raced, Processes \/ Deferred \/ Chip PROVE EngineInv'
  <2>1. [Next]_vars /\ power' = power
    BY <1>2, OtherIsNext DEF Processes, Deferred, Chip, Other, Beside
  <2>2. TypeOK /\ ActiveHeld /\ ChainLeadsOn
    BY <1>2, UndisturbedLists DEF RestartInv, RestartTypeOK, Undisturbed
  <2>3. DoneIsFull'
    BY <1>2, <2>1, <2>2, DoneStep DEF EngineInv
  <2>4. CASE power = "run"
    <3>1. Rests({Stopper}) /\ InStepWith({Stopper})
      BY <2>4 DEF Rests, EngineInv, Resting
    <3>2. InStepWith({Stopper})'
      BY <2>1, <2>2, <3>1, QueueAssumption, InStepStep
    <3> QED
      BY <2>1, <2>3, <2>4, <3>2 DEF EngineInv, Resting, InStepWith, FilledAhead
  <2>5. CASE power # "run"
    <3>1. Rests({Stopper, Off}) /\ InStepWith({Stopper, Off})
      BY <2>5 DEF Rests, EngineInv, Resting
    <3>2. InStepWith({Stopper, Off})'
      BY <2>1, <2>2, <3>1, QueueAssumption, InStepStep
    <3> QED
      BY <2>1, <2>3, <2>5, <3>2 DEF EngineInv, Resting, InStepWith, FilledAhead
  <2> QED
    BY <2>4, <2>5
<1>3. ASSUME ~raced, power = "run",
             OnRead \/ OnMove \/ OnStart \/ OnArm \/ OnActivate
      PROVE  EngineInv'
  BY <1>3, OnEngineStep
<1>4. ASSUME \/ SuspendEngine \/ SuspendMask \/ SuspendSync \/ SuspendTimer
             \/ SuspendPower \/ Resume
      PROVE  EngineInv'
  BY <1>4, SuspendEngineStep, ResumeEngineStep DEF RestartInv
<1> QED
  BY <1>1, <1>2, <1>3, <1>4 DEF RestartNext

THEOREM EngineInvHolds == RestartSpec => []EngineInv
<1>1. RestartInit => EngineInv
  BY InStepInit DEF RestartInit, EngineInv, DoneIsFull, Init
<1>2. RestartInv /\ EngineInv /\ [RestartNext]_<<vars, restart>> => EngineInv'
  BY EngineInvStep
<1> QED
  BY <1>1, <1>2, RestartInvHolds, PTL DEF RestartSpec

\* Also with streamon's restarts, suspends and resumes, and also of a wakeup
\* that changes the list under streamon: what is handed over as DONE is full.
THEOREM RestartDoneIsFull == RestartSpec => []DoneIsFull
<1>1. EngineInv => DoneIsFull
  BY DEF EngineInv
<1> QED
  BY <1>1, EngineInvHolds, PTL

\* Until a suspend the engine is in the active list or in the stopper.
THEOREM RestartEngineInActive == RestartSpec => [](power = "run" => EngineInActive)
<1>1. RestartInv /\ EngineInv => (power = "run" => EngineInActive)
  BY InStepInActive DEF RestartInv, RestartTypeOK, EngineInv, Resting, InStep
<1> QED
  BY <1>1, RestartInvHolds, EngineInvHolds, PTL
=============================================================================
