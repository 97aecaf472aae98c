--------------------------- MODULE Tw68DmacProofs ---------------------------
(***************************************************************************)
(* For every set of formats and every length of the handler's loop, the    *)
(* registers of the DMA engine are what the last start or stop made of     *)
(* them, unless two parties were in the middle of changing the same one;   *)
(* and the handler, once called, has a bounded number of steps to go.      *)
(***************************************************************************)
EXTENDS Tw68Dmac, Integers, TLAPS

\* Nobody but the handler is in the middle of changing TW68_DMAC; nobody at
\* all is between the begin of a command and what it does to TW68_INTMASK.
DmacSettled == start.at \notin {"clear", "address", "enable"} /\ stop.at # "clear"
MaskSettled == ~Starting /\ stop.at \notin {"clear", "irqmask", "mask"}

\* What is being contended has been noted.
Noted == Contended \subseteq raced

\* What holds of TW68_DMAC while nobody has raced for it.
DmacInv ==
    "DMAC" \notin raced =>
        /\ DmacSettled =>
              /\ dmac.dmap = command.on
              /\ dmac.fifo => command.on
              /\ command.on => dmac.fmt = command.fmt /\ (dmac.fifo \/ InOverflow)
        /\ start.at \in {"clear", "address", "enable"} =>
              command.on /\ start.fmt = command.fmt
        /\ stop.at = "clear" => ~command.on
        /\ InOverflow => irq.reg = command.on
        /\ irq.at \in {"cleared", "setting"} => irq.read = dmac

\* What holds of TW68_INTMASK while nobody has raced for it.
MaskInv ==
    "INTMASK" \notin raced =>
        /\ MaskSettled => intmask = (command.on /\ ~masked)
        /\ Starting => command.on
        /\ Stopping => ~command.on
        /\ start.at \in {"unmask", "unmasking"} => irqmask
        /\ command.on /\ ~Starting => irqmask
        /\ MaskSettled /\ InGiveUp => ~irq.mask

Inv == DmacTypeOK /\ Noted /\ DmacInv /\ MaskInv

-----------------------------------------------------------------------------
(* Types.                                                                  *)

\* The values a party rests at have their types.
LEMMA Resting ==
  /\ Reset \in Dmac /\ StartIdle \in Starts /\ StopIdle \in Stops
  /\ IrqIdle \in Irqs
  /\ StartIdle.at = "idle" /\ StopIdle.at = "idle" /\ IrqIdle.at = "idle"
  BY DmacAssumption
  DEF Reset, StartIdle, StopIdle, IrqIdle, Dmac, Starts, Stops, Irqs

\* Every step keeps every variable in its type.
LEMMA TypeStep == DmacTypeOK /\ [DmacNext]_dmacVars => DmacTypeOK'
  <1> SUFFICES ASSUME DmacTypeOK, [DmacNext]_dmacVars PROVE DmacTypeOK'
    OBVIOUS
  <1>a. Contended' \in SUBSET {"DMAC", "INTMASK"}
    BY DEF Contended
  <1>b. Goes => command' \in Commands /\ raced' \in SUBSET {"DMAC", "INTMASK"}
    BY <1>a DEF Goes, DmacTypeOK
  <1>c. ASSUME NEW what \in Commands, Begins(what)
        PROVE  /\ command' \in Commands /\ raced' \in SUBSET {"DMAC", "INTMASK"}
               /\ masked' \in BOOLEAN
    BY <1>a, <1>c DEF Begins
  <1>0. CASE UNCHANGED dmacVars
    BY <1>0 DEF dmacVars, regs, parties, DmacTypeOK
  <1>1. ASSUME NEW bit \in {"DMAPI", "FFOF"}, Raise(bit) PROVE DmacTypeOK'
    BY <1>1, <1>b DEF Raise, parties, DmacTypeOK
  <1>2. ASSUME NEW f \in Formats, StartRead(f) PROVE DmacTypeOK'
    <2>1. [on |-> TRUE, fmt |-> f] \in Commands
      BY DEF Commands
    <2>2. start' \in Starts
      BY <1>2 DEF StartRead, Starts, DmacTypeOK
    <2> QED
      BY <1>2, <1>c, <2>1, <2>2 DEF StartRead, regs, DmacTypeOK
  <1>3. CASE StartClear
    BY <1>b, Resting, <1>3
    DEF StartClear, StartGoes, regs, Starts, Dmac, DmacTypeOK
  <1>4. CASE StartAddress
    BY <1>b, Resting, <1>4
    DEF StartAddress, StartGoes, regs, Starts, DmacTypeOK
  <1>5. CASE StartEnable
    BY <1>b, Resting, <1>5 DEF StartEnable, regs, Starts, Dmac, DmacTypeOK
  <1>6. CASE StartIrqMask
    BY <1>b, Resting, <1>6
    DEF StartIrqMask, StartGoes, regs, Starts, DmacTypeOK
  <1>7. CASE StartUnmask
    BY <1>b, Resting, <1>7 DEF StartUnmask, StartGoes, regs, Starts, DmacTypeOK
  <1>8. CASE StartDone
    BY <1>b, Resting, <1>8 DEF StartDone, StartGoes, regs, Starts, DmacTypeOK
  <1>9. CASE StopRead
    BY <1>c, Resting, <1>9 DEF StopRead, regs, Stops, Commands, DmacTypeOK
  <1>10. CASE StopClear
    BY <1>b, Resting, <1>10
    DEF StopClear, StopGoes, regs, Stops, Dmac, DmacTypeOK
  <1>11. CASE StopIrqMask
    BY <1>b, Resting, <1>11 DEF StopIrqMask, StopGoes, regs, Stops, DmacTypeOK
  <1>12. CASE StopMask
    BY <1>b, Resting, <1>12 DEF StopMask, StopGoes, regs, Stops, DmacTypeOK
  <1>13. CASE StopDone
    BY <1>b, Resting, <1>13 DEF StopDone, StopGoes, regs, Stops, DmacTypeOK
  <1>14. CASE IrqEnter
    <2>1. 1 \in 0..MaxIrqLoops
      BY DmacAssumption
    <2> QED
      BY <1>b, <1>14, <2>1 DEF IrqEnter, OnlyIrq, Taken, regs, Irqs, DmacTypeOK
  <1>15. CASE IrqAck
    BY <1>b, Resting, <1>15 DEF IrqAck, IrqGoes, regs, Irqs, DmacTypeOK
  <1>16. CASE IrqWakeup
    BY <1>b, Resting, <1>16
    DEF IrqWakeup, IrqGoes, OnlyIrq, regs, Irqs, DmacTypeOK
  <1>17. CASE IrqOverflow
    BY <1>b, Resting, <1>17
    DEF IrqOverflow, OnlyIrq, regs, Irqs, Dmac, DmacTypeOK
  <1>18. CASE IrqClearRead
    BY <1>b, Resting, <1>18 DEF IrqClearRead, OnlyIrq, regs, Irqs, DmacTypeOK
  <1>19. CASE IrqClear
    BY ZenonT(60), <1>b, Resting, <1>19
       DEF IrqClear, IrqGoes, regs, Irqs, Dmac, DmacTypeOK
  <1>20. CASE IrqSetRead
    BY <1>b, Resting, <1>20 DEF IrqSetRead, OnlyIrq, regs, Irqs, DmacTypeOK
  <1>21. CASE IrqSet
    BY ZenonT(60), <1>b, Resting, <1>21 DEF IrqSet, IrqGoes, regs, Irqs, Dmac, DmacTypeOK
  <1>22. CASE IrqAgain
    <2>1. irq' \in Irqs
      <3>1. CASE IrqGoes("idle")
        BY <3>1, Resting DEF IrqGoes
      <3>2. CASE IrqGoes("giveup")
        BY <3>2, Resting DEF IrqGoes, Irqs, DmacTypeOK
      <3>3. ASSUME irq.loop < MaxIrqLoops,
                   irq' = [irq EXCEPT !.at = "ack", !.status = Taken, !.loop = @ + 1]
            PROVE  irq' \in Irqs
        <4>1. irq.loop + 1 \in 0..MaxIrqLoops
          BY <3>3, DmacAssumption DEF Irqs, DmacTypeOK
        <4> QED
          BY <3>3, <4>1 DEF Taken, Irqs, DmacTypeOK
      <3> QED
        BY <1>22, <3>1, <3>2, <3>3 DEF IrqAgain
    <2> QED
      BY <1>b, <1>22, <2>1 DEF IrqAgain, OnlyIrq, regs, DmacTypeOK
  <1>23. CASE IrqGiveUp
    BY <1>b, Resting, <1>23 DEF IrqGiveUp, OnlyIrq, regs, Irqs, DmacTypeOK
  <1>24. CASE IrqMask
    BY <1>b, Resting, <1>24 DEF IrqMask, IrqGoes, regs, Irqs, DmacTypeOK
  <1> QED
    BY <1>0, <1>1, <1>2, <1>3, <1>4, <1>5, <1>6, <1>7, <1>8, <1>9, <1>10,
       <1>11, <1>12, <1>13, <1>14, <1>15, <1>16, <1>17, <1>18, <1>19, <1>20,
       <1>21, <1>22, <1>23, <1>24
    DEF DmacNext, StartStep, StopStep, IrqStep

\* What two parties contend for is noted in the step in which they begin to.
LEMMA NotedStep == Noted /\ [DmacNext]_dmacVars => Noted'
  <1> SUFFICES ASSUME Noted, [DmacNext]_dmacVars PROVE Noted'
    OBVIOUS
  <1>0. CASE UNCHANGED dmacVars
    BY <1>0 DEF dmacVars, regs, parties, Noted, Contended,
       InOverflow, InGiveUp, Starting, Stopping
  <1>1. ASSUME NEW bit \in {"DMAPI", "FFOF"}, Raise(bit) PROVE Noted'
    BY <1>1 DEF Raise, Goes, parties, Noted, Contended,
       InOverflow, InGiveUp, Starting, Stopping
  <1>2. ASSUME NEW f \in Formats, StartRead(f) PROVE Noted'
    BY <1>2 DEF StartRead, Begins, regs, Noted, Contended,
       InOverflow, InGiveUp, Starting, Stopping
  <1>3. CASE StartClear
    BY <1>3 DEF StartClear, Goes, StartGoes, regs, Noted, Contended,
       InOverflow, InGiveUp, Starting, Stopping
  <1>4. CASE StartAddress
    BY <1>4 DEF StartAddress, Goes, StartGoes, regs, Noted, Contended,
       InOverflow, InGiveUp, Starting, Stopping
  <1>5. CASE StartEnable
    BY <1>5 DEF StartEnable, Goes, StartIdle, regs, Noted, Contended,
       InOverflow, InGiveUp, Starting, Stopping
  <1>6. CASE StartIrqMask
    BY <1>6 DEF StartIrqMask, Goes, StartGoes, regs, Noted, Contended,
       InOverflow, InGiveUp, Starting, Stopping
  <1>7. CASE StartUnmask
    BY <1>7 DEF StartUnmask, Goes, StartGoes, regs, Noted, Contended,
       InOverflow, InGiveUp, Starting, Stopping
  <1>8. CASE StartDone
    BY <1>8 DEF StartDone, Goes, StartGoes, regs, Noted, Contended,
       InOverflow, InGiveUp, Starting, Stopping
  <1>9. CASE StopRead
    BY <1>9 DEF StopRead, Begins, regs, Noted, Contended,
       InOverflow, InGiveUp, Starting, Stopping
  <1>10. CASE StopClear
    BY <1>10 DEF StopClear, Goes, StopGoes, StopIdle, regs, Noted, Contended,
       InOverflow, InGiveUp, Starting, Stopping
  <1>11. CASE StopIrqMask
    BY <1>11 DEF StopIrqMask, Goes, StopGoes, StopIdle, regs, Noted, Contended,
       InOverflow, InGiveUp, Starting, Stopping
  <1>12. CASE StopMask
    BY <1>12 DEF StopMask, Goes, StopGoes, StopIdle, regs, Noted, Contended,
       InOverflow, InGiveUp, Starting, Stopping
  <1>13. CASE StopDone
    BY <1>13 DEF StopDone, Goes, StopGoes, StopIdle, regs, Noted, Contended,
       InOverflow, InGiveUp, Starting, Stopping
  <1>14. CASE IrqEnter
    BY <1>14 DEF IrqEnter, Goes, OnlyIrq, Taken, regs, Noted, Contended,
       InOverflow, InGiveUp, Starting, Stopping
  <1>15. CASE IrqAck
    BY <1>15 DEF IrqAck, Goes, IrqGoes, IrqIdle, regs, Noted, Contended,
       InOverflow, InGiveUp, Starting, Stopping
  <1>16. CASE IrqWakeup
    BY <1>16
    DEF IrqWakeup, Goes, IrqGoes, IrqIdle, OnlyIrq, regs, Noted, Contended,
        InOverflow, InGiveUp, Starting, Stopping
  <1>17. CASE IrqOverflow
    BY <1>17 DEF IrqOverflow, Goes, OnlyIrq, regs, Noted, Contended,
       InOverflow, InGiveUp, Starting, Stopping
  <1>18. CASE IrqClearRead
    BY <1>18 DEF IrqClearRead, Goes, OnlyIrq, regs, Noted, Contended,
       InOverflow, InGiveUp, Starting, Stopping
  <1>19. CASE IrqClear
    BY <1>19 DEF IrqClear, Goes, IrqGoes, IrqIdle, regs, Noted, Contended,
       InOverflow, InGiveUp, Starting, Stopping
  <1>20. CASE IrqSetRead
    BY <1>20 DEF IrqSetRead, Goes, OnlyIrq, regs, Noted, Contended,
       InOverflow, InGiveUp, Starting, Stopping
  <1>21. CASE IrqSet
    BY <1>21 DEF IrqSet, Goes, IrqGoes, IrqIdle, regs, Noted, Contended,
       InOverflow, InGiveUp, Starting, Stopping
  <1>22. CASE IrqAgain
    BY <1>22
    DEF IrqAgain, Goes, IrqGoes, IrqIdle, OnlyIrq, Taken, regs, Noted,
        Contended, InOverflow, InGiveUp, Starting, Stopping
  <1>23. CASE IrqGiveUp
    BY <1>23 DEF IrqGiveUp, Goes, OnlyIrq, regs, Noted, Contended,
       InOverflow, InGiveUp, Starting, Stopping
  <1>24. CASE IrqMask
    BY <1>24 DEF IrqMask, Goes, IrqGoes, IrqIdle, regs, Noted, Contended,
       InOverflow, InGiveUp, Starting, Stopping
  <1> QED
    BY <1>0, <1>1, <1>2, <1>3, <1>4, <1>5, <1>6, <1>7, <1>8, <1>9, <1>10,
       <1>11, <1>12, <1>13, <1>14, <1>15, <1>16, <1>17, <1>18, <1>19, <1>20,
       <1>21, <1>22, <1>23, <1>24
    DEF DmacNext, StartStep, StopStep, IrqStep

-----------------------------------------------------------------------------
(* TW68_DMAC.                                                              *)

\* Every step preserves what holds of TW68_DMAC.
LEMMA DmacStep ==
  DmacTypeOK /\ Noted /\ Noted' /\ DmacInv /\ [DmacNext]_dmacVars => DmacInv'
  <1> SUFFICES ASSUME DmacTypeOK, Noted, Noted', DmacInv, [DmacNext]_dmacVars
               PROVE  DmacInv'
    OBVIOUS
  <1>0. CASE UNCHANGED dmacVars
    BY <1>0 DEF dmacVars, regs, parties, DmacInv, Noted, Contended, DmacTypeOK,
       Dmac, DmacSettled, InOverflow, Starting, Stopping
  <1>1. ASSUME NEW bit \in {"DMAPI", "FFOF"}, Raise(bit) PROVE DmacInv'
    BY <1>1 DEF Raise, Goes, parties, DmacInv, Noted, Contended, DmacTypeOK,
       Dmac, DmacSettled, InOverflow, Starting, Stopping
  <1>2. ASSUME NEW f \in Formats, StartRead(f) PROVE DmacInv'
    BY <1>2 DEF StartRead, Begins, regs, DmacInv, Noted, Contended, DmacTypeOK,
       Dmac, DmacSettled, InOverflow, Starting, Stopping
  <1>3. CASE StartClear
    BY <1>3
    DEF StartClear, Goes, StartGoes, regs, DmacInv, Noted, Contended,
        DmacTypeOK, Dmac, DmacSettled, InOverflow, Starting, Stopping
  <1>4. CASE StartAddress
    BY <1>4
    DEF StartAddress, Goes, StartGoes, regs, DmacInv, Noted, Contended,
        DmacTypeOK, Dmac, DmacSettled, InOverflow, Starting, Stopping
  <1>5. CASE StartEnable
    BY <1>5
    DEF StartEnable, Goes, StartIdle, regs, DmacInv, Noted, Contended,
        DmacTypeOK, Dmac, DmacSettled, InOverflow, Starting, Stopping
  <1>6. CASE StartIrqMask
    BY <1>6
    DEF StartIrqMask, Goes, StartGoes, regs, DmacInv, Noted, Contended,
        DmacTypeOK, Dmac, DmacSettled, InOverflow, Starting, Stopping
  <1>7. CASE StartUnmask
    BY <1>7
    DEF StartUnmask, Goes, StartGoes, regs, DmacInv, Noted, Contended,
        DmacTypeOK, Dmac, DmacSettled, InOverflow, Starting, Stopping
  <1>8. CASE StartDone
    BY <1>8
    DEF StartDone, Goes, StartGoes, regs, DmacInv, Noted, Contended,
        DmacTypeOK, Dmac, DmacSettled, InOverflow, Starting, Stopping
  <1>9. CASE StopRead
    BY <1>9 DEF StopRead, Begins, regs, DmacInv, Noted, Contended, DmacTypeOK,
       Dmac, DmacSettled, InOverflow, Starting, Stopping
  <1>10. CASE StopClear
    <2>1. dmac'.dmap = FALSE /\ dmac'.fifo = FALSE /\ stop'.at = "irqmask"
      BY <1>10 DEF StopClear, StopGoes, StopIdle, Stops, Dmac, DmacTypeOK
    <2>2. ASSUME "DMAC" \notin raced
          PROVE  ~Starting /\ ~InOverflow /\ command.on = FALSE
      BY <1>10, <2>2
      DEF StopClear, Noted, Contended, DmacInv, Starting, Stopping, Commands,
          DmacTypeOK
    <2> QED
      BY <1>10, <2>1, <2>2
      DEF StopClear, Goes, DmacInv, DmacSettled, InOverflow, Starting
  <1>11. CASE StopIrqMask
    BY <1>11
    DEF StopIrqMask, Goes, StopGoes, StopIdle, regs, DmacInv, Noted, Contended,
        DmacTypeOK, Dmac, DmacSettled, InOverflow, Starting, Stopping
  <1>12. CASE StopMask
    BY <1>12
    DEF StopMask, Goes, StopGoes, StopIdle, regs, DmacInv, Noted, Contended,
        DmacTypeOK, Dmac, DmacSettled, InOverflow, Starting, Stopping
  <1>13. CASE StopDone
    BY <1>13
    DEF StopDone, Goes, StopGoes, StopIdle, regs, DmacInv, Noted, Contended,
        DmacTypeOK, Dmac, DmacSettled, InOverflow, Starting, Stopping
  <1>14. CASE IrqEnter
    BY <1>14
    DEF IrqEnter, Goes, OnlyIrq, Taken, regs, DmacInv, Noted, Contended,
        DmacTypeOK, Dmac, DmacSettled, InOverflow, Starting, Stopping
  <1>15. CASE IrqAck
    BY <1>15
    DEF IrqAck, Goes, IrqGoes, IrqIdle, regs, DmacInv, Noted, Contended,
        DmacTypeOK, Dmac, DmacSettled, InOverflow, Starting, Stopping
  <1>16. CASE IrqWakeup
    BY <1>16
    DEF IrqWakeup, Goes, IrqGoes, IrqIdle, OnlyIrq, regs, DmacInv, Noted,
        Contended, DmacTypeOK, Dmac, DmacSettled, InOverflow, Starting,
        Stopping
  <1>17. CASE IrqOverflow
    BY <1>17
    DEF IrqOverflow, Goes, OnlyIrq, regs, DmacInv, Noted, Contended,
        DmacTypeOK, Dmac, DmacSettled, InOverflow, Starting, Stopping
  <1>18. CASE IrqClearRead
    BY <1>18
    DEF IrqClearRead, Goes, OnlyIrq, regs, DmacInv, Noted, Contended,
        DmacTypeOK, Dmac, DmacSettled, InOverflow, Starting, Stopping
  <1>19. CASE IrqClear
    BY <1>19
    DEF IrqClear, Goes, IrqGoes, IrqIdle, regs, DmacInv, Noted, Contended,
        DmacTypeOK, Dmac, DmacSettled, InOverflow, Starting, Stopping
  <1>20. CASE IrqSetRead
    BY <1>20
    DEF IrqSetRead, Goes, OnlyIrq, regs, DmacInv, Noted, Contended, DmacTypeOK,
        Dmac, DmacSettled, InOverflow, Starting, Stopping
  <1>21. CASE IrqSet
    BY <1>21
    DEF IrqSet, Goes, IrqGoes, IrqIdle, regs, DmacInv, Noted, Contended,
        DmacTypeOK, Dmac, DmacSettled, InOverflow, Starting, Stopping
  <1>22. CASE IrqAgain
    <2>1. irq'.at \in {"idle", "ack", "giveup"}
      BY <1>22, Resting DEF IrqAgain, IrqGoes, Irqs, DmacTypeOK
    <2> QED
      BY <1>22, <2>1
      DEF IrqAgain, Goes, OnlyIrq, regs, DmacInv, DmacSettled, InOverflow
  <1>23. CASE IrqGiveUp
    BY <1>23
    DEF IrqGiveUp, Goes, OnlyIrq, regs, DmacInv, Noted, Contended, DmacTypeOK,
        Dmac, DmacSettled, InOverflow, Starting, Stopping
  <1>24. CASE IrqMask
    BY <1>24
    DEF IrqMask, Goes, IrqGoes, IrqIdle, regs, DmacInv, Noted, Contended,
        DmacTypeOK, Dmac, DmacSettled, InOverflow, Starting, Stopping
  <1> QED
    BY <1>0, <1>1, <1>2, <1>3, <1>4, <1>5, <1>6, <1>7, <1>8, <1>9, <1>10,
       <1>11, <1>12, <1>13, <1>14, <1>15, <1>16, <1>17, <1>18, <1>19, <1>20,
       <1>21, <1>22, <1>23, <1>24
    DEF DmacNext, StartStep, StopStep, IrqStep

-----------------------------------------------------------------------------
(* TW68_INTMASK.                                                           *)

\* Every step preserves what holds of TW68_INTMASK.
LEMMA MaskStep ==
  DmacTypeOK /\ Noted /\ Noted' /\ MaskInv /\ [DmacNext]_dmacVars => MaskInv'
  <1> SUFFICES ASSUME DmacTypeOK, Noted, Noted', MaskInv, [DmacNext]_dmacVars
               PROVE  MaskInv'
    OBVIOUS
  <1>0. CASE UNCHANGED dmacVars
    BY <1>0 DEF dmacVars, regs, parties, MaskInv, Noted, Contended, DmacTypeOK,
       MaskSettled, InGiveUp, Starting, Stopping
  <1>1. ASSUME NEW bit \in {"DMAPI", "FFOF"}, Raise(bit) PROVE MaskInv'
    BY <1>1 DEF Raise, Goes, parties, MaskInv, Noted, Contended, DmacTypeOK,
       MaskSettled, InGiveUp, Starting, Stopping
  <1>2. ASSUME NEW f \in Formats, StartRead(f) PROVE MaskInv'
    BY <1>2 DEF StartRead, Begins, regs, MaskInv, Noted, Contended, DmacTypeOK,
       MaskSettled, InGiveUp, Starting, Stopping
  <1>3. CASE StartClear
    BY <1>3
    DEF StartClear, Goes, StartGoes, regs, MaskInv, Noted, Contended,
        DmacTypeOK, MaskSettled, InGiveUp, Starting, Stopping
  <1>4. CASE StartAddress
    BY <1>4
    DEF StartAddress, Goes, StartGoes, regs, MaskInv, Noted, Contended,
        DmacTypeOK, MaskSettled, InGiveUp, Starting, Stopping
  <1>5. CASE StartEnable
    BY <1>5
    DEF StartEnable, Goes, StartIdle, regs, MaskInv, Noted, Contended,
        DmacTypeOK, MaskSettled, InGiveUp, Starting, Stopping
  <1>6. CASE StartIrqMask
    BY <1>6
    DEF StartIrqMask, Goes, StartGoes, regs, MaskInv, Noted, Contended,
        DmacTypeOK, MaskSettled, InGiveUp, Starting, Stopping
  <1>7. CASE StartUnmask
    BY <1>7
    DEF StartUnmask, Goes, StartGoes, regs, MaskInv, Noted, Contended,
        DmacTypeOK, MaskSettled, InGiveUp, Starting, Stopping
  <1>8. CASE StartDone
    BY <1>8
    DEF StartDone, Goes, StartGoes, regs, MaskInv, Noted, Contended,
        DmacTypeOK, MaskSettled, InGiveUp, Starting, Stopping
  <1>9. CASE StopRead
    BY <1>9 DEF StopRead, Begins, regs, MaskInv, Noted, Contended, DmacTypeOK,
       MaskSettled, InGiveUp, Starting, Stopping
  <1>10. CASE StopClear
    BY <1>10
    DEF StopClear, Goes, StopGoes, StopIdle, regs, MaskInv, Noted, Contended,
        DmacTypeOK, MaskSettled, InGiveUp, Starting, Stopping
  <1>11. CASE StopIrqMask
    BY <1>11
    DEF StopIrqMask, Goes, StopGoes, StopIdle, regs, MaskInv, Noted, Contended,
        DmacTypeOK, MaskSettled, InGiveUp, Starting, Stopping
  <1>12. CASE StopMask
    BY <1>12
    DEF StopMask, Goes, StopGoes, StopIdle, regs, MaskInv, Noted, Contended,
        DmacTypeOK, MaskSettled, InGiveUp, Starting, Stopping
  <1>13. CASE StopDone
    BY <1>13
    DEF StopDone, Goes, StopGoes, StopIdle, regs, MaskInv, Noted, Contended,
        DmacTypeOK, MaskSettled, InGiveUp, Starting, Stopping
  <1>14. CASE IrqEnter
    BY <1>14
    DEF IrqEnter, Goes, OnlyIrq, Taken, regs, MaskInv, Noted, Contended,
        DmacTypeOK, MaskSettled, InGiveUp, Starting, Stopping
  <1>15. CASE IrqAck
    BY <1>15
    DEF IrqAck, Goes, IrqGoes, IrqIdle, regs, MaskInv, Noted, Contended,
        DmacTypeOK, MaskSettled, InGiveUp, Starting, Stopping
  <1>16. CASE IrqWakeup
    BY <1>16
    DEF IrqWakeup, Goes, IrqGoes, IrqIdle, OnlyIrq, regs, MaskInv, Noted,
        Contended, DmacTypeOK, MaskSettled, InGiveUp, Starting, Stopping
  <1>17. CASE IrqOverflow
    BY <1>17
    DEF IrqOverflow, Goes, OnlyIrq, regs, MaskInv, Noted, Contended,
        DmacTypeOK, MaskSettled, InGiveUp, Starting, Stopping
  <1>18. CASE IrqClearRead
    BY <1>18
    DEF IrqClearRead, Goes, OnlyIrq, regs, MaskInv, Noted, Contended,
        DmacTypeOK, MaskSettled, InGiveUp, Starting, Stopping
  <1>19. CASE IrqClear
    BY <1>19
    DEF IrqClear, Goes, IrqGoes, IrqIdle, regs, MaskInv, Noted, Contended,
        DmacTypeOK, MaskSettled, InGiveUp, Starting, Stopping
  <1>20. CASE IrqSetRead
    BY <1>20
    DEF IrqSetRead, Goes, OnlyIrq, regs, MaskInv, Noted, Contended, DmacTypeOK,
        MaskSettled, InGiveUp, Starting, Stopping
  <1>21. CASE IrqSet
    BY <1>21
    DEF IrqSet, Goes, IrqGoes, IrqIdle, regs, MaskInv, Noted, Contended,
        DmacTypeOK, MaskSettled, InGiveUp, Starting, Stopping
  <1>22. CASE IrqAgain
    <2>1. irq'.at \in {"idle", "ack", "giveup"}
      BY <1>22, Resting DEF IrqAgain, IrqGoes, Irqs, DmacTypeOK
    <2> QED
      BY <1>22, <2>1 DEF IrqAgain, Goes, OnlyIrq, regs, MaskInv, MaskSettled,
         InGiveUp, Starting, Stopping
  <1>23. CASE IrqGiveUp
    BY <1>23
    DEF IrqGiveUp, Goes, OnlyIrq, regs, MaskInv, Noted, Contended, DmacTypeOK,
        MaskSettled, InGiveUp, Starting, Stopping
  <1>24. CASE IrqMask
    BY <1>24
    DEF IrqMask, Goes, IrqGoes, IrqIdle, Irqs, MaskInv, Noted, Contended,
        DmacTypeOK, MaskSettled, InGiveUp, Starting, Stopping
  <1> QED
    BY <1>0, <1>1, <1>2, <1>3, <1>4, <1>5, <1>6, <1>7, <1>8, <1>9, <1>10,
       <1>11, <1>12, <1>13, <1>14, <1>15, <1>16, <1>17, <1>18, <1>19, <1>20,
       <1>21, <1>22, <1>23, <1>24
    DEF DmacNext, StartStep, StopStep, IrqStep

-----------------------------------------------------------------------------
(* The theorems.                                                           *)

LEMMA InvHolds == DmacSpec => []Inv
  <1>1. ASSUME DmacInit PROVE Inv
    <2>1. command \in Commands
      BY <1>1 DEF DmacInit, Commands
    <2>2. Contended = {}
      BY <1>1, Resting
      DEF DmacInit, Contended, InOverflow, InGiveUp, Starting, Stopping
    <2>3. DmacTypeOK
      BY <1>1, <2>1, Resting DEF DmacInit, DmacTypeOK
    <2>4. DmacInv
      BY <1>1, Resting DEF DmacInit, DmacInv, Reset, InOverflow
    <2>5. MaskInv
      BY <1>1, Resting DEF DmacInit, MaskInv, InGiveUp, Starting, Stopping
    <2> QED
      BY <2>2, <2>3, <2>4, <2>5 DEF Inv, Noted
  <1>2. Inv /\ [DmacNext]_dmacVars => Inv'
    BY TypeStep, NotedStep, DmacStep, MaskStep DEF Inv
  <1> QED
    BY <1>1, <1>2, PTL DEF DmacSpec

\* Every variable has its type.
THEOREM DmacTypesHold == DmacSpec => []DmacTypeOK
  <1>1. Inv => DmacTypeOK
    BY DEF Inv
  <1> QED
    BY <1>1, InvHolds, PTL

\* After start_dma the engine runs as it was told to, and after a suspend or
\* a removal it does not, whatever the handler does with the same registers
\* before and after; only a change in the middle of another is exempt.
THEOREM CommandStandsHolds == DmacSpec => []CommandStands
  <1>1. Inv => CommandStands
    BY DEF Inv, DmacInv, MaskInv, CommandStands, DmacSettled, MaskSettled,
           Starting, Stopping
  <1> QED
    BY <1>1, InvHolds, PTL

-----------------------------------------------------------------------------
(* How long the handler can go on.                                         *)

\* The steps a pass has left, at each place of the handler.
Place == [ack |-> 10, wakeup |-> 9, overflow |-> 8, clear |-> 7, cleared |-> 6,
          set |-> 5, setting |-> 4, again |-> 3, giveup |-> 2, masking |-> 1,
          idle |-> 0]

\* No more steps than these are left to the handler until it returns.
StepsLeft ==
    IF irq.at = "idle" THEN 0
    ELSE 10 * (MaxIrqLoops - irq.loop) + Place[irq.at]

\* Whatever its place, the steps left are a number.
LEMMA StepsLeftType ==
  DmacTypeOK =>
         /\ irq.loop \in Nat /\ MaxIrqLoops - irq.loop \in Nat
         /\ StepsLeft \in Nat
         /\ irq.at # "idle" => StepsLeft > 0
  <1> SUFFICES ASSUME DmacTypeOK
               PROVE  /\ irq.loop \in Nat /\ MaxIrqLoops - irq.loop \in Nat
                      /\ StepsLeft \in Nat
                      /\ irq.at # "idle" => StepsLeft > 0
    OBVIOUS
  <1>1. irq.loop \in Nat /\ MaxIrqLoops - irq.loop \in Nat
    BY DmacAssumption DEF DmacTypeOK, Irqs
  <1>2. irq.at # "idle" => Place[irq.at] \in 1..10
    BY DEF DmacTypeOK, Irqs, Place
  <1> QED
    BY <1>1, <1>2 DEF StepsLeft

\* So they are after a step.
LEMMA StepsLeftNext == DmacTypeOK' => StepsLeft' \in Nat
  <1> SUFFICES ASSUME DmacTypeOK' PROVE StepsLeft' \in Nat
    OBVIOUS
  <1>1. MaxIrqLoops - irq'.loop \in Nat
    BY DmacAssumption DEF DmacTypeOK, Irqs
  <1>2. irq'.at # "idle" => Place[irq'.at] \in 1..10
    BY DEF DmacTypeOK, Irqs, Place
  <1> QED
    BY <1>1, <1>2 DEF StepsLeft

\* A step of the handler that is not its call brings it nearer to its end; in
\* particular the loop of tw68_irq cannot be kept going by the chip.
LEMMA IrqGoesOn ==
  ASSUME DmacTypeOK, DmacTypeOK', irq.at # "idle", IrqStep
  PROVE  StepsLeft' < StepsLeft
  <1> DEFINE m == MaxIrqLoops - irq.loop
  <1>1. m \in Nat /\ irq.loop \in Nat /\ m' = MaxIrqLoops - irq'.loop
    BY StepsLeftType
  <1>2. StepsLeft = 10 * m + Place[irq.at]
    BY DEF StepsLeft
  <1>3. StepsLeft' = IF irq'.at = "idle" THEN 0 ELSE 10 * m' + Place[irq'.at]
    BY DEF StepsLeft
  <1>4. StepsLeft > 0
    BY StepsLeftType
  <1>5. \A at : IrqGoes(at) =>
           irq'.at = at /\ (at # "idle" => irq'.loop = irq.loop)
    BY Resting DEF IrqGoes, Irqs, DmacTypeOK
  <1>6. ASSUME irq'.at = "idle" PROVE StepsLeft' < StepsLeft
    BY <1>3, <1>4, <1>6
  <1>7. ASSUME irq'.at # "idle", irq'.loop = irq.loop,
               Place[irq'.at] < Place[irq.at],
               Place[irq'.at] \in Nat, Place[irq.at] \in Nat
        PROVE  StepsLeft' < StepsLeft
    <2>1. m' = m
      BY <1>1, <1>7
    <2> HIDE DEF m
    <2> QED
      BY <1>1, <1>2, <1>3, <1>7, <2>1
  <1>8. CASE IrqAck
    BY <1>5, <1>7, <1>8 DEF IrqAck, Place
  <1>9. CASE IrqWakeup
    BY <1>5, <1>7, <1>9 DEF IrqWakeup, Place
  <1>10. CASE IrqOverflow
    BY <1>7, <1>10 DEF IrqOverflow, Place, Irqs, DmacTypeOK
  <1>11. CASE IrqClearRead
    BY <1>7, <1>11 DEF IrqClearRead, Place, Irqs, DmacTypeOK
  <1>12. CASE IrqClear
    BY <1>5, <1>7, <1>12 DEF IrqClear, Place
  <1>13. CASE IrqSetRead
    BY <1>7, <1>13 DEF IrqSetRead, Place, Irqs, DmacTypeOK
  <1>14. CASE IrqSet
    BY <1>5, <1>7, <1>14 DEF IrqSet, Place
  <1>15. CASE IrqAgain
    <2>1. ASSUME irq.loop < MaxIrqLoops,
                 irq' = [irq EXCEPT !.at = "ack", !.status = Taken, !.loop = @ + 1]
          PROVE  StepsLeft' < StepsLeft
      <3>1. irq'.at = "ack" /\ irq'.loop = irq.loop + 1
        BY <2>1 DEF Irqs, DmacTypeOK
      <3>2. m' = m - 1
        BY <1>1, <3>1, DmacAssumption
      <3>3. Place[irq'.at] = 10 /\ Place[irq.at] = 3 /\ irq'.at # "idle"
        BY <1>15, <3>1 DEF Place, IrqAgain
      <3> HIDE DEF m
      <3> QED
        BY <1>1, <1>2, <1>3, <3>2, <3>3
    <2>2. CASE IrqGoes("idle")
      BY <1>5, <1>6, <2>2
    <2>3. CASE IrqGoes("giveup")
      BY <1>5, <1>7, <1>15, <2>3 DEF IrqAgain, Place
    <2> QED
      BY <1>15, <2>1, <2>2, <2>3 DEF IrqAgain
  <1>16. CASE IrqGiveUp
    BY <1>7, <1>16 DEF IrqGiveUp, Place, Irqs, DmacTypeOK
  <1>17. CASE IrqMask
    BY <1>5, <1>6, <1>17 DEF IrqMask
  <1> QED
    BY <1>8, <1>9, <1>10, <1>11, <1>12, <1>13, <1>14, <1>15, <1>16, <1>17
    DEF IrqStep, IrqEnter

\* Nobody else takes the handler anywhere.
LEMMA OthersLeaveIrq ==
  ASSUME [DmacNext]_dmacVars, ~IrqStep
  PROVE  irq' = irq
  <1>1. ASSUME NEW bit \in {"DMAPI", "FFOF"}, Raise(bit) PROVE irq' = irq
    BY <1>1 DEF Raise, parties
  <1>2. CASE StartStep
    BY <1>2 DEF StartStep, StartRead, StartClear, StartAddress, StartEnable,
       StartIrqMask, StartUnmask, StartDone
  <1>3. CASE StopStep
    BY <1>3 DEF StopStep, StopRead, StopClear, StopIrqMask, StopMask, StopDone
  <1>4. CASE UNCHANGED dmacVars
    BY <1>4 DEF dmacVars, parties
  <1> QED
    BY <1>1, <1>2, <1>3, <1>4 DEF DmacNext

\* From its call to its return tw68_irq makes a bounded number of steps,
\* however often the chip raises its bits meanwhile and whatever start_dma and
\* the stops do to the registers: each of its steps leaves it fewer, and no
\* step of another party gives it more.
THEOREM HandlerBounded ==
  DmacSpec => [][/\ irq.at # "idle" => StepsLeft' <= StepsLeft
                 /\ irq.at # "idle" /\ irq' # irq => StepsLeft' < StepsLeft]_dmacVars
  <1>1. ASSUME DmacTypeOK, DmacTypeOK', [DmacNext]_dmacVars
        PROVE  /\ irq.at # "idle" => StepsLeft' <= StepsLeft
               /\ irq.at # "idle" /\ irq' # irq => StepsLeft' < StepsLeft
    <2>1. CASE irq' = irq
      <3>1. StepsLeft' = StepsLeft
        BY <2>1 DEF StepsLeft
      <3> QED
        BY <2>1, <3>1, <1>1, StepsLeftType
    <2>2. CASE irq' # irq
      <3>1. IrqStep
        BY <1>1, <2>2, OthersLeaveIrq
      <3>2. irq.at # "idle" => StepsLeft' < StepsLeft
        BY <1>1, <3>1, IrqGoesOn
      <3>3. StepsLeft \in Nat
        BY <1>1, StepsLeftType
      <3>4. StepsLeft' \in Nat
        BY <1>1, StepsLeftNext
      <3> QED
        BY <3>2, <3>3, <3>4
    <2> QED
      BY <2>1, <2>2
  <1> QED
    BY <1>1, DmacTypesHold, PTL DEF DmacSpec
=============================================================================
