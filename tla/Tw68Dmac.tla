------------------------------ MODULE Tw68Dmac ------------------------------
(***************************************************************************)
(* Who writes the control registers of the DMA engine.  TW68_DMAC and      *)
(* TW68_INTMASK are changed with tw_clearl, tw_setl and tw_andorl, each a  *)
(* read of the register and then a write, by three parties that share no   *)
(* lock: start_dma, under dev->slock (tw68-video.c); tw68_suspend and      *)
(* tw68_finidev (tw68-core.c); and tw68_irq on another processor, which    *)
(* switches the FIFO off and on again when it has overflowed and masks the *)
(* interrupts when there is no end to them.                                *)
(*                                                                         *)
(* Tw68Queue starts the engine in one action.  Here every access to a      *)
(* register is an action, and there are no buffers.                        *)
(***************************************************************************)
EXTENDS Naturals

CONSTANTS
    Formats,        \* buf->fmt->twformat | ColorFormatGamma
    MaxIrqLoops     \* passes of the loop in tw68_irq (10 in the code)

ASSUME DmacAssumption == Formats # {} /\ MaxIrqLoops \in Nat \ {0}

VARIABLES
    dmac,       \* TW68_DMAC: DMAP_EN, FIFO_EN and the format
    intmask,    \* TW68_INTMASK lets the video interrupts through
    irqmask,    \* dev->pci_irqmask holds them
    intstat,    \* TW68_INTSTAT: DMAPI and FFOF
    start,      \* start_dma: where it is, its format, what it has read
    stop,       \* suspend or finidev: where it is, what it has read
    irq,        \* tw68_irq: where it is, the status, the pass, what it has
                \* read, and whether FIFO_EN was set ("reg" in the code)
    command,    \* history: what began last, a start or a stop
    masked,     \* history: the handler has masked the interrupts since
    raced       \* history: the registers of which two parties have been in
                \* the middle of a change since then, at the same time

regs == <<dmac, intmask, irqmask, intstat>>
parties == <<start, stop, irq>>
dmacVars == <<regs, parties, command, masked, raced>>

-----------------------------------------------------------------------------
\* The register as tw68_hw_init1 leaves it.  A party that keeps no value it
\* has read is given this one.
Reset == [dmap |-> FALSE, fifo |-> FALSE, fmt |-> "none"]

StartIdle == [at |-> "idle", fmt |-> "none", read |-> Reset]
StopIdle == [at |-> "idle", read |-> Reset]
IrqIdle == [at |-> "idle", status |-> {}, loop |-> 0, read |-> Reset,
            reg |-> FALSE, mask |-> FALSE]

\* The handler keeps a value of TW68_DMAC it has read, or one of TW68_INTMASK.
InOverflow == irq.at \in {"clear", "cleared", "set", "setting"}
InGiveUp == irq.at = "masking"
Starting == start.at # "idle"
Stopping == stop.at \notin {"idle", "off"}

\* The registers two parties are in the middle of changing.
Contended ==
    (IF Starting /\ Stopping THEN {"DMAC", "INTMASK"} ELSE {})
    \union (IF InOverflow /\ (start.at \in {"clear", "address", "enable"}
                                \/ stop.at = "clear")
            THEN {"DMAC"} ELSE {})
    \union (IF InGiveUp /\ (start.at = "unmasking" \/ stop.at = "mask")
            THEN {"INTMASK"} ELSE {})

Begins(what) == command' = what /\ masked' = FALSE /\ raced' = Contended'
Goes == UNCHANGED command /\ raced' = raced \union Contended'

-----------------------------------------------------------------------------
\* tw68_hw_init1 has stopped everything.
DmacInit ==
    /\ dmac = Reset
    /\ intmask = FALSE /\ irqmask = FALSE /\ intstat = {}
    /\ start = StartIdle /\ stop = StopIdle /\ irq = IrqIdle
    /\ command = [on |-> FALSE, fmt |-> "none"]
    /\ masked = FALSE /\ raced = {}

\* The chip.
Raise(bit) ==
    /\ \/ bit = "DMAPI" /\ dmac.dmap
       \/ bit = "FFOF" /\ dmac.fifo
    /\ intstat' = intstat \union {bit}
    /\ UNCHANGED <<dmac, intmask, irqmask, parties, masked>> /\ Goes

-----------------------------------------------------------------------------
(* start_dma.  Its caller holds dev->slock from the first step to the last *)

StartGoes(at) == start' = [start EXCEPT !.at = at, !.read = Reset]

StartRead(f) ==
    /\ start.at = "idle"
    /\ start' = [at |-> "clear", fmt |-> f, read |-> dmac]
    /\ UNCHANGED <<regs, stop, irq>>
    /\ Begins([on |-> TRUE, fmt |-> f])

\* tw_clearl(TW68_DMAC, TW68_DMAP_EN)
StartClear ==
    /\ start.at = "clear" /\ StartGoes("address")
    /\ dmac' = [start.read EXCEPT !.dmap = FALSE]
    /\ UNCHANGED <<intmask, irqmask, intstat, stop, irq, masked>> /\ Goes

\* TW68_DMAP_SA is written, and what is pending cleared.
StartAddress ==
    /\ start.at = "address" /\ StartGoes("enable")
    /\ intstat' = {}
    /\ UNCHANGED <<dmac, intmask, irqmask, stop, irq, masked>> /\ Goes

\* The tw_andorl replaces all the bits there are.
StartEnable ==
    /\ start.at = "enable" /\ start' = [StartIdle EXCEPT !.at = "irqmask"]
    /\ dmac' = [dmap |-> TRUE, fifo |-> TRUE, fmt |-> start.fmt]
    /\ UNCHANGED <<intmask, irqmask, intstat, stop, irq, masked>> /\ Goes

StartIrqMask ==
    /\ start.at = "irqmask" /\ StartGoes("unmask")
    /\ irqmask' = TRUE
    /\ UNCHANGED <<dmac, intmask, intstat, stop, irq, masked>> /\ Goes

\* tw_setl(TW68_INTMASK, dev->pci_irqmask)
StartUnmask ==
    /\ start.at = "unmask" /\ StartGoes("unmasking")
    /\ UNCHANGED <<regs, stop, irq, masked>> /\ Goes

StartDone ==
    /\ start.at = "unmasking" /\ StartGoes("idle")
    /\ intmask' = (intmask \/ irqmask) /\ masked' = FALSE
    /\ UNCHANGED <<dmac, irqmask, intstat, stop, irq>> /\ Goes

-----------------------------------------------------------------------------
(* tw68_suspend and tw68_finidev, which take no lock.                      *)

StopGoes(at) == stop' = [StopIdle EXCEPT !.at = at]

StopRead ==
    /\ ~Stopping
    /\ stop' = [at |-> "clear", read |-> dmac]
    /\ UNCHANGED <<regs, start, irq>>
    /\ Begins([on |-> FALSE, fmt |-> "none"])

\* tw_clearl(TW68_DMAC, TW68_DMAP_EN | TW68_FIFO_EN)
StopClear ==
    /\ stop.at = "clear" /\ StopGoes("irqmask")
    /\ dmac' = [stop.read EXCEPT !.dmap = FALSE, !.fifo = FALSE]
    /\ UNCHANGED <<intmask, irqmask, intstat, start, irq, masked>> /\ Goes

\* Suspend takes the interrupts out of dev->pci_irqmask, finidev does not.
StopIrqMask ==
    /\ stop.at = "irqmask" /\ StopGoes("mask")
    /\ irqmask' \in {FALSE, irqmask}
    /\ UNCHANGED <<dmac, intmask, intstat, start, irq, masked>> /\ Goes

StopMask ==
    /\ stop.at = "mask" /\ StopGoes("synchronize")
    /\ intmask' = FALSE
    /\ UNCHANGED <<dmac, irqmask, intstat, start, irq, masked>> /\ Goes

\* synchronize_irq, or free_irq.
StopDone ==
    /\ stop.at = "synchronize" /\ irq.at = "idle" /\ StopGoes("off")
    /\ UNCHANGED <<regs, start, irq, masked>> /\ Goes

-----------------------------------------------------------------------------
(* tw68_irq.  The line is shared: it is called whether or not INTMASK lets *)
(* the interrupt through.                                                  *)

\* What the handler has read is of no more use when it goes on.
IrqGoes(at) ==
    irq' = IF at = "idle" THEN IrqIdle
           ELSE [irq EXCEPT !.at = at, !.read = Reset,
                            !.reg = @ /\ at \in {"set", "setting"},
                            !.status = IF at = "wakeup" THEN @ ELSE {}]
Taken == IF irqmask THEN intstat ELSE {}
OnlyIrq == UNCHANGED <<regs, start, stop, masked>> /\ Goes

IrqEnter ==
    /\ irq.at = "idle" /\ Taken # {}
    /\ irq' = [irq EXCEPT !.at = "ack", !.status = Taken, !.loop = 1]
    /\ OnlyIrq

\* tw68_irq_video_done acknowledges what it was given.
IrqAck ==
    /\ irq.at = "ack"
    /\ IrqGoes(IF "DMAPI" \in irq.status THEN "wakeup" ELSE "overflow")
    /\ intstat' = intstat \ irq.status
    /\ UNCHANGED <<dmac, intmask, irqmask, start, stop, masked>> /\ Goes

\* tw68_wakeup, for which it needs dev->slock.
IrqWakeup ==
    /\ irq.at = "wakeup" /\ ~Starting
    /\ IrqGoes(IF "FFOF" \in irq.status THEN "overflow" ELSE "again")
    /\ OnlyIrq

\* reg = tw_readl(TW68_DMAC) & TW68_FIFO_EN
IrqOverflow ==
    /\ irq.at = "overflow"
    /\ irq' = [irq EXCEPT !.at = "clear", !.reg = dmac.fifo]
    /\ OnlyIrq

\* tw_clearl(TW68_DMAC, TW68_FIFO_EN)
IrqClearRead ==
    /\ irq.at = "clear"
    /\ irq' = [irq EXCEPT !.at = "cleared", !.read = dmac]
    /\ OnlyIrq

IrqClear ==
    /\ irq.at = "cleared" /\ IrqGoes("set")
    /\ dmac' = [irq.read EXCEPT !.fifo = FALSE]
    /\ UNCHANGED <<intmask, irqmask, intstat, start, stop, masked>> /\ Goes

\* tw_setl(TW68_DMAC, reg), which writes the register whatever reg is.
IrqSetRead ==
    /\ irq.at = "set"
    /\ irq' = [irq EXCEPT !.at = "setting", !.read = dmac]
    /\ OnlyIrq

\* A mistake: the FIFO is enabled though it was not.
IrqSetAlways ==
    /\ irq.at = "setting" /\ IrqGoes("again")
    /\ dmac' = [irq.read EXCEPT !.fifo = TRUE]
    /\ UNCHANGED <<intmask, irqmask, intstat, start, stop, masked>> /\ Goes

IrqSet ==
    /\ irq.at = "setting" /\ IrqGoes("again")
    /\ dmac' = [irq.read EXCEPT !.fifo = @ \/ irq.reg]
    /\ UNCHANGED <<intmask, irqmask, intstat, start, stop, masked>> /\ Goes

\* A mistake: the passes are not counted.
IrqAgainUncounted ==
    /\ irq.at = "again"
    /\ \/ Taken = {} /\ IrqGoes("idle")
       \/ Taken # {} /\ irq' = [irq EXCEPT !.at = "ack", !.status = Taken]
    /\ OnlyIrq

\* The status is read again: it is all done, or there is another pass, or
\* there have been too many.
IrqAgain ==
    /\ irq.at = "again"
    /\ \/ Taken = {} /\ IrqGoes("idle")
       \/ Taken # {} /\ irq.loop < MaxIrqLoops
          /\ irq' = [irq EXCEPT !.at = "ack", !.status = Taken, !.loop = @ + 1]
       \/ Taken # {} /\ irq.loop = MaxIrqLoops /\ IrqGoes("giveup")
    /\ OnlyIrq

\* tw_clearl(TW68_INTMASK, dev->pci_irqmask)
IrqGiveUp ==
    /\ irq.at = "giveup"
    /\ irq' = [irq EXCEPT !.at = "masking", !.mask = intmask /\ ~irqmask]
    /\ OnlyIrq

IrqMask ==
    /\ irq.at = "masking" /\ IrqGoes("idle")
    /\ intmask' = irq.mask /\ masked' = TRUE
    /\ UNCHANGED <<dmac, irqmask, intstat, start, stop>> /\ Goes

-----------------------------------------------------------------------------
StartStep ==
    \/ \E f \in Formats : StartRead(f)
    \/ StartClear \/ StartAddress \/ StartEnable
    \/ StartIrqMask \/ StartUnmask \/ StartDone
StopStep == StopRead \/ StopClear \/ StopIrqMask \/ StopMask \/ StopDone
IrqStep ==
    \/ IrqEnter \/ IrqAck \/ IrqWakeup
    \/ IrqOverflow \/ IrqClearRead \/ IrqClear \/ IrqSetRead \/ IrqSet
    \/ IrqAgain \/ IrqGiveUp \/ IrqMask

DmacNext ==
    \/ \E bit \in {"DMAPI", "FFOF"} : Raise(bit)
    \/ StartStep \/ StopStep \/ IrqStep

DmacSpec == DmacInit /\ [][DmacNext]_dmacVars

\* The processor that runs the handler goes on with it, and so does the one
\* that runs start_dma, which holds dev->slock and does not sleep.  The lock
\* is given to those who wait for it in turn, so tw68_wakeup has it in the end
\* though it is free only now and then.  Nothing obliges the chip to raise
\* anything, anyone to begin a start or a stop, or the handler to be called.
DmacFairSpec ==
    /\ DmacSpec
    /\ WF_dmacVars(StartClear \/ StartAddress \/ StartEnable
                     \/ StartIrqMask \/ StartUnmask \/ StartDone)
    /\ WF_dmacVars(IrqAck \/ IrqOverflow \/ IrqClearRead \/ IrqClear
                     \/ IrqSetRead \/ IrqSet \/ IrqAgain \/ IrqGiveUp \/ IrqMask)
    /\ SF_dmacVars(IrqWakeup)

-----------------------------------------------------------------------------
(* Properties.                                                             *)

Dmac == [dmap : BOOLEAN, fifo : BOOLEAN, fmt : Formats \union {"none"}]
Starts == [at : {"idle", "clear", "address", "enable", "irqmask", "unmask",
                 "unmasking"},
           fmt : Formats \union {"none"}, read : Dmac]
Stops == [at : {"idle", "clear", "irqmask", "mask", "synchronize", "off"},
          read : Dmac]
Irqs == [at : {"idle", "ack", "wakeup", "overflow", "clear", "cleared", "set",
               "setting", "again", "giveup", "masking"},
         status : SUBSET {"DMAPI", "FFOF"}, loop : 0..MaxIrqLoops,
         read : Dmac, reg : BOOLEAN, mask : BOOLEAN]
Commands == [on : BOOLEAN, fmt : Formats \union {"none"}]

\* Every variable has its type.
DmacTypeOK ==
    /\ dmac \in Dmac
    /\ intmask \in BOOLEAN /\ irqmask \in BOOLEAN
    /\ intstat \in SUBSET {"DMAPI", "FFOF"}
    /\ start \in Starts /\ stop \in Stops /\ irq \in Irqs
    /\ command \in Commands
    /\ masked \in BOOLEAN /\ raced \in SUBSET {"DMAC", "INTMASK"}

\* After start_dma the engine runs, with the format of the buffer, with its
\* FIFO unless the handler is just restarting it, and with its interrupts
\* unless the handler has masked them; after a stop none of this is on.  This
\* is so however the handler is interleaved, except after a start or stop
\* that changed a register while another party was in the middle of
\* changing it.
CommandStands ==
    ~Starting /\ ~Stopping =>
        /\ "DMAC" \notin raced =>
              /\ dmac.dmap = command.on
              /\ dmac.fifo => command.on
              /\ command.on => dmac.fmt = command.fmt /\ (dmac.fifo \/ InOverflow)
        /\ "INTMASK" \notin raced => intmask = (command.on /\ ~masked)

\* The handler returns: however often the chip raises its bits while it is
\* served, and whoever starts and stops the engine meanwhile, the loop of
\* tw68_irq ends, by itself or after the tenth pass.  Until it does, the
\* synchronize_irq and free_irq of a stop wait.
HandlerLeaves == irq.at # "idle" ~> irq.at = "idle"
=============================================================================
