----------------------------- MODULE Tw68Device -----------------------------
(***************************************************************************)
(* The life of struct tw68_dev: tw68_initdev with the unwinding of each    *)
(* failure, tw68_finidev, and those who use a device meanwhile: video_open *)
(* through tw68_devlist, the handles it returns, the interrupt handler (on *)
(* a shared line, so that it may be called as soon as it is registered)    *)
(* and the watchdog of video_q.                                            *)
(*                                                                         *)
(* A member of Devs is one probe of a board: to bind a board again takes   *)
(* another member.  The PCI core probes and removes one device at a time.  *)
(* A device goes when the module is unloaded, which an open handle holds   *)
(* up (.owner), or when it is unbound, which nothing holds up.             *)
(*                                                                         *)
(* A use of memory that has been freed, or of registers that have been     *)
(* unmapped, is recorded in oops, and the model ends there.                *)
(***************************************************************************)
EXTENDS Naturals, FiniteSets, SequencesExt

CONSTANTS
    Devs,       \* the structs tw68_dev
    Handles,    \* struct tw68_fh
    MaxBoards,  \* TW68_MAXBOARDS
    NoDev       \* no device

ASSUME DeviceAssumption ==
    MaxBoards \in Nat \ {0} /\ NoDev \notin Devs

VARIABLES
    devcount,   \* tw68_devcount
    devlist,    \* tw68_devlist
    phase,      \* of a device: new, probe, undo, bound, unbind, unload
    todo,       \* the steps of tw68_initdev or tw68_finidev ahead of it
    mem,        \* its memory: none, live, freed
    nr,         \* dev->nr
    has,        \* what it holds, see Resources
    ready,      \* hw_init1 has initialised the lock, lists and timer
    on,         \* the chip: DMAP_EN of TW68_DMAC ("dma"), INTMASK ("irqs")
    irqmask,    \* dev->pci_irqmask lets the video interrupts through
    latched,    \* the DMAP_EN that tw68_irq has read and not yet written back
    spanned,    \* history: it had read "on" when tw68_finidev stopped the engine
    timer,      \* video_q.timeout is pending
    handle,     \* the file handles
    unloading,  \* module_cleanup has begun
    oops        \* who used what was gone

core == <<devcount, devlist, phase, todo, mem, nr, has, ready>>
handler == <<irqmask, latched, spanned>>
vars == <<core, on, timer, handle, unloading, oops, handler>>

\* No board of tw68_boards has a radio.
Nodes == {"video", "vbi"}
Resources == {"v4l2", "region", "mmio", "irq"} \union Nodes

\* What is acquired as well and no path gives back: the enabled PCI device, and
\* the DMA memory of video_q.stopper.
NeverGivenBack == {"pci", "stopper"}

Closed == [pc |-> "closed", dev |-> NoDev, node |-> "video"]

DeviceInit ==
    /\ devcount = 0 /\ devlist = <<>>
    /\ phase = [d \in Devs |-> "new"] /\ todo = [d \in Devs |-> <<>>]
    /\ mem = [d \in Devs |-> "none"] /\ nr = [d \in Devs |-> 0]
    /\ has = [d \in Devs |-> {}] /\ ready = [d \in Devs |-> FALSE]
    /\ on = [d \in Devs |-> {}] /\ timer = [d \in Devs |-> FALSE]
    /\ irqmask = [d \in Devs |-> FALSE]
    /\ latched = [d \in Devs |-> "no"] /\ spanned = [d \in Devs |-> FALSE]
    /\ handle = [h \in Handles |-> Closed]
    /\ unloading = FALSE /\ oops = "no"

Idle == \A d \in Devs : phase[d] \in {"new", "bound"} \/ mem[d] = "freed"

-----------------------------------------------------------------------------
(* The order of the steps.                                                 *)

\* A mistake: the nodes can be opened before the device is on the list.
ProbeOrderListLast ==
    <<"v4l2", "pci", "region", "mmio", "init1", "irq", "video", "vbi", "list">>

ProbeOrder ==
    <<"v4l2", "pci", "region", "mmio", "init1", "irq", "list", "video", "vbi">>

\* A mistake: the registers are unmapped before the handler is released.
UndoOrderUnmapFirst ==
    <<"nodes", "mmio", "irq", "region", "v4l2", "free">>

\* From fail4 down to fail0.
UndoOrder == <<"nodes", "irq", "mmio", "region", "v4l2", "free">>

\* A mistake: without the interrupt the registers stay mapped.
FailLabelKeepMap(step) ==
    CASE step \in Nodes -> "nodes"
      [] step = "irq" -> "region"
      [] step = "mmio" -> "region"
      [] step \in {"region", "pci"} -> "v4l2"
      [] step = "v4l2" -> "free"

\* The label a failing step goes to.  hw_init1 and the list cannot fail.
FailLabel(step) ==
    CASE step \in Nodes -> "nodes"              \* fail4
      [] step = "irq" -> "mmio"                 \* fail3
      [] step = "mmio" -> "region"              \* fail2
      [] step \in {"region", "pci"} -> "v4l2"   \* fail1
      [] step = "v4l2" -> "free"                \* fail0

\* Mistakes: the engine is left running, the device still counted or listed.
RemoveOrderRunning ==
    <<"list", "count", "nodes", "irq", "mmio", "region", "v4l2", "free">>
RemoveOrderCounted ==
    <<"stop", "mask", "list", "nodes", "irq", "mmio", "region", "v4l2", "free">>

RemoveOrder == <<"stop", "mask", "list", "count">> \o UndoOrder

-----------------------------------------------------------------------------
(* Who may find a device gone.                                             *)

Gone(d) == mem[d] = "freed"
Streaming(d) == \E h \in Handles : handle[h].pc = "streaming" /\ handle[h].dev = d

\* A device of which a node could not be registered is freed and stays listed.
FailedLate(d) == phase[d] = "undo" /\ d \in ToSet(devlist)

\* A use of list entries, of which one may have been freed.
UseEntries(entries) ==
    LET gone == {e \in entries : Gone(e)} IN
    IF gone = {} THEN oops' = oops
    ELSE \E e \in gone : oops' = IF FailedLate(e) THEN "failed_entry"
                                 ELSE "removed_entry"

-----------------------------------------------------------------------------
(* tw68_initdev.                                                           *)

\* A mistake: no limit.
ProbeUnlimited(d) ==
    /\ ~unloading /\ Idle /\ phase[d] = "new"
    /\ phase' = [phase EXCEPT ![d] = "probe"]
    /\ mem' = [mem EXCEPT ![d] = "live"]
    /\ todo' = [todo EXCEPT ![d] = ProbeOrder]
    /\ UNCHANGED <<devcount, devlist, nr, has, ready, on, timer, handle,
                   unloading, oops, handler>>

Probe(d) ==
    /\ ~unloading /\ Idle /\ phase[d] = "new" /\ devcount # MaxBoards
    /\ phase' = [phase EXCEPT ![d] = "probe"]
    /\ mem' = [mem EXCEPT ![d] = "live"]
    /\ todo' = [todo EXCEPT ![d] = ProbeOrder]
    /\ UNCHANGED <<devcount, devlist, nr, has, ready, on, timer, handle,
                   unloading, oops, handler>>

Step(d, s) ==
    /\ todo[d] # <<>> /\ Head(todo[d]) = s
    /\ todo' = [todo EXCEPT ![d] = Tail(todo[d])]

\* What can be had, or not.
Acquire(d) ==
    /\ phase[d] = "probe"
    /\ \E r \in Resources : Step(d, r) /\ has' = [has EXCEPT ![d] = @ \union {r}]
    /\ UNCHANGED <<devcount, devlist, phase, mem, nr, ready, on, timer, handle,
                   unloading, oops, handler>>

Fail(d) ==
    /\ phase[d] = "probe" /\ todo[d] # <<>>
    /\ Head(todo[d]) \in Resources \union {"pci"}
    /\ \E i \in 1 .. Len(UndoOrder) :
          /\ UndoOrder[i] = FailLabel(Head(todo[d]))
          /\ todo' = [todo EXCEPT ![d] = SubSeq(UndoOrder, i, Len(UndoOrder))]
    /\ phase' = [phase EXCEPT ![d] = "undo"]
    /\ UNCHANGED <<devcount, devlist, mem, nr, has, ready, on, timer, handle,
                   unloading, oops, handler>>

\* The device is enabled, and may master the bus.  The number is an index into
\* card[], tuner[], video_nr[], vbi_nr[], ...  The test of the DMA mask that
\* follows fails as "region" does: to the same label, with the device enabled.
EnablePci(d) ==
    /\ phase[d] = "probe" /\ Step(d, "pci")
    /\ nr' = [nr EXCEPT ![d] = devcount]
    /\ has' = [has EXCEPT ![d] = @ \union {"pci"}]
    /\ UNCHANGED <<devcount, devlist, phase, mem, ready, on, timer, handle,
                   unloading, oops, handler>>

\* With the memory of the stopper.  Nobody looks at whether it could be had, so
\* that nothing here depends on it: it is taken to be there.
HwInit1(d) ==
    /\ phase[d] = "probe" /\ Step(d, "init1")
    /\ on' = [on EXCEPT ![d] = {}] /\ ready' = [ready EXCEPT ![d] = TRUE]
    /\ has' = [has EXCEPT ![d] = @ \union {"stopper"}]
    /\ UNCHANGED <<devcount, devlist, phase, mem, nr, timer, handle,
                   unloading, oops, handler>>

\* hw_init2, which enables no interrupt as pci_irqmask is still 0, and the
\* list, of which the last entry is written as well.
ListAdd(d) ==
    /\ phase[d] = "probe" /\ Step(d, "list")
    /\ UseEntries(IF devlist = <<>> THEN {} ELSE {Last(devlist)})
    /\ devlist' = Append(devlist, d)
    /\ UNCHANGED <<devcount, phase, mem, nr, has, ready, on, timer, handle,
                   unloading, handler>>

Probed(d) ==
    /\ phase[d] = "probe" /\ todo[d] = <<>>
    /\ phase' = [phase EXCEPT ![d] = "bound"] /\ devcount' = devcount + 1
    /\ UNCHANGED <<devlist, todo, mem, nr, has, ready, on, timer, handle,
                   unloading, oops, handler>>

-----------------------------------------------------------------------------
(* tw68_finidev, and what it has in common with the failures.              *)

Unload ==
    /\ ~unloading /\ Idle /\ \A h \in Handles : handle[h] = Closed
    /\ unloading' = TRUE
    /\ UNCHANGED <<core, on, timer, handle, oops, handler>>

FiniDev(d) ==
    /\ Idle /\ phase[d] = "bound"
    /\ phase' = [phase EXCEPT ![d] = IF unloading THEN "unload" ELSE "unbind"]
    /\ todo' = [todo EXCEPT ![d] = RemoveOrder]
    /\ UNCHANGED <<devcount, devlist, mem, nr, has, ready, on, timer, handle,
                   unloading, oops, handler>>

Leaving(d) == phase[d] \in {"undo", "unbind", "unload"}

\* DMAP_EN is written 0, whatever was read of it.
Stop(d) ==
    /\ Leaving(d) /\ Step(d, "stop")
    /\ on' = [on EXCEPT ![d] = @ \ {"dma"}]
    /\ spanned' = [spanned EXCEPT ![d] = (latched[d] = "on")]
    /\ UNCHANGED <<devcount, devlist, phase, mem, nr, has, ready, timer, handle,
                   unloading, oops, irqmask, latched>>

Mask(d) ==
    /\ Leaving(d) /\ Step(d, "mask")
    /\ on' = [on EXCEPT ![d] = @ \ {"irqs"}]
    /\ UNCHANGED <<devcount, devlist, phase, mem, nr, has, ready, timer, handle,
                   unloading, oops, handler>>

\* list_del writes both neighbours.
ListDel(d) ==
    /\ Leaving(d) /\ Step(d, "list")
    /\ \E i \in 1 .. Len(devlist) :
          /\ devlist[i] = d /\ devlist' = RemoveAt(devlist, i)
          /\ UseEntries({devlist[j] : j \in {i - 1, i + 1}
                                          \intersect (1 .. Len(devlist))})
    /\ UNCHANGED <<devcount, phase, mem, nr, has, ready, on, timer, handle,
                   unloading, handler>>

Uncount(d) ==
    /\ Leaving(d) /\ Step(d, "count")
    /\ devcount' = devcount - 1
    /\ UNCHANGED <<devlist, phase, mem, nr, has, ready, on, timer, handle,
                   unloading, oops, handler>>

\* tw68_unregister_video, free_irq, iounmap, ...; free_irq waits for the handler.
Release(d) ==
    /\ Leaving(d)
    /\ \E r \in Resources \union {"nodes"} :
          /\ Step(d, r) /\ (r = "irq" => latched[d] = "no")
          /\ has' = [has EXCEPT ![d] = @ \ (IF r = "nodes" THEN Nodes ELSE {r})]
    /\ UNCHANGED <<devcount, devlist, phase, mem, nr, ready, on, timer, handle,
                   unloading, oops, handler>>

Free(d) ==
    /\ Leaving(d) /\ Step(d, "free")
    /\ mem' = [mem EXCEPT ![d] = "freed"]
    /\ UNCHANGED <<devcount, devlist, phase, nr, has, ready, on, timer, handle,
                   unloading, oops, handler>>

-----------------------------------------------------------------------------
(* The users.                                                              *)

\* v4l2_open: the node is registered, and the module is not being unloaded.
Enter(h, d, n) ==
    /\ handle[h] = Closed /\ ~unloading /\ n \in has[d]
    /\ handle' = [handle EXCEPT ![h] = [pc |-> "entered", dev |-> d, node |-> n]]
    /\ UNCHANGED <<core, on, timer, unloading, oops, handler>>

\* video_open under tw68_devlist_lock: the entries up to the one that has the
\* minor number, or all of them.
Lookup(h) ==
    /\ handle[h].pc = "entered"
    /\ LET d == handle[h].dev
           found == d \in ToSet(devlist) /\ handle[h].node \in has[d]
           walked == IF found
                     THEN {devlist[j] : j \in 1 .. CHOOSE j \in 1 .. Len(devlist) :
                                                       devlist[j] = d}
                     ELSE ToSet(devlist) IN
       /\ UseEntries(walked)
       /\ handle' = [handle EXCEPT ![h] = IF found THEN [@ EXCEPT !.pc = "found"]
                                          ELSE Closed]
    /\ UNCHANGED <<core, on, timer, unloading, handler>>

\* A handle's use of its device, gone or not.
Uses(h, needs) ==
    LET d == handle[h].dev IN
    oops' = IF Gone(d) \/ ~ needs \subseteq has[d] THEN "handle" ELSE oops

\* The rest of video_open, after the lock.
Opened(h) ==
    /\ handle[h].pc = "found"
    /\ Uses(h, {}) /\ handle' = [handle EXCEPT ![h].pc = "open"]
    /\ UNCHANGED <<core, on, timer, unloading, handler>>

\* QBUF or read of a first buffer, down to start_dma and mod_timer.  The
\* v4l2 core refuses it when the node is no longer registered.
Stream(h) ==
    /\ handle[h].pc \in {"open", "streaming"} /\ handle[h].node = "video"
    /\ "video" \in has[handle[h].dev]
    /\ Uses(h, {"mmio"}) /\ handle' = [handle EXCEPT ![h].pc = "streaming"]
    /\ on' = [on EXCEPT ![handle[h].dev] = {"dma", "irqs"}]
    /\ irqmask' = [irqmask EXCEPT ![handle[h].dev] = TRUE]
    /\ timer' = [timer EXCEPT ![handle[h].dev] = TRUE]
    /\ UNCHANGED <<core, unloading, latched, spanned>>

\* video_release.  It waits for the buffers and leaves the timer as it is.
Close(h) ==
    /\ handle[h].pc \in {"open", "streaming"}
    /\ Uses(h, {}) /\ handle' = [handle EXCEPT ![h] = Closed]
    /\ UNCHANGED <<core, on, timer, unloading, handler>>

HandlerUses(d) ==
    oops' = IF Gone(d) \/ "mmio" \notin has[d] \/ ~ready[d] THEN "interrupt" ELSE oops

\* tw68_irq, for this device or for another one on the line: until start_dma has
\* set pci_irqmask it finds nothing to do.  A wakeup arms the timer again, or
\* deletes it when nothing is active.  The handler may also give up and clear
\* the mask.
Interrupt(d) ==
    /\ "irq" \in has[d] /\ latched[d] = "no"
    /\ HandlerUses(d)
    /\ \/ UNCHANGED <<on, timer>>
       \/ /\ irqmask[d]
          /\ \E t \in {timer[d], FALSE, Streaming(d)} :
                timer' = [timer EXCEPT ![d] = t]
          /\ \E o \in {on[d], on[d] \ {"irqs"}} : on' = [on EXCEPT ![d] = o]
    /\ UNCHANGED <<core, handle, unloading, handler>>

\* On FFOF the handler switches the FIFO off and on again.  Each time it reads
\* TW68_DMAC and writes it back, DMAP_EN with it, without a lock.
FifoRead(d) ==
    /\ "irq" \in has[d] /\ latched[d] = "no" /\ irqmask[d]
    /\ HandlerUses(d)
    /\ latched' = [latched EXCEPT ![d] = IF "dma" \in on[d] THEN "on" ELSE "off"]
    /\ UNCHANGED <<core, on, irqmask, spanned, timer, handle, unloading>>

FifoWrite(d) ==
    /\ latched[d] # "no"
    /\ HandlerUses(d)
    /\ on' = [on EXCEPT ![d] = IF latched[d] = "on" THEN @ \union {"dma"}
                              ELSE @ \ {"dma"}]
    /\ latched' = [latched EXCEPT ![d] = "no"]
    /\ UNCHANGED <<core, irqmask, spanned, timer, handle, unloading>>

\* tw68_buffer_timeout.  With a buffer queued it starts the chip again.
Watchdog(d) ==
    /\ timer[d]
    /\ \E restart \in {FALSE, Streaming(d)} :
          /\ timer' = [timer EXCEPT ![d] = restart]
          /\ on' = IF restart THEN [on EXCEPT ![d] = {"dma", "irqs"}] ELSE on
          /\ irqmask' = IF restart THEN [irqmask EXCEPT ![d] = TRUE] ELSE irqmask
          /\ oops' = IF Gone(d) \/ (restart /\ "mmio" \notin has[d])
                     THEN "watchdog" ELSE oops
    /\ UNCHANGED <<core, handle, unloading, latched, spanned>>

-----------------------------------------------------------------------------
DeviceNext ==
    /\ oops = "no"
    /\ \/ \E d \in Devs :
             \/ Probe(d) \/ Acquire(d) \/ Fail(d) \/ EnablePci(d) \/ HwInit1(d)
             \/ ListAdd(d) \/ Probed(d)
             \/ FiniDev(d) \/ Stop(d) \/ Mask(d) \/ ListDel(d) \/ Uncount(d)
             \/ Release(d) \/ Free(d)
             \/ Interrupt(d) \/ FifoRead(d) \/ FifoWrite(d) \/ Watchdog(d)
       \/ Unload
       \/ \E h \in Handles :
             \/ \E d \in Devs, n \in Nodes : Enter(h, d, n)
             \/ Lookup(h) \/ Opened(h) \/ Stream(h) \/ Close(h)

DeviceSpec == DeviceInit /\ [][DeviceNext]_vars

-----------------------------------------------------------------------------
(* Properties.                                                             *)

\* Every variable has its type; dev->nr stays inside the tables of the insmod
\* options, card[] and the others, which it indexes.
DeviceTypeOK ==
    /\ devcount \in 0 .. MaxBoards /\ devlist \in Seq(Devs)
    /\ phase \in [Devs -> {"new", "probe", "undo", "bound", "unbind", "unload"}]
    /\ mem \in [Devs -> {"none", "live", "freed"}]
    /\ nr \in [Devs -> 0 .. MaxBoards - 1]
    /\ has \in [Devs -> SUBSET (Resources \union NeverGivenBack)]
    /\ ready \in [Devs -> BOOLEAN] /\ timer \in [Devs -> BOOLEAN]
    /\ on \in [Devs -> SUBSET {"dma", "irqs"}]
    /\ irqmask \in [Devs -> BOOLEAN]
    /\ latched \in [Devs -> {"no", "off", "on"}] /\ spanned \in [Devs -> BOOLEAN]
    /\ unloading \in BOOLEAN
    /\ handle \in [Handles ->
                     [pc : {"closed", "entered", "found", "open", "streaming"},
                      dev : Devs \union {NoDev}, node : Nodes]]

\* Of all that may come while a device is set up, fails half way or is
\* removed, only three find it gone: the watchdog, which tw68_finidev does not
\* delete; a handle of a device that was unbound, or that failed after its
\* first node; and whoever meets the entry of a device that failed late.  The
\* interrupt handler never does, nor does a walk meet a removed device, and
\* in an unload no handle does.
OnlyKnownStaleUses ==
    /\ oops \in {"no", "watchdog", "handle", "failed_entry"}
    /\ oops = "handle" => ~unloading

\* Wherever tw68_initdev fails, and after tw68_finidev, two things are left of
\* what was acquired when the memory goes, the enabled PCI device and the memory
\* of the stopper, and the list has lost the device, unless registering one of
\* its nodes failed.
OnlyKnownLeftBehind ==
    \A d \in Devs : Gone(d) =>
        /\ has[d] \subseteq NeverGivenBack
        /\ d \in ToSet(devlist) => phase[d] = "undo"

\* Between probes and removals tw68_devcount counts the bound devices, so that
\* a board that went makes room for another one.
CountIsBound ==
    Idle => devcount = Cardinality({d \in Devs : phase[d] = "bound"})

\* While a device is not being taken down, whoever can open one of its nodes
\* finds it on the list, with its interrupt and its queue in place.
NodeFindsDevice ==
    \A d \in Devs :
        phase[d] \in {"probe", "bound"} /\ has[d] \intersect Nodes # {} =>
            d \in ToSet(devlist) /\ ready[d] /\ {"mmio", "irq"} \subseteq has[d]

\* When the module has been unloaded, in whatever state the last user left the
\* chip, it raises no interrupts, and its engine runs only if the handler was
\* between reading TW68_DMAC and writing it back when tw68_finidev stopped it.
QuietAfterUnload ==
    \A d \in Devs : phase[d] = "unload" /\ Gone(d) =>
        "irqs" \notin on[d] /\ ("dma" \in on[d] => spanned[d])
=============================================================================
