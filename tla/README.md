# TLA+ models of the tw68 driver

The driver captures video from Techwell TW68xx chips under Linux
(V4L2, `tw68-*.c`). The chip runs a small DMA program per video buffer; the
driver chains those programs, is interrupted when one ends, and hands the
buffer to the application through the kernel's videobuf layer. This directory
holds models of that machinery, the TLC runs that check them and TLAPS proofs
about the core.

## 1. The system

### Components

| Component | State | Operations | Model |
|---|---|---|---|
| Video DMA queue (`tw68-core.c` 100-351, 542-572; `tw68-video.c` 639-870, 2161-2230) | `video_q.active`, `.queued`, `.timeout`; per buffer `vb.state`, size, format, field, the jump of its program; chip: DMAP position, `INTSTAT`, `INTMASK`, scaler | `buffer_prepare`, `buffer_queue`, `tw68_dma_free`, `tw68_buffer_requeue`, `tw68_wakeup`, `tw68_buffer_timeout`, `tw68_irq` | `Tw68Queue`, `BufferFifo`, `Tw68Dmac` |
| Unlocked and power callers of requeue (`tw68-video.c` 1889-1902, `tw68-core.c` 963-1051) | where streamon, suspend, resume are | streamon, `tw68_suspend`, `tw68_resume` | `Tw68Restart` |
| File handles and resources (`tw68-video.c` 445-490, 1078-1260, 1862-1918) | `fh->resources`, `dev->resources`, the videobuf queue of a handle (stream, streaming, reading, `read_buf`) | open, REQBUFS, QBUF, DQBUF, STREAMON, STREAMOFF, read, poll, close | `Tw68Capture` |
| Standard, crop, format, scaler (`tw68-video.c` 119-343, 497-635, 729-754, 1323-1404, 1534-1594, 1814-1849) | `dev->tvnorm`, crop rectangles, format of a handle | S_STD, S_CROP, TRY_FMT, S_FMT, `tw68_set_scale` | `Tw68Settings` |
| RISC programs (`tw68-risc.c`, `tw68-video.c` 779-823) | the program in memory | `tw68_risc_buffer`, `tw68_risc_field` | `Tw68Risc` |
| Probe and removal (`tw68-core.c` 368-500, 579-625, 654-959; `tw68-video.c` 1078-1153) | `tw68_devlist`, `tw68_devcount`, what a device holds | `tw68_initdev`, `tw68_finidev`, open | `Tw68Device` |
| Inputs (`tw68-video.c` 523-533, 646-650, 702-706, 1482-1506) | `dev->input`, `dev->hw_input`, the multiplexer | S_INPUT, the switch in `start_dma` and `buffer_activate` | `Tw68Inputs` |
| Controls (`tw68-video.c` 350-430, 873-1042) | registers of the decoder | S_CTRL, G_CTRL | `Tw68Controls` |
| I2C (`tw68-i2c.c`) | two lines | bit banging | not modelled: only built with `TW68_TESTING` |
| VBI, TS, audio (`tw68-vbi.c`, `tw68-ts.c`, `tw68-tvaudio.c`) | none | stubs that return 0 | the vbi resource only |
| Boards, registers, `videotest.c` | static data; a user program | | not modelled |

### Interactions

Processes enter through V4L2 ioctls, read, poll and close, and reach the DMA
queue through videobuf and the callbacks `buffer_prepare`, `buffer_queue` and
`buffer_release`. The interrupt handler calls `tw68_irq_video_done`, which
acknowledges `INTSTAT` *before* it takes `dev->slock` and calls `tw68_wakeup`.
A timer calls `tw68_buffer_timeout` 500 ms after it was last armed. The chip
follows the programs in memory and shares `INTSTAT`. `dev->slock` protects
the lists, except in `tw68_streamon`, which calls `tw68_buffer_requeue`
without it. The kernel lets one ioctl run at a time (DQBUF excepted) but read
and close take no part in that.

### What is hard

* Four parties (process, interrupt, timer, chip) change the queue, and two of
  them, chip and acknowledgement, hold no lock.
* The jump of a running program is rewritten; the chip may have taken it.
* One interrupt bit stands for any number of finished buffers.
* The watchdog acts on a chip that may be only late.
* `tw68_dma_free` waits for a buffer's state, not for the engine.
* Two handles share one queue; a read checks the resource and does not take it.
* `TW68_DMAC` and `TW68_INTMASK` are read, changed and written back by three
  parties that share no lock: `start_dma`, suspend or removal, and the handler
  when the FIFO has overflowed or when it gives up.
* S_INPUT takes another lock than the code that switches the input, and the
  switch comes when a buffer is chained, in the middle of another's frame.
* Suspend runs beside the timer; resume has to restart what was active.
* A probe can fail at every step, with users from the first node on; a removal
  runs beside the interrupt, the watchdog and open handles, and its stop beside
  the handler's own change of the same register.

The file `PROJECT.json` lists these hazards line by line.

### What makes each component correct

* Queue: a buffer is on one list and is what its state says; the jumps follow
  the list; the scaler fits whatever is active; a watchdog guards every active
  buffer; a buffer comes back once, in order, and really filled.
* Restart: the queue is whole again after every requeue, whoever calls it.
* Capture: one holder per resource; nothing of a stopped or closed handle is
  left with the driver; DQBUF's order is the order of filling; STREAMOFF ends.
* Registers of the engine: what the last start or stop commanded stands; the
  handler comes to an end.
* Inputs: `hw_input` is what the chip is set to; a frame shows nothing nobody
  asked for.
* Controls: G_CTRL gives what S_CTRL answered.
* Settings: what one ioctl accepts, the later steps can carry out; a standard
  answers the request it was chosen for.
* Devices: what was acquired is given back on every path, but for two things
  that are named; nobody finds a device gone, but for three uses that are named; a
  node that can be opened belongs to a device that is complete; nothing runs when
  the module is gone, but for one case that is named.
* Programs: every line in its place, nothing beside the buffer, within the
  allocated room.

## 2. Modules

**`BufferFifo`** is the abstract specification of the DMA queue: a line of
buffers of which the first `started` belong to the engine. The head is
delivered, or all started ones fail together; those that wait can be
started (`Start`, what a requeue does) or cancelled. It has a fairness condition:
what is started comes back.

**`Tw68Queue`** is the queue as written. One action per function under
`dev->slock`; the chip (`EngineFinish`, `EngineWild`, `HwFault`), the read and
acknowledgement of the status (`IrqEnter`, `IrqReread`) and the expiry of the
timer (`TimerExpire`) are actions of their own, so that everything may come
between them. `EngineWild` is the engine in memory that was freed or is being
rewritten: it may go anywhere and raise anything. Width, height and format are
one value (`dim`), which is what `buf_compat` compares; the field order is
kept apart because `buf_compat` ignores it. videobuf is the environment: it
prepares, queues, cancels, dequeues and frees buffers in every order that
their states allow. `full` and `lateIrq` are history variables and no guard
reads them. `Fifo == INSTANCE BufferFifo WITH ...` maps the two lists to one
line.

**`Tw68Restart`** extends `Tw68Queue` by `tw68_buffer_requeue` as streamon runs
it, one memory access after another and without the lock, and by the steps of
suspend and resume. When a list changes under streamon the state is marked
`raced` and the model ends: what a walk over changing lists does next is
undefined. It also ends when resume has requeued `video_q`, because the next
call walks the uninitialised `vbi_q`.

**`Tw68Dmac`** takes apart what `Tw68Queue` does in one action: every `readl`
and `writel` of `TW68_DMAC` and `TW68_INTMASK` by `start_dma`, by suspend or
removal, and by `tw68_irq` is a step. There are no buffers; the format stands
for one. `command` is a history of what began last, a start or a stop,
`masked` of the handler's giving up, and `raced` of the registers for which two
parties were in the middle of a change at the same time (`Contended`) since
then. The lost updates that follow from such a race are real (section 5);
`CommandStands` says that there is no other way for a command to be undone. The
loop of `tw68_irq` is here with its count, and `HandlerLeaves` says that it ends
whatever the chip raises meanwhile.

**`Tw68Inputs`** extends `Tw68Queue` by the input. Every action of the queue
that activates a buffer switches the multiplexer, and every other leaves it.
`start_dma` and `buffer_activate` read `dev->input` four times; as S_INPUT
holds another lock the reads may differ. If the value stored and the value
written do, the state is `torn` and the model ends. `seen` and `asked` are
histories of the inputs a buffer was filled from and of those that were asked
for meanwhile. A call that activates several buffers may write several inputs
one after another while the engine fills the first: `SwitchStart` lets the
multiplexer pass through them.

**`Tw68Controls`** is the clamping of S_CTRL and the bytes and bit fields in
which the controls are kept. `MCTw68Settings` runs it with `Tw68Settings`; as
they share no state a behaviour uses one or the other.

**`Tw68Capture`** is the layer above: handles, resources and the videobuf
queues of the handles, composed over `Q == INSTANCE BufferFifo`. It relies on
what `Tw68Queue` is proved to implement. Which node a handle belongs to
(`type`) is chosen when it is opened. Calls that can block or that loop
under a lock are split into steps (`Starting`, `Cancel`, `Drain`,
`FreeResource`, ...). STREAMON is three: it takes the resource (`StreamOn`), calls
`tw68_buffer_requeue` for the video queue without the lock, which may start what was
left waiting (`Requeue`), and calls `videobuf_streamon` (`VideobufStreamOn`).

**`Tw68Settings`** has the table of standards with both searches of it,
cropping, formats and the arithmetic of the scaler with the 12 bits of its
registers (`HScale`, `VScale`, `SetScale`). Values are those of the source, so
lines and widths are not scaled down.

**`Tw68Risc`** writes the program of one frame, a line per step, over a list
of chunks. An address is a chunk and an offset into it.

**`Tw68Device`** is the life of `struct tw68_dev`. A device carries the list of
the steps ahead of it (`ProbeOrder`, `UndoOrder`, `RemoveOrder`, in the order
of the source), and each step is an action, so that the interrupt handler, the
watchdog, `video_open` and the handles come between any two. `FailLabel` is
the table of the `goto fail...`. The queue is reduced to what matters here:
whether the timer is pending and the chip enabled. `Stop` and `Mask` are the two
register writes at the beginning of `tw68_finidev`. The handler's restart of the
FIFO is two steps (`FifoRead`, `FifoWrite`), of which the second writes back the
`DMAP_EN` that the first has read (`latched`), and a stop may come between them;
`spanned` is the history of that. What a device `has` includes the two things that
no path gives back (`NeverGivenBack`): the enabled PCI device and the memory of the
stopper. `OnlyKnownLeftBehind` says that there is no third. A use of freed memory or
unmapped registers sets `oops` and ends the model. The code has three such
uses: the watchdog, which `tw68_finidev` does not delete and which the last
wakeup leaves pending; a handle that outlives an unbound device; the list
entry of a device of which a node could not be registered. They are named in
`OnlyKnownStaleUses`, which says that there is no fourth.

`MC...` modules hold the values and symmetry for TLC. In the modules, an
operator introduced as "a mistake" is not used: it is the plausible bug with
which the check replaces the definition after it, to show that the property
notices.

## 3. Runs

| Run | Checks | Bounds |
|---|---|---|
| `queue_safety` | types, lists, jumps, scaler, watchdog, filled buffers, refinement of `BufferFifo` | 3 buffers, 2 formats, 1 field order, 1 pass of the handler, no faults |
| `queue_liveness` | refinement of `BufferFifo` with fairness | 2 buffers, 2 formats, one fault bit, 2 passes |
| `restart_safety` | queue whole and guarded after streamon, suspend; served after resume | 2 buffers, 2 formats |
| `capture` | resources, `BUG_ON` of `res_free`, stop, close, order, STREAMOFF returns | 2 handles, each of the video or the vbi node; 2 and 1 mapped buffers and one for read each |
| `dmac` | what start and stop command; the handler ends | 1 format, 2 passes of the handler |
| `inputs` | `hw_input` and the multiplexer, frames from inputs asked for | 2 buffers, 2 formats, 2 inputs, 1 pass, no faults |
| `settings` | standard, crop, formats, scaler, controls | 9 standards, 5 rectangles, sizes 8 to 2000; 7 control values in, at and beyond the limits |
| `risc` | program of a frame | page of 8 bytes, lines of 3-8, 2-9 lines, every alignment |
| `device` | what is left behind, stale uses, list and nodes, count, quiet after unload | 3 probes of which one at most is ever started (`OneStarted`), 2 places (`TW68_MAXBOARDS` is 16), 1 handle |
| `wakeup_filled`, `queued_served`, `streamon_race` | one statement each of a comment or of the README that the code breaks | as above |

Why the bounds are enough. With three buffers one can be active, one chained
behind it and one waiting, and two can wait with different formats, which are
all the cases of `tw68_buffer_queue` and of the requeue loop. One pass of the
handler reaches the give-up branch at once, and each pass is the same code; the
liveness run has two passes so that the loop is taken. Fault bits do nothing
to the queue but cost passes, which the liveness run has. Two handles are
enough for one holder and one contender. In `dmac` the format of a start is told
from the one of the reset, and two passes take the loop and its end; each party
may begin again at any time. Two formats, which would tell a start from the one
before it too, take longer than a run with liveness should; the theorem
`CommandStandsHolds` covers every set of them. In `inputs` two buffers are one that is filled and
one that is chained behind it, and two inputs the old and the new one. In `risc` the ratio of line to page
is larger than in the chip's case, with every alignment, so a line is split in
nearly every page. In `device` three probes fill both places, are refused, and
take the place of one that went; three list entries are enough for a device
between two others. Only one of the three is ever started by an application
(`OneStarted`, a constraint of the run): handler, engine and watchdog act on
nothing but their own device, and what devices share, the list and the count,
does not depend on who is started. The theorems are without this bound. Deadlock is checked in `dmac` and `settings`, where something can
always begin. Elsewhere it is not: a queue with nothing to do rests, `Tw68Restart`,
`Tw68Inputs` and `Tw68Device` end where their comments say, and a program that is
written is done.
Constants without a bound in the code are bounded only by these instances;
`MaxIrqLoops` (10 in the code) is the only counter.

## 4. Fairness

* `Tw68Queue!Fairness`: the handler, once entered, goes on; the timer's
  function runs; and a pending timer expires unless it is armed again. The last
  is weak fairness of `TimerStep`, which a re-arming also satisfies, as in the
  kernel. Nothing is assumed of the chip or of the applications.
* `BufferFifo!Fairness`: one of delivery and timeout, while something is
  started. `queue_liveness` shows the code provides it.
* `Tw68Dmac!DmacFairSpec`: the handler goes on, and so does a `start_dma` that has
  begun, as it holds a spinlock. Taking `dev->slock` in the handler has strong
  fairness: the lock is a ticket lock, and start_dma may have it at every other
  moment. Nobody has to begin anything, and the chip may raise its bits for ever.
* `Tw68Capture!CaptureFairness`: each call that can go on goes on; the
  driver's side gets `dev->slock` in turn. It is strong fairness because two
  other handles could hold the lock at every other moment, and the lock is a
  ticket lock.

## 5. What the violated runs show

* `wakeup_filled`: a DMAPI acknowledged before a timeout leads, after it, to a
  wakeup for the wrong buffer: an unfilled buffer is handed over.
  `DoneIsFull` and `EngineInActive` hold without that window (`lateIrq`).
* `queued_served`: waiting buffers can be left without anybody to start them.
  This is why `BufferFifo` promises nothing of buffers that wait.
* `streamon_race`: streamon can restart a buffer that has just left the list.

More disagreements between the code and what is said of it, or what it
plainly intends, have no run of their own:

* `set_tvnorm` (`tw68-video.c:517`) compares the new standard with
  `dev->tvnorm` after it has assigned it, so that S_STD never writes the
  decoder. A property would restate the comparison.
* README:109-112 says the input is switched at the interrupt at the end of the
  frame. It is switched when a buffer is chained (`tw68-video.c:702`), so that a
  frame can be half of one input and half of another. `FramesFromAsked` is what
  does hold.
* The handler's restart of the FIFO (`tw68-video.c:2222-2225`) reads and writes
  back `TW68_DMAC` without `dev->slock`. In the middle of it a `start_dma` can
  have `DMAP_EN` set again just before it writes the address, or lose it after all,
  and a stop can be undone. Without the words about `raced`, `CommandStands` is
  violated in the last two ways. At a removal the engine is left running while the driver
  goes: without `spanned`, `QuietAfterUnload` is violated.
* `pci_enable_device` (`tw68-core.c:674`) is undone neither by the labels of
  `tw68_initdev` nor by `tw68_finidev`, and the DMA memory of the stopper
  (`tw68-video.c:2126`) is never freed. `OnlyKnownLeftBehind` names both, and without
  them it is violated. The memory that stays is also the memory in which an engine
  left running stands.
* The second search of the standards (`tw68-video.c:1564`) takes the first entry that
  shares a signal with the request. The comments at 144-147 and 1560 speak of an
  entry that contains it: PAL-BG with PAL-I gets PAL-BG, which lacks PAL-I.
  `StdAnswersRequest` says what is right: an entry for exactly the request is
  taken, a single signal gets an entry that contains it, and no request that asks for
  signals of one number of lines gets a standard of the other.
* The vertical scale (`tw68-video.c:603`) is written to 12 bits and wraps for a field
  of a sixteenth of the frame's lines or fewer, which S_FMT accepts: 32 interlaced lines
  of 576 give 4608. `ScalerShrinks` says that it fits exactly above that.
* `tw68_suspend` deletes the watchdog (`tw68-core.c:980`) without waiting for
  one that is already running, which may restart the engine that has just been stopped.
  `Tw68Restart` has this step, and no property forbids it.

## 6. Proofs

All theorems hold for every value of the constants that satisfies the named
assumptions; each inductive invariant was checked by TLC before it was proved.

**The queue.** `Tw68QueueProofs` proves from `QueueAssumption` (non-empty sets,
the stopper and the stopped engine are no buffers, at least one pass) that
`Spec` implies always `TypeOK`, `ListsMatchState`, `ScalerFitsActive`,
`ChainFollowsActive` and `WatchdogArmed`. The inductive invariant `Inv` is their
conjunction with `QueuedStops`: the program of a queued buffer still ends in the
stopper. Without it the chain property is not inductive, because a requeue takes
the last buffer of a run over to the active list with the jump it had. Each part
has a lemma for its step: types first (`TypeStep`), then the lists (`ListsStep`),
which need only types; the scaler and the chain need both, and the watchdog needs
the lists. The requeue loop is described by the length of the longest compatible
run, and `RunHasOneDim` derives from it that the whole run has the format of its
head. The sequence lemmas at the beginning state index by index what removing,
cutting and appending do.

**The promise.** `Tw68QueueProofs` goes on to prove `KeepsThePromise`, that `Spec`
implies `InOrderOnce`, the refinement of `BufferFifo`. The line of buffers is the
active list followed by the queued one (`LineAt`, `LineTail`, `LineRemove` say
what an index, the tail and a removal are on it). Under `Inv` a `BufferQueue` is a
`Submit` and a `QueueCancel` a `Cancel`; a wakeup is a `Deliver`, or a stutter
when nothing is active; a watchdog is a `Timeout`, a dequeue a `Reclaim`, and a
`DmaFree` a `Reclaim` or a stutter. The preparation of a buffer and the steps of
the chip and of the acknowledgement are stutters. These lemmas need of the lists
only `LineHeld`: who is on the line is with the driver, and on one list.

**The engine.** The same module proves `DoneIsFull` and `EngineInActive`.
Neither is inductive: a wakeup says nothing of what is in the buffer. The
strengthening `InStep` counts the wakeups to come (`Pending`: a `DMAPI` in the
status, a `DMAPI` that was taken) and says that at least as many of the first
active buffers are full, and that the engine is in the one after the full ones or
in the stopper. Two finished programs may share one interrupt, so there may be
more full buffers than wakeups, never fewer. The lemmas take the places where an
engine that fills nothing rests as a parameter (`InStepWith(rest)`), and of the lists
no more than that active buffers have not been given back (`ActiveHeld`) and that no
jump leads out of the active list (`ChainLeadsOn`), so that they hold within a requeue
and after a suspend too.

**The registers.** `Tw68DmacProofs` proves `CommandStands` from
`DmacAssumption`. The inductive invariant has two
halves, `DmacInv` and `MaskInv`, one per register, each guarded by its register's
absence from `raced`, and `Noted`, that every present contention has been noted.
They say what a party that has read a register and not yet written it holds: what
the handler has kept is what the register contains, and `irq.reg` is the command.
`HandlerBounded` is what `HandlerLeaves` says without fairness: `StepsLeft` counts the
steps the handler may still have, from the passes that are left and its place in this
one; each of its own steps lowers it (`IrqGoesOn`) and no step of the chip, of
start_dma or of a stop changes it (`OthersLeaveIrq`).

**The handles.** `Tw68CaptureProofs` proves, from `CaptureAssumption` and for any
number of handles, `CaptureTypeOK`, `ResourceExclusive`, `StreamerHasResource`,
`StoppedStreamLeavesNothing` and `ClosedOwnsNothing`. The parts of its invariant
follow the code: the queue holds each of its buffers once (`FifoWhole`); how far
a handle is in a call, a stop or a close (`CallInv`); it holds the resource of its
own node only, and no video resource in the second part of close (`HeldInv`); a
streaming buffer in use belongs to a handle of the video node that streams or is
being stopped (`BufInv`). The last needs the resource: a close without it skips the
stop. The second half of the module proves `OldestComesFirst`: for two buffers of a
running stream the later is not queued before the earlier, does not come back
before it, and is behind it in the queue (`Precedes`), which needs that what the
driver has is in the queue (`HeldQueued`). Each step is one of four things done to the queue
(`Advance`, `Joins`, `Leaves`, `Returns`), and each of these keeps `Precedes`. Both halves
use `BufferFifo` and nothing of `Tw68Queue`, which `KeepsThePromise` connects.
A last part shows why STREAMOFF and close come out of their wait, as far as this can
be said without fairness: they wait only for what has been started
(`DrainWaitsForStarted`), no step adds to it, and each delivery or timeout brings each
of these buffers nearer to the head of the queue (`DrainAdvances`). That the driver
does take a step while something is started is the fairness of section 4, and the
conclusion, `StreamOffReturns`, is TLC's.

**The callers of requeue.** `Tw68RestartProofs` proves `RequeueLeavesQueueWhole`,
`OnlySuspendDisarms`, `ResumeServes` and the types, from `QueueAssumption` and
`RestartAssumption`. While streamon is in the middle of the requeue, the invariants
of the queue do not hold: a buffer has been moved to the active list and is not
active yet, its predecessor's jump is missing, a list that it has just begun has no
timer. `Undisturbed` says exactly that (`ListsMatchButOne`, `ChainButOne`,
`ScalerFitsSoon`, `ArmedSoon`), and `OnPlace` what streamon's `buf` and `prev` are
at each of its steps; it holds as long as nobody has changed the lists under it.
The steps of the queue that leave streamon alone are taken over from the lemmas of
`Tw68QueueProofs`.

Two more results carry the queue's own promises over to these callers.
`RestartKeepsThePromise`: `RestartSpec` implies `InOrderOnce`. A move of streamon is a
`Start` of `BufferFifo` and its other accesses are stutters, because an activation
leaves a buffer with the driver; a resume is a `Start` or a stutter.
`RestartDoneIsFull` and `RestartEngineInActive` are the queue's properties with
streamon, suspend and resume, from `EngineInv`: the engine is in step with the active
list, or since a suspend switched off. Here the step in which the lists change under
streamon is part of the model, and is covered; what comes after it is not in the model
(section 7).

**The inputs.** `Tw68InputsProofs` first proves that `InputsSpec` implies `Spec`
(`InputsRefineQueue`): the inputs are added to the queue and take nothing away, so
its theorems hold there too. `HwInputIsMux` and `FramesFromAsked` follow from
an invariant with one more part: the input at which the multiplexer is has been
asked for since *any* of the active buffers was activated (`MuxWasAsked`),
because the engine may be in each of them next.

**The settings and the controls.** `Tw68SettingsProofs` proves the properties of
both, for every set of requests: `SettingsAssumption` says that they are integers
(rectangles of any sign) and not negative where the ioctl has unsigned fields,
`ControlsAssumption` that the values are integers. The table of standards is
reduced to the three kinds of frame it has (`ThreeKinds`), and
`AcceptedIsPreparable` and `ScalerShrinks` to arithmetic over those (`ScaleOf`,
`PreparableScales`). That a request for 525 lines or for 625 gets no other is that
every entry has signals of one kind (`OneKind`). `CropInBounds`
is part of the invariant they need: a format is cut down to the cropping rectangle
when it is accepted and compared with the frame when it is prepared (`FreshFits`),
so the rectangle must not have been larger than the frame. For the controls, each
byte and bit field is shown to give back what was put in, sign included, whatever
the other controls do to the same register.

**The program of a frame.** `Tw68RiscProofs` proves `PiecesInPlace`, `LinesWhole`
and `FitsEstimate` for every page size, length of a line up to a page, number of
lines and alignment. The invariant says where the next line starts (`Position`),
where every piece lies (`Piece`), and that the length of the program is the syncs,
the lines, the lines that are split, and the jump (`Counted`). Split lines are
counted by the chunks that begin in them (`Cuts`): two lines never share one,
because two lines are never the same row (`FreshCut`), and there is at most one
such chunk for each page that the estimate counts, and one more (`FewCuts`).
`FitsEstimateHolds` has the hypothesis that `Orders` are those which `try_fmt`
admits, TOP, BOTTOM and INTERLACED. The code below it also has SEQ_TB and SEQ_BT,
and for these the estimate can be one short: for two lines of 5 bytes, pages of 8
and a first chunk of one byte. No format that `S_FMT` accepts leads there.
`NeverStuckHolds` is what `ProgramComplete` says without `ENABLED`: a line that is
still to be written always starts in a chunk of the list, and when the jump is there so
is every line. `GenerationEnds` adds that each pass leaves one less to do
(`PassesLeft`), so that the generation does end, whatever the frame.

**The devices.** `Tw68DeviceProofs` proves all of `Tw68Device`'s invariants from
`DeviceAssumption`, for any number of devices, places and handles. The invariant
says of every device what follows from the steps that are still ahead of it: which
of its resources it holds, whether it is on the list, counted and enabled
(`StagesInv`). `OnlyKnownLeftBehind` is then a statement about the last step of
the orders: of the removal, and of the unwinding from each of the labels, which is why
`FailLabel` has to name the right one. `QuietAfterUnload` needs two facts about the
handler: it has a value of `TW68_DMAC` only while the interrupt is there, since `free_irq`
waits for it (`InHandler`), and from the stop on the engine of an unloading device runs
or will be made to run only when the stop was `spanned` (`Stopped`). `HalfwayGoesOn` and `LifeGoesDown` say of a probe
or a removal that it has a next step which can be taken until it is at its end
(`list_del` finds the device on the list), and that no step of anybody takes it back
(`LifeLeft`).

Only model-checked: all liveness (`StartedComesBack`, `StreamOffReturns`,
`HandlerLeaves`) and `ProgramComplete`, which is written with `ENABLED`; both are out of the prover's
reach. Every other property of a passing run has a theorem, and what these four come
to without fairness and `ENABLED` has one where it could be stated:
`DrainAdvancesHolds`, `HandlerBounded`, `NeverStuckHolds`, `GenerationEnds`.

## 7. Not modelled, and why

* The priorities of V4L2: a call they refuse is no step. mmap is the kernel's.
* The failure of program allocation: `buffer_prepare` does not look at the
  result (`tw68-video.c:787`), and a model would only repeat that. The same goes for
  the stopper's program: nobody looks at whether its memory could be had.
* The input after a resume: `tw68_board_init1` resets `dev->input` and
  `dev->hw_input` without writing the chip (`tw68-cards.c:157`); what the chip is
  set to after a change of power state is not in the source.
* Of the probe, the choice of the board, the dead hooks (ALSA, mpeg, radio:
  nothing in the source sets them) and a second module load.
* The mute control, which stores nothing, and the volume, which is refused.
* I2C, which is built only with `TW68_TESTING`, a variable the Makefile does not
  set. VBI, TS and audio are stubs that return 0. videotest is a client. Board and
  register tables are data.
* What streamon's walk does after the lists have changed under it: it follows pointers
  of a list that is being changed, so nothing can be promised of the queue from there on.
* The waits of the kernel inside `mutex_lock(&dev->lock)` are not split: each such
  section is a step.

## 8. Plan

1. (done) `Tw68Queue`, `BufferFifo`, the refinement, the first invariants proved.
2. (done) `Tw68Restart`, `Tw68Capture`, `Tw68Settings`, `Tw68Risc`, `Tw68Device`.
3. (done) `Tw68Inputs`, `Tw68Controls`, `Tw68Dmac`; both nodes in `Tw68Capture`.
4. (done) Proofs: the queue, its refinement of `BufferFifo`, `DoneIsFull` and
   `EngineInActive`, the registers of the engine, all safety of `Tw68Capture`.
5. (done) Proofs: `Tw68Restart`, `Tw68Inputs`, `Tw68Settings`, `Tw68Controls`,
   `Tw68Risc`, `Tw68Device`.
6. (done) Proofs: that `Tw68Restart` implements `BufferFifo` and keeps `DoneIsFull` and
   `EngineInActive`; what STREAMOFF waits for; the ends of a program's generation, of a
   probe and of a removal.
7. (done) The handler's own changes of `TW68_DMAC` during a removal, its end, what no
   path gives back, and the exact limits of the search of standards and of the scaler.
