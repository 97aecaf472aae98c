------------------------------ MODULE Tw68Risc ------------------------------
(***************************************************************************)
(* The program of a buffer (tw68-risc.c): tw68_risc_buffer allocates room  *)
(* for it from an estimate, and tw68_risc_field writes the instructions of *)
(* a field, one or two for each line, over a list of chunks of memory.     *)
(*                                                                         *)
(* The memory of a buffer is what the list gives: it starts anywhere in a  *)
(* page, and goes on page by page to its end.  A line is no longer than a  *)
(* page (720 pixels of 4 bytes), so that a line which does not fit into    *)
(* its chunk ends in the next one: the loop for longer lines never runs.   *)
(* No caller asks for an interrupt after a line (lpi is 0).                *)
(***************************************************************************)
EXTENDS Naturals, Sequences

CONSTANTS
    PageSize,
    Bpls,       \* bytes per line, buf->bpl
    Heights,    \* lines of a frame, buf->vb.height
    Orders      \* the field orders of a capture, buf->vb.field

ASSUME RiscAssumption ==
    /\ PageSize \in Nat \ {0}
    /\ Bpls \subseteq 1..PageSize
    /\ Heights \subseteq Nat \ {0, 1}
    /\ Orders \subseteq {"TOP", "BOTTOM", "INTERLACED", "SEQ_TB", "SEQ_BT"}

VARIABLES
    req,        \* the call: the geometry, and the length of the first chunk
    todo,       \* the fields that are still to be written, the first at work
    line,       \* lines of this field that are done
    chunk,      \* sg
    offset,     \* into that chunk, where the next line is to start
    prog        \* the instructions, with the field and line they belong to

risc == <<req, todo, line, chunk, offset, prog>>

-----------------------------------------------------------------------------
(* What buffer_prepare passes on.                                          *)

HasBoth(order) == order \notin {"TOP", "BOTTOM"}

\* The argument lines, and padding.
FieldLines == IF HasBoth(req.order) THEN req.height \div 2 ELSE req.height
Padding == IF req.order = "INTERLACED" THEN req.bpl ELSE 0

\* The fields in the order in which they are written, with top_offset and
\* bottom_offset: the odd field is always first.
Layout(r) ==
    LET Top(o) == [sync |-> "odd", offset |-> o]
        Bottom(o) == [sync |-> "even", offset |-> o]
        half == r.bpl * (r.height \div 2)
    IN CASE r.order = "TOP" -> <<Top(0)>>
         [] r.order = "BOTTOM" -> <<Bottom(0)>>
         [] r.order = "INTERLACED" -> <<Top(0), Bottom(r.bpl)>>
         [] r.order = "SEQ_TB" -> <<Top(0), Bottom(half)>>
         [] r.order = "SEQ_BT" -> <<Top(half), Bottom(0)>>

-----------------------------------------------------------------------------
(* The memory.                                                             *)

Size == req.bpl * req.height

\* Where chunk c starts in the buffer, and its length, sg_dma_len.
ChunkStart(c) == IF c = 1 THEN 0 ELSE req.first + (c - 2) * PageSize
ChunkEnd(c) == IF req.first + (c - 1) * PageSize < Size
               THEN req.first + (c - 1) * PageSize ELSE Size
ChunkLen(c) == ChunkEnd(c) - ChunkStart(c)

\* A mistake: no room for the pages.
EstimateNoPages == Len(Layout(req)) * (1 + FieldLines) + 2

\* The instructions there is room for.
Estimate ==
    Len(Layout(req))
        * (1 + (((req.bpl + Padding) * FieldLines) \div PageSize) + FieldLines) + 2

-----------------------------------------------------------------------------
RiscInit ==
    /\ req \in [bpl : Bpls, height : Heights, order : Orders, first : 1..PageSize]
    /\ req.first <= Size
    /\ todo = Layout(req)
    /\ line = 0 /\ chunk = 1 /\ offset = Head(Layout(req)).offset
    /\ prog = << [op |-> "sync", field |-> Head(Layout(req)).sync] >>

\* The chunk at or after c that holds the byte o bytes after the start of c.
Skipped(c, o, d) ==
    /\ d >= c /\ ChunkStart(d) < Size
    /\ ChunkStart(d) <= ChunkStart(c) + o /\ ChunkStart(c) + o < ChunkEnd(d)

\* An instruction for count bytes of this line, from byte start of it.
Data(start, count, c, o) ==
    [op |-> IF start = 0 THEN "linestart" ELSE "inline", field |-> Head(todo).sync,
     line |-> line, start |-> start, count |-> count, chunk |-> c, offset |-> o]

\* Where the next line starts, when this one ends at byte o of chunk c.
NextLine(c, o) ==
    /\ chunk' = c /\ offset' = o + Padding
    /\ line' = line + 1
    /\ UNCHANGED <<req, todo>>

\* A mistake: only what fits is written.
SplitFirstOnly(d, o) ==
    LET done == ChunkLen(d) - o IN
    /\ prog' = Append(prog, Data(0, done, d, o))
    /\ NextLine(d + 1, req.bpl - done)

\* A line that is split: the rest of its chunk, and what is left in the next.
Split(d, o) ==
    LET done == ChunkLen(d) - o IN
    /\ prog' = prog \o <<Data(0, done, d, o), Data(done, req.bpl - done, d + 1, 0)>>
    /\ NextLine(d + 1, req.bpl - done)

\* One pass of the loop over the lines.
ScanLine ==
    /\ todo # <<>> /\ line < FieldLines
    /\ \E d \in chunk..(Size + 1) :
          LET o == ChunkStart(chunk) + offset - ChunkStart(d) IN
          /\ Skipped(chunk, offset, d)
          /\ \/ /\ req.bpl <= ChunkLen(d) - o
                /\ prog' = Append(prog, Data(0, req.bpl, d, o))
                /\ NextLine(d, o + req.bpl)
             \/ /\ req.bpl > ChunkLen(d) - o
                /\ Split(d, o)

\* A mistake: the second field starts where the first has ended.
NextFieldOn ==
    /\ Len(todo) > 1 /\ line = FieldLines
    /\ todo' = Tail(todo) /\ line' = 0
    /\ prog' = Append(prog, [op |-> "sync", field |-> todo[2].sync])
    /\ UNCHANGED <<req, chunk, offset>>

\* The call for the second field starts from the list again.
NextField ==
    /\ Len(todo) > 1 /\ line = FieldLines
    /\ todo' = Tail(todo)
    /\ line' = 0 /\ chunk' = 1 /\ offset' = todo[2].offset
    /\ prog' = Append(prog, [op |-> "sync", field |-> todo[2].sync])
    /\ UNCHANGED req

\* tw68_buffer_queue adds the jump, which the room has to be enough for.
Jump ==
    /\ Len(todo) = 1 /\ line = FieldLines
    /\ todo' = <<>>
    /\ prog' = Append(prog, [op |-> "jump"])
    /\ UNCHANGED <<req, line, chunk, offset>>

RiscNext == ScanLine \/ NextField \/ Jump

RiscSpec == RiscInit /\ [][RiscNext]_risc

-----------------------------------------------------------------------------
(* Properties.                                                             *)

DataOf(p) == {i \in 1..Len(p) : p[i].op \in {"linestart", "inline"}}

\* The row of the frame in memory that a line of a field belongs to.
Row(field, n) ==
    CASE req.order = "INTERLACED" -> 2 * n + (IF field = "odd" THEN 0 ELSE 1)
      [] req.order = "SEQ_TB" -> n + (IF field = "odd" THEN 0 ELSE FieldLines)
      [] req.order = "SEQ_BT" -> n + (IF field = "even" THEN 0 ELSE FieldLines)
      [] OTHER -> n

\* Every instruction writes its bytes where they belong in the frame, into a
\* chunk that has room for them: the engine never writes beside the buffer.
PiecesInPlace ==
    \A i \in DataOf(prog) :
        LET p == prog[i] IN
        /\ p.count > 0 /\ p.offset + p.count <= ChunkLen(p.chunk)
        /\ ChunkStart(p.chunk) + p.offset = Row(p.field, p.line) * req.bpl + p.start

\* The lines that have been written are whole: the pieces of each follow one
\* another from byte 0 to the end of the line.
LinesWhole ==
    \A i \in DataOf(prog) :
        LET p == prog[i] IN
        \/ p.start + p.count = req.bpl
        \/ /\ i < Len(prog) /\ prog[i + 1].op = "inline"
           /\ prog[i + 1].start = p.start + p.count
           /\ prog[i + 1].line = p.line /\ prog[i + 1].field = p.field

\* The BUG_ON of tw68_risc_buffer does not fire: with the jump the program
\* fits into the room that was allocated for it.
FitsEstimate == Len(prog) + (IF todo = <<>> THEN 0 ELSE 1) <= Estimate

\* The generation is never stuck before the jump, with a line that starts
\* beyond the memory, and at the jump every line of every field is there.
ProgramComplete ==
    ~ENABLED RiscNext =>
        /\ todo = <<>>
        /\ \A f \in 1..Len(Layout(req)), n \in 0..(FieldLines - 1) :
              \E i \in DataOf(prog) : /\ prog[i].field = Layout(req)[f].sync
                                     /\ prog[i].line = n /\ prog[i].start = 0
=============================================================================
