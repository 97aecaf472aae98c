--------------------------- MODULE Tw68RiscProofs ---------------------------
(***************************************************************************)
(* Proofs about Tw68Risc, for every page size, every geometry of a frame   *)
(* and every alignment of its memory: the instructions write inside the    *)
(* buffer and where they belong, no line is left in pieces, the room that  *)
(* tw68_risc_buffer allocates is enough, and the generation ends.          *)
(***************************************************************************)
EXTENDS Tw68Risc, FiniteSetTheorems, TLAPS

-----------------------------------------------------------------------------
(* The inductive invariant.                                                *)

Syncs == {"odd", "even"}

Requests ==
    [bpl : Bpls, height : Heights, order : Orders, first : 1..PageSize]

Instructions ==
    [op : {"sync"}, field : Syncs] \union [op : {"jump"}]
    \union [op : {"linestart", "inline"}, field : Syncs, line : Nat, start : Nat,
            count : Nat, chunk : Nat, offset : Nat]

\* The fields of the frame, and which of them is at work: one past the last
\* when the jump is written.
FieldCount == Len(Layout(req))
Current == FieldCount + 1 - Len(todo)
Rest == \A j \in 1..Len(todo) : todo[j] = Layout(req)[FieldCount - Len(todo) + j]

\* Line n of the k-th field has been written.
Done(k, n) == k < Current \/ (k = Current /\ n < line)

RiscTypes ==
    /\ req \in Requests /\ req.first <= Size
    /\ todo \in Seq([sync : Syncs, offset : Nat]) /\ Len(todo) <= FieldCount
    /\ Rest
    /\ line \in 0..FieldLines /\ chunk \in Nat \ {0} /\ offset \in Nat
    /\ prog \in Seq(Instructions)

\* The next line starts where it belongs.
Position ==
    todo # <<>> =>
        ChunkStart(chunk) + offset = Row(Head(todo).sync, line) * req.bpl

\* A piece of a line lies where it belongs, within its chunk and its line; only
\* the rest of a split line is no start of one, and it starts a chunk.
Piece(p) ==
    /\ p.field \in Syncs /\ p.line \in 0..(FieldLines - 1)
    /\ p.start \in Nat /\ p.count \in Nat \ {0} /\ p.start + p.count <= req.bpl
    /\ p.chunk \in Nat \ {0} /\ p.offset \in Nat
    /\ p.offset + p.count <= ChunkLen(p.chunk)
    /\ ChunkStart(p.chunk) + p.offset = Row(p.field, p.line) * req.bpl + p.start
    /\ p.op = "linestart" => p.start = 0
    /\ p.op = "inline" => p.start > 0 /\ p.offset = 0 /\ p.chunk > 1

Pieces ==
    \A i \in DataOf(prog) :
        /\ Piece(prog[i])
        /\ \E k \in 1..FieldCount : /\ prog[i].field = Layout(req)[k].sync
                                    /\ Done(k, prog[i].line)

\* Every line that is done has been started.
Started ==
    \A k \in 1..FieldCount, n \in 0..(FieldLines - 1) :
        Done(k, n) => \E i \in DataOf(prog) : /\ prog[i].field = Layout(req)[k].sync
                                              /\ prog[i].line = n
                                              /\ prog[i].start = 0

\* The chunks that begin within a line, one for each line that is split.
Cuts == {prog[i].chunk : i \in {j \in 1..Len(prog) : prog[j].op = "inline"}}

LinesDone ==
    IF todo = <<>> THEN FieldCount * FieldLines
    ELSE IF Current = 1 THEN line ELSE FieldLines + line

\* A sync for every field, an instruction for every line, another for every
\* line that is split, and the jump.
Counted ==
    /\ IsFiniteSet(Cuts)
    /\ Len(prog) = Current + LinesDone + Cardinality(Cuts)

RiscInv ==
    /\ RiscTypes /\ Position /\ Pieces /\ LinesWhole /\ Started /\ Counted

-----------------------------------------------------------------------------
(* Arithmetic.                                                             *)

LEMMA Monotone ==
    ASSUME NEW a \in Nat, NEW b \in Nat, NEW c \in Nat, a <= b
    PROVE  a * c <= b * c
  OBVIOUS

\* Two places in rows of c bytes are the same only in the same row.
LEMMA SameRow ==
    ASSUME NEW a \in Nat, NEW b \in Nat, NEW c \in Nat,
           NEW x \in Nat, NEW y \in Nat, x < c, y < c, a * c + x = b * c + y
    PROVE  a = b
<1>1. ASSUME NEW p \in Nat, NEW q \in Nat, p < q PROVE p * c + c <= q * c
  <2>1. (p + 1) * c <= q * c
    BY <1>1, Monotone
  <2>2. (p + 1) * c = p * c + c
    OBVIOUS
  <2> QED
    BY <2>1, <2>2
<1>2. a * c \in Nat /\ b * c \in Nat
  OBVIOUS
<1> DEFINE r == a * c
           s == b * c
<1>3. a < b => r + c <= s
  BY <1>1
<1>4. b < a => s + c <= r
  BY <1>1
<1>5. r \in Nat /\ s \in Nat /\ r + x = s + y
  BY <1>2
<1> HIDE DEF r, s
<1> QED
  BY <1>3, <1>4, <1>5

-----------------------------------------------------------------------------
(* Sequences.                                                              *)

LEMMA OneIn ==
    ASSUME NEW S, NEW x \in S
    PROVE  <<x>> \in Seq(S)
  OBVIOUS

LEMMA PairIn ==
    ASSUME NEW S, NEW x \in S, NEW y \in S
    PROVE  <<x, y>> \in Seq(S)
  OBVIOUS

LEMMA OneMore ==
    ASSUME NEW S, NEW s \in Seq(S), NEW e \in S, NEW t, t = Append(s, e)
    PROVE  /\ t \in Seq(S) /\ Len(t) = Len(s) + 1
           /\ \A i \in 1..Len(s) : t[i] = s[i]
           /\ t[Len(s) + 1] = e
  OBVIOUS

LEMMA TwoMore ==
    ASSUME NEW S, NEW s \in Seq(S), NEW a \in S, NEW b \in S,
           NEW t, t = s \o <<a, b>>
    PROVE  /\ t \in Seq(S) /\ Len(t) = Len(s) + 2
           /\ \A i \in 1..Len(s) : t[i] = s[i]
           /\ t[Len(s) + 1] = a /\ t[Len(s) + 2] = b
<1> DEFINE p == <<a, b>>
<1>1. p \in Seq(S) /\ Len(p) = 2 /\ p[1] = a /\ p[2] = b
  BY PairIn
<1> HIDE DEF p
<1>2. t \in Seq(S) /\ t = s \o p
  BY <1>1 DEF p
<1>3. Len(t) = Len(s) + 2
  BY <1>1, <1>2
<1>4. \A i \in 1..Len(s) : t[i] = s[i]
  BY <1>1, <1>2
<1>5. Len(s) \in Nat /\ Len(s) + 1 \in 1..(Len(s) + 2) /\ Len(s) + 2 \in 1..(Len(s) + 2)
  OBVIOUS
<1>6. t[Len(s) + 1] = p[1]
  BY <1>1, <1>2, <1>5
<1>7. t[Len(s) + 2] = p[2]
  BY <1>1, <1>2, <1>5
<1> QED
  BY <1>1, <1>2, <1>3, <1>4, <1>6, <1>7

-----------------------------------------------------------------------------
(* The frame.                                                              *)

\* What the requests are, number by number.
LEMMA RequestIs ==
    ASSUME RiscAssumption, req \in Requests
    PROVE  /\ PageSize \in Nat \ {0}
           /\ req.bpl \in Nat \ {0} /\ req.bpl <= PageSize
           /\ req.height \in Nat /\ req.height > 1
           /\ req.order \in {"TOP", "BOTTOM", "INTERLACED", "SEQ_TB", "SEQ_BT"}
           /\ req.first \in Nat \ {0} /\ req.first <= PageSize
           /\ Size \in Nat
<1>1. /\ req.bpl \in Bpls /\ req.height \in Heights /\ req.order \in Orders
      /\ req.first \in 1..PageSize
  BY DEF Requests
<1>2. /\ PageSize \in Nat \ {0}
      /\ req.bpl \in Nat \ {0} /\ req.bpl <= PageSize
      /\ req.height \in Nat /\ req.height > 1
      /\ req.order \in {"TOP", "BOTTOM", "INTERLACED", "SEQ_TB", "SEQ_BT"}
      /\ req.first \in Nat \ {0} /\ req.first <= PageSize
  <2>1. /\ PageSize \in Nat \ {0} /\ Bpls \subseteq 1..PageSize
        /\ Heights \subseteq Nat \ {0, 1}
        /\ Orders \subseteq {"TOP", "BOTTOM", "INTERLACED", "SEQ_TB", "SEQ_BT"}
    BY DEF RiscAssumption
  <2>2. req.bpl \in 1..PageSize
    BY <1>1, <2>1
  <2>3. req.height \in Nat \ {0, 1}
    BY <1>1, <2>1
  <2>4. req.order \in {"TOP", "BOTTOM", "INTERLACED", "SEQ_TB", "SEQ_BT"}
    BY <1>1, <2>1
  <2>5. req.height > 1
    BY <2>3
  <2> QED
    BY <1>1, <2>1, <2>2, <2>3, <2>4, <2>5
<1>3. Size \in Nat
  BY <1>2 DEF Size
<1> QED
  BY <1>2, <1>3

LEMMA LinesAre ==
    ASSUME RiscAssumption, req \in Requests
    PROVE  /\ FieldLines \in Nat \ {0} /\ Padding \in Nat
           /\ HasBoth(req.order) => /\ FieldLines = req.height \div 2
                                    /\ FieldLines + FieldLines <= req.height
           /\ ~HasBoth(req.order) => FieldLines = req.height
  BY RequestIs DEF FieldLines, Padding, HasBoth

\* The fields, and where each starts.
LEMMA LayoutIs ==
    ASSUME RiscAssumption, req \in Requests
    PROVE  /\ FieldCount = IF HasBoth(req.order) THEN 2 ELSE 1
           /\ Layout(req) \in Seq([sync : Syncs, offset : Nat])
           /\ \A k \in 1..FieldCount :
                 /\ Layout(req)[k].sync \in Syncs /\ Layout(req)[k].offset \in Nat
                 /\ Layout(req)[k].offset = Row(Layout(req)[k].sync, 0) * req.bpl
           /\ HasBoth(req.order) => Layout(req)[1].sync = "odd"
                                    /\ Layout(req)[2].sync = "even"
<1> DEFINE half == req.bpl * (req.height \div 2)
<1>1. /\ req.bpl \in Nat /\ req.height \in Nat
      /\ req.order \in {"TOP", "BOTTOM", "INTERLACED", "SEQ_TB", "SEQ_BT"}
  BY RequestIs
<1>2. half \in Nat /\ half = (req.height \div 2) * req.bpl
      /\ 0 * req.bpl = 0 /\ 1 * req.bpl = req.bpl
  BY <1>1
<1>3. Layout(req) =
        CASE req.order = "TOP" -> << [sync |-> "odd", offset |-> 0] >>
          [] req.order = "BOTTOM" -> << [sync |-> "even", offset |-> 0] >>
          [] req.order = "INTERLACED" ->
               << [sync |-> "odd", offset |-> 0], [sync |-> "even", offset |-> req.bpl] >>
          [] req.order = "SEQ_TB" ->
               << [sync |-> "odd", offset |-> 0], [sync |-> "even", offset |-> half] >>
          [] req.order = "SEQ_BT" ->
               << [sync |-> "odd", offset |-> half], [sync |-> "even", offset |-> 0] >>
  BY <1>1 DEF Layout
<1>4. CASE req.order = "TOP" \/ req.order = "BOTTOM"
  <2>1. ~HasBoth(req.order) /\ FieldCount = 1 /\ Layout(req)[1].offset = 0
        /\ Layout(req)[1].sync \in Syncs /\ Row(Layout(req)[1].sync, 0) = 0
    BY <1>3, <1>4 DEF HasBoth, FieldCount, Syncs, Row
  <2>2. Layout(req) \in Seq([sync : Syncs, offset : Nat])
    <3>1. /\ [sync |-> "odd", offset |-> 0] \in [sync : Syncs, offset : Nat]
          /\ [sync |-> "even", offset |-> 0] \in [sync : Syncs, offset : Nat]
      BY DEF Syncs
    <3>2. PICK x \in [sync : Syncs, offset : Nat] : Layout(req) = <<x>>
      BY <1>3, <1>4, <3>1
    <3> QED
      BY <3>2, OneIn
  <2> QED
    BY <1>2, <2>1, <2>2
<1>5. CASE req.order \in {"INTERLACED", "SEQ_TB", "SEQ_BT"}
  <2>1. /\ HasBoth(req.order) /\ FieldCount = 2
        /\ Layout(req)[1].sync = "odd" /\ Layout(req)[2].sync = "even"
    BY <1>3, <1>5 DEF HasBoth, FieldCount
  <2>2. Layout(req) \in Seq([sync : Syncs, offset : Nat])
    <3>1. /\ [sync |-> "odd", offset |-> 0] \in [sync : Syncs, offset : Nat]
          /\ [sync |-> "even", offset |-> 0] \in [sync : Syncs, offset : Nat]
          /\ [sync |-> "even", offset |-> req.bpl] \in [sync : Syncs, offset : Nat]
          /\ [sync |-> "odd", offset |-> half] \in [sync : Syncs, offset : Nat]
          /\ [sync |-> "even", offset |-> half] \in [sync : Syncs, offset : Nat]
      BY <1>1, <1>2 DEF Syncs
    <3>2. \E x \in [sync : Syncs, offset : Nat], y \in [sync : Syncs, offset : Nat] :
             Layout(req) = <<x, y>>
      <4>1. CASE req.order = "INTERLACED"
        BY <1>3, <3>1, <4>1
      <4>2. CASE req.order = "SEQ_TB"
        BY <1>3, <3>1, <4>2
      <4>3. CASE req.order = "SEQ_BT"
        BY <1>3, <3>1, <4>3
      <4> QED
        BY <1>5, <4>1, <4>2, <4>3
    <3>3. PICK x \in [sync : Syncs, offset : Nat], y \in [sync : Syncs, offset : Nat] :
             Layout(req) = <<x, y>>
      BY <3>2
    <3> QED
      BY <3>3, PairIn
  <2>3. CASE req.order = "INTERLACED"
    <3>1. /\ Layout(req)[1].offset = 0 /\ Layout(req)[2].offset = req.bpl
          /\ Row("odd", 0) = 0 /\ Row("even", 0) = 1
      BY <1>3, <2>3 DEF Row
    <3> QED
      BY SMTT(60), <1>1, <1>2, <2>1, <2>2, <3>1 DEF Syncs
  <2>4. CASE req.order \in {"SEQ_TB", "SEQ_BT"}
    <3>1. FieldLines = req.height \div 2 /\ FieldLines \in Nat
      BY <2>1, LinesAre
    <3>2. /\ req.order = "SEQ_TB" => /\ Layout(req)[1].offset = 0
                                     /\ Layout(req)[2].offset = half
                                     /\ Row("odd", 0) = 0
                                     /\ Row("even", 0) = FieldLines
          /\ req.order = "SEQ_BT" => /\ Layout(req)[1].offset = half
                                     /\ Layout(req)[2].offset = 0
                                     /\ Row("odd", 0) = FieldLines
                                     /\ Row("even", 0) = 0
      <4> HIDE DEF half
      <4> QED
        BY <1>3, <3>1 DEF Row
    <3> HIDE DEF half
    <3> QED
      BY <1>2, <2>1, <2>2, <2>4, <3>1, <3>2 DEF Syncs
  <2> QED
    BY <1>5, <2>3, <2>4
<1> QED
  BY <1>1, <1>4, <1>5

\* The rows of a field, from line to line, within the frame.
LEMMA RowsAre ==
    ASSUME RiscAssumption, req \in Requests, NEW s \in Syncs, NEW n \in Nat
    PROVE  /\ Row(s, n) \in Nat
           /\ Row(s, n) * req.bpl \in Nat
           /\ Row(s, n + 1) * req.bpl = Row(s, n) * req.bpl + req.bpl + Padding
           /\ n < FieldLines => Row(s, n) + 1 <= req.height
<1>1. /\ FieldLines \in Nat \ {0}
      /\ HasBoth(req.order) => FieldLines + FieldLines <= req.height
      /\ ~HasBoth(req.order) => FieldLines = req.height
  BY LinesAre
<1>2. req.bpl \in Nat /\ req.height \in Nat
      /\ req.order \in {"TOP", "BOTTOM", "INTERLACED", "SEQ_TB", "SEQ_BT"}
  BY RequestIs
<1>3. CASE req.order = "INTERLACED"
  <2>1. /\ Row(s, n) \in Nat /\ Row(s, n + 1) = Row(s, n) + 2
        /\ Padding = req.bpl
        /\ n < FieldLines => Row(s, n) + 1 <= FieldLines + FieldLines
    BY <1>1, <1>3 DEF Row, Padding, Syncs
  <2>2. (Row(s, n) + 2) * req.bpl = Row(s, n) * req.bpl + req.bpl + req.bpl
        /\ Row(s, n) * req.bpl \in Nat
    BY <1>2, <2>1
  <2> QED
    BY <1>1, <1>2, <1>3, <2>1, <2>2 DEF HasBoth
<1>4. CASE req.order # "INTERLACED"
  <2>1. /\ Row(s, n) \in Nat /\ Row(s, n + 1) = Row(s, n) + 1
        /\ Padding = 0
        /\ n < FieldLines =>
             Row(s, n) + 1 <= IF HasBoth(req.order) THEN FieldLines + FieldLines
                              ELSE FieldLines
    BY <1>1, <1>2, <1>4 DEF Row, Padding, HasBoth
  <2>2. (Row(s, n) + 1) * req.bpl = Row(s, n) * req.bpl + req.bpl
        /\ Row(s, n) * req.bpl \in Nat
    BY <1>2, <2>1
  <2> QED
    BY <1>1, <1>2, <2>1, <2>2
<1> QED
  BY <1>3, <1>4

\* A row belongs to one line of one field.
LEMMA RowsDiffer ==
    ASSUME RiscAssumption, req \in Requests,
           NEW k \in 1..FieldCount, NEW m \in 1..FieldCount,
           NEW i \in 0..(FieldLines - 1), NEW j \in 0..(FieldLines - 1),
           Row(Layout(req)[k].sync, i) = Row(Layout(req)[m].sync, j)
    PROVE  k = m /\ i = j
<1>1. /\ FieldLines \in Nat
      /\ FieldCount = IF HasBoth(req.order) THEN 2 ELSE 1
      /\ HasBoth(req.order) => Layout(req)[1].sync = "odd"
                               /\ Layout(req)[2].sync = "even"
  BY LinesAre, LayoutIs
<1>2. req.order \in {"TOP", "BOTTOM", "INTERLACED", "SEQ_TB", "SEQ_BT"}
  BY RequestIs
<1>3. CASE ~HasBoth(req.order)
  BY <1>1, <1>2, <1>3 DEF Row, HasBoth
<1>4. CASE HasBoth(req.order)
  <2>1. k \in {1, 2} /\ m \in {1, 2}
    BY <1>1, <1>4
  <2>2. CASE req.order = "INTERLACED"
    BY <1>1, <1>4, <2>1, <2>2 DEF Row
  <2>3. CASE req.order \in {"SEQ_TB", "SEQ_BT"}
    BY <1>1, <1>4, <2>1, <2>3 DEF Row
  <2> QED
    BY <1>2, <1>4, <2>2, <2>3 DEF HasBoth
<1> QED
  BY <1>3, <1>4

-----------------------------------------------------------------------------
(* The chunks.                                                             *)

\* Chunk by chunk, each starts where the one before it ends, unless the
\* memory ends there.
LEMMA ChunksAre ==
    ASSUME RiscAssumption, req \in Requests, req.first <= Size,
           NEW c \in Nat \ {0}
    PROVE  /\ ChunkStart(c) \in Nat /\ ChunkStart(1) = 0
           /\ ChunkStart(c + 1) = ChunkStart(c) + (IF c = 1 THEN req.first
                                                   ELSE PageSize)
           /\ ChunkStart(c + 1) = req.first + (c - 1) * PageSize
           /\ ChunkEnd(c) = IF ChunkStart(c + 1) < Size THEN ChunkStart(c + 1)
                            ELSE Size
           /\ ChunkEnd(c) \in Nat /\ ChunkLen(c) = ChunkEnd(c) - ChunkStart(c)
<1>1. /\ PageSize \in Nat /\ req.first \in Nat /\ Size \in Nat
  BY RequestIs
<1>2. ChunkStart(c + 1) = req.first + (c - 1) * PageSize
  BY <1>1 DEF ChunkStart
<1>3. (c - 1) * PageSize \in Nat
  BY <1>1
<1>4. ChunkEnd(c) = (IF ChunkStart(c + 1) < Size THEN ChunkStart(c + 1) ELSE Size)
      /\ ChunkEnd(c) \in Nat
  BY <1>1, <1>2, <1>3 DEF ChunkEnd
<1>5. CASE c = 1
  BY <1>1, <1>2, <1>3, <1>4, <1>5 DEF ChunkStart, ChunkLen
<1>6. CASE c # 1
  <2>1. ChunkStart(c) = req.first + (c - 2) * PageSize /\ (c - 2) * PageSize \in Nat
    BY <1>1, <1>6 DEF ChunkStart
  <2>2. (c - 1) * PageSize = (c - 2) * PageSize + PageSize
    BY <1>1, <1>6
  <2> QED
    BY <1>1, <1>2, <1>4, <1>6, <2>1, <2>2 DEF ChunkStart, ChunkLen
<1> QED
  BY <1>5, <1>6
-----------------------------------------------------------------------------
(* The field at work.                                                      *)

LEMMA FieldAtWork ==
    ASSUME RiscAssumption, RiscTypes
    PROVE  /\ FieldCount \in {1, 2} /\ Len(todo) \in 0..FieldCount
           /\ Current \in 1..(FieldCount + 1)
           /\ todo = <<>> <=> Len(todo) = 0
           /\ todo = <<>> <=> Current = FieldCount + 1
           /\ todo # <<>> => /\ Current \in 1..FieldCount
                             /\ Head(todo) = Layout(req)[Current]
                             /\ Head(todo).sync \in Syncs
<1>1. /\ FieldCount \in {1, 2}
      /\ \A k \in 1..FieldCount : Layout(req)[k].sync \in Syncs
  BY LayoutIs DEF RiscTypes
<1>2. /\ todo \in Seq([sync : Syncs, offset : Nat]) /\ Len(todo) <= FieldCount
      /\ Len(todo) \in Nat /\ (todo = <<>> <=> Len(todo) = 0)
  BY DEF RiscTypes
<1>3. /\ Len(todo) \in 0..FieldCount /\ Current = FieldCount + 1 - Len(todo)
  BY <1>1, <1>2 DEF Current
<1>4. ASSUME todo # <<>>
      PROVE  /\ Current \in 1..FieldCount
             /\ Head(todo) = Layout(req)[Current]
  <2>1. Head(todo) = todo[1] /\ 1 \in 1..Len(todo)
    BY <1>2, <1>4
  <2>2. todo[1] = Layout(req)[FieldCount - Len(todo) + 1]
    BY <2>1 DEF RiscTypes, Rest
  <2>3. FieldCount - Len(todo) + 1 = Current
    BY <1>1, <1>3
  <2> QED
    BY <1>1, <1>2, <1>3, <1>4, <2>1, <2>2, <2>3
<1> QED
  BY <1>1, <1>2, <1>3, <1>4

\* A call keeps its request, and what follows from it.
LEMMA FrameStays ==
    ASSUME req' = req
    PROVE  /\ Size' = Size /\ FieldLines' = FieldLines /\ Padding' = Padding
           /\ FieldCount' = FieldCount /\ Layout(req)' = Layout(req)
           /\ \A s, n : Row(s, n)' = Row(s, n)
           /\ \A c : ChunkStart(c)' = ChunkStart(c) /\ ChunkLen(c)' = ChunkLen(c)
           /\ \A p : Piece(p)' <=> Piece(p)
  BY DEF Size, FieldLines, Padding, FieldCount, HasBoth, Row, ChunkStart, ChunkLen,
         ChunkEnd, Piece, Layout

\* The program grows at its end.
Grows ==
    /\ req' = req
    /\ prog' \in Seq(Instructions) /\ Len(prog) <= Len(prog')
    /\ \A i \in 1..Len(prog) : prog'[i] = prog[i]

LEMMA PiecesGrow ==
    ASSUME RiscInv, Grows,
           \A k \in 1..FieldCount, n \in 0..(FieldLines - 1) :
               Done(k, n) => Done(k, n)',
           \A i \in (Len(prog) + 1)..Len(prog') :
               prog'[i].op \in {"linestart", "inline"} =>
                   /\ Piece(prog'[i])
                   /\ \E k \in 1..FieldCount :
                         /\ prog'[i].field = Layout(req)[k].sync
                         /\ \A n : n = prog'[i].line => Done(k, n)'
    PROVE  Pieces'
<1>1. /\ Len(prog) \in Nat /\ Len(prog') \in Nat /\ Len(prog) <= Len(prog')
      /\ \A i \in 1..Len(prog) : prog'[i] = prog[i]
  BY DEF RiscInv, RiscTypes, Grows
<1>2. FieldCount' = FieldCount /\ Layout(req)' = Layout(req)
  BY FrameStays DEF Grows
<1>3. ASSUME NEW i \in DataOf(prog')
      PROVE  /\ Piece(prog'[i])
             /\ \E k \in 1..FieldCount :
                   /\ prog'[i].field = Layout(req)[k].sync
                   /\ \A n : n = prog'[i].line => Done(k, n)'
  <2>1. i \in 1..Len(prog') /\ prog'[i].op \in {"linestart", "inline"}
    BY <1>3 DEF DataOf
  <2>2. CASE i \in 1..Len(prog)
    <3>1. i \in DataOf(prog) /\ prog'[i] = prog[i]
      BY <1>1, <2>1, <2>2 DEF DataOf
    <3>2. PICK k \in 1..FieldCount : /\ Piece(prog[i])
                                     /\ prog[i].field = Layout(req)[k].sync
                                     /\ Done(k, prog[i].line)
      BY <3>1 DEF RiscInv, Pieces
    <3>3. prog[i].line \in 0..(FieldLines - 1)
      BY <3>2 DEF Piece
    <3> QED
      BY <3>1, <3>2, <3>3
  <2>3. CASE i \notin 1..Len(prog)
    <3>1. i \in (Len(prog) + 1)..Len(prog')
      BY <1>1, <2>1, <2>3
    <3> QED
      BY <2>1, <3>1
  <2> QED
    BY <2>2, <2>3
<1>4. ASSUME NEW i \in DataOf(prog') PROVE Piece(prog[i])'
  <2>1. Piece(prog'[i]) /\ req' = req
    BY <1>3 DEF Grows
  <2> QED
    BY <2>1, FrameStays DEF Piece
<1>5. ASSUME NEW i \in DataOf(prog')
      PROVE  \E k \in (1..FieldCount)' : /\ (prog[i].field = Layout(req)[k].sync)'
                                         /\ Done(k, prog[i].line)'
  BY <1>2, <1>3 DEF Done
<1> QED
  BY <1>4, <1>5 DEF Pieces, DataOf

LEMMA StartedGrows ==
    ASSUME RiscInv, Grows,
           \A k \in 1..FieldCount, n \in 0..(FieldLines - 1) :
               Done(k, n)' =>
                   \/ Done(k, n)
                   \/ \E i \in (Len(prog) + 1)..Len(prog') :
                         /\ prog'[i].op = "linestart"
                         /\ prog'[i].field = Layout(req)[k].sync
                         /\ prog'[i].line = n /\ prog'[i].start = 0
    PROVE  Started'
<1>1. /\ Len(prog) \in Nat /\ Len(prog') \in Nat /\ Len(prog) <= Len(prog')
      /\ \A i \in 1..Len(prog) : prog'[i] = prog[i]
  BY DEF RiscInv, RiscTypes, Grows
<1>2. FieldCount' = FieldCount /\ FieldLines' = FieldLines
      /\ Layout(req)' = Layout(req)
  BY FrameStays DEF Grows
<1>3. ASSUME NEW k \in 1..FieldCount, NEW n \in 0..(FieldLines - 1), Done(k, n)'
      PROVE  \E i \in DataOf(prog') : /\ prog'[i].field = Layout(req)[k].sync
                                      /\ prog'[i].line = n /\ prog'[i].start = 0
  <2>1. CASE Done(k, n)
    <3>1. PICK i \in DataOf(prog) : /\ prog[i].field = Layout(req)[k].sync
                                    /\ prog[i].line = n /\ prog[i].start = 0
      BY <2>1 DEF RiscInv, Started
    <3>2. i \in DataOf(prog') /\ prog'[i] = prog[i]
      BY <1>1 DEF DataOf
    <3> QED
      BY <3>1, <3>2
  <2>2. CASE \E i \in (Len(prog) + 1)..Len(prog') :
                /\ prog'[i].op = "linestart"
                /\ prog'[i].field = Layout(req)[k].sync
                /\ prog'[i].line = n /\ prog'[i].start = 0
    BY <1>1, <2>2 DEF DataOf
  <2> QED
    BY <1>3, <2>1, <2>2
<1> QED
  BY <1>2, <1>3 DEF Started

LEMMA WholeGrows ==
    ASSUME RiscInv, Grows,
           \A i \in (Len(prog) + 1)..Len(prog') :
               prog'[i].op \in {"linestart", "inline"} =>
                   \/ prog'[i].start + prog'[i].count = req.bpl
                   \/ /\ i < Len(prog') /\ prog'[i + 1].op = "inline"
                      /\ prog'[i + 1].start = prog'[i].start + prog'[i].count
                      /\ prog'[i + 1].line = prog'[i].line
                      /\ prog'[i + 1].field = prog'[i].field
    PROVE  LinesWhole'
<1>1. /\ Len(prog) \in Nat /\ Len(prog') \in Nat /\ Len(prog) <= Len(prog')
      /\ \A i \in 1..Len(prog) : prog'[i] = prog[i]
  BY DEF RiscInv, RiscTypes, Grows
<1>2. ASSUME NEW i \in DataOf(prog')
      PROVE  \/ prog'[i].start + prog'[i].count = req.bpl
             \/ /\ i < Len(prog') /\ prog'[i + 1].op = "inline"
                /\ prog'[i + 1].start = prog'[i].start + prog'[i].count
                /\ prog'[i + 1].line = prog'[i].line
                /\ prog'[i + 1].field = prog'[i].field
  <2>1. i \in 1..Len(prog') /\ prog'[i].op \in {"linestart", "inline"}
    BY <1>2 DEF DataOf
  <2>2. CASE i \in 1..Len(prog)
    <3>1. i \in DataOf(prog) /\ prog'[i] = prog[i]
      BY <1>1, <2>1, <2>2 DEF DataOf
    <3>2. i < Len(prog) => prog'[i + 1] = prog[i + 1] /\ i < Len(prog')
      BY <1>1, <2>2
    <3> QED
      BY <3>1, <3>2 DEF RiscInv, LinesWhole
  <2>3. CASE i \notin 1..Len(prog)
    <3>1. i \in (Len(prog) + 1)..Len(prog')
      BY <1>1, <2>1, <2>3
    <3> QED
      BY <2>1, <3>1
  <2> QED
    BY <2>2, <2>3
<1> QED
  BY <1>2 DEF LinesWhole, DataOf, Grows
-----------------------------------------------------------------------------
(* The first instruction.                                                  *)

LEMMA RiscInvInit == ASSUME RiscAssumption, RiscInit PROVE RiscInv
<1>1. req \in Requests /\ req.first <= Size /\ todo = Layout(req) /\ line = 0
      /\ chunk = 1 /\ offset = Head(Layout(req)).offset
      /\ prog = << [op |-> "sync", field |-> Head(Layout(req)).sync] >>
  BY DEF RiscInit, Requests
<1>2. /\ FieldCount \in {1, 2} /\ Len(todo) = FieldCount /\ todo # <<>>
      /\ Layout(req) \in Seq([sync : Syncs, offset : Nat])
      /\ Head(todo) = Layout(req)[1]
      /\ Layout(req)[1].sync \in Syncs /\ Layout(req)[1].offset \in Nat
      /\ Layout(req)[1].offset = Row(Layout(req)[1].sync, 0) * req.bpl
  <2>1. FieldCount \in {1, 2} /\ Layout(req) \in Seq([sync : Syncs, offset : Nat])
        /\ 1 \in 1..FieldCount
    BY <1>1, LayoutIs
  <2>2. Len(Layout(req)) = FieldCount
    BY DEF FieldCount
  <2>3. Head(Layout(req)) = Layout(req)[1] /\ Layout(req) # <<>>
    BY <2>1, <2>2
  <2> QED
    BY <1>1, <2>1, <2>2, <2>3, LayoutIs
<1>3. FieldLines \in Nat \ {0}
  BY <1>1, LinesAre
<1>4. prog \in Seq(Instructions) /\ Len(prog) = 1 /\ prog[1].op = "sync"
  <2> DEFINE e == [op |-> "sync", field |-> Head(Layout(req)).sync]
  <2>1. e \in Instructions
    BY <1>1, <1>2 DEF Instructions
  <2>2. prog = <<e>> /\ e.op = "sync"
    BY <1>1
  <2> HIDE DEF e
  <2> QED
    BY <2>1, <2>2, OneIn
<1>5. RiscTypes
  <2>1. Rest
    BY <1>1, <1>2 DEF Rest
  <2> QED
    BY <1>1, <1>2, <1>3, <1>4, <2>1 DEF RiscTypes
<1>6. Position
  <2>1. ChunkStart(1) = 0
    BY DEF ChunkStart
  <2> QED
    BY <1>1, <1>2, <2>1 DEF Position
<1>7. DataOf(prog) = {} /\ {j \in 1..Len(prog) : prog[j].op = "inline"} = {}
  BY <1>4 DEF DataOf
<1>8. Pieces /\ LinesWhole
  BY <1>7 DEF Pieces, LinesWhole
<1>9. Current = 1
  BY <1>2 DEF Current
<1>10. Started
  BY <1>1, <1>9 DEF Started, Done
<1>11. Counted
  <2>1. Cuts = {}
    BY <1>7 DEF Cuts
  <2>2. IsFiniteSet(Cuts) /\ Cardinality(Cuts) = 0
    BY <2>1, FS_EmptySet
  <2>3. LinesDone = 0
    BY <1>1, <1>2, <1>9 DEF LinesDone
  <2> QED
    BY <1>4, <1>9, <2>2, <2>3 DEF Counted
<1> QED
  BY <1>5, <1>6, <1>8, <1>10, <1>11 DEF RiscInv

-----------------------------------------------------------------------------
(* A line.                                                                 *)

\* Where a line is written: from byte o of chunk d, and if it is longer than
\* what is left there it ends in the next chunk.
LEMMA LineAt ==
    ASSUME RiscAssumption, RiscInv, todo # <<>>, line < FieldLines,
           NEW d \in chunk..(Size + 1), Skipped(chunk, offset, d),
           NEW o, o = ChunkStart(chunk) + offset - ChunkStart(d),
           NEW row, row = Row(Head(todo).sync, line)
    PROVE  /\ d \in Nat \ {0} /\ o \in Nat /\ row \in Nat
           /\ ChunkLen(d) \in Nat /\ o < ChunkLen(d)
           /\ ChunkStart(d) \in Nat /\ ChunkStart(d) + o = row * req.bpl
           /\ row * req.bpl \in Nat /\ row * req.bpl + req.bpl <= Size
           /\ req.bpl > ChunkLen(d) - o =>
                 /\ ChunkStart(d + 1) = row * req.bpl + (ChunkLen(d) - o)
                 /\ req.bpl - (ChunkLen(d) - o) <= ChunkLen(d + 1)
<1>1. /\ req \in Requests /\ req.first <= Size /\ line \in Nat
      /\ chunk \in Nat \ {0} /\ offset \in Nat
      /\ Head(todo).sync \in Syncs
      /\ ChunkStart(chunk) + offset = row * req.bpl
  <2>1. line \in 0..FieldLines /\ FieldLines \in Nat
    BY LinesAre DEF RiscInv, RiscTypes
  <2> QED
    BY <2>1, FieldAtWork DEF RiscInv, RiscTypes, Position
<1>2. /\ Size \in Nat /\ req.bpl \in Nat \ {0} /\ req.bpl <= PageSize
      /\ PageSize \in Nat /\ req.height \in Nat /\ req.first \in Nat
  BY <1>1, RequestIs
<1>3. d \in Nat \ {0} /\ d + 1 \in Nat \ {0}
  BY <1>1, <1>2
<1>4. row \in Nat /\ row * req.bpl \in Nat /\ row + 1 <= req.height
  BY <1>1, RowsAre
<1>5. row * req.bpl + req.bpl <= Size
  <2>1. (row + 1) * req.bpl <= req.height * req.bpl
    <3>1. row + 1 \in Nat /\ req.bpl \in Nat /\ req.height \in Nat
      BY <1>2, <1>4
    <3> QED
      BY <1>4, <3>1, Monotone
  <2>2. (row + 1) * req.bpl = row * req.bpl + req.bpl
    BY SMTT(60), <1>2, <1>4
  <2>3. Size = req.height * req.bpl
    BY <1>2 DEF Size
  <2> QED
    BY <2>1, <2>2, <2>3
<1>6. /\ ChunkStart(d) \in Nat /\ ChunkStart(d + 1) \in Nat
      /\ ChunkEnd(d) = IF ChunkStart(d + 1) < Size THEN ChunkStart(d + 1) ELSE Size
      /\ ChunkEnd(d) \in Nat /\ ChunkLen(d) = ChunkEnd(d) - ChunkStart(d)
  BY <1>1, <1>3, ChunksAre
<1>7. /\ ChunkStart((d + 1) + 1) = ChunkStart(d + 1) + PageSize
      /\ ChunkEnd(d + 1) = IF ChunkStart((d + 1) + 1) < Size
                           THEN ChunkStart((d + 1) + 1) ELSE Size
      /\ ChunkLen(d + 1) = ChunkEnd(d + 1) - ChunkStart(d + 1)
  <2> DEFINE e == d + 1
  <2>1. e \in Nat \ {0} /\ e # 1
    BY <1>3
  <2> HIDE DEF e
  <2>2. /\ ChunkStart(e + 1) = ChunkStart(e) + PageSize
        /\ ChunkEnd(e) = IF ChunkStart(e + 1) < Size THEN ChunkStart(e + 1) ELSE Size
        /\ ChunkLen(e) = ChunkEnd(e) - ChunkStart(e)
    BY <1>1, <2>1, ChunksAre
  <2> QED
    BY <2>2 DEF e
<1>8. /\ ChunkStart(d) <= ChunkStart(chunk) + offset
      /\ ChunkStart(chunk) + offset < ChunkEnd(d)
  BY DEF Skipped
<1> DEFINE pos == row * req.bpl
<1>9. pos \in Nat /\ pos + req.bpl <= Size /\ ChunkStart(chunk) + offset = pos
  BY <1>1, <1>4, <1>5
<1>10. ChunkStart(chunk) \in Nat
  BY <1>1, ChunksAre
<1> HIDE DEF pos
<1>11. /\ o \in Nat /\ ChunkLen(d) \in Nat /\ o < ChunkLen(d)
       /\ ChunkStart(d) + o = pos
  <2>1. o = pos - ChunkStart(d)
    <3>1. o = ChunkStart(chunk) + offset - ChunkStart(d)
      OBVIOUS
    <3>2. offset \in Nat
      BY <1>1
    <3> QED
      BY <1>6, <1>9, <1>10, <3>1, <3>2
  <2>2. ChunkStart(d) <= pos /\ pos < ChunkEnd(d)
    BY <1>8, <1>9
  <2>3. o \in Nat /\ ChunkStart(d) + o = pos
    BY <1>6, <1>9, <2>1, <2>2
  <2> QED
    BY <1>6, <1>9, <2>2, <2>3
<1>12. req.bpl > ChunkLen(d) - o =>
          /\ ChunkStart(d + 1) = pos + (ChunkLen(d) - o)
          /\ req.bpl - (ChunkLen(d) - o) <= ChunkLen(d + 1)
  <2> SUFFICES ASSUME req.bpl > ChunkLen(d) - o
               PROVE  /\ ChunkStart(d + 1) = pos + (ChunkLen(d) - o)
                      /\ req.bpl - (ChunkLen(d) - o) <= ChunkLen(d + 1)
    OBVIOUS
  <2>1. ChunkLen(d) - o = ChunkEnd(d) - pos
    BY <1>6, <1>9, <1>11
  <2>2. ChunkEnd(d) < pos + req.bpl
    <3>1. req.bpl > ChunkEnd(d) - pos
      BY <2>1
    <3> QED
      BY <1>2, <1>6, <1>9, <3>1
  <2>3. ChunkEnd(d) = ChunkStart(d + 1)
    BY <1>2, <1>6, <1>9, <2>2
  <2>4. ChunkStart(d + 1) = pos + (ChunkLen(d) - o)
    BY <1>6, <1>9, <2>1, <2>3
  <2>5. pos + req.bpl <= ChunkEnd(d + 1)
    <3>1. pos + req.bpl <= ChunkStart((d + 1) + 1)
      <4>1. pos <= ChunkStart(d + 1)
        BY <1>6, <1>9, <1>11, <2>1, <2>4
      <4> QED
        BY <1>2, <1>6, <1>7, <1>9, <4>1
    <3> QED
      BY <1>7, <1>9, <3>1
  <2>6. req.bpl - (ChunkEnd(d) - pos) <= ChunkEnd(d + 1) - ChunkStart(d + 1)
    <3>1. ChunkEnd(d + 1) \in Nat
      BY <1>2, <1>6, <1>7
    <3> QED
      BY SMTT(60), <1>2, <1>6, <1>9, <2>3, <2>5, <3>1
  <2> QED
    BY <1>7, <2>1, <2>4, <2>6
<1> QED
  BY <1>3, <1>4, <1>5, <1>6, <1>11, <1>12 DEF pos

\* The line at work is done with, and the others stay as they are.
LEMMA LineDone ==
    ASSUME RiscAssumption, RiscInv, todo # <<>>, line < FieldLines,
           req' = req, todo' = todo, line' = line + 1
    PROVE  /\ Current \in 1..FieldCount /\ Current' = Current
           /\ line \in 0..(FieldLines - 1) /\ line + 1 \in 0..FieldLines
           /\ LinesDone' = LinesDone + 1 /\ LinesDone \in Nat
           /\ ~Done(Current, line)
           /\ \A n : n = line => Done(Current, n)'
           /\ \A k \in 1..FieldCount, n \in 0..(FieldLines - 1) :
                 Done(k, n)' <=> (Done(k, n) \/ (k = Current /\ n = line))
<1>1. /\ FieldLines \in Nat /\ line \in 0..FieldLines
      /\ Current \in 1..FieldCount /\ FieldCount \in {1, 2}
  BY LinesAre, FieldAtWork DEF RiscInv, RiscTypes
<1>2. FieldCount' = FieldCount /\ FieldLines' = FieldLines
  BY FrameStays
<1>3. Current' = Current
  BY <1>2 DEF Current
<1>4. line \in 0..(FieldLines - 1) /\ line + 1 \in 0..FieldLines
  BY <1>1
<1>5. LinesDone' = LinesDone + 1 /\ LinesDone \in Nat
  BY <1>1, <1>2, <1>3 DEF LinesDone
<1>6. \A k \in 1..FieldCount, n \in 0..(FieldLines - 1) :
         Done(k, n)' <=> (Done(k, n) \/ (k = Current /\ n = line))
  BY <1>1, <1>3, <1>4 DEF Done
<1>7. ~Done(Current, line) /\ (\A n : n = line => Done(Current, n)')
  BY <1>1, <1>3, <1>4 DEF Done
<1> QED
  BY <1>1, <1>3, <1>4, <1>5, <1>6, <1>7
\* After a line the types hold, the next one starts where it belongs.
LEMMA NextLineTypes ==
    ASSUME RiscAssumption, RiscInv, todo # <<>>, line < FieldLines, Grows,
           NEW c \in Nat \ {0}, NEW o \in Nat, NextLine(c, o),
           ChunkStart(c) + o = Row(Head(todo).sync, line) * req.bpl + req.bpl
    PROVE  RiscTypes' /\ Position'
<1>1. /\ req' = req /\ todo' = todo /\ line' = line + 1 /\ chunk' = c
      /\ offset' = o + Padding
  BY DEF NextLine
<1>2. /\ FieldLines' = FieldLines /\ FieldCount' = FieldCount /\ Size' = Size
      /\ Layout(req)' = Layout(req)
      /\ \A s, n : Row(s, n)' = Row(s, n)
      /\ \A a : ChunkStart(a)' = ChunkStart(a)
  BY <1>1, FrameStays
<1>3. line + 1 \in 0..FieldLines /\ line \in Nat
  BY <1>1, LineDone
<1>4. Padding \in Nat /\ req \in Requests /\ req.bpl \in Nat
  BY LinesAre, RequestIs DEF RiscInv, RiscTypes
<1>5. Rest'
  BY <1>1, <1>2 DEF Rest, RiscInv, RiscTypes
<1>6. RiscTypes'
  <2>1. o + Padding \in Nat
    BY <1>4
  <2> QED
    BY <1>1, <1>2, <1>3, <1>5, <2>1 DEF RiscInv, RiscTypes, Grows
<1>7. Position'
  <2>1. Head(todo).sync \in Syncs /\ req \in Requests
    BY FieldAtWork DEF RiscInv, RiscTypes
  <2>2. /\ Row(Head(todo).sync, line + 1) * req.bpl
               = Row(Head(todo).sync, line) * req.bpl + req.bpl + Padding
        /\ Row(Head(todo).sync, line) * req.bpl \in Nat
    BY <1>3, <2>1, RowsAre
  <2>3. ChunkStart(c) \in Nat
    BY <2>1, ChunksAre DEF RiscInv, RiscTypes
  <2>4. ChunkStart(c) + (o + Padding) = Row(Head(todo).sync, line + 1) * req.bpl
    BY <1>4, <2>2, <2>3
  <2>5. Row(Head(todo).sync, line)' = Row(Head(todo).sync, line + 1)
    BY <1>1 DEF Row, FieldLines, HasBoth
  <2> QED
    BY <1>1, <1>2, <2>4, <2>5 DEF Position
<1> QED
  BY <1>6, <1>7

LEMMA ScanFits ==
    ASSUME RiscAssumption, RiscInv, todo # <<>>, line < FieldLines,
           NEW d \in chunk..(Size + 1), Skipped(chunk, offset, d),
           NEW o, o = ChunkStart(chunk) + offset - ChunkStart(d),
           req.bpl <= ChunkLen(d) - o,
           prog' = Append(prog, Data(0, req.bpl, d, o)),
           NextLine(d, o + req.bpl)
    PROVE  RiscInv'
<1> DEFINE e == Data(0, req.bpl, d, o)
           row == Row(Head(todo).sync, line)
<1>1. /\ d \in Nat \ {0} /\ o \in Nat /\ row \in Nat
      /\ ChunkLen(d) \in Nat /\ ChunkStart(d) \in Nat
      /\ ChunkStart(d) + o = row * req.bpl /\ row * req.bpl \in Nat
  BY LineAt
<1>2. /\ req' = req /\ todo' = todo /\ line' = line + 1
  BY DEF NextLine
<1>3. /\ Current \in 1..FieldCount /\ Current' = Current
      /\ line \in 0..(FieldLines - 1)
      /\ LinesDone' = LinesDone + 1 /\ LinesDone \in Nat
  BY <1>2, LineDone
<1>4. /\ \A n : n = line => Done(Current, n)'
      /\ \A k \in 1..FieldCount, n \in 0..(FieldLines - 1) :
            Done(k, n)' <=> (Done(k, n) \/ (k = Current /\ n = line))
  BY <1>2, LineDone
<1>5. /\ Head(todo) = Layout(req)[Current] /\ Head(todo).sync \in Syncs
      /\ req.bpl \in Nat \ {0} /\ prog \in Seq(Instructions) /\ FieldLines \in Nat
  BY FieldAtWork, RequestIs, LinesAre DEF RiscInv, RiscTypes
<1>6. /\ e.op = "linestart" /\ e.field = Head(todo).sync /\ e.line = line
      /\ e.start = 0 /\ e.count = req.bpl /\ e.chunk = d /\ e.offset = o
  BY DEF Data
<1>7. e \in Instructions
  <2>1. e = [op |-> "linestart", field |-> Head(todo).sync, line |-> line,
             start |-> 0, count |-> req.bpl, chunk |-> d, offset |-> o]
    BY DEF Data
  <2>2. line \in Nat
    BY <1>3, <1>5
  <2> HIDE DEF e
  <2> QED
    BY <1>1, <1>5, <2>1, <2>2 DEF Instructions
<1>8. Piece(e)
  <2>1. 0 + req.bpl <= req.bpl /\ o + req.bpl <= ChunkLen(d)
        /\ row * req.bpl + 0 = row * req.bpl
    BY <1>1, <1>5
  <2> HIDE DEF e
  <2> QED
    BY <1>1, <1>3, <1>5, <1>6, <2>1 DEF Piece
<1> HIDE DEF e
<1>9. /\ prog' \in Seq(Instructions) /\ Len(prog') = Len(prog) + 1
      /\ \A i \in 1..Len(prog) : prog'[i] = prog[i]
      /\ prog'[Len(prog) + 1] = e /\ Len(prog) \in Nat
  <2>1. prog' = Append(prog, e)
    BY DEF e
  <2> QED
    BY <1>5, <1>7, <2>1, OneMore
<1>10. Grows
  BY <1>2, <1>9 DEF Grows
<1>11. \A i \in (Len(prog) + 1)..Len(prog') : i = Len(prog) + 1 /\ prog'[i] = e
  BY <1>9
<1>12. RiscTypes' /\ Position'
  <2>1. ChunkStart(d) + (o + req.bpl) = row * req.bpl + req.bpl /\ o + req.bpl \in Nat
    <3> DEFINE pos == row * req.bpl
    <3>1. ChunkStart(d) + o = pos /\ pos \in Nat /\ req.bpl \in Nat
          /\ ChunkStart(d) \in Nat /\ o \in Nat
      BY <1>1, <1>5
    <3> HIDE DEF pos
    <3>2. ChunkStart(d) + (o + req.bpl) = pos + req.bpl /\ o + req.bpl \in Nat
      BY <3>1
    <3> QED
      BY <3>2 DEF pos
  <2> QED
    BY <1>1, <1>10, <2>1, NextLineTypes
<1>13. Pieces'
  <2>1. \A i \in (Len(prog) + 1)..Len(prog') :
           /\ Piece(prog'[i])
           /\ \E k \in 1..FieldCount :
                 /\ prog'[i].field = Layout(req)[k].sync
                 /\ \A n : n = prog'[i].line => Done(k, n)'
    BY <1>3, <1>4, <1>5, <1>6, <1>8, <1>11
  <2> QED
    BY <1>4, <1>10, <2>1, PiecesGrow
<1>14. Started'
  <2>1. Len(prog) + 1 \in (Len(prog) + 1)..Len(prog')
    BY <1>9
  <2>2. \A k \in 1..FieldCount, n \in 0..(FieldLines - 1) :
           Done(k, n)' =>
               \/ Done(k, n)
               \/ \E i \in (Len(prog) + 1)..Len(prog') :
                     /\ prog'[i].op = "linestart"
                     /\ prog'[i].field = Layout(req)[k].sync
                     /\ prog'[i].line = n /\ prog'[i].start = 0
    BY SMTT(60), <1>4, <1>5, <1>6, <1>9, <2>1
  <2> QED
    BY <1>10, <2>2, StartedGrows
<1>15. LinesWhole'
  <2>1. \A i \in (Len(prog) + 1)..Len(prog') :
           prog'[i].start + prog'[i].count = req.bpl
    BY <1>5, <1>6, <1>11
  <2> QED
    BY <1>10, <2>1, WholeGrows
<1>16. Counted'
  <2>1. {j \in 1..Len(prog') : prog'[j].op = "inline"}
            = {j \in 1..Len(prog) : prog[j].op = "inline"}
    <3>1. prog'[Len(prog) + 1].op # "inline"
      BY <1>6, <1>9
    <3>2. 1..Len(prog') = (1..Len(prog)) \union {Len(prog) + 1}
      BY <1>9
    <3> QED
      BY <1>9, <3>1, <3>2
  <2>2. Cuts' = Cuts
    BY <1>9, <2>1 DEF Cuts
  <2>3. IsFiniteSet(Cuts) /\ Len(prog) = Current + LinesDone + Cardinality(Cuts)
        /\ Cardinality(Cuts) \in Nat
    BY FS_CardinalityType DEF RiscInv, Counted
  <2>4. Current \in Nat
    BY <1>3
  <2>5. Len(prog) + 1 = Current + (LinesDone + 1) + Cardinality(Cuts)
    BY <1>3, <2>3, <2>4
  <2> QED
    BY <1>3, <1>9, <2>2, <2>3, <2>5 DEF Counted
<1> QED
  BY <1>12, <1>13, <1>14, <1>15, <1>16 DEF RiscInv
\* No other line is split where a chunk begins within this one.
LEMMA FreshCut ==
    ASSUME RiscAssumption, RiscInv, todo # <<>>, line < FieldLines,
           NEW c \in Nat \ {0}, NEW x \in Nat, x < req.bpl,
           ChunkStart(c) = Row(Head(todo).sync, line) * req.bpl + x
    PROVE  c \notin Cuts
<1> SUFFICES ASSUME c \in Cuts PROVE FALSE
  OBVIOUS
<1>1. PICK i \in 1..Len(prog) : prog[i].op = "inline" /\ prog[i].chunk = c
  BY DEF Cuts
<1>2. i \in DataOf(prog)
  BY <1>1 DEF DataOf
<1>3. PICK k \in 1..FieldCount : /\ Piece(prog[i])
                                 /\ prog[i].field = Layout(req)[k].sync
                                 /\ Done(k, prog[i].line)
  BY <1>2 DEF RiscInv, Pieces
<1> DEFINE p == prog[i]
           a == Row(p.field, p.line)
           b == Row(Head(todo).sync, line)
<1>4. /\ p.field \in Syncs /\ p.line \in 0..(FieldLines - 1)
      /\ p.start \in Nat /\ p.count \in Nat \ {0} /\ p.start + p.count <= req.bpl
      /\ p.offset = 0 /\ ChunkStart(p.chunk) + p.offset = a * req.bpl + p.start
  BY <1>1, <1>3 DEF Piece
<1>5. /\ req \in Requests /\ req.bpl \in Nat /\ ChunkStart(c) \in Nat
      /\ Head(todo) = Layout(req)[Current] /\ Head(todo).sync \in Syncs
      /\ Current \in 1..FieldCount /\ FieldLines \in Nat /\ line \in 0..FieldLines
      /\ FieldCount \in Nat
  <2>1. req \in Requests /\ req.first <= Size /\ line \in 0..FieldLines
    BY DEF RiscInv, RiscTypes
  <2>2. req.bpl \in Nat /\ ChunkStart(c) \in Nat /\ FieldLines \in Nat
    BY <2>1, RequestIs, ChunksAre, LinesAre
  <2>3. /\ Head(todo) = Layout(req)[Current] /\ Head(todo).sync \in Syncs
        /\ Current \in 1..FieldCount /\ FieldCount \in Nat
    BY FieldAtWork DEF RiscInv
  <2> QED
    BY <2>1, <2>2, <2>3
<1>6. line \in 0..(FieldLines - 1) /\ line \in Nat /\ p.line \in Nat
  BY <1>4, <1>5
<1>7. a \in Nat /\ b \in Nat
  BY <1>4, <1>5, <1>6, RowsAre
<1>8. a * req.bpl + p.start = b * req.bpl + x
  BY <1>1, <1>4, <1>5
<1>9. p.start < req.bpl
  BY <1>4, <1>5
<1>10. a = b
  <2> HIDE DEF a, b, p
  <2> QED
    BY ZenonT(60), <1>4, <1>5, <1>7, <1>8, <1>9, SameRow
<1>11. Row(Layout(req)[k].sync, p.line) = Row(Layout(req)[Current].sync, line)
  BY <1>3, <1>5, <1>10
<1>12. k = Current /\ p.line = line
  BY SMTT(60), <1>4, <1>5, <1>6, <1>11, RowsDiffer
<1> QED
  BY <1>3, <1>5, <1>6, <1>12 DEF Done

LEMMA ScanSplits ==
    ASSUME RiscAssumption, RiscInv, todo # <<>>, line < FieldLines,
           NEW d \in chunk..(Size + 1), Skipped(chunk, offset, d),
           NEW o, o = ChunkStart(chunk) + offset - ChunkStart(d),
           req.bpl > ChunkLen(d) - o,
           Split(d, o)
    PROVE  RiscInv'
<1> DEFINE done == ChunkLen(d) - o
           rest == req.bpl - done
           e == Data(0, done, d, o)
           g == Data(done, rest, d + 1, 0)
           row == Row(Head(todo).sync, line)
<1>1. /\ d \in Nat \ {0} /\ o \in Nat /\ row \in Nat
      /\ ChunkLen(d) \in Nat /\ ChunkStart(d) \in Nat /\ o < ChunkLen(d)
      /\ ChunkStart(d) + o = row * req.bpl /\ row * req.bpl \in Nat
      /\ ChunkStart(d + 1) = row * req.bpl + done
      /\ rest <= ChunkLen(d + 1)
  BY LineAt
<1>2. /\ req' = req /\ todo' = todo /\ line' = line + 1
      /\ prog' = prog \o <<e, g>> /\ NextLine(d + 1, rest)
  BY DEF Split, NextLine
<1>3. /\ Current \in 1..FieldCount /\ Current' = Current
      /\ line \in 0..(FieldLines - 1)
      /\ LinesDone' = LinesDone + 1 /\ LinesDone \in Nat
  BY <1>2, LineDone
<1>4. /\ \A n : n = line => Done(Current, n)'
      /\ \A k \in 1..FieldCount, n \in 0..(FieldLines - 1) :
            Done(k, n)' <=> (Done(k, n) \/ (k = Current /\ n = line))
  BY <1>2, LineDone
<1>5. /\ Head(todo) = Layout(req)[Current] /\ Head(todo).sync \in Syncs
      /\ req.bpl \in Nat \ {0} /\ prog \in Seq(Instructions) /\ FieldLines \in Nat
  BY FieldAtWork, RequestIs, LinesAre DEF RiscInv, RiscTypes
<1>6. /\ done \in Nat \ {0} /\ rest \in Nat \ {0} /\ done + rest = req.bpl
      /\ done < req.bpl /\ o + done = ChunkLen(d) /\ d + 1 \in Nat \ {0}
      /\ d + 1 > 1
  <2>1. o \in Nat /\ ChunkLen(d) \in Nat /\ o < ChunkLen(d) /\ d \in Nat \ {0}
        /\ req.bpl \in Nat /\ req.bpl > ChunkLen(d) - o
    BY <1>1, <1>5
  <2> QED
    BY <2>1
<1> HIDE DEF done, rest
<1>7. /\ e.op = "linestart" /\ e.field = Head(todo).sync /\ e.line = line
      /\ e.start = 0 /\ e.count = done /\ e.chunk = d /\ e.offset = o
  BY DEF Data
<1>8. /\ g.op = "inline" /\ g.field = Head(todo).sync /\ g.line = line
      /\ g.start = done /\ g.count = rest /\ g.chunk = d + 1 /\ g.offset = 0
  BY <1>6 DEF Data
<1>9. e \in Instructions /\ g \in Instructions
  <2>1. e = [op |-> "linestart", field |-> Head(todo).sync, line |-> line,
             start |-> 0, count |-> done, chunk |-> d, offset |-> o]
    BY DEF Data
  <2>2. g = [op |-> "inline", field |-> Head(todo).sync, line |-> line,
             start |-> done, count |-> rest, chunk |-> d + 1, offset |-> 0]
    BY <1>6 DEF Data
  <2>3. line \in Nat
    BY <1>3, <1>5
  <2> HIDE DEF e, g
  <2>4. e \in Instructions
    BY <1>1, <1>5, <1>6, <2>1, <2>3 DEF Instructions
  <2>5. g \in Instructions
    BY <1>5, <1>6, <2>2, <2>3 DEF Instructions
  <2> QED
    BY <2>4, <2>5
<1>10. Piece(e)
  <2>1. 0 + done <= req.bpl /\ o + done <= ChunkLen(d)
        /\ row * req.bpl + 0 = row * req.bpl
    <3>1. row * req.bpl \in Nat
      BY <1>1
    <3>2. row * req.bpl + 0 = row * req.bpl
      BY <3>1
    <3> HIDE DEF row
    <3>3. /\ done \in Nat /\ done < req.bpl /\ o + done = ChunkLen(d)
          /\ ChunkLen(d) \in Nat /\ req.bpl \in Nat
      BY <1>1, <1>5, <1>6
    <3> QED
      BY <3>2, <3>3
  <2> HIDE DEF e
  <2> QED
    BY <1>1, <1>3, <1>5, <1>6, <1>7, <2>1 DEF Piece
<1>11. Piece(g)
  <2>1. done + rest <= req.bpl /\ 0 + rest <= ChunkLen(d + 1)
        /\ ChunkStart(d + 1) + 0 = row * req.bpl + done /\ done > 0
    <3>1. ChunkStart(d + 1) = row * req.bpl + done /\ rest <= ChunkLen(d + 1)
          /\ done \in Nat \ {0} /\ rest \in Nat /\ done + rest = req.bpl
      BY <1>1, <1>6
    <3>2. row * req.bpl \in Nat
      BY <1>1
    <3>3. ChunkStart(d + 1) \in Nat
      BY <3>1, <3>2
    <3>4. ChunkStart(d + 1) + 0 = ChunkStart(d + 1) /\ 0 + rest = rest
      BY <3>1, <3>3
    <3> QED
      BY <1>5, <3>1, <3>4
  <2> HIDE DEF g
  <2> QED
    BY <1>1, <1>3, <1>5, <1>6, <1>8, <2>1 DEF Piece
<1> HIDE DEF e, g
<1>12. /\ prog' \in Seq(Instructions) /\ Len(prog') = Len(prog) + 2
       /\ \A i \in 1..Len(prog) : prog'[i] = prog[i]
       /\ prog'[Len(prog) + 1] = e /\ prog'[Len(prog) + 2] = g /\ Len(prog) \in Nat
  BY <1>2, <1>5, <1>9, TwoMore
<1>13. Grows
  BY <1>2, <1>12 DEF Grows
<1>14. \A i \in (Len(prog) + 1)..Len(prog') :
          \/ i = Len(prog) + 1 /\ prog'[i] = e /\ i < Len(prog') /\ prog'[i + 1] = g
          \/ i = Len(prog) + 2 /\ prog'[i] = g
  BY <1>12
<1>15. RiscTypes' /\ Position'
  <2>1. ChunkStart(d + 1) + rest = row * req.bpl + req.bpl
    <3> DEFINE pos == row * req.bpl
    <3>1. ChunkStart(d + 1) = pos + done /\ pos \in Nat
      BY <1>1
    <3> HIDE DEF pos
    <3>2. ChunkStart(d + 1) + rest = pos + req.bpl
      BY <1>5, <1>6, <3>1
    <3> QED
      BY <3>2 DEF pos
  <2> QED
    BY <1>2, <1>6, <1>13, <2>1, NextLineTypes
<1>16. Pieces'
  <2>1. \A i \in (Len(prog) + 1)..Len(prog') :
           /\ Piece(prog'[i])
           /\ \E k \in 1..FieldCount :
                 /\ prog'[i].field = Layout(req)[k].sync
                 /\ \A n : n = prog'[i].line => Done(k, n)'
    BY <1>3, <1>4, <1>5, <1>7, <1>8, <1>10, <1>11, <1>14
  <2> QED
    BY <1>4, <1>13, <2>1, PiecesGrow
<1>17. Started'
  <2>1. Len(prog) + 1 \in (Len(prog) + 1)..Len(prog')
    BY <1>12
  <2>2. \A k \in 1..FieldCount, n \in 0..(FieldLines - 1) :
           Done(k, n)' =>
               \/ Done(k, n)
               \/ \E i \in (Len(prog) + 1)..Len(prog') :
                     /\ prog'[i].op = "linestart"
                     /\ prog'[i].field = Layout(req)[k].sync
                     /\ prog'[i].line = n /\ prog'[i].start = 0
    BY SMTT(60), <1>4, <1>5, <1>7, <1>12, <2>1
  <2> QED
    BY <1>13, <2>2, StartedGrows
<1>18. LinesWhole'
  <2>1. \A i \in (Len(prog) + 1)..Len(prog') :
           \/ prog'[i].start + prog'[i].count = req.bpl
           \/ /\ i < Len(prog') /\ prog'[i + 1].op = "inline"
              /\ prog'[i + 1].start = prog'[i].start + prog'[i].count
              /\ prog'[i + 1].line = prog'[i].line
              /\ prog'[i + 1].field = prog'[i].field
    <3>1. e.start + e.count = g.start /\ g.start + g.count = req.bpl
          /\ g.line = e.line /\ g.field = e.field
      BY <1>6, <1>7, <1>8
    <3> QED
      BY <1>8, <1>14, <3>1
  <2> QED
    BY <1>13, <2>1, WholeGrows
<1>19. Counted'
  <2>1. {j \in 1..Len(prog') : prog'[j].op = "inline"}
            = {j \in 1..Len(prog) : prog[j].op = "inline"} \union {Len(prog) + 2}
    <3>1. prog'[Len(prog) + 1].op # "inline" /\ prog'[Len(prog) + 2].op = "inline"
      BY <1>7, <1>8, <1>12
    <3>2. 1..Len(prog') = (1..Len(prog)) \union {Len(prog) + 1, Len(prog) + 2}
      BY <1>12
    <3> QED
      BY <1>12, <3>1, <3>2
  <2>2. Cuts' = Cuts \union {d + 1}
    BY SMTT(60), <1>8, <1>12, <2>1 DEF Cuts
  <2>3. d + 1 \notin Cuts
    BY <1>1, <1>6, FreshCut
  <2>4. IsFiniteSet(Cuts) /\ Len(prog) = Current + LinesDone + Cardinality(Cuts)
        /\ Cardinality(Cuts) \in Nat
    BY FS_CardinalityType DEF RiscInv, Counted
  <2>5. IsFiniteSet(Cuts') /\ Cardinality(Cuts') = Cardinality(Cuts) + 1
    BY <2>2, <2>3, <2>4, FS_AddElement
  <2>6. Current \in Nat
    BY <1>3
  <2>7. Len(prog) + 2 = Current + (LinesDone + 1) + (Cardinality(Cuts) + 1)
    BY <1>3, <2>4, <2>6
  <2> QED
    BY <1>3, <1>12, <2>5, <2>7 DEF Counted
<1> QED
  BY <1>15, <1>16, <1>17, <1>18, <1>19 DEF RiscInv
-----------------------------------------------------------------------------
(* The end of a field.                                                     *)

\* An instruction that is no data, after all the lines of a field: the program
\* grows by it, and the lines that are done stay the same.
LEMMA Marked ==
    ASSUME RiscAssumption, RiscInv, todo # <<>>, line = FieldLines, req' = req,
           NEW e \in Instructions, e.op \notin {"linestart", "inline"},
           prog' = Append(prog, e),
           Current' = Current + 1,
           line' = 0 \/ Current = FieldCount
    PROVE  /\ Pieces' /\ LinesWhole' /\ Started'
           /\ prog' \in Seq(Instructions) /\ Cuts' = Cuts
           /\ Len(prog') = Len(prog) + 1 /\ Len(prog) \in Nat
<1>1. /\ prog' \in Seq(Instructions) /\ Len(prog') = Len(prog) + 1
      /\ \A i \in 1..Len(prog) : prog'[i] = prog[i]
      /\ prog'[Len(prog) + 1] = e /\ Len(prog) \in Nat
  <2>1. prog \in Seq(Instructions)
    BY DEF RiscInv, RiscTypes
  <2> QED
    BY <2>1, OneMore
<1>2. Grows
  BY <1>1 DEF Grows
<1>3. \A i \in (Len(prog) + 1)..Len(prog') :
         prog'[i].op \notin {"linestart", "inline"}
  <2>1. \A i \in (Len(prog) + 1)..Len(prog') : i = Len(prog) + 1
    BY <1>1
  <2> QED
    BY <1>1, <2>1
<1>4. \A k \in 1..FieldCount, n \in 0..(FieldLines - 1) : Done(k, n)' <=> Done(k, n)
  <2>1. Current \in 1..FieldCount /\ FieldCount \in Nat /\ FieldLines \in Nat
    BY SMTT(60), FieldAtWork, LinesAre DEF RiscInv, RiscTypes
  <2> QED
    BY <2>1 DEF Done
<1>5. Pieces'
  BY <1>2, <1>3, <1>4, PiecesGrow
<1>6. Started'
  BY <1>2, <1>4, StartedGrows
<1>7. LinesWhole'
  BY <1>2, <1>3, WholeGrows
<1>8. Cuts' = Cuts
  <2>1. {j \in 1..Len(prog') : prog'[j].op = "inline"}
            = {j \in 1..Len(prog) : prog[j].op = "inline"}
    <3>1. prog'[Len(prog) + 1].op # "inline"
      BY <1>1
    <3>2. 1..Len(prog') = (1..Len(prog)) \union {Len(prog) + 1}
      BY <1>1
    <3> QED
      BY <1>1, <3>1, <3>2
  <2> QED
    BY <1>1, <2>1 DEF Cuts
<1> QED
  BY <1>1, <1>5, <1>6, <1>7, <1>8

LEMMA NextFieldStep ==
    ASSUME RiscAssumption, RiscInv, NextField
    PROVE  RiscInv'
<1> DEFINE e == [op |-> "sync", field |-> todo[2].sync]
<1>1. /\ Len(todo) > 1 /\ line = FieldLines /\ todo' = Tail(todo)
      /\ line' = 0 /\ chunk' = 1 /\ offset' = todo[2].offset
      /\ prog' = Append(prog, e) /\ req' = req
  BY DEF NextField
<1>2. /\ req \in Requests /\ todo \in Seq([sync : Syncs, offset : Nat])
      /\ FieldLines \in Nat
  BY LinesAre DEF RiscInv, RiscTypes
<1>3. /\ FieldCount = 2 /\ Len(todo) = 2 /\ todo # <<>> /\ Current = 1
  <2>1. FieldCount \in {1, 2} /\ Len(todo) \in 0..FieldCount
    BY FieldAtWork DEF RiscInv
  <2>2. Len(todo) \in Nat
    BY <1>2
  <2>3. FieldCount = 2 /\ Len(todo) = 2
    <3> DEFINE m == Len(todo)
               k == FieldCount
    <3>1. k \in Int /\ k <= 2 /\ m <= k /\ m \in Int /\ m > 1
      BY <1>1, <2>1, <2>2
    <3> HIDE DEF m, k
    <3>2. k = 2 /\ m = 2
      BY <3>1
    <3> QED
      BY <3>2 DEF m, k
  <2>4. todo # <<>>
    BY <2>3
  <2> QED
    BY <2>3, <2>4 DEF Current
<1>4. todo[2] = Layout(req)[2]
  BY <1>3 DEF RiscInv, RiscTypes, Rest
<1>5. /\ Tail(todo) \in Seq([sync : Syncs, offset : Nat]) /\ Len(Tail(todo)) = 1
      /\ Tail(todo)[1] = todo[2] /\ Head(Tail(todo)) = todo[2] /\ Tail(todo) # <<>>
  <2> DEFINE places == [sync : Syncs, offset : Nat]
             t == Tail(todo)
  <2>1. todo \in Seq(places) /\ Len(todo) = 2 /\ todo # <<>>
    BY <1>2, <1>3
  <2> HIDE DEF places
  <2>2. t \in Seq(places) /\ Len(t) = 1
    BY <2>1
  <2>3. t[1] = todo[2]
    BY <2>1
  <2> HIDE DEF t
  <2>4. Head(t) = t[1] /\ t # <<>>
    BY <2>2
  <2> QED
    BY <2>2, <2>3, <2>4 DEF t, places
<1>6. /\ todo[2].sync \in Syncs /\ todo[2].offset \in Nat
      /\ todo[2].offset = Row(todo[2].sync, 0) * req.bpl
  BY <1>2, <1>3, <1>4, LayoutIs
<1>7. /\ FieldLines' = FieldLines /\ FieldCount' = FieldCount /\ Size' = Size
      /\ Layout(req)' = Layout(req)
      /\ \A s, n : Row(s, n)' = Row(s, n)
      /\ \A a : ChunkStart(a)' = ChunkStart(a)
  BY <1>1, FrameStays
<1>8. Current' = Current + 1
  BY SMTT(60), <1>1, <1>3, <1>5, <1>7 DEF Current
<1>9. e \in Instructions /\ e.op \notin {"linestart", "inline"}
  BY <1>6 DEF Instructions
<1> HIDE DEF e
<1>10. /\ Pieces' /\ LinesWhole' /\ Started'
       /\ prog' \in Seq(Instructions) /\ Cuts' = Cuts
       /\ Len(prog') = Len(prog) + 1 /\ Len(prog) \in Nat
  BY <1>1, <1>3, <1>8, <1>9, Marked
<1>11. RiscTypes'
  <2>1. Rest'
    BY SMTT(60), <1>1, <1>3, <1>4, <1>5, <1>7 DEF Rest
  <2> QED
    BY SMTT(60), <1>1, <1>2, <1>3, <1>5, <1>6, <1>7, <1>10, <2>1
       DEF RiscInv, RiscTypes
<1>12. Position'
  <2>1. ChunkStart(1) + todo[2].offset = Row(todo[2].sync, 0) * req.bpl
    BY <1>6 DEF ChunkStart
  <2>2. Row(Head(todo).sync, line)' = Row(todo[2].sync, 0)
    BY <1>1, <1>5 DEF Row, FieldLines, HasBoth
  <2> QED
    BY <1>1, <1>7, <2>1, <2>2 DEF Position
<1>13. Counted'
  <2>1. LinesDone = FieldLines /\ LinesDone' = FieldLines
    BY <1>1, <1>2, <1>3, <1>5, <1>7, <1>8 DEF LinesDone
  <2>2. /\ IsFiniteSet(Cuts) /\ Len(prog) = Current + LinesDone + Cardinality(Cuts)
        /\ Cardinality(Cuts) \in Nat
    BY FS_CardinalityType DEF RiscInv, Counted
  <2>3. Len(prog) + 1 = (Current + 1) + FieldLines + Cardinality(Cuts)
    BY <1>2, <1>3, <2>1, <2>2
  <2> QED
    BY <1>8, <1>10, <2>1, <2>2, <2>3 DEF Counted
<1> QED
  BY <1>10, <1>11, <1>12, <1>13 DEF RiscInv

LEMMA JumpStep ==
    ASSUME RiscAssumption, RiscInv, Jump
    PROVE  RiscInv'
<1> DEFINE e == [op |-> "jump"]
<1>1. /\ Len(todo) = 1 /\ line = FieldLines /\ todo' = <<>>
      /\ prog' = Append(prog, e) /\ req' = req /\ line' = line
      /\ chunk' = chunk /\ offset' = offset
  BY DEF Jump
<1>2. FieldLines \in Nat /\ FieldCount \in {1, 2} /\ todo # <<>>
      /\ Current = FieldCount
  BY <1>1, LinesAre, FieldAtWork DEF RiscInv, RiscTypes, Current
<1>3. /\ FieldLines' = FieldLines /\ FieldCount' = FieldCount /\ Size' = Size
      /\ Layout(req)' = Layout(req)
  BY <1>1, FrameStays
<1>4. Current' = Current + 1
  BY <1>1, <1>2, <1>3 DEF Current
<1>5. e \in Instructions /\ e.op \notin {"linestart", "inline"}
  BY DEF Instructions
<1> HIDE DEF e
<1>6. /\ Pieces' /\ LinesWhole' /\ Started'
      /\ prog' \in Seq(Instructions) /\ Cuts' = Cuts
      /\ Len(prog') = Len(prog) + 1 /\ Len(prog) \in Nat
  BY <1>1, <1>2, <1>4, <1>5, Marked
<1>7. RiscTypes'
  <2>1. Rest' /\ <<>> \in Seq([sync : Syncs, offset : Nat]) /\ Len(<<>>) = 0
    BY <1>1 DEF Rest
  <2>2. todo' \in Seq([sync : Syncs, offset : Nat]) /\ Len(todo') <= FieldCount
    BY <1>1, <1>2, <2>1
  <2> QED
    BY <1>1, <1>3, <1>6, <2>1, <2>2 DEF RiscInv, RiscTypes
<1>8. Position'
  BY <1>1 DEF Position
<1>9. Counted'
  <2>1. LinesDone = FieldCount * FieldLines /\ LinesDone' = FieldCount * FieldLines
    BY <1>1, <1>2, <1>3 DEF LinesDone
  <2>2. /\ IsFiniteSet(Cuts) /\ Len(prog) = Current + LinesDone + Cardinality(Cuts)
        /\ Cardinality(Cuts) \in Nat
    BY FS_CardinalityType DEF RiscInv, Counted
  <2>3. LinesDone \in Nat
    BY <1>2, <2>1
  <2>4. Len(prog) + 1 = (Current + 1) + LinesDone + Cardinality(Cuts)
    BY <1>2, <2>2, <2>3
  <2> QED
    BY <1>4, <1>6, <2>1, <2>2, <2>4 DEF Counted
<1> QED
  BY <1>6, <1>7, <1>8, <1>9 DEF RiscInv

-----------------------------------------------------------------------------
(* Theorems.                                                               *)

\* The invariant holds of every program that tw68_risc_buffer begins, line by
\* line up to the jump of tw68_buffer_queue.
THEOREM RiscInvHolds == RiscSpec => []RiscInv
<1>1. RiscInit => RiscInv
  BY RiscAssumption, RiscInvInit
<1>2. RiscInv /\ [RiscNext]_risc => RiscInv'
  <2> SUFFICES ASSUME RiscInv, [RiscNext]_risc PROVE RiscInv'
    OBVIOUS
  <2>1. CASE ScanLine
    <3>1. todo # <<>> /\ line < FieldLines
      BY <2>1 DEF ScanLine
    <3>2. PICK d \in chunk..(Size + 1) :
             LET o == ChunkStart(chunk) + offset - ChunkStart(d) IN
             /\ Skipped(chunk, offset, d)
             /\ \/ /\ req.bpl <= ChunkLen(d) - o
                   /\ prog' = Append(prog, Data(0, req.bpl, d, o))
                   /\ NextLine(d, o + req.bpl)
                \/ /\ req.bpl > ChunkLen(d) - o
                   /\ Split(d, o)
      BY <2>1 DEF ScanLine
    <3> DEFINE o == ChunkStart(chunk) + offset - ChunkStart(d)
    <3>3. CASE /\ req.bpl <= ChunkLen(d) - o
               /\ prog' = Append(prog, Data(0, req.bpl, d, o))
               /\ NextLine(d, o + req.bpl)
      BY <3>1, <3>2, <3>3, RiscAssumption, ScanFits
    <3>4. CASE req.bpl > ChunkLen(d) - o /\ Split(d, o)
      BY <3>1, <3>2, <3>4, RiscAssumption, ScanSplits
    <3> QED
      BY <3>2, <3>3, <3>4
  <2>2. CASE NextField
    BY <2>2, RiscAssumption, NextFieldStep
  <2>3. CASE Jump
    BY <2>3, RiscAssumption, JumpStep
  <2>4. CASE UNCHANGED risc
    <3>1. /\ req' = req /\ todo' = todo /\ line' = line /\ chunk' = chunk
          /\ offset' = offset /\ prog' = prog
      BY <2>4 DEF risc
    <3>2. /\ Size' = Size /\ FieldLines' = FieldLines /\ FieldCount' = FieldCount
          /\ Layout(req)' = Layout(req)
          /\ \A s, n : Row(s, n)' = Row(s, n)
          /\ \A c : ChunkStart(c)' = ChunkStart(c)
          /\ \A p : Piece(p)' <=> Piece(p)
      BY <3>1, FrameStays
    <3>3. Current' = Current /\ \A k, n : Done(k, n)' <=> Done(k, n)
      BY <3>1, <3>2 DEF Current, Done
    <3>4. RiscTypes'
      BY <3>1, <3>2 DEF RiscInv, RiscTypes, Rest
    <3>5. Position'
      BY <3>1 DEF RiscInv, Position, ChunkStart, Row, FieldLines, HasBoth
    <3>6. Pieces' /\ Started' /\ LinesWhole'
      <4>1. Grows
        BY <3>1 DEF Grows, RiscInv, RiscTypes
      <4>2. (Len(prog) + 1)..Len(prog') = {}
        BY <3>1 DEF RiscInv, RiscTypes
      <4> QED
        BY <3>3, <4>1, <4>2, PiecesGrow, StartedGrows, WholeGrows
    <3>7. Counted'
      BY <3>1, <3>2, <3>3 DEF RiscInv, Counted, Cuts, LinesDone
    <3> QED
      BY <3>4, <3>5, <3>6, <3>7 DEF RiscInv
  <2> QED
    BY <2>1, <2>2, <2>3, <2>4 DEF RiscNext
<1> QED
  BY <1>1, <1>2, PTL DEF RiscSpec

\* Every instruction writes its bytes where the frame has them, into a chunk
\* with room for them, in every field order.
THEOREM PiecesInPlaceHolds == RiscSpec => []PiecesInPlace
<1>1. RiscInv => PiecesInPlace
  <2> SUFFICES ASSUME RiscInv, NEW i \in DataOf(prog)
               PROVE  /\ prog[i].count > 0
                      /\ prog[i].offset + prog[i].count <= ChunkLen(prog[i].chunk)
                      /\ ChunkStart(prog[i].chunk) + prog[i].offset
                            = Row(prog[i].field, prog[i].line) * req.bpl + prog[i].start
    BY DEF PiecesInPlace
  <2>1. Piece(prog[i])
    BY DEF RiscInv, Pieces
  <2> QED
    BY <2>1 DEF Piece
<1> QED
  BY <1>1, RiscInvHolds, PTL

\* The pieces of a line follow one another to its end.
THEOREM LinesWholeHolds == RiscSpec => []LinesWhole
<1>1. RiscInv => LinesWhole
  BY DEF RiscInv
<1> QED
  BY <1>1, RiscInvHolds, PTL
-----------------------------------------------------------------------------
(* The room.                                                               *)

LEMMA Division ==
    ASSUME NEW a \in Nat, NEW n \in Nat \ {0}, NEW q \in Nat, q * n <= a
    PROVE  a \div n \in Nat /\ q <= a \div n
<1> DEFINE k == a \div n
<1>1. k \in Nat /\ a = n * k + (a % n) /\ a % n \in 0..(n - 1)
  OBVIOUS
<1>2. a < (k + 1) * n
  <2>1. (k + 1) * n = n * k + n
    BY <1>1
  <2> QED
    BY <1>1, <2>1
<1> HIDE DEF k
<1>3. q < k + 1
  <2> SUFFICES ASSUME k + 1 <= q PROVE FALSE
    BY <1>1
  <2>1. (k + 1) * n <= q * n
    BY <1>1, Monotone
  <2>2. (k + 1) * n \in Nat /\ q * n \in Nat
    BY <1>1
  <2> QED
    BY <1>2, <2>1, <2>2
<1>4. q <= k /\ k \in Nat
  BY <1>1, <1>3
<1> QED
  BY <1>4 DEF k

\* The bytes that the estimate counts pages of, for one field.
Counts == (req.bpl + Padding) * FieldLines

\* For the orders that are not one field after the other in memory, all the
\* lines of the frame lie within them.
LEMMA WithinCounted ==
    ASSUME RiscAssumption, req \in Requests,
           req.order \in {"TOP", "BOTTOM", "INTERLACED"},
           NEW s \in Syncs, NEW n \in 0..(FieldLines - 1)
    PROVE  Counts \in Nat /\ Row(s, n) * req.bpl + req.bpl <= Counts
<1>1. /\ req.bpl \in Nat /\ FieldLines \in Nat /\ n \in Nat /\ n + 1 <= FieldLines
  BY RequestIs, LinesAre
<1>2. CASE req.order = "INTERLACED"
  <2>1. /\ Padding = req.bpl /\ Row(s, n) \in Nat
        /\ Row(s, n) + 1 <= 2 * FieldLines
    BY <1>1, <1>2 DEF Padding, Row, Syncs
  <2>2. (Row(s, n) + 1) * req.bpl <= (2 * FieldLines) * req.bpl
    <3>1. Row(s, n) + 1 \in Nat /\ 2 * FieldLines \in Nat
      BY <1>1, <2>1
    <3> QED
      BY <1>1, <2>1, <3>1, Monotone
  <2>3. (Row(s, n) + 1) * req.bpl = Row(s, n) * req.bpl + req.bpl
    BY <1>1, <2>1
  <2>4. Counts = (2 * FieldLines) * req.bpl /\ Counts \in Nat
    BY <1>1, <2>1 DEF Counts
  <2> QED
    BY <2>2, <2>3, <2>4
<1>3. CASE req.order \in {"TOP", "BOTTOM"}
  <2>1. Padding = 0 /\ Row(s, n) = n
    BY <1>3 DEF Padding, Row
  <2>2. (n + 1) * req.bpl <= FieldLines * req.bpl
    <3>1. n + 1 \in Nat
      BY <1>1
    <3> QED
      BY <1>1, <3>1, Monotone
  <2>3. (n + 1) * req.bpl = n * req.bpl + req.bpl
    BY <1>1
  <2>4. Counts = FieldLines * req.bpl /\ Counts \in Nat
    BY <1>1, <2>1 DEF Counts
  <2> QED
    BY <2>1, <2>2, <2>3, <2>4
<1> QED
  BY <1>2, <1>3

\* A line is split at most once for every page, and once more.
LEMMA FewCuts ==
    ASSUME RiscAssumption, RiscInv,
           req.order \in {"TOP", "BOTTOM", "INTERLACED"}
    PROVE  /\ Counts \div PageSize \in Nat
           /\ Cardinality(Cuts) <= (Counts \div PageSize) + 1
<1> DEFINE k == Counts \div PageSize
<1>1. req \in Requests /\ req.first <= Size
  BY DEF RiscInv, RiscTypes
<1>2. /\ PageSize \in Nat \ {0} /\ req.bpl \in Nat \ {0} /\ req.first \in Nat \ {0}
      /\ Padding \in Nat /\ FieldLines \in Nat \ {0}
  BY <1>1, RequestIs, LinesAre
<1>3. Counts \in Nat
  <2>1. 0 \in 0..(FieldLines - 1) /\ "odd" \in Syncs
    BY <1>2 DEF Syncs
  <2> QED
    BY <1>1, <2>1, WithinCounted
<1>4. k \in Nat
  <2>1. 0 * PageSize <= Counts
    BY <1>2, <1>3
  <2> QED
    BY <1>2, <1>3, <2>1, Division
<1>5. ASSUME NEW c \in Cuts PROVE c \in 2..(k + 2)
  <2>1. PICK i \in 1..Len(prog) : prog[i].op = "inline" /\ prog[i].chunk = c
    BY <1>5 DEF Cuts
  <2>2. Piece(prog[i])
    BY <2>1 DEF RiscInv, Pieces, DataOf
  <2> DEFINE p == prog[i]
  <2>3. /\ p.field \in Syncs /\ p.line \in 0..(FieldLines - 1)
        /\ p.start \in Nat /\ p.count \in Nat \ {0} /\ p.start + p.count <= req.bpl
        /\ c \in Nat \ {0} /\ c > 1
        /\ ChunkStart(c) + 0 = Row(p.field, p.line) * req.bpl + p.start
    BY <2>1, <2>2 DEF Piece
  <2>4. Row(p.field, p.line) * req.bpl + req.bpl <= Counts
    BY <1>1, <2>3, WithinCounted
  <2>5. Row(p.field, p.line) * req.bpl \in Nat
    <3>1. p.line \in Nat
      BY <1>2, <2>3
    <3> QED
      BY <1>1, <2>3, <3>1, RowsAre
  <2>6. ChunkStart(c) < Counts
    <3> DEFINE r == Row(p.field, p.line) * req.bpl
    <3>1. /\ r \in Nat /\ r + req.bpl <= Counts /\ ChunkStart(c) + 0 = r + p.start
          /\ p.start \in Nat /\ p.start < req.bpl /\ req.bpl \in Nat
      <4> HIDE DEF p
      <4>1. p.start \in Nat /\ p.count \in Nat \ {0} /\ p.start + p.count <= req.bpl
            /\ req.bpl \in Nat
        BY <1>2, <2>3
      <4>2. p.start < req.bpl
        BY <4>1
      <4> QED
        BY <2>3, <2>4, <2>5, <4>1, <4>2
    <3>2. ChunkStart(c) \in Nat
      BY <1>1, <2>3, ChunksAre
    <3> HIDE DEF r, p
    <3> QED
      BY <1>3, <3>1, <3>2
  <2>7. ChunkStart(c) = req.first + (c - 2) * PageSize
    BY <2>3 DEF ChunkStart
  <2>8. c - 2 \in Nat /\ (c - 2) * PageSize <= Counts
    <3>1. c - 2 \in Nat
      BY <2>3
    <3>2. (c - 2) * PageSize \in Nat
      BY <1>2, <3>1
    <3> QED
      BY <1>2, <1>3, <2>6, <2>7, <3>1, <3>2
  <2>9. c - 2 <= k
    BY <1>2, <1>3, <2>8, Division
  <2> HIDE DEF k
  <2> QED
    BY <1>4, <2>3, <2>9
<1> HIDE DEF k
<1>6. IsFiniteSet(2..(k + 2)) /\ Cardinality(2..(k + 2)) = k + 1
  BY <1>4, FS_Interval
<1>7. Cuts \subseteq 2..(k + 2)
  BY <1>5
<1>8. Cardinality(Cuts) <= Cardinality(2..(k + 2))
  BY <1>6, <1>7, FS_Subset
<1> QED
  BY <1>4, <1>6, <1>8 DEF k

\* The BUG_ON of tw68_risc_buffer never fires, in the field orders that try_fmt
\* admits: the estimate has room for every split line, and for the jump.
THEOREM FitsEstimateHolds ==
    ASSUME Orders \subseteq {"TOP", "BOTTOM", "INTERLACED"}
    PROVE  RiscSpec => []FitsEstimate
<1>1. RiscInv => FitsEstimate
  <2> SUFFICES ASSUME RiscInv PROVE FitsEstimate
    OBVIOUS
  <2> DEFINE k == Counts \div PageSize
             cuts == Cardinality(Cuts)
             n == Len(prog)
             done == LinesDone
             fields == FieldCount
             lines == FieldLines
             now == Current
  <2>1. req.order \in {"TOP", "BOTTOM", "INTERLACED"}
    BY DEF RiscInv, RiscTypes, Requests
  <2>2. k \in Nat /\ cuts <= k + 1 /\ cuts \in Nat
    BY <2>1, RiscAssumption, FewCuts, FS_CardinalityType DEF RiscInv, Counted
  <2>3. n = now + done + cuts
    BY DEF RiscInv, Counted
  <2>4. /\ fields \in {1, 2} /\ now \in 1..(fields + 1)
        /\ lines \in Nat /\ line \in 0..lines
        /\ (todo = <<>> <=> now = fields + 1)
    BY RiscAssumption, FieldAtWork, LinesAre DEF RiscInv, RiscTypes
  <2>5. done = IF todo = <<>> THEN fields * lines
               ELSE IF now = 1 THEN line ELSE lines + line
    BY DEF LinesDone
  <2>6. Estimate = fields * (1 + k + lines) + 2
    BY DEF Estimate, Counts, FieldCount
  <2> HIDE DEF k, cuts, n, done, fields, lines, now
  <2>7. n + (IF todo = <<>> THEN 0 ELSE 1) <= fields * (1 + k + lines) + 2
    <3>1. CASE fields = 1
      BY <2>2, <2>3, <2>4, <2>5, <3>1
    <3>2. CASE fields = 2
      BY <2>2, <2>3, <2>4, <2>5, <3>2
    <3> QED
      BY <2>4, <3>1, <3>2
  <2> QED
    BY <2>6, <2>7 DEF FitsEstimate, n
<1> QED
  BY <1>1, RiscInvHolds, PTL
-----------------------------------------------------------------------------
(* The end.                                                                *)

\* There is a chunk for every byte of the frame.
LEMMA ChunkOf ==
    ASSUME RiscAssumption, req \in Requests, req.first <= Size,
           NEW pos \in Nat, pos < Size
    PROVE  \E d \in 1..(Size + 1) : /\ ChunkStart(d) <= pos /\ pos < ChunkEnd(d)
                                    /\ pos < ChunkStart(d + 1)
<1>1. /\ PageSize \in Nat \ {0} /\ req.first \in Nat \ {0} /\ Size \in Nat
  BY RequestIs
<1>2. CASE pos < req.first
  <2>1. ChunkStart(1) = 0 /\ ChunkStart(2) = req.first + 0 * PageSize
        /\ ChunkEnd(1) = IF ChunkStart(2) < Size THEN ChunkStart(2) ELSE Size
    <3>1. ChunkStart(1 + 1) = req.first + (1 - 1) * PageSize
      BY ChunksAre
    <3>2. 1 + 1 = 2 /\ 1 - 1 = 0
      OBVIOUS
    <3>3. ChunkEnd(1) = IF ChunkStart(1 + 1) < Size THEN ChunkStart(1 + 1) ELSE Size
      BY ChunksAre
    <3> QED
      BY <3>1, <3>2, <3>3, ChunksAre
  <2>2. ChunkStart(1) <= pos /\ pos < ChunkEnd(1) /\ pos < ChunkStart(1 + 1)
    BY <1>1, <1>2, <2>1
  <2>3. 1 \in 1..(Size + 1)
    BY <1>1
  <2> QED
    BY <2>2, <2>3
<1>3. CASE pos >= req.first
  <2> DEFINE a == pos - req.first
             k == a \div PageSize
             d == k + 2
  <2>1. a \in Nat
    BY <1>1, <1>3
  <2>2. k \in Nat /\ k * PageSize <= a /\ a < k * PageSize + PageSize
    <3> HIDE DEF a
    <3>1. k \in Nat /\ a = PageSize * k + (a % PageSize)
          /\ a % PageSize \in 0..(PageSize - 1)
      BY <1>1, <2>1
    <3> HIDE DEF k
    <3> QED
      BY <1>1, <2>1, <3>1
  <2> HIDE DEF k
  <2>3. k <= a
    <3>1. k <= k * PageSize
      <4>1. 1 * k <= PageSize * k
        BY <1>1, <2>2, Monotone
      <4> QED
        BY <1>1, <2>2, <4>1
    <3>2. k * PageSize \in Nat
      BY <1>1, <2>2
    <3> QED
      BY <2>1, <2>2, <3>1, <3>2
  <2>4. d \in 1..(Size + 1) /\ d \in Nat \ {0} /\ d # 1
    BY <1>1, <2>1, <2>2, <2>3
  <2>5. ChunkStart(d) = req.first + k * PageSize
    <3>1. d - 2 = k
      BY <2>2
    <3> QED
      BY <2>4, <3>1 DEF ChunkStart
  <2>6. /\ ChunkStart(d + 1) = ChunkStart(d) + PageSize
        /\ ChunkEnd(d) = IF ChunkStart(d + 1) < Size THEN ChunkStart(d + 1) ELSE Size
    <3> HIDE DEF d
    <3> QED
      BY <2>4, ChunksAre
  <2> HIDE DEF d
  <2>7. ChunkStart(d) <= pos /\ pos < ChunkStart(d + 1)
    <3> DEFINE m == k * PageSize
    <3>1. m \in Nat /\ m <= a /\ a < m + PageSize /\ ChunkStart(d) = req.first + m
      BY <1>1, <2>2, <2>5
    <3> HIDE DEF m
    <3> QED
      BY <1>1, <1>3, <2>6, <3>1
  <2>8. pos < ChunkEnd(d)
    BY <2>6, <2>7
  <2> QED
    BY <2>4, <2>7, <2>8
<1> QED
  BY <1>1, <1>2, <1>3

LEMMA ChunksRise ==
    ASSUME RiscAssumption, req \in Requests,
           NEW c \in Nat \ {0}, NEW d \in Nat \ {0}, c <= d
    PROVE  ChunkStart(c) <= ChunkStart(d)
<1>1. PageSize \in Nat /\ req.first \in Nat
  BY RequestIs
<1>2. CASE c = 1
  <2>1. ChunkStart(c) = 0
    BY <1>2 DEF ChunkStart
  <2>2. ChunkStart(d) = IF d = 1 THEN 0 ELSE req.first + (d - 2) * PageSize
    BY DEF ChunkStart
  <2>3. d # 1 => (d - 2) * PageSize \in Nat
    BY <1>1
  <2> QED
    BY <1>1, <2>1, <2>2, <2>3
<1>3. CASE c # 1
  <2>1. c - 2 \in Nat /\ d - 2 \in Nat /\ c - 2 <= d - 2 /\ d # 1
    BY <1>3
  <2>2. (c - 2) * PageSize <= (d - 2) * PageSize
    BY <1>1, <2>1, Monotone
  <2>3. (c - 2) * PageSize \in Nat /\ (d - 2) * PageSize \in Nat
    BY <1>1, <2>1
  <2>4. /\ ChunkStart(c) = req.first + (c - 2) * PageSize
        /\ ChunkStart(d) = req.first + (d - 2) * PageSize
    BY <1>3, <2>1 DEF ChunkStart
  <2> QED
    BY <1>1, <2>2, <2>3, <2>4
<1> QED
  BY <1>2, <1>3

\* What ProgramComplete comes to, without ENABLED: a line that is still to be
\* written starts within the memory, so that the loop over the list ends at a
\* chunk of it; and once the jump is there, so is every line of every field.
GoesOn ==
    todo # <<>> /\ line < FieldLines =>
        \E d \in chunk..(Size + 1) : Skipped(chunk, offset, d)

AllThere ==
    todo = <<>> =>
        \A f \in 1..Len(Layout(req)), n \in 0..(FieldLines - 1) :
            \E i \in DataOf(prog) : /\ prog[i].field = Layout(req)[f].sync
                                    /\ prog[i].line = n /\ prog[i].start = 0

\* tw68_risc_field never runs off the end of its list of chunks, and the
\* program is whole when it gets its jump, for every size of frame and page.
THEOREM NeverStuckHolds == RiscSpec => [](GoesOn /\ AllThere)
<1>1. RiscInv => GoesOn
  <2> SUFFICES ASSUME RiscInv, todo # <<>>, line < FieldLines
               PROVE  \E d \in chunk..(Size + 1) : Skipped(chunk, offset, d)
    BY DEF GoesOn
  <2> DEFINE pos == Row(Head(todo).sync, line) * req.bpl
  <2>1. /\ req \in Requests /\ req.first <= Size /\ chunk \in Nat \ {0}
        /\ offset \in Nat /\ line \in 0..FieldLines
        /\ ChunkStart(chunk) + offset = pos
    BY DEF RiscInv, RiscTypes, Position
  <2>2. /\ Size \in Nat /\ ChunkStart(chunk) \in Nat /\ FieldLines \in Nat
        /\ req.bpl \in Nat \ {0} /\ req.height \in Nat
        /\ Head(todo).sync \in Syncs
    BY <2>1, RiscAssumption, RequestIs, ChunksAre, LinesAre, FieldAtWork DEF RiscInv
  <2>3. pos \in Nat /\ pos < Size
    <3> DEFINE row == Row(Head(todo).sync, line)
    <3>1. line \in Nat
      BY <2>1, <2>2
    <3>2. row \in Nat /\ row + 1 <= req.height
      BY <2>1, <2>2, <3>1, RiscAssumption, RowsAre
    <3> HIDE DEF row
    <3>3. (row + 1) * req.bpl <= req.height * req.bpl
      <4>1. row + 1 \in Nat /\ req.bpl \in Nat
        BY <2>2, <3>2
      <4> QED
        BY <2>2, <3>2, <4>1, Monotone
    <3>4. (row + 1) * req.bpl = row * req.bpl + req.bpl /\ row * req.bpl \in Nat
      BY SMTT(60), <2>2, <3>2
    <3>5. Size = req.height * req.bpl
      BY <2>2 DEF Size
    <3>6. row * req.bpl \in Nat /\ row * req.bpl < Size
      BY <2>2, <3>3, <3>4, <3>5
    <3> QED
      BY <3>6 DEF row
  <2> HIDE DEF pos
  <2>4. PICK d \in 1..(Size + 1) : /\ ChunkStart(d) <= pos /\ pos < ChunkEnd(d)
                                   /\ pos < ChunkStart(d + 1)
    BY <2>1, <2>3, RiscAssumption, ChunkOf
  <2>5. chunk <= d
    <3> SUFFICES ASSUME d + 1 <= chunk PROVE FALSE
      BY <2>1, <2>2
    <3>1. d + 1 \in Nat \ {0}
      BY <2>2
    <3>2. ChunkStart(d + 1) <= ChunkStart(chunk)
      BY <2>1, <3>1, RiscAssumption, ChunksRise
    <3>3. ChunkStart(d + 1) \in Nat
      BY <2>1, <3>1, RiscAssumption, ChunksAre
    <3> QED
      BY <2>1, <2>2, <2>3, <2>4, <3>2, <3>3
  <2>6. ChunkStart(d) < Size
    <3>1. d \in Nat \ {0}
      BY <2>2
    <3>2. ChunkStart(d) \in Nat
      BY <2>1, <3>1, RiscAssumption, ChunksAre
    <3> QED
      BY <2>2, <2>3, <2>4, <3>2
  <2>7. Skipped(chunk, offset, d)
    BY <2>1, <2>4, <2>5, <2>6 DEF Skipped
  <2>8. d \in chunk..(Size + 1)
    BY <2>1, <2>2, <2>5
  <2> QED
    BY <2>7, <2>8
<1>2. RiscInv => AllThere
  <2> SUFFICES ASSUME RiscInv, todo = <<>> PROVE AllThere
    BY DEF AllThere
  <2>1. Current = FieldCount + 1 /\ FieldCount \in Nat
    BY RiscAssumption, FieldAtWork DEF RiscInv
  <2>2. \A k \in 1..FieldCount, n \in 0..(FieldLines - 1) : Done(k, n)
    BY <2>1 DEF Done
  <2> QED
    BY <2>2 DEF RiscInv, Started, AllThere, FieldCount
<1> QED
  BY <1>1, <1>2, RiscInvHolds, PTL

-----------------------------------------------------------------------------
(* The end of the generation, without fairness: how many passes are left.   *)

\* The passes over a line that are left, and one more for each field, for the
\* sync of the next field or for the jump.
PassesLeft == IF todo = <<>> THEN 0 ELSE Len(todo) * (FieldLines + 1) - line

\* The numbers that PassesLeft is made of: of two fields one is left.
LEMMA FieldsLeft ==
    ASSUME RiscInv
    PROVE  /\ FieldLines \in Nat /\ line \in 0..FieldLines
           /\ Len(todo) \in 0..2 /\ (todo = <<>> <=> Len(todo) = 0)
           /\ Len(todo) > 1 => Tail(todo) # <<>> /\ Len(Tail(todo)) = 1
<1>1. FieldLines \in Nat /\ line \in 0..FieldLines
  BY RiscAssumption, LinesAre DEF RiscInv, RiscTypes
<1>2. Len(todo) \in 0..2 /\ (todo = <<>> <=> Len(todo) = 0)
  <2>1. FieldCount \in {1, 2} /\ Len(todo) \in 0..FieldCount
    BY RiscAssumption, FieldAtWork DEF RiscInv
  <2>2. todo = <<>> <=> Len(todo) = 0
    BY RiscAssumption, FieldAtWork DEF RiscInv
  <2>3. CASE FieldCount = 1
    BY <2>1, <2>2, <2>3
  <2>4. CASE FieldCount = 2
    BY <2>1, <2>2, <2>4
  <2> QED
    BY <2>1, <2>3, <2>4
<1>3. ASSUME Len(todo) > 1 PROVE Tail(todo) # <<>> /\ Len(Tail(todo)) = 1
  <2>1. Len(todo) = 2
    <3> DEFINE m == Len(todo)
    <3>1. m \in 0..2 /\ m > 1
      BY <1>2, <1>3
    <3> HIDE DEF m
    <3>2. m = 2
      BY <3>1
    <3> QED
      BY <3>2 DEF m
  <2> DEFINE places == [sync : Syncs, offset : Nat]
             t == Tail(todo)
  <2>2. todo \in Seq(places) /\ Len(todo) = 2 /\ todo # <<>>
    BY <1>2, <2>1 DEF RiscInv, RiscTypes
  <2> HIDE DEF places
  <2>3. t \in Seq(places) /\ Len(t) = 1
    BY <2>2
  <2> HIDE DEF t
  <2>4. t = <<>> <=> Len(t) = 0
    BY SMTT(60), <2>3 DEF places
  <2> QED
    BY <2>3, <2>4 DEF t
<1> QED
  BY <1>1, <1>2, <1>3

\* A natural number of passes is left, and none only when the jump is there.
PassesGoDown ==
    /\ PassesLeft \in Nat
    /\ PassesLeft = 0 <=> todo = <<>>

EveryPassCounts == PassesLeft' = PassesLeft - 1

\* tw68_risc_buffer always ends: every pass, of the loop over the lines or of
\* the calls for the fields, leaves one less to do, whatever the frame and the
\* alignment of its memory.  With GoesOn, it ends with the jump.
THEOREM GenerationEnds ==
    RiscSpec => []PassesGoDown /\ [][EveryPassCounts]_risc
<1>1. RiscInv => PassesGoDown
  <2> SUFFICES ASSUME RiscInv PROVE PassesGoDown
    OBVIOUS
  <2>1. CASE todo = <<>>
    BY <2>1 DEF PassesGoDown, PassesLeft
  <2>2. CASE todo # <<>>
    <3>1. /\ FieldLines \in Nat /\ line \in 0..FieldLines
          /\ (Len(todo) = 1 \/ Len(todo) = 2)
      BY <2>2, FieldsLeft
    <3>2. PassesLeft = Len(todo) * (FieldLines + 1) - line
      BY <2>2 DEF PassesLeft
    <3>3. \/ PassesLeft = FieldLines + 1 - line
          \/ PassesLeft = FieldLines + FieldLines + 2 - line
      <4>1. CASE Len(todo) = 1
        <5>1. PassesLeft = 1 * (FieldLines + 1) - line
          BY <3>2, <4>1
        <5> QED
          BY <3>1, <5>1
      <4>2. CASE Len(todo) = 2
        <5>1. PassesLeft = 2 * (FieldLines + 1) - line
          BY <3>2, <4>2
        <5> QED
          BY <3>1, <5>1
      <4> QED
        BY <3>1, <4>1, <4>2
    <3>4. PassesLeft \in Nat /\ PassesLeft # 0
      BY <3>1, <3>3
    <3> QED
      BY <2>2, <3>4 DEF PassesGoDown
  <2> QED
    BY <2>1, <2>2
<1>2. RiscInv /\ [RiscNext]_risc => [EveryPassCounts]_risc
  <2> SUFFICES ASSUME RiscInv, RiscNext PROVE EveryPassCounts
    OBVIOUS
  <2> USE DEF EveryPassCounts
  <2>1. /\ FieldLines \in Nat /\ line \in 0..FieldLines /\ Len(todo) \in Nat
    BY FieldsLeft
  <2>2. FieldLines' = FieldLines
    BY DEF RiscNext, ScanLine, NextLine, Split, NextField, Jump, FieldLines, HasBoth
  <2>3. CASE ScanLine
    <3>1. todo # <<>> /\ todo' = todo /\ line' = line + 1
      BY <2>3 DEF ScanLine, NextLine, Split
    <3>2. /\ PassesLeft = Len(todo) * (FieldLines + 1) - line
          /\ PassesLeft' = Len(todo) * (FieldLines + 1) - (line + 1)
      BY <2>2, <3>1 DEF PassesLeft
    <3> DEFINE whole == Len(todo) * (FieldLines + 1)
    <3>3. whole \in Nat
      BY <2>1, SMTT(60)
    <3> HIDE DEF whole
    <3>4. PassesLeft = whole - line /\ PassesLeft' = whole - (line + 1)
      BY <3>2 DEF whole
    <3> QED
      BY <2>1, <3>3, <3>4
  <2>4. CASE NextField
    <3>1. /\ Len(todo) > 1 /\ line = FieldLines /\ todo' = Tail(todo) /\ line' = 0
      BY <2>4 DEF NextField
    <3>2. Len(todo) = 2 /\ todo # <<>> /\ todo' # <<>> /\ Len(todo') = 1
      BY <3>1, FieldsLeft
    <3>3. /\ PassesLeft = 2 * (FieldLines + 1) - FieldLines
          /\ PassesLeft' = 1 * (FieldLines + 1) - 0
      BY <2>2, <3>1, <3>2 DEF PassesLeft
    <3> QED
      BY <2>1, <3>3
  <2>5. CASE Jump
    <3>1. Len(todo) = 1 /\ todo # <<>> /\ line = FieldLines /\ todo' = <<>>
      BY <2>5 DEF Jump
    <3>2. PassesLeft = 1 * (FieldLines + 1) - FieldLines /\ PassesLeft' = 0
      BY <3>1 DEF PassesLeft
    <3> QED
      BY <2>1, <3>2
  <2> QED
    BY <2>3, <2>4, <2>5 DEF RiscNext
<1> QED
  BY <1>1, <1>2, RiscInvHolds, PTL DEF RiscSpec
=============================================================================
