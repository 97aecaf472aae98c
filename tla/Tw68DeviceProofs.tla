-------------------------- MODULE Tw68DeviceProofs --------------------------
(***************************************************************************)
(* Whatever the number of devices, of handles and of places for boards:    *)
(* the unwinding of tw68_initdev and tw68_finidev leave behind only what   *)
(* is known, and only the known users find a device gone (Tw68Device); a   *)
(* probe and a removal never get stuck half way, and never turn back.      *)
(***************************************************************************)
EXTENDS Tw68Device, FiniteSetTheorems, SequenceTheorems, TLAPS

-----------------------------------------------------------------------------
(* The orders of the steps.                                                *)

Steps == Resources \union
             {"pci", "init1", "list", "stop", "mask", "count", "nodes", "free"}

\* What is ahead of a device is the end of one of the orders.
IsTail(s, order) ==
    /\ Len(s) <= Len(order)
    /\ \A i \in 1..Len(s) : s[i] = order[Len(order) - Len(s) + i]

LEMMA JoinAt ==
    ASSUME NEW S, NEW s \in Seq(S), NEW t \in Seq(S)
    PROVE  /\ s \o t \in Seq(S) /\ Len(s \o t) = Len(s) + Len(t)
           /\ \A i \in 1..Len(s) : (s \o t)[i] = s[i]
           /\ \A i \in 1..Len(t) : (s \o t)[Len(s) + i] = t[i]
  OBVIOUS

LEMMA Orders ==
    /\ ProbeOrder \in Seq(Steps) /\ Len(ProbeOrder) = 9
    /\ UndoOrder \in Seq(Steps) /\ Len(UndoOrder) = 6
    /\ RemoveOrder \in Seq(Steps) /\ Len(RemoveOrder) = 10
    /\ ProbeOrder[1] = "v4l2" /\ ProbeOrder[2] = "pci"
    /\ ProbeOrder[3] = "region" /\ ProbeOrder[4] = "mmio"
    /\ ProbeOrder[5] = "init1" /\ ProbeOrder[6] = "irq"
    /\ ProbeOrder[7] = "list" /\ ProbeOrder[8] = "video" /\ ProbeOrder[9] = "vbi"
    /\ UndoOrder[1] = "nodes" /\ UndoOrder[2] = "irq" /\ UndoOrder[3] = "mmio"
    /\ UndoOrder[4] = "region" /\ UndoOrder[5] = "v4l2" /\ UndoOrder[6] = "free"
    /\ RemoveOrder[1] = "stop" /\ RemoveOrder[2] = "mask"
    /\ RemoveOrder[3] = "list" /\ RemoveOrder[4] = "count"
    /\ \A i \in 1..6 : RemoveOrder[4 + i] = UndoOrder[i]
<1>1. ProbeOrder \in Seq(Steps) /\ UndoOrder \in Seq(Steps)
      /\ <<"stop", "mask", "list", "count">> \in Seq(Steps)
  BY DEF ProbeOrder, UndoOrder, Steps, Resources, Nodes
<1>2. Len(ProbeOrder) = 9 /\ Len(UndoOrder) = 6
  BY DEF ProbeOrder, UndoOrder
<1>3. /\ RemoveOrder \in Seq(Steps) /\ Len(RemoveOrder) = 10
      /\ RemoveOrder[1] = "stop" /\ RemoveOrder[2] = "mask"
      /\ RemoveOrder[3] = "list" /\ RemoveOrder[4] = "count"
      /\ \A i \in 1..6 : RemoveOrder[4 + i] = UndoOrder[i]
  <2> DEFINE first == <<"stop", "mask", "list", "count">>
  <2>1. first \in Seq(Steps) /\ Len(first) = 4 /\ first[1] = "stop"
        /\ first[2] = "mask" /\ first[3] = "list" /\ first[4] = "count"
    BY <1>1
  <2>2. RemoveOrder = first \o UndoOrder
    BY DEF RemoveOrder
  <2> HIDE DEF first
  <2>3. first \in Seq(Steps) /\ UndoOrder \in Seq(Steps)
    BY <1>1, <2>1
  <2>4. /\ first \o UndoOrder \in Seq(Steps)
        /\ Len(first \o UndoOrder) = Len(first) + Len(UndoOrder)
        /\ \A i \in 1..Len(first) : (first \o UndoOrder)[i] = first[i]
        /\ \A i \in 1..Len(UndoOrder) :
              (first \o UndoOrder)[Len(first) + i] = UndoOrder[i]
    BY <2>3, JoinAt
  <2>5. /\ RemoveOrder \in Seq(Steps) /\ Len(RemoveOrder) = 4 + 6
        /\ \A i \in 1..4 : RemoveOrder[i] = first[i]
        /\ \A i \in 1..6 : RemoveOrder[4 + i] = UndoOrder[i]
    BY <1>2, <2>1, <2>2, <2>4
  <2> QED
    BY <2>1, <2>5
<1> QED
  BY <1>1, <1>2, <1>3 DEF ProbeOrder, UndoOrder

\* Which step is next in an order, when n of them are left.
ProbeNext(n, s) ==
    /\ n \in 1..9
    /\ n = 9 => s = "v4l2"
    /\ n = 8 => s = "pci"
    /\ n = 7 => s = "region"
    /\ n = 6 => s = "mmio"
    /\ n = 5 => s = "init1"
    /\ n = 4 => s = "irq"
    /\ n = 3 => s = "list"
    /\ n = 2 => s = "video"
    /\ n = 1 => s = "vbi"
RemoveNext(n, s) ==
    /\ n \in 1..10
    /\ n = 10 => s = "stop"
    /\ n = 9 => s = "mask"
    /\ n = 8 => s = "list"
    /\ n = 7 => s = "count"
    /\ n = 6 => s = "nodes"
    /\ n = 5 => s = "irq"
    /\ n = 4 => s = "mmio"
    /\ n = 3 => s = "region"
    /\ n = 2 => s = "v4l2"
    /\ n = 1 => s = "free"
UndoNext(n, s) == n <= 6 /\ RemoveNext(n, s)

LEMMA NextStep ==
    /\ \A n \in 1..9 : ProbeNext(n, ProbeOrder[10 - n])
    /\ \A n \in 1..6 : UndoNext(n, UndoOrder[7 - n])
    /\ \A n \in 1..10 : RemoveNext(n, RemoveOrder[11 - n])
<1>1. ASSUME NEW n \in 1..9 PROVE ProbeNext(n, ProbeOrder[10 - n])
  <2>1. /\ n = 9 => 10 - n = 1
        /\ n = 8 => 10 - n = 2
        /\ n = 7 => 10 - n = 3
        /\ n = 6 => 10 - n = 4
        /\ n = 5 => 10 - n = 5
        /\ n = 4 => 10 - n = 6
        /\ n = 3 => 10 - n = 7
        /\ n = 2 => 10 - n = 8
        /\ n = 1 => 10 - n = 9
    OBVIOUS
  <2> QED
    BY <2>1, Orders DEF ProbeNext
<1>2. ASSUME NEW n \in 1..6 PROVE UndoNext(n, UndoOrder[7 - n])
  <2>1. /\ n = 6 => 7 - n = 1
        /\ n = 5 => 7 - n = 2
        /\ n = 4 => 7 - n = 3
        /\ n = 3 => 7 - n = 4
        /\ n = 2 => 7 - n = 5
        /\ n = 1 => 7 - n = 6
    OBVIOUS
  <2> QED
    BY <2>1, Orders DEF UndoNext, RemoveNext
<1>3. ASSUME NEW n \in 1..10 PROVE RemoveNext(n, RemoveOrder[11 - n])
  <2>1. /\ n = 10 => 11 - n = 1
        /\ n = 9 => 11 - n = 2
        /\ n = 8 => 11 - n = 3
        /\ n = 7 => 11 - n = 4
    OBVIOUS
  <2>2. n <= 6 => 4 + (7 - n) = 11 - n /\ 7 - n \in 1..6
    OBVIOUS
  <2>3. n <= 6 => RemoveNext(n, RemoveOrder[11 - n])
    BY <1>2, <2>2, Orders DEF UndoNext
  <2> QED
    BY <2>1, <2>3, Orders DEF RemoveNext
<1> QED
  BY <1>1, <1>2, <1>3

LEMMA TailOf ==
    ASSUME NEW s \in Seq(Steps), s # <<>>, NEW order \in Seq(Steps), IsTail(s, order)
    PROVE  /\ Len(s) \in 1..Len(order)
           /\ Head(s) = order[Len(order) + 1 - Len(s)]
           /\ IsTail(Tail(s), order)
<1>1. /\ Len(s) \in Nat \ {0} /\ Head(s) = s[1] /\ Len(Tail(s)) = Len(s) - 1
      /\ \A i \in 1..(Len(s) - 1) : Tail(s)[i] = s[i + 1]
  OBVIOUS
<1>2. Len(order) \in Nat /\ Len(s) <= Len(order)
  BY DEF IsTail
<1>3. Head(s) = order[Len(order) + 1 - Len(s)]
  <2>1. s[1] = order[Len(order) - Len(s) + 1]
    BY <1>1 DEF IsTail
  <2>2. Len(order) - Len(s) + 1 = Len(order) + 1 - Len(s)
    BY <1>1, <1>2
  <2> QED
    BY <1>1, <2>1, <2>2
<1>4. ASSUME NEW i \in 1..(Len(s) - 1)
      PROVE  Tail(s)[i] = order[Len(order) - Len(Tail(s)) + i]
  <2>1. i + 1 \in 1..Len(s)
        /\ Len(order) - Len(s) + (i + 1) = Len(order) - Len(Tail(s)) + i
    BY <1>1, <1>2
  <2>2. s[i + 1] = order[Len(order) - Len(s) + (i + 1)]
    BY <2>1 DEF IsTail
  <2> QED
    BY <1>1, <2>1, <2>2
<1> QED
  BY <1>1, <1>2, <1>3, <1>4 DEF IsTail

LEMMA HeadOfTail ==
    ASSUME NEW s \in Seq(Steps), s # <<>>
    PROVE  /\ Len(s) \in Nat \ {0} /\ Head(s) \in Steps
           /\ Tail(s) \in Seq(Steps) /\ Len(Tail(s)) = Len(s) - 1
           /\ Tail(s) = <<>> <=> Len(s) = 1
           /\ IsTail(s, ProbeOrder) =>
                ProbeNext(Len(s), Head(s)) /\ IsTail(Tail(s), ProbeOrder)
           /\ IsTail(s, UndoOrder) =>
                UndoNext(Len(s), Head(s)) /\ IsTail(Tail(s), UndoOrder)
           /\ IsTail(s, RemoveOrder) =>
                RemoveNext(Len(s), Head(s)) /\ IsTail(Tail(s), RemoveOrder)
<1>1. /\ Len(s) \in Nat \ {0} /\ Head(s) \in Steps
      /\ Tail(s) \in Seq(Steps) /\ Len(Tail(s)) = Len(s) - 1
  OBVIOUS
<1>2. Tail(s) = <<>> <=> Len(s) = 1
  <2> DEFINE t == Tail(s)
  <2>1. t \in Seq(Steps) /\ Len(t) = Len(s) - 1
    BY <1>1
  <2> HIDE DEF t
  <2>2. t = <<>> <=> Len(t) = 0
    BY <2>1, EmptySeq
  <2>3. t = <<>> <=> Len(s) = 1
    BY <1>1, <2>1, <2>2
  <2> QED
    BY <2>3 DEF t
<1>3. /\ Len(ProbeOrder) + 1 - Len(s) = 10 - Len(s)
      /\ Len(UndoOrder) + 1 - Len(s) = 7 - Len(s)
      /\ Len(RemoveOrder) + 1 - Len(s) = 11 - Len(s)
  BY <1>1, Orders
<1>4. ASSUME IsTail(s, ProbeOrder)
      PROVE  ProbeNext(Len(s), Head(s)) /\ IsTail(Tail(s), ProbeOrder)
  <2>1. /\ Len(s) \in 1..Len(ProbeOrder) /\ IsTail(Tail(s), ProbeOrder)
        /\ Head(s) = ProbeOrder[Len(ProbeOrder) + 1 - Len(s)]
    BY <1>4, Orders, TailOf
  <2>2. Len(s) \in 1..9 /\ Head(s) = ProbeOrder[10 - Len(s)]
    BY <1>3, <2>1, Orders
  <2> QED
    BY <2>1, <2>2, NextStep
<1>5. ASSUME IsTail(s, UndoOrder)
      PROVE  UndoNext(Len(s), Head(s)) /\ IsTail(Tail(s), UndoOrder)
  <2>1. /\ Len(s) \in 1..Len(UndoOrder) /\ IsTail(Tail(s), UndoOrder)
        /\ Head(s) = UndoOrder[Len(UndoOrder) + 1 - Len(s)]
    BY <1>5, Orders, TailOf
  <2>2. Len(s) \in 1..6 /\ Head(s) = UndoOrder[7 - Len(s)]
    BY <1>3, <2>1, Orders
  <2> QED
    BY <2>1, <2>2, NextStep
<1>6. ASSUME IsTail(s, RemoveOrder)
      PROVE  RemoveNext(Len(s), Head(s)) /\ IsTail(Tail(s), RemoveOrder)
  <2>1. /\ Len(s) \in 1..Len(RemoveOrder) /\ IsTail(Tail(s), RemoveOrder)
        /\ Head(s) = RemoveOrder[Len(RemoveOrder) + 1 - Len(s)]
    BY <1>6, Orders, TailOf
  <2>2. Len(s) \in 1..10 /\ Head(s) = RemoveOrder[11 - Len(s)]
    BY <1>3, <2>1, Orders
  <2> QED
    BY <2>1, <2>2, NextStep
<1> QED
  BY <1>1, <1>2, <1>4, <1>5, <1>6

LEMMA EndIsTail ==
    ASSUME NEW order \in Seq(Steps), NEW i \in 1..Len(order)
    PROVE  /\ SubSeq(order, i, Len(order)) \in Seq(Steps)
           /\ Len(SubSeq(order, i, Len(order))) = Len(order) + 1 - i
           /\ IsTail(SubSeq(order, i, Len(order)), order)
  BY DEF IsTail

LEMMA WholeIsTail == ASSUME NEW order \in Seq(Steps) PROVE IsTail(order, order)
  BY DEF IsTail

-----------------------------------------------------------------------------
(* The list of the devices.                                                *)

LEMMA ListGains ==
    ASSUME NEW s \in Seq(Devs), NEW d \in Devs, IsInjective(s), d \notin ToSet(s)
    PROVE  /\ Append(s, d) \in Seq(Devs) /\ IsInjective(Append(s, d))
           /\ ToSet(Append(s, d)) = ToSet(s) \union {d}
<1>1. DOMAIN s = 1..Len(s) /\ DOMAIN Append(s, d) = 1..(Len(s) + 1)
      /\ Len(s) \in Nat /\ Append(s, d) \in Seq(Devs)
  OBVIOUS
<1>2. /\ \A i \in 1..Len(s) : Append(s, d)[i] = s[i]
      /\ Append(s, d)[Len(s) + 1] = d
  OBVIOUS
<1>3. 1..(Len(s) + 1) = 1..Len(s) \union {Len(s) + 1}
  BY <1>1
<1> QED
  BY <1>1, <1>2, <1>3 DEF IsInjective, ToSet

LEMMA ListLoses ==
    ASSUME NEW s \in Seq(Devs), IsInjective(s), NEW i \in 1..Len(s)
    PROVE  /\ RemoveAt(s, i) \in Seq(Devs) /\ IsInjective(RemoveAt(s, i))
           /\ ToSet(RemoveAt(s, i)) = ToSet(s) \ {s[i]}
<1> DEFINE r == RemoveAt(s, i)
           hd == SubSeq(s, 1, i - 1)
           tl == SubSeq(s, i + 1, Len(s))
<1>1. /\ hd \in Seq(Devs) /\ Len(hd) = i - 1 /\ Len(s) \in Nat
      /\ \A k \in 1..(i - 1) : hd[k] = s[k]
  OBVIOUS
<1>2. /\ tl \in Seq(Devs) /\ Len(tl) = Len(s) - i
      /\ \A k \in 1..(Len(s) - i) : tl[k] = s[i + k]
  OBVIOUS
<1>3. r = hd \o tl
  BY DEF RemoveAt
<1> HIDE DEF hd, tl, r
\* The index an element of r had in s, and the index it will have.
<1> DEFINE old(k) == IF k < i THEN k ELSE k + 1
           new(k) == IF k < i THEN k ELSE k - 1
<1>4. /\ r \in Seq(Devs) /\ DOMAIN s = 1..Len(s) /\ DOMAIN r = 1..(Len(s) - 1)
      /\ \A k \in 1..(Len(s) - 1) : r[k] = s[old(k)]
  <2>1. /\ r \in Seq(Devs) /\ Len(r) = Len(s) - 1
        /\ \A k \in 1..(i - 1) : r[k] = hd[k]
        /\ \A k \in i..(Len(s) - 1) : r[k] = tl[k - (i - 1)]
    BY SMTT(60), <1>1, <1>2, <1>3
  <2>2. \A k \in i..(Len(s) - 1) : k - (i - 1) \in 1..(Len(s) - i)
                                   /\ i + (k - (i - 1)) = k + 1
    BY <1>1
  <2> QED
    BY <1>1, <1>2, <2>1, <2>2
<1>5. /\ \A k \in 1..(Len(s) - 1) : old(k) \in 1..Len(s) /\ old(k) # i
      /\ \A k, m \in 1..(Len(s) - 1) : old(k) = old(m) => k = m
      /\ \A k \in 1..Len(s) : k # i =>
            new(k) \in 1..(Len(s) - 1) /\ old(new(k)) = k
  BY <1>1
<1> HIDE DEF old, new
<1>6. \A k, m \in 1..Len(s) : s[k] = s[m] => k = m
  BY <1>4 DEF IsInjective
<1>7. IsInjective(r)
  BY SMTT(60), <1>4, <1>5, <1>6 DEF IsInjective
<1>8. \A k \in 1..(Len(s) - 1) : r[k] \in ToSet(s) \ {s[i]}
  BY <1>4, <1>5, <1>6 DEF ToSet
<1>9. ASSUME NEW k \in 1..Len(s), k # i PROVE s[k] \in ToSet(r)
  <2>1. new(k) \in DOMAIN r /\ s[k] = r[new(k)]
    BY <1>4, <1>5, <1>9
  <2> QED
    BY <2>1 DEF ToSet
<1>10. ToSet(r) = ToSet(s) \ {s[i]}
  <2>1. \A e \in ToSet(r) : \E k \in 1..(Len(s) - 1) : e = r[k]
    BY <1>4 DEF ToSet
  <2>2. \A e \in ToSet(s) : \E k \in 1..Len(s) : e = s[k]
    BY <1>4 DEF ToSet
  <2> QED
    BY <1>8, <1>9, <2>1, <2>2
<1> QED
  BY <1>4, <1>7, <1>10 DEF r

-----------------------------------------------------------------------------
(* The inductive invariant.                                                *)

Ahead(d) == Len(todo[d])
Listed(d) == d \in ToSet(devlist)

HandleType == [pc : {"closed", "entered", "found", "open", "streaming"},
               dev : Devs \union {NoDev}, node : Nodes]

\* Types, but for the bounds of tw68_devcount and dev->nr, which need Room.
Shape ==
    /\ devcount \in Int
    /\ devlist \in Seq(Devs) /\ IsInjective(devlist)
    /\ phase \in [Devs -> {"new", "probe", "undo", "bound", "unbind", "unload"}]
    /\ todo \in [Devs -> Seq(Steps)]
    /\ mem \in [Devs -> {"none", "live", "freed"}]
    /\ has \in [Devs -> SUBSET (Resources \union NeverGivenBack)]
    /\ ready \in [Devs -> BOOLEAN] /\ timer \in [Devs -> BOOLEAN]
    /\ on \in [Devs -> SUBSET {"dma", "irqs"}]
    /\ irqmask \in [Devs -> BOOLEAN]
    /\ latched \in [Devs -> {"no", "off", "on"}] /\ spanned \in [Devs -> BOOLEAN]
    /\ unloading \in BOOLEAN
    /\ handle \in [Handles -> HandleType]

\* What a device that is being taken down still has, from how many steps are
\* ahead: what they will give back, and no more.
StillHas(d) ==
    /\ mem[d] = IF todo[d] = <<>> THEN "freed" ELSE "live"
    /\ has[d] \intersect Nodes # {} => Ahead(d) >= 6
    /\ "irq" \in has[d] => Ahead(d) >= 5
    /\ "mmio" \in has[d] => Ahead(d) >= 4
    /\ "region" \in has[d] => Ahead(d) >= 3
    /\ "v4l2" \in has[d] => Ahead(d) >= 2

\* What a device that is being set up already has: what is no longer ahead.
AlreadyHas(d) ==
    /\ "v4l2" \in has[d] <=> Ahead(d) < 9
    /\ "region" \in has[d] <=> Ahead(d) < 7
    /\ "mmio" \in has[d] <=> Ahead(d) < 6
    /\ ready[d] <=> Ahead(d) < 5
    /\ "irq" \in has[d] <=> Ahead(d) < 4
    /\ Listed(d) <=> Ahead(d) < 3
    /\ "video" \in has[d] <=> Ahead(d) < 2
    /\ "vbi" \in has[d] <=> Ahead(d) < 1

\* A device in each of its phases.  The handler is safe in all of them.
Stage(d) ==
    /\ phase[d] = "new" => mem[d] = "none" /\ has[d] = {} /\ ~ready[d] /\ ~Listed(d)
    /\ phase[d] = "probe" =>
          mem[d] = "live" /\ IsTail(todo[d], ProbeOrder) /\ AlreadyHas(d)
    /\ phase[d] = "bound" =>
          mem[d] = "live" /\ {"mmio", "irq"} \subseteq has[d] /\ ready[d] /\ Listed(d)
    /\ phase[d] = "undo" => IsTail(todo[d], UndoOrder) /\ StillHas(d)
    /\ phase[d] \in {"unbind", "unload"} =>
          /\ IsTail(todo[d], RemoveOrder) /\ StillHas(d)
          /\ Listed(d) <=> Ahead(d) >= 8
    /\ "irq" \in has[d] => "mmio" \in has[d] /\ ready[d]

\* One device at a time is on its way.
Moving(d) == phase[d] \notin {"new", "bound"} /\ mem[d] # "freed"
OneMoves == \A d, e \in Devs : Moving(d) /\ Moving(e) => d = e

\* The devices tw68_devcount counts; there is room for the one in a probe.
IsCounted(d) ==
    \/ phase[d] = "bound"
    \/ phase[d] \in {"unbind", "unload"} /\ Ahead(d) >= 7
Counted == {d \in Devs : IsCounted(d)}
Count == IsFiniteSet(Counted) /\ devcount = Cardinality(Counted)
Room ==
    /\ devcount <= MaxBoards /\ nr \in [Devs -> 0 .. MaxBoards - 1]
    /\ (\E d \in Devs : phase[d] = "probe") => devcount < MaxBoards

\* While the handler restarts the FIFO, free_irq has not returned.
InHandler == \A d \in Devs : latched[d] # "no" => "irq" \in has[d]

\* Since it was stopped the engine runs, or is about to, only if the handler
\* was in the middle of restarting the FIFO.
Stopped(d) == "dma" \in on[d] \/ latched[d] = "on" => spanned[d]

\* An unload finds no handle and lets none in; once the chip has been stopped
\* by it, it stays so.
Unloaded ==
    /\ \A d \in Devs : phase[d] = "unload" => unloading
    /\ unloading => \A h \in Handles : handle[h] = Closed
    /\ \A d \in Devs : phase[d] = "unload" =>
          (Ahead(d) < 10 => Stopped(d)) /\ (Ahead(d) < 9 => "irqs" \notin on[d])

StagesInv == Shape /\ \A d \in Devs : Stage(d)

Inv ==
    /\ StagesInv /\ OneMoves /\ Count /\ Room /\ InHandler /\ Unloaded
    /\ OnlyKnownStaleUses

-----------------------------------------------------------------------------
(* Shapes.                                                                 *)

LEMMA StepTail ==
    ASSUME Shape, NEW d \in Devs, NEW s, Step(d, s)
    PROVE  /\ todo' \in [Devs -> Seq(Steps)]
           /\ \A e \in Devs : e # d => todo'[e] = todo[e]
           /\ todo[d] # <<>> /\ Ahead(d) \in Nat \ {0} /\ Ahead(d)' = Ahead(d) - 1
           /\ todo'[d] = <<>> <=> Ahead(d) = 1
           /\ IsTail(todo[d], ProbeOrder) =>
                ProbeNext(Ahead(d), s) /\ IsTail(todo'[d], ProbeOrder)
           /\ IsTail(todo[d], UndoOrder) =>
                UndoNext(Ahead(d), s) /\ IsTail(todo'[d], UndoOrder)
           /\ IsTail(todo[d], RemoveOrder) =>
                RemoveNext(Ahead(d), s) /\ IsTail(todo'[d], RemoveOrder)
<1>1. /\ todo[d] \in Seq(Steps) /\ todo[d] # <<>> /\ s = Head(todo[d])
      /\ todo' = [todo EXCEPT ![d] = Tail(todo[d])]
  BY DEF Step, Shape
<1>2. todo'[d] = Tail(todo[d]) /\ \A e \in Devs : e # d => todo'[e] = todo[e]
  BY <1>1 DEF Shape
<1>3. Tail(todo[d]) \in Seq(Steps) /\ Len(Tail(todo[d])) = Ahead(d) - 1
      /\ Ahead(d) \in Nat \ {0}
  BY <1>1, HeadOfTail DEF Ahead
<1>4. todo' \in [Devs -> Seq(Steps)]
  BY <1>1, <1>3 DEF Shape
<1>5. Tail(todo[d]) = <<>> <=> Ahead(d) = 1
  BY <1>1, HeadOfTail DEF Ahead
<1>6. Ahead(d)' = Ahead(d) - 1
  BY <1>2, <1>3 DEF Ahead
<1> QED
  BY <1>1, <1>2, <1>3, <1>4, <1>5, <1>6, HeadOfTail DEF Ahead

\* A step on the way out, from how many are ahead.
LEMMA LeavingStep ==
    ASSUME StagesInv, NEW d \in Devs, NEW s, Leaving(d), Step(d, s)
    PROVE  /\ RemoveNext(Ahead(d), s) /\ (phase[d] = "undo" => Ahead(d) <= 6)
           /\ Ahead(d) \in Nat /\ Ahead(d)' = Ahead(d) - 1
<1>1. Shape /\ Stage(d)
  BY DEF StagesInv
<1>2. CASE phase[d] = "undo"
  BY <1>1, <1>2, StepTail DEF Stage, UndoNext
<1>3. CASE phase[d] \in {"unbind", "unload"}
  BY <1>1, <1>3, StepTail DEF Stage
<1> QED
  BY <1>2, <1>3 DEF Leaving

LEMMA ShapeInit == ASSUME DeviceInit PROVE Shape
<1>1. <<>> \in Seq(Devs) /\ IsInjective(<<>>) /\ <<>> \in Seq(Steps)
  BY DEF IsInjective
<1>2. Closed \in HandleType
  BY DEF Closed, HandleType, Nodes
<1>3. todo \in [Devs -> Seq(Steps)] /\ handle \in [Handles -> HandleType]
  BY <1>1, <1>2 DEF DeviceInit
<1>4. ready \in [Devs -> BOOLEAN] /\ timer \in [Devs -> BOOLEAN]
  BY DEF DeviceInit
<1>5. has \in [Devs -> SUBSET (Resources \union NeverGivenBack)] /\ on \in [Devs -> SUBSET {"dma", "irqs"}]
  BY DEF DeviceInit
<1>6. /\ phase \in [Devs -> {"new", "probe", "undo", "bound", "unbind", "unload"}]
      /\ mem \in [Devs -> {"none", "live", "freed"}]
  BY DEF DeviceInit
<1>7. devlist \in Seq(Devs) /\ IsInjective(devlist)
  BY <1>1 DEF DeviceInit
<1>8. devcount \in Int
  BY DEF DeviceInit
<1>9. unloading \in BOOLEAN
  BY DEF DeviceInit
<1>10. /\ irqmask \in [Devs -> BOOLEAN] /\ spanned \in [Devs -> BOOLEAN]
       /\ latched \in [Devs -> {"no", "off", "on"}]
  BY DEF DeviceInit
<1> QED
  BY <1>3, <1>4, <1>5, <1>6, <1>7, <1>8, <1>9, <1>10 DEF Shape

LEMMA ShapeStep == ASSUME StagesInv, [DeviceNext]_vars PROVE Shape'
<1> USE DEF StagesInv, handler
<1>1. ASSUME NEW d \in Devs, Probe(d) PROVE Shape'
  BY <1>1, Orders DEF Shape, Probe
<1>2. ASSUME NEW d \in Devs, Acquire(d) PROVE Shape'
  <2>1. PICK r \in Resources : Step(d, r) /\ has' = [has EXCEPT ![d] = @ \union {r}]
    BY <1>2 DEF Acquire
  <2> QED
    BY <1>2, <2>1, StepTail DEF Shape, Acquire
<1>3. ASSUME NEW d \in Devs, Fail(d) PROVE Shape'
  <2>1. PICK i \in 1..Len(UndoOrder) :
            todo' = [todo EXCEPT ![d] = SubSeq(UndoOrder, i, Len(UndoOrder))]
    BY <1>3 DEF Fail
  <2>2. SubSeq(UndoOrder, i, Len(UndoOrder)) \in Seq(Steps)
    BY Orders, EndIsTail
  <2> QED
    BY <1>3, <2>1, <2>2 DEF Shape, Fail
<1>4. ASSUME NEW d \in Devs, EnablePci(d) PROVE Shape'
  BY <1>4, StepTail DEF Shape, EnablePci, NeverGivenBack
<1>5. ASSUME NEW d \in Devs, HwInit1(d) PROVE Shape'
  BY <1>5, StepTail DEF Shape, HwInit1, NeverGivenBack
<1>6. ASSUME NEW d \in Devs, ListAdd(d) PROVE Shape'
  <2>1. Step(d, "list") /\ phase[d] = "probe" /\ devlist' = Append(devlist, d)
    BY <1>6 DEF ListAdd
  <2>2. d \notin ToSet(devlist)
    BY <2>1, StepTail DEF Stage, AlreadyHas, Listed, ProbeNext
  <2>3. devlist' \in Seq(Devs) /\ IsInjective(devlist')
    BY <2>1, <2>2, ListGains DEF Shape
  <2> QED
    BY <1>6, <2>1, <2>3, StepTail DEF Shape, ListAdd
<1>7. ASSUME NEW d \in Devs, Probed(d) PROVE Shape'
  BY <1>7 DEF Shape, Probed
<1>8. ASSUME NEW d \in Devs, FiniDev(d) PROVE Shape'
  BY <1>8, Orders DEF Shape, FiniDev
<1>9. ASSUME NEW d \in Devs, Stop(d) \/ Mask(d) PROVE Shape'
  <2>1. PICK b \in BOOLEAN :
            spanned' = [spanned EXCEPT ![d] = b] \/ spanned' = spanned
    BY <1>9 DEF Stop, Mask
  <2>2. \E s : Step(d, s)
    BY <1>9 DEF Stop, Mask
  <2>3. on' \in [Devs -> SUBSET {"dma", "irqs"}]
    <3>1. PICK bit \in {"dma", "irqs"} : on' = [on EXCEPT ![d] = @ \ {bit}]
      BY <1>9 DEF Stop, Mask
    <3> QED
      BY <3>1 DEF Shape
  <2>4. spanned' \in [Devs -> BOOLEAN]
    BY <2>1 DEF Shape
  <2>5. todo' \in [Devs -> Seq(Steps)]
    BY <2>2, StepTail
  <2> QED
    BY <1>9, <2>3, <2>4, <2>5 DEF Shape, Stop, Mask
<1>10. ASSUME NEW d \in Devs, ListDel(d) PROVE Shape'
  <2>1. PICK i \in 1..Len(devlist) : devlist' = RemoveAt(devlist, i)
    BY <1>10 DEF ListDel
  <2>2. devlist' \in Seq(Devs) /\ IsInjective(devlist')
    BY <2>1, ListLoses DEF Shape
  <2> QED
    BY <1>10, <2>2, StepTail DEF Shape, ListDel
<1>11. ASSUME NEW d \in Devs, Uncount(d) PROVE Shape'
  BY <1>11, StepTail DEF Shape, Uncount
<1>12. ASSUME NEW d \in Devs, Release(d) PROVE Shape'
  <2>1. PICK r \in Resources \union {"nodes"} :
            /\ Step(d, r)
            /\ has' = [has EXCEPT ![d] = @ \ (IF r = "nodes" THEN Nodes ELSE {r})]
    BY <1>12 DEF Release
  <2> QED
    BY <1>12, <2>1, StepTail DEF Shape, Release
<1>13. ASSUME NEW d \in Devs, Free(d) PROVE Shape'
  BY <1>13, StepTail DEF Shape, Free
<1>14. ASSUME NEW d \in Devs, Interrupt(d) PROVE Shape'
  <2>1. PICK t \in BOOLEAN : timer' = [timer EXCEPT ![d] = t]
    <3>1. CASE timer' = timer
      <4>1. timer[d] \in BOOLEAN /\ timer' = [timer EXCEPT ![d] = timer[d]]
        BY <3>1 DEF Shape
      <4> QED
        BY <4>1
    <3>2. CASE \E t \in {timer[d], FALSE, Streaming(d)} :
                  timer' = [timer EXCEPT ![d] = t]
      BY <3>2 DEF Shape, Streaming
    <3> QED
      BY <1>14, <3>1, <3>2 DEF Interrupt
  <2>2. on' \in [Devs -> SUBSET {"dma", "irqs"}]
    <3>1. CASE on' = on
      BY <3>1 DEF Shape
    <3>2. ASSUME NEW o \in {on[d], on[d] \ {"irqs"}}, on' = [on EXCEPT ![d] = o]
          PROVE  on' \in [Devs -> SUBSET {"dma", "irqs"}]
      <4>1. o \in SUBSET {"dma", "irqs"} /\ on \in [Devs -> SUBSET {"dma", "irqs"}]
        BY DEF Shape
      <4> QED
        BY <3>2, <4>1
    <3> QED
      BY <1>14, <3>1, <3>2 DEF Interrupt
  <2> QED
    BY <1>14, <2>1, <2>2 DEF Shape, Interrupt, core
<1>15. ASSUME NEW d \in Devs, Watchdog(d) PROVE Shape'
  <2>1. PICK t \in BOOLEAN : timer' = [timer EXCEPT ![d] = t]
    BY <1>15 DEF Watchdog, Streaming
  <2>2. on' \in [Devs -> SUBSET {"dma", "irqs"}]
    BY <1>15 DEF Shape, Watchdog
  <2>3. irqmask' \in [Devs -> BOOLEAN]
    BY <1>15 DEF Shape, Watchdog
  <2> QED
    BY <1>15, <2>1, <2>2, <2>3 DEF Shape, Watchdog, core
<1>16. ASSUME Unload PROVE Shape'
  BY <1>16 DEF Shape, Unload, core
<1>17. ASSUME NEW h \in Handles,
              \/ \E d \in Devs, n \in Nodes : Enter(h, d, n)
              \/ Lookup(h) \/ Opened(h) \/ Stream(h) \/ Close(h)
       PROVE  Shape'
  <2>1. PICK w \in HandleType : handle' = [handle EXCEPT ![h] = w]
    <3>1. Closed \in HandleType /\ handle[h] \in HandleType
      BY DEF Closed, HandleType, Nodes, Shape
    <3>2. ASSUME NEW d \in Devs, NEW n \in Nodes
          PROVE  [pc |-> "entered", dev |-> d, node |-> n] \in HandleType
      BY DEF HandleType
    <3>3. ASSUME NEW p \in {"found", "open", "streaming"}
          PROVE  [handle[h] EXCEPT !.pc = p] \in HandleType
      BY <3>1 DEF HandleType
    <3>4. CASE \E d \in Devs, n \in Nodes : Enter(h, d, n)
      BY <3>2, <3>4 DEF Enter
    <3>5. CASE Lookup(h) \/ Close(h)
      BY <3>1, <3>3, <3>5 DEF Lookup, Close
    <3>6. CASE Opened(h) \/ Stream(h)
      BY <3>3, <3>6 DEF Opened, Stream
    <3> QED
      BY <1>17, <3>4, <3>5, <3>6
  <2>2. UNCHANGED <<core, unloading>>
    BY <1>17 DEF Enter, Lookup, Opened, Stream, Close
  <2>3. on' \in [Devs -> SUBSET {"dma", "irqs"}]
    BY <1>17 DEF Shape, Enter, Lookup, Opened, Stream, Close
  <2>4. timer' \in [Devs -> BOOLEAN] /\ irqmask' \in [Devs -> BOOLEAN]
    BY <1>17 DEF Shape, Enter, Lookup, Opened, Stream, Close
  <2>5. UNCHANGED <<latched, spanned>>
    BY <1>17 DEF Enter, Lookup, Opened, Stream, Close
  <2> QED
    BY <2>1, <2>2, <2>3, <2>4, <2>5 DEF Shape, core
<1>18. CASE UNCHANGED vars
  BY <1>18 DEF Shape, vars, core
<1>19. ASSUME NEW d \in Devs, FifoRead(d) \/ FifoWrite(d) PROVE Shape'
  <2>1. latched' \in [Devs -> {"no", "off", "on"}]
    <3>1. PICK l \in {"no", "off", "on"} : latched' = [latched EXCEPT ![d] = l]
      BY <1>19 DEF FifoRead, FifoWrite
    <3> QED
      BY <3>1 DEF Shape
  <2>2. on' \in [Devs -> SUBSET {"dma", "irqs"}]
    <3>1. CASE on' = on
      BY <3>1 DEF Shape
    <3>2. ASSUME NEW o \in {on[d] \union {"dma"}, on[d] \ {"dma"}},
                 on' = [on EXCEPT ![d] = o]
          PROVE  on' \in [Devs -> SUBSET {"dma", "irqs"}]
      <4>1. o \in SUBSET {"dma", "irqs"} /\ on \in [Devs -> SUBSET {"dma", "irqs"}]
        BY DEF Shape
      <4> QED
        BY <3>2, <4>1
    <3> QED
      BY <1>19, <3>1, <3>2 DEF FifoRead, FifoWrite
  <2> QED
    BY <1>19, <2>1, <2>2 DEF Shape, FifoRead, FifoWrite, core
<1> QED
  BY <1>1, <1>2, <1>3, <1>4, <1>5, <1>6, <1>7, <1>8, <1>9, <1>10, <1>11, <1>12,
     <1>13, <1>14, <1>15, <1>16, <1>17, <1>18, <1>19 DEF DeviceNext

-----------------------------------------------------------------------------
(* The stages of the devices.                                              *)

LEMMA StageInit == ASSUME DeviceInit, NEW d \in Devs PROVE Stage(d)
  BY DEF DeviceInit, Stage, Listed, ToSet

\* What a step of another device, or of a user, does to this one: nothing.
LEMMA StageKeeps ==
    ASSUME NEW e \in Devs, Stage(e), phase'[e] = phase[e], todo'[e] = todo[e],
           mem'[e] = mem[e], has'[e] = has[e], ready'[e] = ready[e],
           Listed(e)' <=> Listed(e)
    PROVE  Stage(e)'
  BY DEF Stage, StillHas, AlreadyHas, Ahead

LEMMA StageStep ==
    ASSUME StagesInv, [DeviceNext]_vars, NEW e \in Devs
    PROVE  Stage(e)'
<1> USE DEF StagesInv
<1>0. Shape' /\ Stage(e)
  BY ShapeStep
<1>1. ASSUME NEW d \in Devs, Probe(d) PROVE Stage(e)'
  <2>1. /\ phase' = [phase EXCEPT ![d] = "probe"] /\ phase[d] = "new"
        /\ mem' = [mem EXCEPT ![d] = "live"]
        /\ todo' = [todo EXCEPT ![d] = ProbeOrder]
        /\ UNCHANGED <<devlist, has, ready>>
    BY <1>1 DEF Probe
  <2>2. CASE e = d
    <3>1. Ahead(e)' = 9 /\ IsTail(todo'[e], ProbeOrder)
      <4>1. todo'[e] = ProbeOrder
        BY <2>1, <2>2 DEF Shape
      <4> QED
        BY <4>1, Orders, WholeIsTail DEF Ahead
    <3>2. has'[e] = {} /\ ~Listed(e)' /\ ~ready'[e] /\ mem'[e] = "live"
          /\ phase'[e] = "probe"
      BY <1>0, <2>1, <2>2 DEF Shape, Stage, Listed
    <3> QED
      BY <3>1, <3>2 DEF Stage, AlreadyHas
  <2>3. CASE e # d
    BY <1>0, <2>1, <2>3, StageKeeps DEF Shape, Listed
  <2> QED
    BY <2>2, <2>3
<1>2. ASSUME NEW d \in Devs, Acquire(d) PROVE Stage(e)'
  <2>1. PICK r \in Resources : Step(d, r) /\ has' = [has EXCEPT ![d] = @ \union {r}]
    BY <1>2 DEF Acquire
  <2>2. phase[d] = "probe" /\ UNCHANGED <<phase, mem, devlist, ready>>
    BY <1>2 DEF Acquire
  <2>3. CASE e = d
    <3>1. /\ ProbeNext(Ahead(d), r) /\ IsTail(todo'[d], ProbeOrder)
          /\ Ahead(d) \in Nat \ {0} /\ Ahead(d)' = Ahead(d) - 1
      BY <1>0, <2>1, <2>2, <2>3, StepTail DEF Stage
    <3>2. has'[d] = has[d] \union {r}
      BY <2>1 DEF Shape
    <3>3. AlreadyHas(d)'
      BY <1>0, <2>2, <2>3, <3>1, <3>2
         DEF Stage, AlreadyHas, ProbeNext, Listed, Resources, Nodes
    <3>4. "irq" \in has'[d] => "mmio" \in has'[d] /\ ready'[d]
      BY <3>1, <3>3 DEF AlreadyHas
    <3> QED
      BY <1>0, <2>2, <2>3, <3>1, <3>3, <3>4 DEF Stage
  <2>4. CASE e # d
    BY <1>0, <2>1, <2>2, <2>4, StepTail, StageKeeps DEF Shape, Listed
  <2> QED
    BY <2>3, <2>4
<1>3. ASSUME NEW d \in Devs, Fail(d) PROVE Stage(e)'
  <2>1. PICK i \in 1..Len(UndoOrder) :
            /\ UndoOrder[i] = FailLabel(Head(todo[d]))
            /\ todo' = [todo EXCEPT ![d] = SubSeq(UndoOrder, i, Len(UndoOrder))]
    BY <1>3 DEF Fail
  <2>2. /\ phase[d] = "probe" /\ phase' = [phase EXCEPT ![d] = "undo"]
        /\ todo[d] # <<>> /\ Head(todo[d]) \in Resources \union {"pci"}
        /\ UNCHANGED <<mem, has, devlist, ready>>
    BY <1>3 DEF Fail
  <2>3. CASE e = d
    <3>1. /\ ProbeNext(Ahead(d), Head(todo[d])) /\ AlreadyHas(d) /\ mem[d] = "live"
      BY <1>0, <2>2, <2>3, HeadOfTail DEF Stage, Ahead, Shape
    <3>2. i \in 1..6 /\ Ahead(d)' = 7 - i /\ IsTail(todo'[d], UndoOrder)
          /\ todo'[d] \in Seq(Steps)
      <4> DEFINE t == SubSeq(UndoOrder, i, Len(UndoOrder))
      <4>1. UndoOrder \in Seq(Steps) /\ Len(UndoOrder) = 6
        BY Orders
      <4>2. t \in Seq(Steps) /\ IsTail(t, UndoOrder) /\ Len(t) = 6 + 1 - i
        BY <4>1, EndIsTail
      <4>3. todo'[d] = t
        BY <2>1 DEF Shape
      <4> HIDE DEF t
      <4> QED
        BY <4>1, <4>2, <4>3 DEF Ahead
    <3>3. todo'[d] # <<>>
      BY <3>2, EmptySeq DEF Ahead
    <3>4. /\ Head(todo[d]) \in Nodes => i = 1
          /\ Head(todo[d]) = "irq" => i = 3
          /\ Head(todo[d]) = "mmio" => i = 4
          /\ Head(todo[d]) \in {"region", "pci"} => i = 5
      BY SMTT(60), <2>1, <3>2, Orders DEF FailLabel, Nodes
    <3>5. StillHas(d)'
      BY <2>2, <3>1, <3>2, <3>3, <3>4
         DEF StillHas, AlreadyHas, ProbeNext, Resources, Nodes
    <3> QED
      BY <1>0, <2>2, <2>3, <3>2, <3>5 DEF Stage, Shape
  <2>4. CASE e # d
    BY <1>0, <2>1, <2>2, <2>4, StageKeeps DEF Shape, Listed
  <2> QED
    BY <2>3, <2>4
<1>4. ASSUME NEW d \in Devs, EnablePci(d) \/ HwInit1(d) PROVE Stage(e)'
  <2>1. PICK s \in {"pci", "init1"}, kept \in NeverGivenBack :
            /\ Step(d, s)
            /\ ready' = IF s = "init1" THEN [ready EXCEPT ![d] = TRUE] ELSE ready
            /\ has' = [has EXCEPT ![d] = @ \union {kept}]
    BY <1>4 DEF EnablePci, HwInit1, NeverGivenBack
  <2>2. phase[d] = "probe" /\ UNCHANGED <<phase, mem, devlist>>
    BY <1>4 DEF EnablePci, HwInit1
  <2>3. CASE e = d
    <3>1. /\ ProbeNext(Ahead(d), s) /\ IsTail(todo'[d], ProbeOrder)
          /\ Ahead(d) \in Nat \ {0} /\ Ahead(d)' = Ahead(d) - 1
      BY <1>0, <2>1, <2>2, <2>3, StepTail DEF Stage
    <3>2. ready'[d] <=> ready[d] \/ s = "init1"
      BY <2>1 DEF Shape
    <3>4. \A r \in Resources : r \in has'[d] <=> r \in has[d]
      BY <2>1 DEF Shape, NeverGivenBack, Resources, Nodes
    <3>3. AlreadyHas(d)'
      <4>1. AlreadyHas(d) /\ UNCHANGED devlist
        BY <1>0, <2>2, <2>3 DEF Stage
      <4> QED
        BY <2>1, <3>1, <3>2, <3>4, <4>1
           DEF AlreadyHas, ProbeNext, Listed, Resources, Nodes
    <3>5. "irq" \in has'[d] => "mmio" \in has'[d] /\ ready'[d]
      BY <1>0, <2>3, <3>2, <3>4 DEF Stage, Resources
    <3> QED
      BY <1>0, <2>2, <2>3, <3>1, <3>3, <3>5 DEF Stage
  <2>4. CASE e # d
    <3>1. ready'[e] = ready[e] /\ has'[e] = has[e]
      BY <2>1, <2>4 DEF Shape
    <3> QED
      BY <1>0, <2>1, <2>2, <2>4, <3>1, StepTail, StageKeeps DEF Listed
  <2> QED
    BY <2>3, <2>4
<1>5. ASSUME NEW d \in Devs, ListAdd(d) PROVE Stage(e)'
  <2>1. Step(d, "list") /\ phase[d] = "probe" /\ devlist' = Append(devlist, d)
        /\ UNCHANGED <<phase, mem, has, ready>>
    BY <1>5 DEF ListAdd
  <2>2. /\ ProbeNext(Ahead(d), "list") /\ IsTail(todo'[d], ProbeOrder)
        /\ Ahead(d) \in Nat \ {0} /\ Ahead(d)' = Ahead(d) - 1
        /\ AlreadyHas(d) /\ mem[d] = "live"
    BY <2>1, StepTail DEF Stage
  <2>3. d \notin ToSet(devlist)
    BY <2>2 DEF AlreadyHas, Listed, ProbeNext
  <2>4. ToSet(devlist') = ToSet(devlist) \union {d}
    BY <2>1, <2>3, ListGains DEF Shape
  <2>5. CASE e = d
    <3>1. AlreadyHas(d)'
      BY <2>1, <2>2, <2>4 DEF AlreadyHas, ProbeNext, Listed
    <3> QED
      BY <1>0, <2>1, <2>2, <2>5, <3>1 DEF Stage
  <2>6. CASE e # d
    BY <1>0, <2>1, <2>4, <2>6, StepTail, StageKeeps DEF Listed
  <2> QED
    BY <2>5, <2>6
<1>6. ASSUME NEW d \in Devs, Probed(d) PROVE Stage(e)'
  <2>1. /\ phase[d] = "probe" /\ todo[d] = <<>>
        /\ phase' = [phase EXCEPT ![d] = "bound"]
        /\ UNCHANGED <<todo, mem, devlist, has, ready>>
    BY <1>6 DEF Probed
  <2>2. CASE e = d
    <3>1. Ahead(d) = 0 /\ AlreadyHas(d) /\ mem[d] = "live"
      BY <2>1 DEF Stage, Ahead
    <3> QED
      BY <2>1, <2>2, <3>1 DEF Stage, AlreadyHas, Shape, Listed
  <2>3. CASE e # d
    BY <1>0, <2>1, <2>3, StageKeeps DEF Shape, Listed
  <2> QED
    BY <2>2, <2>3
<1>7. ASSUME NEW d \in Devs, FiniDev(d) PROVE Stage(e)'
  <2>1. /\ phase[d] = "bound" /\ todo' = [todo EXCEPT ![d] = RemoveOrder]
        /\ phase' = [phase EXCEPT ![d] = IF unloading THEN "unload" ELSE "unbind"]
        /\ UNCHANGED <<mem, devlist, has, ready>>
    BY <1>7 DEF FiniDev
  <2>2. CASE e = d
    <3>1. Ahead(d)' = 10 /\ IsTail(todo'[d], RemoveOrder) /\ todo'[d] # <<>>
      <4>1. todo'[d] = RemoveOrder
        BY <2>1 DEF Shape
      <4>2. RemoveOrder \in Seq(Steps) /\ Len(RemoveOrder) = 10
        BY Orders
      <4>3. IsTail(RemoveOrder, RemoveOrder)
        BY <4>2, WholeIsTail
      <4>4. RemoveOrder # <<>>
        <5>1. RemoveOrder = <<>> <=> Len(RemoveOrder) = 0
          BY <4>2, EmptySeq
        <5> QED
          BY <4>2, <5>1
      <4> QED
        BY <4>1, <4>2, <4>3, <4>4 DEF Ahead
    <3>2. mem'[d] = "live" /\ Listed(d)' /\ phase'[d] \in {"unbind", "unload"}
          /\ {"mmio", "irq"} \subseteq has'[d] /\ ready'[d]
      BY <2>1 DEF Shape, Stage, Listed
    <3> QED
      BY <2>2, <3>1, <3>2 DEF Stage, StillHas
  <2>3. CASE e # d
    BY <1>0, <2>1, <2>3, StageKeeps DEF Shape, Listed
  <2> QED
    BY <2>2, <2>3
<1>8. ASSUME NEW d \in Devs, NEW s \in {"stop", "mask", "count"}, Leaving(d), Step(d, s),
             UNCHANGED <<phase, mem, devlist, has, ready>>
      PROVE  Stage(e)'
  <2>1. CASE e = d
    <3>1. phase[d] \in {"unbind", "unload"} /\ RemoveNext(Ahead(d), s)
          /\ IsTail(todo'[d], RemoveOrder) /\ StillHas(d)
      <4>1. RemoveNext(Ahead(d), s) /\ (phase[d] = "undo" => Ahead(d) <= 6)
        BY <1>8, LeavingStep
      <4>2. phase[d] \in {"unbind", "unload"}
        BY <1>8, <4>1 DEF Leaving, RemoveNext
      <4>3. IsTail(todo[d], RemoveOrder) /\ StillHas(d)
        BY <4>2 DEF Stage
      <4> QED
        BY <1>8, <4>1, <4>2, <4>3, StepTail
    <3>2. Ahead(d) \in {7, 9, 10} /\ Ahead(d)' = Ahead(d) - 1 /\ todo'[d] # <<>>
          /\ todo[d] # <<>>
      <4>1. Ahead(d) \in {7, 9, 10}
        BY <3>1 DEF RemoveNext
      <4> QED
        BY <1>8, <4>1, StepTail
    <3>3. StillHas(d)'
      BY <1>8, <3>1, <3>2 DEF StillHas
    <3> QED
      BY <1>8, <2>1, <3>1, <3>2, <3>3 DEF Stage, Listed
  <2>2. CASE e # d
    BY <1>0, <1>8, <2>2, StepTail, StageKeeps DEF Listed
  <2> QED
    BY <2>1, <2>2
<1>9. ASSUME NEW d \in Devs, ListDel(d) PROVE Stage(e)'
  <2>1. PICK i \in 1..Len(devlist) : devlist[i] = d /\ devlist' = RemoveAt(devlist, i)
    BY <1>9 DEF ListDel
  <2>2. ToSet(devlist') = ToSet(devlist) \ {d}
    BY <2>1, ListLoses DEF Shape
  <2>3. Leaving(d) /\ Step(d, "list") /\ UNCHANGED <<phase, mem, has, ready>>
    BY <1>9 DEF ListDel
  <2>4. CASE e = d
    <3>1. phase[d] \in {"unbind", "unload"} /\ RemoveNext(Ahead(d), "list")
          /\ IsTail(todo'[d], RemoveOrder) /\ StillHas(d)
      BY SMTT(60), <2>3, StepTail DEF Stage, Leaving, UndoNext, RemoveNext
    <3>2. Ahead(d) = 8 /\ Ahead(d)' = 7 /\ todo'[d] # <<>> /\ todo[d] # <<>>
      BY <2>3, <3>1, StepTail DEF RemoveNext
    <3>3. StillHas(d)'
      BY <2>3, <3>1, <3>2 DEF StillHas
    <3> QED
      BY <1>0, <2>2, <2>3, <2>4, <3>1, <3>2, <3>3 DEF Stage, Listed
  <2>5. CASE e # d
    BY <1>0, <2>2, <2>3, <2>5, StepTail, StageKeeps DEF Listed
  <2> QED
    BY <2>4, <2>5
<1>10. ASSUME NEW d \in Devs, Release(d) PROVE Stage(e)'
  <2>1. PICK r \in Resources \union {"nodes"} :
            /\ Step(d, r)
            /\ has' = [has EXCEPT ![d] = @ \ (IF r = "nodes" THEN Nodes ELSE {r})]
    BY <1>10 DEF Release
  <2>2. Leaving(d) /\ UNCHANGED <<phase, mem, devlist, ready>>
    BY <1>10 DEF Release
  <2>3. CASE e = d
    <3>1. RemoveNext(Ahead(d), r) /\ StillHas(d) /\ Ahead(d)' = Ahead(d) - 1
          /\ Ahead(d) \in 1..10 /\ Ahead(d) \notin {1, 7, 8, 9, 10}
          /\ todo[d] # <<>> /\ todo'[d] # <<>>
      <4>1. /\ RemoveNext(Ahead(d), r) /\ Ahead(d)' = Ahead(d) - 1
            /\ StillHas(d)
        BY <2>1, <2>2, LeavingStep DEF Stage, Leaving
      <4>2. Ahead(d) \in 1..10 /\ Ahead(d) \notin {1, 7, 8, 9, 10}
        BY <4>1 DEF RemoveNext, Resources, Nodes
      <4> QED
        BY <2>1, <4>1, <4>2, StepTail
    <3>2. has'[d] = has[d] \ (IF r = "nodes" THEN Nodes ELSE {r})
      BY <2>1 DEF Shape
    <3>3. StillHas(d)'
      BY <2>2, <3>1, <3>2 DEF StillHas, RemoveNext, Nodes
    <3>4. "irq" \in has'[d] => "mmio" \in has'[d] /\ ready'[d]
      <4>1. "irq" \in has'[d] => Ahead(d) >= 6
        BY <3>1, <3>3 DEF StillHas
      <4> QED
        BY <1>0, <2>2, <2>3, <3>1, <3>2, <4>1 DEF Stage, RemoveNext, Nodes
    <3>5. /\ phase[d] = "undo" => IsTail(todo'[d], UndoOrder)
          /\ phase[d] \in {"unbind", "unload"} =>
                IsTail(todo'[d], RemoveOrder) /\ ~Listed(d)
      BY <2>1, <3>1, StepTail DEF Stage
    <3> QED
      BY <2>2, <2>3, <3>1, <3>3, <3>4, <3>5 DEF Stage, Leaving, Listed
  <2>4. CASE e # d
    BY <1>0, <2>1, <2>2, <2>4, StepTail, StageKeeps DEF Shape, Listed
  <2> QED
    BY <2>3, <2>4
<1>11. ASSUME NEW d \in Devs, Free(d) PROVE Stage(e)'
  <2>1. Leaving(d) /\ Step(d, "free") /\ mem' = [mem EXCEPT ![d] = "freed"]
        /\ UNCHANGED <<phase, devlist, has, ready>>
    BY <1>11 DEF Free
  <2>2. CASE e = d
    <3>1. /\ RemoveNext(Ahead(d), "free") /\ StillHas(d)
          /\ Ahead(d)' = Ahead(d) - 1 /\ Ahead(d) \in Nat
          /\ todo'[d] = <<>> <=> Ahead(d) = 1
      BY <2>1, StepTail DEF Stage, Leaving, UndoNext
    <3>2. Ahead(d) = 1 /\ Ahead(d)' = 0 /\ todo'[d] = <<>>
      BY <3>1 DEF RemoveNext
    <3>3. mem'[d] = "freed"
      BY <2>1 DEF Shape
    <3>4. StillHas(d)' /\ "irq" \notin has'[d]
      BY <2>1, <3>1, <3>2, <3>3 DEF StillHas
    <3>5. /\ phase[d] = "undo" => IsTail(todo'[d], UndoOrder)
          /\ phase[d] \in {"unbind", "unload"} =>
                IsTail(todo'[d], RemoveOrder) /\ ~Listed(d)
      BY <2>1, <3>2, StepTail DEF Stage
    <3>6. ~(Ahead(d)' >= 8) /\ phase'[d] = phase[d] /\ ~Listed(d) = ~Listed(d)'
      BY <2>1, <3>2 DEF Listed
    <3> QED
      BY <2>1, <2>2, <3>4, <3>5, <3>6 DEF Stage, Leaving, Listed
  <2>3. CASE e # d
    BY <1>0, <2>1, <2>3, StepTail, StageKeeps DEF Shape, Listed
  <2> QED
    BY <2>2, <2>3
<1>12. CASE UNCHANGED core
  BY <1>0, <1>12, StageKeeps DEF core, Listed
<1>13. ASSUME NEW h \in Handles,
              \/ \E d \in Devs, n \in Nodes : Enter(h, d, n)
              \/ Lookup(h) \/ Opened(h) \/ Stream(h) \/ Close(h)
       PROVE  UNCHANGED core
  BY <1>13 DEF Enter, Lookup, Opened, Stream, Close
<1>14. ASSUME NEW d \in Devs,
              \/ Interrupt(d) \/ FifoRead(d) \/ FifoWrite(d) \/ Watchdog(d)
              \/ Unload
       PROVE  UNCHANGED core
  BY <1>14 DEF Interrupt, FifoRead, FifoWrite, Watchdog, Unload
<1>15. UNCHANGED vars => UNCHANGED core
  BY DEF vars
<1>16. ASSUME NEW d \in Devs, Stop(d) \/ Mask(d) \/ Uncount(d) PROVE Stage(e)'
  <2>1. PICK s \in {"stop", "mask", "count"} : Step(d, s)
    BY <1>16 DEF Stop, Mask, Uncount
  <2> QED
    BY <1>8, <1>16, <2>1 DEF Stop, Mask, Uncount
<1> QED
  BY <1>1, <1>2, <1>3, <1>4, <1>5, <1>6, <1>7, <1>9, <1>10, <1>11, <1>12,
     <1>13, <1>14, <1>15, <1>16 DEF DeviceNext

-----------------------------------------------------------------------------
(* One device moves, and what a device that moves is.                      *)

\* A device that is gone has nothing ahead, holds only what is never given back,
\* and is listed only when it failed late.
LEMMA GoneHasNothing ==
    ASSUME StagesInv, NEW d \in Devs, Gone(d)
    PROVE  /\ phase[d] \in {"undo", "unbind", "unload"} /\ Ahead(d) = 0
           /\ has[d] \subseteq NeverGivenBack /\ (Listed(d) => phase[d] = "undo")
<1>1. Stage(d) /\ has[d] \subseteq Resources \union NeverGivenBack
  BY DEF StagesInv, Shape
<1>2. phase[d] \in {"undo", "unbind", "unload"} /\ StillHas(d)
  BY <1>1 DEF Stage, Gone, StagesInv, Shape
<1>3. todo[d] = <<>> /\ Ahead(d) = 0
  BY <1>2 DEF StillHas, Gone, Ahead
<1>4. has[d] \subseteq NeverGivenBack
  BY <1>1, <1>2, <1>3 DEF StillHas, Resources, Nodes
<1>5. Listed(d) => phase[d] = "undo"
  BY <1>1, <1>2, <1>3 DEF Stage
<1> QED
  BY <1>2, <1>3, <1>4, <1>5

LEMMA ProbeMoves ==
    ASSUME StagesInv, NEW d \in Devs, phase[d] = "probe"
    PROVE  Moving(d)
  BY DEF StagesInv, Stage, Moving

LEMMA MovesStep == ASSUME Shape, OneMoves, [DeviceNext]_vars PROVE OneMoves'
<1>1. ASSUME NEW d \in Devs, Probe(d) \/ FiniDev(d) PROVE OneMoves'
  <2>1. \A e \in Devs : ~Moving(e)
    BY <1>1 DEF Probe, FiniDev, Idle, Moving
  <2>2. \A e \in Devs : e # d => phase'[e] = phase[e] /\ mem'[e] = mem[e]
    BY <1>1 DEF Probe, FiniDev, Shape
  <2> QED
    BY <2>1, <2>2 DEF OneMoves, Moving
<1>2. ASSUME NEW d \in Devs, Fail(d) \/ Probed(d) \/ Free(d) PROVE OneMoves'
  <2>1. \A e \in Devs : e # d => phase'[e] = phase[e] /\ mem'[e] = mem[e]
    BY <1>2 DEF Fail, Probed, Free, Shape
  <2>2. Moving(d)' => Moving(d)
    BY <1>2 DEF Fail, Probed, Free, Shape, Moving
  <2> QED
    BY <2>1, <2>2 DEF OneMoves, Moving
<1>3. ASSUME UNCHANGED <<phase, mem>> PROVE OneMoves'
  BY <1>3 DEF OneMoves, Moving
<1>4. ASSUME NEW d \in Devs,
             \/ Acquire(d) \/ EnablePci(d) \/ HwInit1(d) \/ ListAdd(d)
             \/ Stop(d) \/ Mask(d) \/ ListDel(d) \/ Uncount(d) \/ Release(d)
             \/ Interrupt(d) \/ FifoRead(d) \/ FifoWrite(d) \/ Watchdog(d)
      PROVE  UNCHANGED <<phase, mem>>
  BY <1>4 DEF Acquire, EnablePci, HwInit1, ListAdd, Stop, Mask, ListDel, Uncount,
              Release, Interrupt, FifoRead, FifoWrite, Watchdog, core
<1>5. ASSUME NEW h \in Handles,
             \/ \E d \in Devs, n \in Nodes : Enter(h, d, n)
             \/ Lookup(h) \/ Opened(h) \/ Stream(h) \/ Close(h)
      PROVE  UNCHANGED <<phase, mem>>
  BY <1>5 DEF Enter, Lookup, Opened, Stream, Close, core
<1>6. Unload \/ UNCHANGED vars => UNCHANGED <<phase, mem>>
  BY DEF Unload, vars, core
<1> QED
  BY <1>1, <1>2, <1>3, <1>4, <1>5, <1>6 DEF DeviceNext

-----------------------------------------------------------------------------
(* The counter.                                                            *)

LEMMA SameCounted ==
    ASSUME Count, devcount' = devcount,
           \A d \in Devs : IsCounted(d)' <=> IsCounted(d)
    PROVE  Count'
<1>1. Counted' = Counted
  BY DEF Counted
<1> QED
  BY <1>1 DEF Count

LEMMA CountStep ==
    ASSUME StagesInv, Count, [DeviceNext]_vars
    PROVE  Count'
<1> USE DEF StagesInv
<1>1. ASSUME NEW d \in Devs, Probe(d) PROVE Count'
  <2>1. \A e \in Devs : e # d => phase'[e] = phase[e] /\ todo'[e] = todo[e]
    BY <1>1 DEF Probe, Shape
  <2>2. phase[d] = "new" /\ phase'[d] = "probe" /\ devcount' = devcount
    BY <1>1 DEF Probe, Shape
  <2> QED
    BY <2>1, <2>2, SameCounted DEF IsCounted, Ahead
<1>2. ASSUME NEW d \in Devs, Fail(d) PROVE Count'
  <2>1. \A e \in Devs : e # d => phase'[e] = phase[e] /\ todo'[e] = todo[e]
    BY <1>2 DEF Fail, Shape
  <2>2. phase[d] = "probe" /\ phase'[d] = "undo" /\ devcount' = devcount
    BY <1>2 DEF Fail, Shape
  <2> QED
    BY <2>1, <2>2, SameCounted DEF IsCounted, Ahead
<1>3. ASSUME NEW d \in Devs, FiniDev(d) PROVE Count'
  <2>1. \A e \in Devs : e # d => phase'[e] = phase[e] /\ todo'[e] = todo[e]
    BY <1>3 DEF FiniDev, Shape
  <2>2. phase[d] = "bound" /\ phase'[d] \in {"unbind", "unload"}
        /\ devcount' = devcount /\ Ahead(d)' = 10
    BY <1>3, Orders DEF FiniDev, Shape, Ahead
  <2>3. \A e \in Devs : e # d => (IsCounted(e)' <=> IsCounted(e))
    BY <2>1 DEF IsCounted, Ahead
  <2>4. IsCounted(d)' /\ IsCounted(d)
    BY <2>2 DEF IsCounted
  <2> QED
    BY <2>2, <2>3, <2>4, SameCounted
<1>4. ASSUME NEW d \in Devs, Probed(d) PROVE Count'
  <2>1. /\ \A e \in Devs : e # d => phase'[e] = phase[e] /\ todo'[e] = todo[e]
        /\ phase[d] = "probe" /\ phase'[d] = "bound" /\ devcount' = devcount + 1
    BY <1>4 DEF Probed, Shape
  <2>2. \A e \in Devs : e # d => (IsCounted(e)' <=> IsCounted(e))
    BY <2>1 DEF IsCounted, Ahead
  <2>3. IsCounted(d)' /\ ~IsCounted(d)
    BY <2>1 DEF IsCounted
  <2>4. Counted' = Counted \union {d} /\ d \notin Counted
    BY <2>2, <2>3 DEF Counted
  <2> QED
    BY <2>1, <2>4, FS_AddElement DEF Count
<1>5. ASSUME NEW d \in Devs, Uncount(d) PROVE Count'
  <2>1. Leaving(d) /\ Step(d, "count") /\ UNCHANGED phase /\ devcount' = devcount - 1
    BY <1>5 DEF Uncount
  <2>2. phase[d] \in {"unbind", "unload"} /\ Ahead(d) = 7 /\ Ahead(d)' = 6
    BY <2>1, LeavingStep DEF Leaving, RemoveNext
  <2>3. \A e \in Devs : e # d => todo'[e] = todo[e]
    BY <2>1, StepTail
  <2>4. \A e \in Devs : e # d => (IsCounted(e)' <=> IsCounted(e))
    BY <2>1, <2>3 DEF IsCounted, Ahead
  <2>5. IsCounted(d) /\ ~IsCounted(d)'
    BY <2>1, <2>2 DEF IsCounted
  <2>6. d \in Counted /\ Counted' = Counted \ {d}
    BY <2>4, <2>5 DEF Counted
  <2> QED
    BY <2>1, <2>6, FS_RemoveElement DEF Count
<1>6. ASSUME NEW d \in Devs, NEW s \in Steps, s # "count", Step(d, s),
             UNCHANGED <<phase, devcount>>
      PROVE  Count'
  <2>1. ASSUME NEW e \in Devs, e # d PROVE IsCounted(e)' <=> IsCounted(e)
    BY <1>6, <2>1, StepTail DEF IsCounted, Ahead
  <2>2. phase[d] \in {"unbind", "unload"} => (Ahead(d)' >= 7 <=> Ahead(d) >= 7)
    BY <1>6, StepTail DEF Stage, RemoveNext
  <2>3. IsCounted(d)' <=> IsCounted(d)
    BY <1>6, <2>2 DEF IsCounted
  <2> QED
    BY <1>6, <2>1, <2>3, SameCounted
<1>7. ASSUME NEW d \in Devs,
             \/ Acquire(d) \/ EnablePci(d) \/ HwInit1(d) \/ ListAdd(d)
             \/ Stop(d) \/ Mask(d) \/ ListDel(d) \/ Release(d) \/ Free(d)
      PROVE  Count'
  <2>1. PICK s \in Steps : s # "count" /\ Step(d, s)
    BY <1>7 DEF Acquire, EnablePci, HwInit1, ListAdd, Stop, Mask, ListDel, Release,
                Free, Steps, Resources, Nodes
  <2>2. UNCHANGED <<phase, devcount>>
    BY <1>7 DEF Acquire, EnablePci, HwInit1, ListAdd, Stop, Mask, ListDel, Release,
                Free
  <2> QED
    BY <1>6, <2>1, <2>2
<1>8. UNCHANGED core => Count'
  BY SameCounted DEF core, IsCounted, Ahead
<1>9. ASSUME NEW d \in Devs,
             Interrupt(d) \/ FifoRead(d) \/ FifoWrite(d) \/ Watchdog(d)
      PROVE  UNCHANGED core
  BY <1>9 DEF Interrupt, FifoRead, FifoWrite, Watchdog
<1>10. ASSUME NEW h \in Handles,
              \/ \E d \in Devs, n \in Nodes : Enter(h, d, n)
              \/ Lookup(h) \/ Opened(h) \/ Stream(h) \/ Close(h)
       PROVE  UNCHANGED core
  BY <1>10 DEF Enter, Lookup, Opened, Stream, Close
<1>11. Unload \/ UNCHANGED vars => UNCHANGED core
  BY DEF Unload, vars
<1> QED
  BY <1>1, <1>2, <1>3, <1>4, <1>5, <1>7, <1>8, <1>9, <1>10, <1>11 DEF DeviceNext

-----------------------------------------------------------------------------
(* Room for the board that is being probed.                                *)

LEMMA RoomStep ==
    ASSUME DeviceAssumption, StagesInv, OneMoves, Count, Count', Room,
           [DeviceNext]_vars
    PROVE  Room'
<1> USE DEF StagesInv
<1>0. devcount \in Nat /\ devcount' \in Nat /\ MaxBoards \in Nat
  BY FS_CardinalityType DEF Count, DeviceAssumption
<1>1. ASSUME NEW d \in Devs, Probe(d) PROVE Room'
  BY <1>0, <1>1 DEF Room, Probe
<1>2. ASSUME NEW d \in Devs, Probed(d) PROVE Room'
  <2>1. /\ phase[d] = "probe" /\ phase' = [phase EXCEPT ![d] = "bound"]
        /\ devcount' = devcount + 1 /\ nr' = nr
    BY <1>2 DEF Probed
  <2>2. \A e \in Devs : phase[e] = "probe" => e = d
    BY <2>1, ProbeMoves DEF OneMoves
  <2>3. ~ \E e \in Devs : phase'[e] = "probe"
    BY <2>1, <2>2 DEF Shape
  <2> QED
    BY <1>0, <2>1, <2>3 DEF Room
<1>3. ASSUME NEW d \in Devs, EnablePci(d) PROVE Room'
  <2>1. devcount \in 0 .. MaxBoards - 1
    BY <1>0, <1>3 DEF Room, EnablePci
  <2> QED
    BY <1>3, <2>1 DEF Room, EnablePci
<1>4. ASSUME devcount' \in {devcount, devcount - 1}, nr' = nr,
             \A e \in Devs : phase'[e] = "probe" => phase[e] = "probe"
      PROVE  Room'
  BY <1>0, <1>4 DEF Room
<1>5. ASSUME NEW d \in Devs, Fail(d) \/ FiniDev(d)
      PROVE  /\ devcount' = devcount /\ nr' = nr
             /\ \A e \in Devs : phase'[e] = "probe" => phase[e] = "probe"
  BY <1>5 DEF Fail, FiniDev, Shape
<1>6. ASSUME NEW d \in Devs,
             \/ Acquire(d) \/ HwInit1(d) \/ ListAdd(d)
             \/ Stop(d) \/ Mask(d) \/ ListDel(d) \/ Uncount(d) \/ Release(d)
             \/ Free(d)
             \/ Interrupt(d) \/ FifoRead(d) \/ FifoWrite(d) \/ Watchdog(d)
      PROVE  devcount' \in {devcount, devcount - 1} /\ UNCHANGED <<nr, phase>>
  BY <1>6 DEF Acquire, HwInit1, ListAdd, Stop, Mask, ListDel, Uncount, Release,
              Free, Interrupt, FifoRead, FifoWrite, Watchdog, core
<1>7. ASSUME NEW h \in Handles,
             \/ \E d \in Devs, n \in Nodes : Enter(h, d, n)
             \/ Lookup(h) \/ Opened(h) \/ Stream(h) \/ Close(h)
      PROVE  UNCHANGED <<devcount, nr, phase>>
  BY <1>7 DEF Enter, Lookup, Opened, Stream, Close, core
<1>8. Unload \/ UNCHANGED vars => UNCHANGED <<devcount, nr, phase>>
  BY DEF Unload, vars, core
<1> QED
  BY <1>1, <1>2, <1>3, <1>4, <1>5, <1>6, <1>7, <1>8 DEF DeviceNext

-----------------------------------------------------------------------------
(* The unload of the module.                                               *)

LEMMA InHandlerStep ==
    ASSUME Shape, InHandler, [DeviceNext]_vars
    PROVE  InHandler'
<1>1. ASSUME NEW d \in Devs, NEW got \in SUBSET (Resources \union NeverGivenBack),
             has' = [has EXCEPT ![d] = @ \union got], latched' = latched
      PROVE  InHandler'
  BY <1>1 DEF Shape, InHandler
<1>2. ASSUME NEW d \in Devs,
             Acquire(d) \/ EnablePci(d) \/ HwInit1(d)
      PROVE  InHandler'
  <2>1. \E got \in SUBSET (Resources \union NeverGivenBack) :
           has' = [has EXCEPT ![d] = @ \union got]
    BY <1>2 DEF Acquire, EnablePci, HwInit1, NeverGivenBack
  <2>2. latched' = latched
    BY <1>2 DEF Acquire, EnablePci, HwInit1, handler
  <2> QED
    BY <1>1, <2>1, <2>2
<1>3. ASSUME NEW d \in Devs, Release(d) PROVE InHandler'
  <2>1. PICK r \in Resources \union {"nodes"} :
            /\ r = "irq" => latched[d] = "no"
            /\ has' = [has EXCEPT ![d] = @ \ (IF r = "nodes" THEN Nodes ELSE {r})]
    BY <1>3 DEF Release
  <2>2. latched' = latched
    BY <1>3 DEF Release, handler
  <2> QED
    BY <2>1, <2>2 DEF Shape, InHandler, Nodes
<1>4. ASSUME NEW d \in Devs, FifoRead(d) PROVE InHandler'
  BY <1>4 DEF Shape, InHandler, FifoRead, core
<1>5. ASSUME NEW d \in Devs, FifoWrite(d) PROVE InHandler'
  BY <1>5 DEF Shape, InHandler, FifoWrite, core
<1>6. UNCHANGED <<has, latched>> => InHandler'
  BY DEF InHandler
<1>7. ASSUME NEW d \in Devs,
             \/ Probe(d) \/ Fail(d) \/ ListAdd(d) \/ Probed(d) \/ FiniDev(d)
             \/ Stop(d) \/ Mask(d) \/ ListDel(d) \/ Uncount(d) \/ Free(d)
             \/ Interrupt(d) \/ Watchdog(d) \/ Unload \/ UNCHANGED vars
      PROVE  UNCHANGED <<has, latched>>
  BY <1>7 DEF Probe, Fail, ListAdd, Probed, FiniDev, Stop, Mask, ListDel, Uncount,
              Free, Interrupt, Watchdog, Unload, vars, core, handler
<1>8. ASSUME NEW h \in Handles,
             \/ \E d \in Devs, n \in Nodes : Enter(h, d, n)
             \/ Lookup(h) \/ Opened(h) \/ Stream(h) \/ Close(h)
      PROVE  UNCHANGED <<has, latched>>
  BY <1>8 DEF Enter, Lookup, Opened, Stream, Close, core, handler
<1>9. UNCHANGED vars => UNCHANGED <<has, latched>>
  BY DEF vars, core, handler
<1>10. Unload => UNCHANGED <<has, latched>>
  BY DEF Unload, core, handler
<1> QED
  BY <1>2, <1>3, <1>4, <1>5, <1>6, <1>7, <1>8, <1>9, <1>10 DEF DeviceNext

LEMMA NoneUnderUnload ==
    ASSUME Shape, Unloaded, unloading, NEW h \in Handles
    PROVE  handle[h].pc = "closed" /\ \A d \in Devs : ~Streaming(d)
  BY DEF Unloaded, Closed, Streaming

LEMMA UnloadedStep ==
    ASSUME StagesInv, Unloaded, [DeviceNext]_vars
    PROVE  Unloaded'
<1> USE DEF StagesInv
<1>0. \A d \in Devs : Ahead(d) \in Nat
  BY DEF Shape, Ahead
<1>1. ASSUME NEW d \in Devs, Probe(d) PROVE Unloaded'
  <2>1. /\ \A e \in Devs : e # d => phase'[e] = phase[e] /\ todo'[e] = todo[e]
        /\ phase'[d] = "probe" /\ UNCHANGED <<on, latched, spanned, handle, unloading>>
    BY <1>1 DEF Probe, Shape, handler
  <2> QED
    BY <2>1 DEF Unloaded, Stopped, Ahead
<1>2. ASSUME NEW d \in Devs, Fail(d) PROVE Unloaded'
  <2>1. /\ \A e \in Devs : e # d => phase'[e] = phase[e] /\ todo'[e] = todo[e]
        /\ phase'[d] = "undo" /\ UNCHANGED <<on, latched, spanned, handle, unloading>>
    BY <1>2 DEF Fail, Shape, handler
  <2> QED
    BY <2>1 DEF Unloaded, Stopped, Ahead
<1>3. ASSUME NEW d \in Devs, Probed(d) PROVE Unloaded'
  <2>1. /\ \A e \in Devs : e # d => phase'[e] = phase[e] /\ todo'[e] = todo[e]
        /\ phase'[d] = "bound" /\ UNCHANGED <<on, latched, spanned, handle, unloading>>
    BY <1>3 DEF Probed, Shape, handler
  <2> QED
    BY <2>1 DEF Unloaded, Stopped, Ahead
<1>4. ASSUME NEW d \in Devs, FiniDev(d) PROVE Unloaded'
  <2>1. /\ \A e \in Devs : e # d => phase'[e] = phase[e] /\ todo'[e] = todo[e]
        /\ phase'[d] = "unload" => unloading
        /\ Ahead(d)' = 10 /\ UNCHANGED <<on, latched, spanned, handle, unloading>>
    BY <1>4, Orders DEF FiniDev, Shape, Ahead, handler
  <2>2. \A e \in Devs : e # d => Ahead(e)' = Ahead(e)
    BY <2>1 DEF Ahead
  <2> QED
    BY <2>1, <2>2 DEF Unloaded, Stopped
<1>5. ASSUME NEW d \in Devs, Stop(d) PROVE Unloaded'
  <2>1. /\ on' = [on EXCEPT ![d] = @ \ {"dma"}] /\ Step(d, "stop")
        /\ spanned' = [spanned EXCEPT ![d] = (latched[d] = "on")]
        /\ UNCHANGED <<phase, latched, handle, unloading>>
    BY <1>5 DEF Stop
  <2>2. \A e \in Devs :
           e # d => Ahead(e)' = Ahead(e) /\ on'[e] = on[e] /\ spanned'[e] = spanned[e]
    BY <2>1, StepTail DEF Shape, Ahead
  <2>3. on'[d] = on[d] \ {"dma"} /\ (spanned'[d] <=> latched[d] = "on")
    BY <2>1 DEF Shape
  <2>4. Stopped(d)'
    BY <2>1, <2>3 DEF Stopped
  <2>5. Ahead(d)' = 9
    BY <1>5, <2>1, LeavingStep DEF Stop, RemoveNext
  <2> QED
    BY <2>1, <2>2, <2>4, <2>5 DEF Unloaded, Stopped
<1>12. ASSUME NEW d \in Devs, Mask(d) \/ HwInit1(d) PROVE Unloaded'
  <2>1. /\ on'[d] \subseteq on[d] \ {"irqs"} /\ \E s \in {"mask", "init1"} : Step(d, s)
        /\ \A e \in Devs : e # d => on'[e] = on[e]
        /\ UNCHANGED <<phase, latched, spanned, handle, unloading>>
    BY <1>12 DEF Mask, HwInit1, Shape, handler
  <2>2. \A e \in Devs : e # d => Ahead(e)' = Ahead(e)
    BY <2>1, StepTail DEF Ahead
  <2>3. phase[d] = "unload" => Ahead(d) < 10
    BY <2>1, StepTail DEF Stage, RemoveNext
  <2>4. phase[d] = "unload" => Stopped(d)'
    BY <2>1, <2>3 DEF Unloaded, Stopped
  <2> QED
    BY <2>1, <2>2, <2>4 DEF Unloaded, Stopped
<1>6. ASSUME NEW d \in Devs, NEW s \in Steps, s \notin {"stop", "mask"}, Step(d, s),
             UNCHANGED <<phase, on, latched, spanned, handle, unloading>>
      PROVE  Unloaded'
  <2>1. \A e \in Devs : e # d => Ahead(e)' = Ahead(e)
    BY <1>6, StepTail DEF Ahead
  <2>2. phase[d] = "unload" => Ahead(d) < 9
    BY <1>6, LeavingStep DEF Leaving, RemoveNext
  <2>3. \A e \in Devs : Stopped(e)' <=> Stopped(e)
    BY <1>6 DEF Stopped
  <2>4. phase[d] = "unload" => Stopped(d) /\ "irqs" \notin on[d]
    <3>1. Ahead(d) < 9 => Ahead(d) < 10
      BY <1>0
    <3> QED
      BY <2>2, <3>1 DEF Unloaded
  <2> QED
    BY <1>6, <2>1, <2>3, <2>4 DEF Unloaded
<1>7. ASSUME NEW d \in Devs,
             \/ Acquire(d) \/ EnablePci(d) \/ ListAdd(d) \/ ListDel(d)
             \/ Uncount(d) \/ Release(d) \/ Free(d)
      PROVE  Unloaded'
  <2>1. PICK s \in Steps : s \notin {"stop", "mask"} /\ Step(d, s)
    BY <1>7 DEF Acquire, EnablePci, ListAdd, ListDel, Uncount, Release, Free,
                Steps, Resources, Nodes
  <2>2. UNCHANGED <<phase, on, latched, spanned, handle, unloading>>
    BY <1>7 DEF Acquire, EnablePci, ListAdd, ListDel, Uncount, Release, Free,
                handler
  <2> QED
    BY <1>6, <2>1, <2>2
<1>8. ASSUME NEW d \in Devs, Interrupt(d) \/ Watchdog(d) PROVE Unloaded'
  <2>1. UNCHANGED <<phase, todo, latched, spanned, handle, unloading>>
    BY <1>8 DEF Interrupt, Watchdog, core, handler
  <2>2. \A e \in Devs : e # d => on'[e] = on[e]
    BY <1>8 DEF Interrupt, Watchdog, Shape
  <2>3. unloading => ~Streaming(d)
    BY DEF Unloaded, Closed, Streaming
  <2>4. unloading => on'[d] \subseteq on[d]
    <3>1. ASSUME Interrupt(d) PROVE on'[d] \subseteq on[d]
      BY <3>1 DEF Interrupt, Shape
    <3>2. ASSUME unloading, Watchdog(d) PROVE on' = on
      <4>1. Streaming(d) = FALSE
        BY <2>3, <3>2 DEF Streaming
      <4> QED
        BY <3>2, <4>1 DEF Watchdog
    <3> QED
      BY <1>8, <3>1, <3>2
  <2> QED
    BY <2>1, <2>2, <2>4 DEF Unloaded, Stopped, Ahead
<1>9. ASSUME Unload PROVE Unloaded'
  BY <1>9 DEF Unload, Unloaded, Stopped, Ahead, core, handler
<1>10. ASSUME NEW h \in Handles,
              \/ \E d \in Devs, n \in Nodes : Enter(h, d, n)
              \/ Lookup(h) \/ Opened(h) \/ Stream(h) \/ Close(h)
       PROVE  Unloaded'
  <2>1. ~unloading
    BY <1>10 DEF Unloaded, Closed, Enter, Lookup, Opened, Stream, Close
  <2>2. UNCHANGED <<phase, unloading>>
    BY <1>10 DEF Enter, Lookup, Opened, Stream, Close, core
  <2> QED
    BY <2>1, <2>2 DEF Unloaded
<1>11. ASSUME UNCHANGED vars PROVE Unloaded'
  BY <1>11 DEF Unloaded, Stopped, vars, core, handler, Ahead
<1>13. ASSUME NEW d \in Devs, FifoRead(d) PROVE Unloaded'
  <2>1. /\ latched' = [latched EXCEPT ![d] = IF "dma" \in on[d] THEN "on" ELSE "off"]
        /\ UNCHANGED <<phase, todo, on, spanned, handle, unloading>>
    BY <1>13 DEF FifoRead, core
  <2>2. Stopped(d) => Stopped(d)'
    BY <2>1 DEF Shape, Stopped
  <2>3. \A e \in Devs : e # d => (Stopped(e) => Stopped(e)')
    BY <2>1 DEF Shape, Stopped
  <2> QED
    BY <2>1, <2>2, <2>3 DEF Unloaded, Ahead
<1>14. ASSUME NEW d \in Devs, FifoWrite(d) PROVE Unloaded'
  <2>1. /\ on' = [on EXCEPT ![d] = IF latched[d] = "on" THEN @ \union {"dma"}
                                   ELSE @ \ {"dma"}]
        /\ latched' = [latched EXCEPT ![d] = "no"]
        /\ UNCHANGED <<phase, todo, spanned, handle, unloading>>
    BY <1>14 DEF FifoWrite, core
  <2>2. /\ \A e \in Devs : e # d => on'[e] = on[e] /\ latched'[e] = latched[e]
        /\ on'[d] = IF latched[d] = "on" THEN on[d] \union {"dma"} ELSE on[d] \ {"dma"}
        /\ latched'[d] = "no"
    BY <2>1 DEF Shape
  <2>3. \A e \in Devs : Stopped(e) => Stopped(e)'
    BY <2>1, <2>2 DEF Stopped
  <2>4. \A e \in Devs : "irqs" \in on'[e] <=> "irqs" \in on[e]
    BY <2>2
  <2> QED
    BY <2>1, <2>3, <2>4 DEF Unloaded, Ahead
<1> QED
  BY <1>1, <1>2, <1>3, <1>4, <1>5, <1>7, <1>8, <1>9, <1>10, <1>11, <1>12, <1>13,
     <1>14 DEF DeviceNext

-----------------------------------------------------------------------------
(* Who finds a device gone.                                                *)

\* Whoever walks the list meets no device that is gone but one that failed late.
LEMMA UsesListed ==
    ASSUME StagesInv, oops = "no", NEW entries \in SUBSET ToSet(devlist),
           UseEntries(entries)
    PROVE  oops' \in {"no", "failed_entry"}
<1>1. ToSet(devlist) \subseteq Devs
  BY DEF StagesInv, Shape, ToSet
<1>2. ASSUME NEW e \in entries, Gone(e) PROVE FailedLate(e)
  BY <1>1, <1>2, GoneHasNothing DEF FailedLate, Listed
<1> QED
  BY <1>2 DEF UseEntries

LEMMA HandlerSafe ==
    ASSUME StagesInv, NEW d \in Devs, "irq" \in has[d]
    PROVE  ~Gone(d) /\ "mmio" \in has[d] /\ ready[d]
<1>1. ~Gone(d)
  BY GoneHasNothing DEF NeverGivenBack
<1> QED
  BY <1>1 DEF StagesInv, Stage

LEMMA StaleStep ==
    ASSUME StagesInv, InHandler, Unloaded, OnlyKnownStaleUses, [DeviceNext]_vars
    PROVE  OnlyKnownStaleUses'
<1>1. CASE UNCHANGED vars
  BY <1>1 DEF OnlyKnownStaleUses, vars
<1> SUFFICES ASSUME DeviceNext PROVE OnlyKnownStaleUses'
  BY <1>1
<1>2. oops = "no"
  BY DEF DeviceNext
<1>3. ASSUME oops' \in {"no", "failed_entry", "watchdog"} PROVE OnlyKnownStaleUses'
  BY <1>3 DEF OnlyKnownStaleUses
<1>4. ASSUME NEW d \in Devs,
             \/ Probe(d) \/ Acquire(d) \/ Fail(d) \/ EnablePci(d) \/ HwInit1(d)
             \/ Probed(d) \/ FiniDev(d) \/ Stop(d) \/ Mask(d) \/ Uncount(d)
             \/ Release(d) \/ Free(d)
      PROVE  oops' = "no"
  BY <1>2, <1>4 DEF Probe, Acquire, Fail, EnablePci, HwInit1, Probed, FiniDev,
                    Stop, Mask, Uncount, Release, Free
<1>5. ASSUME NEW d \in Devs, ListAdd(d) PROVE oops' \in {"no", "failed_entry"}
  <2> DEFINE met == IF devlist = <<>> THEN {} ELSE {Last(devlist)}
  <2>1. met \subseteq ToSet(devlist)
    <3>1. devlist # <<>> => Len(devlist) \in DOMAIN devlist
      BY EmptySeq DEF StagesInv, Shape
    <3> QED
      BY <3>1 DEF Last, ToSet
  <2>2. UseEntries(met)
    BY <1>5 DEF ListAdd
  <2> HIDE DEF met
  <2> QED
    BY <1>2, <2>1, <2>2, UsesListed
<1>6. ASSUME NEW d \in Devs, ListDel(d) PROVE oops' \in {"no", "failed_entry"}
  <2>1. PICK i \in 1..Len(devlist) :
            UseEntries({devlist[j] : j \in {i - 1, i + 1}
                                           \intersect (1 .. Len(devlist))})
    BY <1>6 DEF ListDel
  <2> DEFINE met == {devlist[j] : j \in {i - 1, i + 1} \intersect (1 .. Len(devlist))}
  <2>2. met \subseteq ToSet(devlist)
    BY DEF StagesInv, Shape, ToSet
  <2>3. UseEntries(met)
    BY <2>1
  <2> HIDE DEF met
  <2> QED
    BY <1>2, <2>2, <2>3, UsesListed
<1>7. ASSUME NEW d \in Devs, Interrupt(d) \/ FifoRead(d) \/ FifoWrite(d)
      PROVE  oops' = "no"
  <2>1. "irq" \in has[d] /\ HandlerUses(d)
    BY <1>7 DEF InHandler, Interrupt, FifoRead, FifoWrite
  <2> QED
    BY <1>2, <2>1, HandlerSafe DEF HandlerUses
<1>8. ASSUME NEW d \in Devs, Watchdog(d) PROVE oops' \in {"no", "watchdog"}
  BY <1>2, <1>8 DEF Watchdog
<1>9. ASSUME NEW h \in Handles, Lookup(h) PROVE oops' \in {"no", "failed_entry"}
  <2> DEFINE d == handle[h].dev
             found == d \in ToSet(devlist) /\ handle[h].node \in has[d]
             upto == CHOOSE j \in 1 .. Len(devlist) : devlist[j] = d
             walked == IF found THEN {devlist[j] : j \in 1 .. upto}
                       ELSE ToSet(devlist)
  <2>1. DOMAIN devlist = 1 .. Len(devlist) /\ Len(devlist) \in Nat
    BY DEF StagesInv, Shape
  <2>2. d \in ToSet(devlist) => upto \in 1 .. Len(devlist)
    BY <2>1 DEF ToSet
  <2>3. UseEntries(walked)
    BY <1>9 DEF Lookup
  <2> HIDE DEF upto
  <2>4. walked \subseteq ToSet(devlist)
    BY <2>1, <2>2 DEF ToSet
  <2> HIDE DEF walked
  <2> QED
    BY <1>2, <2>3, <2>4, UsesListed
<1>10. ASSUME NEW h \in Handles, \E d \in Devs, n \in Nodes : Enter(h, d, n)
       PROVE  oops' = "no"
  BY <1>2, <1>10 DEF Enter
<1>11. ASSUME NEW h \in Handles, Opened(h) \/ Stream(h) \/ Close(h)
       PROVE  OnlyKnownStaleUses'
  <2>1. oops' \in {"no", "handle"}
    BY <1>2, <1>11 DEF Opened, Stream, Close, Uses
  <2>2. ~unloading /\ unloading' = unloading
    BY <1>11 DEF Unloaded, Closed, Opened, Stream, Close
  <2> QED
    BY <2>1, <2>2 DEF OnlyKnownStaleUses
<1>12. Unload => oops' = "no"
  BY <1>2 DEF Unload
<1> QED
  BY <1>3, <1>4, <1>5, <1>6, <1>7, <1>8, <1>9, <1>10, <1>11, <1>12 DEF DeviceNext

-----------------------------------------------------------------------------
(* The theorems.                                                           *)

LEMMA InvInit == ASSUME DeviceAssumption, DeviceInit PROVE Inv
<1>1. StagesInv
  BY ShapeInit, StageInit DEF StagesInv
<1>2. Counted = {} /\ OneMoves
  BY DEF DeviceInit, Counted, IsCounted, OneMoves, Moving
<1>3. Count
  BY <1>2, FS_EmptySet DEF Count, DeviceInit
<1>4. Room
  BY DEF DeviceAssumption, DeviceInit, Room
<1>5. InHandler /\ Unloaded /\ OnlyKnownStaleUses
  BY DEF DeviceInit, InHandler, Unloaded, OnlyKnownStaleUses
<1> QED
  BY <1>1, <1>2, <1>3, <1>4, <1>5 DEF Inv

LEMMA InvStep == ASSUME DeviceAssumption, Inv, [DeviceNext]_vars PROVE Inv'
<1>1. /\ StagesInv /\ OneMoves /\ Count /\ Room /\ InHandler /\ Unloaded
      /\ OnlyKnownStaleUses
  BY DEF Inv
<1>2. Shape /\ Shape'
  BY <1>1, ShapeStep DEF StagesInv
<1>3. StagesInv'
  BY <1>1, <1>2, StageStep DEF StagesInv
<1>4. OneMoves' /\ Count'
  BY <1>1, <1>2, MovesStep, CountStep
<1>5. Room'
  BY <1>1, <1>4, RoomStep
<1>6. InHandler' /\ Unloaded' /\ OnlyKnownStaleUses'
  BY <1>1, <1>2, InHandlerStep, UnloadedStep, StaleStep
<1> QED
  BY <1>3, <1>4, <1>5, <1>6 DEF Inv

\* The inductive invariant: of every device, what it holds and whether it is
\* listed follow from how far its probe or its removal has come.
THEOREM InvHolds == DeviceSpec => []Inv
<1>1. DeviceInit => Inv
  BY InvInit, DeviceAssumption
<1>2. Inv /\ [DeviceNext]_vars => Inv'
  BY InvStep, DeviceAssumption
<1> QED
  BY <1>1, <1>2, PTL DEF DeviceSpec

\* Every variable keeps its type; tw68_devcount stays within TW68_MAXBOARDS, and
\* dev->nr within the tables of the insmod options.
THEOREM TypesHold == DeviceSpec => []DeviceTypeOK
<1>1. ASSUME Inv PROVE DeviceTypeOK
  <2>1. devcount \in Nat /\ MaxBoards \in Nat
    BY <1>1, FS_CardinalityType, DeviceAssumption DEF Inv, Count, DeviceAssumption
  <2>2. devcount \in 0 .. MaxBoards
    BY <1>1, <2>1 DEF Inv, Room
  <2>3. /\ ready \in [Devs -> BOOLEAN] /\ timer \in [Devs -> BOOLEAN]
        /\ irqmask \in [Devs -> BOOLEAN] /\ spanned \in [Devs -> BOOLEAN]
    BY <1>1 DEF Inv, StagesInv, Shape
  <2> QED
    BY <1>1, <2>2, <2>3 DEF Inv, StagesInv, Shape, Room, DeviceTypeOK, HandleType
<1> QED
  BY <1>1, InvHolds, PTL

\* Only the watchdog, a handle outside of an unload, and whoever meets the entry
\* of a device that failed late find a device gone: tw68_irq never does.
THEOREM StaleUsesKnown == DeviceSpec => []OnlyKnownStaleUses
  BY InvHolds, PTL DEF Inv

\* From wherever tw68_initdev fails, and from tw68_finidev, a device whose memory
\* goes holds nothing but the enabled PCI device and the memory of the stopper,
\* and is listed only when one of its nodes failed.
THEOREM LeftBehindKnown == DeviceSpec => []OnlyKnownLeftBehind
<1>1. ASSUME Inv PROVE OnlyKnownLeftBehind
  BY <1>1, GoneHasNothing DEF Inv, OnlyKnownLeftBehind, Listed
<1> QED
  BY <1>1, InvHolds, PTL

\* While no device is being probed or removed, tw68_devcount is the number of
\* bound devices.
THEOREM CountsBound == DeviceSpec => []CountIsBound
<1>1. ASSUME Inv, Idle PROVE devcount = Cardinality({d \in Devs : phase[d] = "bound"})
  <2>1. ASSUME NEW d \in Devs PROVE IsCounted(d) <=> phase[d] = "bound"
    BY <1>1, GoneHasNothing DEF Inv, Idle, Gone, IsCounted
  <2>2. Counted = {d \in Devs : phase[d] = "bound"}
    BY <2>1 DEF Counted
  <2> QED
    BY <1>1, <2>2 DEF Inv, Count
<1>2. Inv => CountIsBound
  BY <1>1 DEF CountIsBound
<1> QED
  BY <1>2, InvHolds, PTL

\* Whoever can open a node of a device that is not being taken down finds it on
\* the list, with its registers, its interrupt and its queue in place.
THEOREM NodesFindDevices == DeviceSpec => []NodeFindsDevice
<1>1. ASSUME Inv, NEW d \in Devs, phase[d] \in {"probe", "bound"},
             has[d] \intersect Nodes # {}
      PROVE  d \in ToSet(devlist) /\ ready[d] /\ {"mmio", "irq"} \subseteq has[d]
  <2>1. Stage(d) /\ Ahead(d) \in Nat
    BY <1>1 DEF Inv, StagesInv, Shape, Ahead
  <2>2. CASE phase[d] = "probe"
    BY <1>1, <2>1, <2>2 DEF Stage, AlreadyHas, Nodes, Listed
  <2>3. CASE phase[d] = "bound"
    BY <2>1, <2>3 DEF Stage, Listed
  <2> QED
    BY <1>1, <2>2, <2>3
<1>2. Inv => NodeFindsDevice
  BY <1>1 DEF NodeFindsDevice
<1> QED
  BY <1>2, InvHolds, PTL

\* Once the module has been unloaded the chip raises no interrupts, whatever its
\* last user left running, and its engine runs only if tw68_irq was in the middle
\* of restarting the FIFO when tw68_finidev stopped it.
THEOREM UnloadIsQuiet == DeviceSpec => []QuietAfterUnload
<1>1. ASSUME Inv PROVE QuietAfterUnload
  BY <1>1, GoneHasNothing DEF Inv, Unloaded, Stopped, QuietAfterUnload
<1> QED
  BY <1>1, InvHolds, PTL

-----------------------------------------------------------------------------
(* The end of a probe and of a removal, without fairness.                   *)

\* A probe, its unwinding and a removal always have a next step that can be
\* taken: list_add_tail adds what is not on the list, list_del takes off what
\* is, the memory goes last, and free_irq waits for nothing but the end of the
\* handler.
HalfwayGoesOn ==
    \A d \in Devs :
        /\ phase[d] = "probe" /\ todo[d] # <<>> =>
              /\ Head(todo[d]) \in Resources \union {"pci", "init1", "list"}
              /\ Head(todo[d]) = "list" => ~Listed(d)
        /\ Leaving(d) /\ ~Gone(d) =>
              /\ todo[d] # <<>>
              /\ Head(todo[d]) \in
                    Resources \union {"stop", "mask", "list", "count", "nodes", "free"}
              /\ Head(todo[d]) = "list" => Listed(d)

\* However tw68_initdev and tw68_finidev go, they never come to a step that they
\* cannot take (somebody who meets freed memory ends the model, see oops).
THEOREM HalfwayGoesOnHolds == DeviceSpec => []HalfwayGoesOn
<1>1. ASSUME Inv, NEW d \in Devs, phase[d] = "probe", todo[d] # <<>>
      PROVE  /\ Head(todo[d]) \in Resources \union {"pci", "init1", "list"}
             /\ Head(todo[d]) = "list" => ~Listed(d)
  <2>1. todo[d] \in Seq(Steps) /\ IsTail(todo[d], ProbeOrder) /\ AlreadyHas(d)
    BY <1>1 DEF Inv, StagesInv, Shape, Stage
  <2>2. ProbeNext(Ahead(d), Head(todo[d]))
    BY <1>1, <2>1, HeadOfTail DEF Ahead
  <2>3. Head(todo[d]) \in Resources \union {"pci", "init1", "list"}
    BY <2>2 DEF ProbeNext, Resources, Nodes
  <2>4. Head(todo[d]) = "list" => Ahead(d) = 3
    BY <2>2 DEF ProbeNext
  <2>5. Head(todo[d]) = "list" => ~Listed(d)
    BY <2>1, <2>4 DEF AlreadyHas
  <2> QED
    BY <2>3, <2>5
<1>2. ASSUME Inv, NEW d \in Devs, Leaving(d), ~Gone(d)
      PROVE  /\ todo[d] # <<>>
             /\ Head(todo[d]) \in
                   Resources \union {"stop", "mask", "list", "count", "nodes", "free"}
             /\ Head(todo[d]) = "list" => Listed(d)
  <2>1. todo[d] \in Seq(Steps) /\ Stage(d) /\ StillHas(d)
    BY <1>2 DEF Inv, StagesInv, Shape, Stage, Leaving
  <2>2. todo[d] # <<>>
    BY <1>2, <2>1 DEF StillHas, Gone
  <2>3. /\ RemoveNext(Ahead(d), Head(todo[d]))
        /\ phase[d] = "undo" => Ahead(d) <= 6
    <3>1. CASE phase[d] = "undo"
      BY <2>1, <2>2, <3>1, HeadOfTail DEF Stage, Ahead, UndoNext
    <3>2. CASE phase[d] # "undo"
      BY <1>2, <2>1, <2>2, <3>2, HeadOfTail DEF Stage, Ahead, Leaving
    <3> QED
      BY <3>1, <3>2
  <2>4. Head(todo[d]) \in
           Resources \union {"stop", "mask", "list", "count", "nodes", "free"}
    BY <2>3 DEF RemoveNext, Resources
  <2>5. Head(todo[d]) = "list" => Ahead(d) = 8
    BY <2>3 DEF RemoveNext
  <2>6. Head(todo[d]) = "list" => Listed(d)
    BY <1>2, <2>1, <2>3, <2>5 DEF Stage, Leaving
  <2> QED
    BY <2>2, <2>4, <2>6
<1>3. Inv => HalfwayGoesOn
  BY <1>1, <1>2 DEF HalfwayGoesOn
<1> QED
  BY <1>3, InvHolds, PTL

\* How much of its life is ahead of a device: first the probe, then, from
\* wherever that fails or once it is bound, the way out.
LifeLeft(d) ==
    CASE phase[d] = "new" -> 22
      [] phase[d] = "probe" -> 12 + Ahead(d)
      [] phase[d] = "bound" -> 11
      [] OTHER -> Ahead(d)

SameStage(d) == phase'[d] = phase[d] /\ todo'[d] = todo[d]

\* No step of the PCI core or of the driver takes a device back.
LifeGoesDown ==
    \A d \in Devs : SameStage(d) \/ (LifeLeft(d) \in Nat /\ LifeLeft(d)' < LifeLeft(d))

\* A step that takes the next one off todo[d].
LEMMA StepAges ==
    ASSUME Shape, NEW d \in Devs, NEW s, Step(d, s), phase' = phase,
           phase[d] \notin {"new", "bound"}
    PROVE  LifeGoesDown
<1>1. /\ Ahead(d) \in Nat \ {0} /\ Ahead(d)' = Ahead(d) - 1
      /\ \A e \in Devs : e # d => todo'[e] = todo[e]
  BY StepTail
<1>2. \A e \in Devs : e # d => SameStage(e)
  BY <1>1 DEF SameStage
<1>3. LifeLeft(d) \in Nat /\ LifeLeft(d)' < LifeLeft(d)
  <2>1. CASE phase[d] = "probe"
    <3>1. LifeLeft(d) = 12 + Ahead(d) /\ LifeLeft(d)' = 12 + Ahead(d)'
      BY <2>1 DEF LifeLeft
    <3> QED
      BY <1>1, <3>1
  <2>2. CASE phase[d] # "probe"
    <3>1. LifeLeft(d) = Ahead(d) /\ LifeLeft(d)' = Ahead(d)'
      BY <2>2 DEF LifeLeft
    <3> QED
      BY <1>1, <3>1
  <2> QED
    BY <2>1, <2>2
<1> QED
  BY <1>2, <1>3 DEF LifeGoesDown

\* A device goes through its probe, and through its way out, once and without
\* turning back: with HalfwayGoesOn, each ends after a bounded number of steps,
\* whatever handles, interrupts and timers do meanwhile.
THEOREM LifeGoesDownHolds == DeviceSpec => [][LifeGoesDown]_vars
<1>1. ASSUME Inv, DeviceNext PROVE LifeGoesDown
  <2>0. Shape /\ \A d \in Devs : Stage(d)
    BY <1>1 DEF Inv, StagesInv
  <2>1. ASSUME NEW d \in Devs, Probe(d) PROVE LifeGoesDown
    <3>1. /\ phase[d] = "new" /\ phase' = [phase EXCEPT ![d] = "probe"]
          /\ todo' = [todo EXCEPT ![d] = ProbeOrder]
      BY <2>1 DEF Probe
    <3>2. phase'[d] = "probe" /\ Ahead(d)' = 9
      BY <2>0, <3>1, Orders DEF Shape, Ahead
    <3>3. LifeLeft(d) = 22 /\ LifeLeft(d)' = 12 + 9
      BY <3>1, <3>2 DEF LifeLeft
    <3>4. \A e \in Devs : e # d => SameStage(e)
      BY <2>0, <3>1 DEF Shape, SameStage
    <3> QED
      BY <3>3, <3>4 DEF LifeGoesDown
  <2>2. ASSUME NEW d \in Devs, Acquire(d) PROVE LifeGoesDown
    <3>1. phase[d] = "probe" /\ phase' = phase /\ \E r \in Resources : Step(d, r)
      BY <2>2 DEF Acquire
    <3> QED
      BY <2>0, <3>1, StepAges
  <2>3. ASSUME NEW d \in Devs, Fail(d) PROVE LifeGoesDown
    <3>1. PICK i \in 1..Len(UndoOrder) :
             todo' = [todo EXCEPT ![d] = SubSeq(UndoOrder, i, Len(UndoOrder))]
      BY <2>3 DEF Fail
    <3>2. /\ phase[d] = "probe" /\ phase' = [phase EXCEPT ![d] = "undo"]
      BY <2>3 DEF Fail
    <3>3. phase'[d] = "undo" /\ Ahead(d)' = 7 - i /\ i \in 1..6
      <4>1. Len(SubSeq(UndoOrder, i, Len(UndoOrder))) = Len(UndoOrder) + 1 - i
        BY Orders, EndIsTail
      <4>2. Len(UndoOrder) = 6
        BY Orders
      <4>3. todo'[d] = SubSeq(UndoOrder, i, Len(UndoOrder)) /\ phase'[d] = "undo"
        BY <2>0, <3>1, <3>2 DEF Shape
      <4> QED
        BY <4>1, <4>2, <4>3 DEF Ahead
    <3>4. Ahead(d) \in Nat
      BY <2>0 DEF Shape, Ahead
    <3>5. LifeLeft(d) = 12 + Ahead(d) /\ LifeLeft(d)' = 7 - i
      BY <3>2, <3>3 DEF LifeLeft
    <3>6. \A e \in Devs : e # d => SameStage(e)
      BY <2>0, <3>1, <3>2 DEF Shape, SameStage
    <3>7. LifeLeft(d) \in Nat /\ LifeLeft(d)' < LifeLeft(d)
      BY <3>3, <3>4, <3>5
    <3> QED
      BY <3>6, <3>7 DEF LifeGoesDown
  <2>4. ASSUME NEW d \in Devs,
               EnablePci(d) \/ HwInit1(d) \/ ListAdd(d)
        PROVE  LifeGoesDown
    <3>1. /\ phase[d] = "probe" /\ phase' = phase
          /\ \E s \in {"pci", "init1", "list"} : Step(d, s)
      BY <2>4 DEF EnablePci, HwInit1, ListAdd
    <3> QED
      BY <2>0, <3>1, StepAges
  <2>5. ASSUME NEW d \in Devs, Probed(d) PROVE LifeGoesDown
    <3>1. /\ phase[d] = "probe" /\ phase' = [phase EXCEPT ![d] = "bound"]
          /\ todo' = todo
      BY <2>5 DEF Probed
    <3>2. phase'[d] = "bound" /\ Ahead(d) \in Nat
      BY <2>0, <3>1 DEF Shape, Ahead
    <3>3. LifeLeft(d) = 12 + Ahead(d) /\ LifeLeft(d)' = 11
      BY <3>1, <3>2 DEF LifeLeft
    <3>4. \A e \in Devs : e # d => SameStage(e)
      BY <2>0, <3>1 DEF Shape, SameStage
    <3>5. LifeLeft(d) \in Nat /\ LifeLeft(d)' < LifeLeft(d)
      BY <3>2, <3>3
    <3> QED
      BY <3>4, <3>5 DEF LifeGoesDown
  <2>6. ASSUME NEW d \in Devs, FiniDev(d) PROVE LifeGoesDown
    <3>1. /\ phase[d] = "bound" /\ todo' = [todo EXCEPT ![d] = RemoveOrder]
          /\ \E p \in {"unload", "unbind"} : phase' = [phase EXCEPT ![d] = p]
      BY <2>6 DEF FiniDev
    <3>2. phase'[d] \in {"unload", "unbind"} /\ Ahead(d)' = 10
      BY <2>0, <3>1, Orders DEF Shape, Ahead
    <3>3. LifeLeft(d) = 11 /\ LifeLeft(d)' = 10
      BY <3>1, <3>2 DEF LifeLeft
    <3>4. \A e \in Devs : e # d => SameStage(e)
      BY <2>0, <3>1 DEF Shape, SameStage
    <3> QED
      BY <3>3, <3>4 DEF LifeGoesDown
  <2>7. ASSUME NEW d \in Devs,
               \/ Stop(d) \/ Mask(d) \/ ListDel(d) \/ Uncount(d)
               \/ Release(d) \/ Free(d)
        PROVE  LifeGoesDown
    <3>1. Leaving(d) /\ phase' = phase /\ \E s : Step(d, s)
      BY <2>7 DEF Stop, Mask, ListDel, Uncount, Release, Free
    <3>2. phase[d] \notin {"new", "bound"}
      BY <3>1 DEF Leaving
    <3> QED
      BY <2>0, <3>1, <3>2, StepAges
  <2>8. ASSUME UNCHANGED <<phase, todo>> PROVE LifeGoesDown
    BY <2>8 DEF LifeGoesDown, SameStage
  <2>9. ASSUME NEW d \in Devs,
               Interrupt(d) \/ FifoRead(d) \/ FifoWrite(d) \/ Watchdog(d)
        PROVE  LifeGoesDown
    BY <2>8, <2>9 DEF Interrupt, FifoRead, FifoWrite, Watchdog, core
  <2>10. ASSUME Unload PROVE LifeGoesDown
    BY <2>8, <2>10 DEF Unload, core
  <2>11. ASSUME NEW h \in Handles,
                \/ \E d \in Devs, n \in Nodes : Enter(h, d, n)
                \/ Lookup(h) \/ Opened(h) \/ Stream(h) \/ Close(h)
         PROVE  LifeGoesDown
    BY <2>8, <2>11 DEF Enter, Lookup, Opened, Stream, Close, core
  <2> QED
    BY <1>1, <2>1, <2>2, <2>3, <2>4, <2>5, <2>6, <2>7, <2>9, <2>10, <2>11
       DEF DeviceNext
<1>2. Inv /\ [DeviceNext]_vars => [LifeGoesDown]_vars
  BY <1>1
<1> QED
  BY <1>2, InvHolds, PTL DEF DeviceSpec
=============================================================================
