--------------------------- MODULE Tw68QueueProofs ---------------------------
(***************************************************************************)
(* Proofs about Tw68Queue, for every set of buffers, dimensions, fields    *)
(* and interrupt bits, and every number of passes of the interrupt         *)
(* handler.                                                                *)
(***************************************************************************)
EXTENDS Tw68Queue, WellFoundedInduction, SequenceTheorems, TLAPS

-----------------------------------------------------------------------------
(* Facts about the helpers of the model.                                   *)

\* Removing the head, appending, and cutting, index by index.
LEMMA TailAt ==
    ASSUME NEW S, NEW s \in Seq(S), s # <<>>
    PROVE  /\ Tail(s) \in Seq(S)
           /\ Len(Tail(s)) = Len(s) - 1
           /\ Len(s) \in Nat \ {0}
           /\ \A i \in 1..Len(Tail(s)) : Tail(s)[i] = s[i + 1]
           /\ Head(s) = s[1] /\ s[1] \in S
  OBVIOUS

LEMMA AppendAt ==
    ASSUME NEW S, NEW s \in Seq(S), NEW e \in S
    PROVE  /\ Append(s, e) \in Seq(S)
           /\ Len(Append(s, e)) = Len(s) + 1
           /\ \A i \in 1..Len(s) : Append(s, e)[i] = s[i]
           /\ Append(s, e)[Len(s) + 1] = e
  OBVIOUS

LEMMA CutAt ==
    ASSUME NEW S, NEW s \in Seq(S), NEW n \in 1..Len(s)
    PROVE  /\ SubSeq(s, 1, n) \in Seq(S)
           /\ Len(SubSeq(s, 1, n)) = n
           /\ \A i \in 1..n : SubSeq(s, 1, n)[i] = s[i]
           /\ SubSeq(s, n + 1, Len(s)) \in Seq(S)
           /\ Len(SubSeq(s, n + 1, Len(s))) = Len(s) - n
           /\ \A i \in 1..(Len(s) - n) :
                 SubSeq(s, n + 1, Len(s))[i] = s[n + i]
           /\ Head(s) = s[1]
           /\ s # <<>>
  OBVIOUS

\* The last element of a list that is not empty.
LEMMA LastAt ==
    ASSUME NEW S, NEW s \in Seq(S), s # <<>>
    PROVE  Last(s) = s[Len(s)] /\ Len(s) \in Nat \ {0} /\ Last(s) \in S
  BY DEF Last

\* The same operations on a list without repetitions, as sets.
LEMMA TailSet ==
    ASSUME NEW S, NEW s \in Seq(S), s # <<>>, IsInjective(s)
    PROVE  /\ IsInjective(Tail(s))
           /\ Head(s) \in ToSet(s)
           /\ ToSet(Tail(s)) = ToSet(s) \ {Head(s)}
<1>1. DOMAIN s = 1..Len(s) /\ DOMAIN Tail(s) = 1..(Len(s) - 1)
  BY TailAt
<1>2. /\ Len(s) \in Nat \ {0} /\ Head(s) = s[1]
      /\ \A i \in 1..(Len(s) - 1) : Tail(s)[i] = s[i + 1]
  BY TailAt
<1>3. IsInjective(Tail(s))
  BY <1>1, <1>2 DEF IsInjective
<1>4. ToSet(Tail(s)) \subseteq ToSet(s) \ {Head(s)}
  BY <1>1, <1>2 DEF IsInjective, ToSet
<1>5. ASSUME NEW i \in 1..Len(s), s[i] # Head(s)
      PROVE  s[i] \in ToSet(Tail(s))
  <2>1. i - 1 \in 1..(Len(s) - 1) /\ Tail(s)[i - 1] = s[i]
    BY <1>2, <1>5
  <2> QED
    BY <1>1, <2>1 DEF ToSet
<1> QED
  BY SMTT(60), <1>1, <1>2, <1>3, <1>4, <1>5 DEF ToSet

LEMMA AppendSet ==
    ASSUME NEW S, NEW s \in Seq(S), NEW e \in S, IsInjective(s), e \notin ToSet(s)
    PROVE  /\ IsInjective(Append(s, e))
           /\ ToSet(Append(s, e)) = ToSet(s) \union {e}
<1>1. DOMAIN s = 1..Len(s) /\ DOMAIN Append(s, e) = 1..(Len(s) + 1)
      /\ Len(s) \in Nat
  OBVIOUS
<1>2. /\ \A i \in 1..Len(s) : Append(s, e)[i] = s[i]
      /\ Append(s, e)[Len(s) + 1] = e
  BY AppendAt
<1>3. 1..(Len(s) + 1) = 1..Len(s) \union {Len(s) + 1}
  BY <1>1
<1> QED
  BY <1>1, <1>2, <1>3 DEF IsInjective, ToSet

LEMMA CutSet ==
    ASSUME NEW S, NEW s \in Seq(S), IsInjective(s), NEW n \in 1..Len(s)
    PROVE  /\ IsInjective(SubSeq(s, 1, n))
           /\ IsInjective(SubSeq(s, n + 1, Len(s)))
           /\ ToSet(SubSeq(s, 1, n)) = {s[i] : i \in 1..n}
           /\ ToSet(SubSeq(s, n + 1, Len(s))) = ToSet(s) \ {s[i] : i \in 1..n}
           /\ {s[i] : i \in 1..n} \subseteq ToSet(s)
<1> DEFINE hd == SubSeq(s, 1, n)
           tl == SubSeq(s, n + 1, Len(s))
<1>1. /\ DOMAIN s = 1..Len(s) /\ Len(s) \in Nat
      /\ DOMAIN hd = 1..n /\ DOMAIN tl = 1..(Len(s) - n)
      /\ \A i \in 1..n : hd[i] = s[i]
      /\ \A i \in 1..(Len(s) - n) : tl[i] = s[n + i]
  BY CutAt
<1> HIDE DEF hd, tl
<1>2. IsInjective(hd) /\ IsInjective(tl)
  <2>1. IsInjective(hd)
    BY <1>1 DEF IsInjective
  <2>2. ASSUME NEW i \in 1..(Len(s) - n), NEW j \in 1..(Len(s) - n),
               tl[i] = tl[j]
        PROVE  i = j
    <3>1. n + i \in 1..Len(s) /\ n + j \in 1..Len(s)
      BY <1>1
    <3>2. s[n + i] = s[n + j]
      BY <1>1, <2>2
    <3>3. n + i = n + j
      BY <1>1, <3>1, <3>2 DEF IsInjective
    <3> QED
      BY <3>3
  <2> QED
    BY <1>1, <2>1, <2>2 DEF IsInjective
<1>3. ToSet(hd) = {s[i] : i \in 1..n}
  BY <1>1 DEF ToSet
<1>4. ToSet(tl) \subseteq ToSet(s) \ {s[i] : i \in 1..n}
  BY <1>1 DEF ToSet, IsInjective
<1>5. ASSUME NEW i \in 1..Len(s), s[i] \notin {s[k] : k \in 1..n}
      PROVE  s[i] \in ToSet(tl)
  <2>1. i \notin 1..n
    BY <1>5
  <2>2. i - n \in 1..(Len(s) - n) /\ tl[i - n] = s[i]
    BY <1>1, <2>1
  <2> QED
    BY <1>1, <2>2 DEF ToSet
<1>6. {s[i] : i \in 1..n} \subseteq ToSet(s)
  BY <1>1 DEF ToSet
<1>7. ToSet(tl) = ToSet(s) \ {s[i] : i \in 1..n}
  <2>1. \A e \in ToSet(s) : \E i \in 1..Len(s) : e = s[i]
    BY <1>1 DEF ToSet
  <2> QED
    BY <1>4, <1>5, <2>1
<1> QED
  BY <1>2, <1>3, <1>6, <1>7 DEF hd, tl

LEMMA RemoveSet ==
    ASSUME NEW S, NEW s \in Seq(S), IsInjective(s), NEW i \in 1..Len(s)
    PROVE  /\ RemoveAt(s, i) \in Seq(S)
           /\ Len(RemoveAt(s, i)) = Len(s) - 1
           /\ \A k \in 1..(i - 1) : RemoveAt(s, i)[k] = s[k]
           /\ \A k \in i..(Len(s) - 1) : RemoveAt(s, i)[k] = s[k + 1]
           /\ IsInjective(RemoveAt(s, i))
           /\ ToSet(RemoveAt(s, i)) = ToSet(s) \ {s[i]}
           /\ s[i] \in ToSet(s)
<1> DEFINE r == RemoveAt(s, i)
<1>1. /\ r \in Seq(S) /\ Len(r) = Len(s) - 1 /\ Len(s) \in Nat
      /\ \A k \in 1..(i - 1) : r[k] = s[k]
      /\ \A k \in i..(Len(s) - 1) : r[k] = s[k + 1]
  <2> DEFINE hd == SubSeq(s, 1, i - 1)
             tl == SubSeq(s, i + 1, Len(s))
  <2>1. /\ hd \in Seq(S) /\ Len(hd) = i - 1 /\ Len(s) \in Nat
        /\ \A k \in 1..(i - 1) : hd[k] = s[k]
    OBVIOUS
  <2>2. /\ tl \in Seq(S) /\ Len(tl) = Len(s) - i
        /\ \A k \in 1..(Len(s) - i) : tl[k] = s[i + k]
    OBVIOUS
  <2>3. r = hd \o tl
    BY DEF RemoveAt
  <2> HIDE DEF hd, tl, r
  <2>4. /\ r \in Seq(S) /\ Len(r) = Len(s) - 1
        /\ \A k \in 1..(i - 1) : r[k] = hd[k]
        /\ \A k \in i..(Len(s) - 1) : r[k] = tl[k - (i - 1)]
    BY <2>1, <2>2, <2>3
  <2>5. \A k \in i..(Len(s) - 1) : k - (i - 1) \in 1..(Len(s) - i)
                                    /\ i + (k - (i - 1)) = k + 1
    BY <2>1
  <2> QED
    BY <2>1, <2>2, <2>4, <2>5
<1>2. DOMAIN s = 1..Len(s) /\ DOMAIN r = 1..(Len(s) - 1)
  BY <1>1
<1> HIDE DEF r
<1> DEFINE old(k) == IF k < i THEN k ELSE k + 1
<1>3. \A k \in 1..(Len(s) - 1) :
         old(k) \in 1..Len(s) /\ old(k) # i /\ r[k] = s[old(k)]
  BY <1>1
<1>31. \A k, m \in 1..(Len(s) - 1) : old(k) = old(m) => k = m
  BY <1>1
<1> HIDE DEF old
<1>32. \A k, m \in 1..Len(s) : s[k] = s[m] => k = m
  BY <1>2 DEF IsInjective
<1>33. IsInjective(r)
  BY <1>2, <1>3, <1>31, <1>32 DEF IsInjective
<1>4. \A k \in 1..(Len(s) - 1) : r[k] \in ToSet(s) \ {s[i]}
  BY <1>2, <1>3, <1>32 DEF ToSet
<1>5. ASSUME NEW k \in 1..Len(s), k # i PROVE s[k] \in ToSet(r)
  <2>0. \A m \in 1..(Len(s) - 1) : r[m] \in ToSet(r)
    BY <1>2 DEF ToSet
  <2>1. CASE k < i
    <3>1. k \in 1..(Len(s) - 1) /\ k \in 1..(i - 1)
      BY <1>1, <2>1
    <3> QED
      BY <1>1, <2>0, <3>1
  <2>2. CASE k > i
    <3>1. k - 1 \in i..(Len(s) - 1) /\ k - 1 \in 1..(Len(s) - 1) /\ (k - 1) + 1 = k
      BY <1>1, <2>2
    <3>2. r[k - 1] = s[k]
      BY <1>1, <3>1
    <3> QED
      BY <2>0, <3>1, <3>2
  <2> QED
    BY <1>5, <2>1, <2>2
<1>6. ToSet(r) = ToSet(s) \ {s[i]}
  <2>1. \A e \in ToSet(r) : \E k \in 1..(Len(s) - 1) : e = r[k]
    BY <1>2 DEF ToSet
  <2>2. \A e \in ToSet(s) : \E k \in 1..Len(s) : e = s[k]
    BY <1>2 DEF ToSet
  <2> QED
    BY <1>4, <1>5, <2>1, <2>2
<1> QED
  BY <1>1, <1>2, <1>33, <1>6 DEF r, ToSet

\* LinkFirst makes each of the first n - 1 programs of a list without
\* repetitions jump to its successor, and changes no other.
LEMMA LinkFirstAt ==
    ASSUME jmp \in [Bufs -> Bufs \union {Stopper}],
           NEW s \in Seq(Bufs), IsInjective(s), NEW n \in 1..Len(s)
    PROVE  /\ LinkFirst(s, n) \in [Bufs -> Bufs \union {Stopper}]
           /\ \A i \in 1..(n - 1) : LinkFirst(s, n)[s[i]] = s[i + 1]
           /\ \A b \in Bufs : (\A i \in 1..(n - 1) : s[i] # b)
                                => LinkFirst(s, n)[b] = jmp[b]
<1> DEFINE at(b) == CHOOSE i \in 1..(n - 1) : s[i] = b
<1>1. ASSUME NEW b \in Bufs, \E i \in 1..(n - 1) : s[i] = b
      PROVE  at(b) \in 1..(n - 1) /\ s[at(b)] = b
  BY <1>1
<1>2. \A i \in 1..(n - 1) : s[i] \in Bufs /\ s[i + 1] \in Bufs
  OBVIOUS
<1>3. ASSUME NEW i \in 1..(n - 1) PROVE at(s[i]) = i
  BY <1>1, <1>2 DEF IsInjective
<1>4. LinkFirst(s, n) = [b \in Bufs |-> IF \E i \in 1..(n - 1) : s[i] = b
                                        THEN s[at(b) + 1] ELSE jmp[b]]
  BY DEF LinkFirst
<1> HIDE DEF at
<1>5. LinkFirst(s, n) \in [Bufs -> Bufs \union {Stopper}]
  BY <1>1, <1>2, <1>4
<1>6. \A i \in 1..(n - 1) : LinkFirst(s, n)[s[i]] = s[i + 1]
  BY <1>2, <1>3, <1>4
<1> QED
  BY <1>4, <1>5, <1>6

-----------------------------------------------------------------------------
(* The inductive invariant.                                                *)

\* A queued program still ends in the stopper: only tw68_buffer_requeue
\* links it, when the buffer becomes active.
QueuedStops == \A i \in 1..Len(queued) : jmp[queued[i]] = Stopper

Inv ==
    /\ TypeOK
    /\ ListsMatchState
    /\ ScalerFitsActive
    /\ ChainFollowsActive
    /\ QueuedStops
    /\ WatchdogArmed

\* What tw68_buffer_timeout does: with nothing queued it only empties the
\* active list; otherwise a compatible run of n queued buffers replaces it.
TimeoutEmpties ==
    /\ queued = <<>> /\ active' = <<>> /\ queued' = <<>>
    /\ NoStartDma /\ UNCHANGED <<jmp, timer>>
    /\ \A b \in Bufs : state'[b] = IF state[b] = "ACTIVE" THEN "ERROR"
                                   ELSE state[b]

TimeoutAdvances(n) ==
    /\ n \in 1..Len(queued) /\ CompatRun(queued, n)
    /\ active' = SubSeq(queued, 1, n)
    /\ queued' = SubSeq(queued, n + 1, Len(queued))
    /\ jmp' = LinkFirst(queued, n)
    /\ StartDma(Head(queued)) /\ timer'
    /\ \A b \in Bufs :
         state'[b] = IF \E i \in 1..n : queued[i] = b THEN "ACTIVE"
                     ELSE IF state[b] = "ACTIVE" THEN "ERROR" ELSE state[b]

LEMMA TimeoutCases ==
    ASSUME TypeOK, ListsMatchState, BufferTimeout
    PROVE  /\ UNCHANGED <<geom, irq, full>> /\ firing' = FALSE
           /\ state' \in [Bufs -> BufStates]
           /\ TimeoutEmpties \/ \E n \in 1..Len(queued) : TimeoutAdvances(n)
<1> DEFINE st == [b \in Bufs |-> IF b \in ToSet(active) THEN "ERROR"
                                 ELSE state[b]]
<1>1. /\ st \in [Bufs -> BufStates]
      /\ \A b \in Bufs : st[b] = IF state[b] = "ACTIVE" THEN "ERROR"
                                 ELSE state[b]
  BY DEF TypeOK, ListsMatchState, BufStates
<1>2. Requeue(<<>>, queued, st) /\ UNCHANGED <<geom, irq, full>>
      /\ firing' = FALSE
  BY DEF BufferTimeout
<1> HIDE DEF st
<1>3. CASE queued = <<>>
  <2>1. /\ NoStartDma /\ UNCHANGED <<jmp, timer>>
        /\ active' = <<>> /\ queued' = <<>> /\ state' = st
    BY <1>2, <1>3 DEF Requeue
  <2> QED
    BY <1>1, <1>2, <1>3, <2>1 DEF TimeoutEmpties
<1>4. CASE queued # <<>>
  <2>1. PICK n \in 1..Len(queued) :
            /\ CompatRun(queued, n)
            /\ active' = SubSeq(queued, 1, n)
            /\ queued' = SubSeq(queued, n + 1, Len(queued))
            /\ state' = [b \in Bufs |-> IF \E i \in 1..n : queued[i] = b
                                        THEN "ACTIVE" ELSE st[b]]
            /\ jmp' = LinkFirst(queued, n)
    BY <1>2, <1>4 DEF Requeue
  <2>2. StartDma(Head(queued)) /\ timer'
    BY <1>2, <1>4 DEF Requeue, ModTimer
  <2>3. TimeoutAdvances(n)
    BY <1>1, <2>1, <2>2 DEF TimeoutAdvances
  <2> QED
    BY <1>1, <1>2, <2>1, <2>3 DEF BufStates
<1> QED
  BY <1>3, <1>4

\* What it does to the lists does not depend on the states of the buffers.
LEMMA TimeoutMoves ==
    ASSUME TypeOK, BufferTimeout
    PROVE  /\ UNCHANGED <<geom, irq, full>> /\ firing' = FALSE
           /\ state' \in [Bufs -> BufStates]
           /\ \A b \in Bufs :
                 \/ state'[b] = IF b \in ToSet(active) THEN "ERROR" ELSE state[b]
                 \/ b \in ToSet(queued) /\ state'[b] = "ACTIVE"
           /\ \/ /\ queued = <<>> /\ active' = <<>> /\ queued' = <<>>
                 /\ NoStartDma /\ UNCHANGED <<jmp, timer>>
                 /\ \A b \in Bufs \ ToSet(active) : state'[b] = state[b]
              \/ \E n \in 1..Len(queued) :
                    /\ active' = SubSeq(queued, 1, n)
                    /\ queued' = SubSeq(queued, n + 1, Len(queued))
                    /\ jmp' = LinkFirst(queued, n)
                    /\ StartDma(Head(queued)) /\ timer'
<1> DEFINE st == [b \in Bufs |-> IF b \in ToSet(active) THEN "ERROR"
                                 ELSE state[b]]
<1>1. /\ st \in [Bufs -> BufStates]
      /\ \A b \in Bufs \ ToSet(active) : st[b] = state[b]
      /\ \A b \in Bufs : st[b] = IF b \in ToSet(active) THEN "ERROR" ELSE state[b]
  BY DEF TypeOK, BufStates
<1>2. Requeue(<<>>, queued, st) /\ UNCHANGED <<geom, irq, full>>
      /\ firing' = FALSE
  BY DEF BufferTimeout
<1> HIDE DEF st
<1>3. CASE queued = <<>>
  BY <1>1, <1>2, <1>3 DEF Requeue
<1>4. CASE queued # <<>>
  <2>1. PICK n \in 1..Len(queued) :
            /\ active' = SubSeq(queued, 1, n)
            /\ queued' = SubSeq(queued, n + 1, Len(queued))
            /\ state' = [b \in Bufs |-> IF \E i \in 1..n : queued[i] = b
                                        THEN "ACTIVE" ELSE st[b]]
            /\ jmp' = LinkFirst(queued, n)
    BY <1>2, <1>4 DEF Requeue
  <2>2. StartDma(Head(queued)) /\ timer'
    BY <1>2, <1>4 DEF Requeue, ModTimer
  <2>3. /\ state' \in [Bufs -> BufStates]
        /\ \A b \in Bufs :
              \/ state'[b] = IF b \in ToSet(active) THEN "ERROR" ELSE state[b]
              \/ b \in ToSet(queued) /\ state'[b] = "ACTIVE"
    <3>1. \A i \in 1..n : queued[i] \in ToSet(queued)
      BY DEF ToSet, TypeOK
    <3>2. state' \in [Bufs -> BufStates]
      BY <1>1, <2>1 DEF BufStates
    <3>3. \A b \in Bufs : \/ state'[b] = st[b]
                          \/ b \in ToSet(queued) /\ state'[b] = "ACTIVE"
      BY <2>1, <3>1
    <3> QED
      BY <1>1, <3>2, <3>3
  <2> QED
    BY <1>2, <2>1, <2>2, <2>3
<1> QED
  BY <1>3, <1>4

-----------------------------------------------------------------------------
(* Types.                                                                  *)

LEMMA TypeInit == ASSUME QueueAssumption, Init PROVE TypeOK
<1>1. active \in Seq(Bufs) /\ queued \in Seq(Bufs)
  BY DEF Init
<1>2. irq \in [pc : {"idle", "serve", "reread"}, status : SUBSET IntBits,
               loop : 0..MaxIrqLoops]
  BY DEF QueueAssumption, Init, IrqIdle
<1> QED
  BY <1>1, <1>2 DEF Init, TypeOK, BufStates

LEMMA TypeStep ==
    ASSUME QueueAssumption, TypeOK, IsInjective(queued), [Next]_vars
    PROVE  TypeOK'
<1> USE DEF TypeOK, BufStates, IntBits
<1>1. ASSUME NEW b \in Bufs, Prepare(b) PROVE TypeOK'
  BY <1>1 DEF Prepare, lists, chip
<1>2. ASSUME NEW b \in Bufs, BufferQueue(b) PROVE TypeOK'
  <2>1. /\ state[b] = "PREPARED" /\ UNCHANGED <<geom, firing, irq, full>>
        /\ QueueFirst(b) \/ QueueChained(b) \/ QueueWaiting(b)
    BY <1>2 DEF BufferQueue
  <2>2. CASE QueueFirst(b)
    <3>1. /\ active' \in Seq(Bufs) /\ queued' \in Seq(Bufs)
          /\ state' \in [Bufs -> BufStates] /\ timer' \in BOOLEAN
          /\ jmp' \in [Bufs -> Bufs \union {Stopper}]
      BY <2>2 DEF QueueFirst, ModTimer
    <3> QED
      BY <2>1, <2>2, <3>1 DEF QueueFirst, StartDma
  <2>3. CASE QueueChained(b)
    <3>1. Last(active) \in Bufs /\ Append(active, b) \in Seq(Bufs)
      BY <2>3, LastAt DEF QueueChained
    <3>2. jmp' \in [Bufs -> Bufs \union {Stopper}]
      BY <2>3, <3>1 DEF QueueChained
    <3>3. /\ active' \in Seq(Bufs) /\ queued' \in Seq(Bufs)
          /\ state' \in [Bufs -> BufStates] /\ timer' \in BOOLEAN
      BY <2>3, <3>1 DEF QueueChained, ModTimer
    <3> QED
      BY <2>1, <2>3, <3>2, <3>3 DEF QueueChained, NoStartDma
  <2>4. CASE QueueWaiting(b)
    BY <2>1, <2>4 DEF QueueWaiting, NoStartDma
  <2> QED
    BY <2>1, <2>2, <2>3, <2>4
<1>3. ASSUME NEW b \in Bufs, Dequeue(b) \/ DmaFree(b) PROVE TypeOK'
  BY <1>3 DEF Dequeue, DmaFree, lists, chip
<1>4. ASSUME NEW b \in Bufs, QueueCancel(b) PROVE TypeOK'
  <2>1. queued' \in Seq(Bufs)
    BY <1>4, RemoveSet DEF QueueCancel
  <2> QED
    BY <1>4, <2>1 DEF QueueCancel, chip
<1>5. ASSUME TimerExpire PROVE TypeOK'
  BY <1>5 DEF TimerExpire, lists, chip
<1>6. ASSUME BufferTimeout PROVE TypeOK'
  <2>1. /\ UNCHANGED <<geom, irq, full>> /\ firing' = FALSE
        /\ state' \in [Bufs -> BufStates]
    BY <1>6, TimeoutMoves
  <2>2. CASE /\ active' = <<>> /\ queued' = <<>>
             /\ NoStartDma /\ UNCHANGED <<jmp, timer>>
    <3>1. /\ active' \in Seq(Bufs) /\ queued' \in Seq(Bufs)
          /\ UNCHANGED <<jmp, timer, pp, hwgeom, intstat, intmask, lateIrq>>
      BY <2>2 DEF NoStartDma
    <3> QED
      BY <2>1, <3>1
  <2>3. ASSUME NEW n \in 1..Len(queued),
               active' = SubSeq(queued, 1, n),
               queued' = SubSeq(queued, n + 1, Len(queued)),
               jmp' = LinkFirst(queued, n),
               StartDma(Head(queued)), timer'
        PROVE  TypeOK'
    <3>1. /\ active' \in Seq(Bufs) /\ queued' \in Seq(Bufs)
          /\ Head(queued) \in Bufs
      BY <2>3, CutAt
    <3>2. jmp' \in [Bufs -> Bufs \union {Stopper}]
      BY <2>3, LinkFirstAt
    <3> QED
      BY <2>1, <2>3, <3>1, <3>2 DEF StartDma
  <2>4. \/ /\ active' = <<>> /\ queued' = <<>>
           /\ NoStartDma /\ UNCHANGED <<jmp, timer>>
        \/ \E n \in 1..Len(queued) :
              /\ active' = SubSeq(queued, 1, n)
              /\ queued' = SubSeq(queued, n + 1, Len(queued))
              /\ jmp' = LinkFirst(queued, n)
              /\ StartDma(Head(queued)) /\ timer'
    <3>1. TypeOK
      OBVIOUS
    <3> HIDE DEF TypeOK, BufStates
    <3> QED
      BY <1>6, <3>1, TimeoutMoves
  <2> QED
    BY <2>2, <2>3, <2>4
<1>7. ASSUME IrqEnter PROVE TypeOK'
  BY <1>7 DEF QueueAssumption, IrqEnter, TakeStatus, lists
<1>8. ASSUME IrqVideoDone PROVE TypeOK'
  <2>1. active # <<>> => Tail(active) \in Seq(Bufs) /\ Head(active) \in Bufs
    BY TailAt
  <2> QED
    BY <1>8, <2>1 DEF IrqVideoDone, Wakeup, ModTimer, chip
<1>9. ASSUME IrqReread PROVE TypeOK'
  <2>1. irq' \in [pc : {"idle", "serve", "reread"}, status : SUBSET IntBits,
                  loop : 0..MaxIrqLoops]
    BY <1>9 DEF QueueAssumption, IrqReread, IrqIdle, TakeStatus
  <2> QED
    BY <1>9, <2>1 DEF IrqReread, TakeStatus, lists
<1>10. ASSUME EngineFinish \/ EngineWild \/ HwFault PROVE TypeOK'
  BY <1>10 DEF EngineFinish, EngineWild, HwFault, lists
<1>11. ASSUME UNCHANGED vars PROVE TypeOK'
  BY <1>11 DEF vars
<1> QED
  BY <1>1, <1>2, <1>3, <1>4, <1>5, <1>6, <1>7, <1>8, <1>9, <1>10, <1>11
     DEF Next, Videobuf
-----------------------------------------------------------------------------
(* The lists and the states of the buffers.                                *)

LEMMA ListsInit == ASSUME Init PROVE ListsMatchState
  BY DEF Init, ListsMatchState, ToSet, IsInjective

\* The run of n queued buffers that replaces the active list.
LEMMA AdvanceLists ==
    ASSUME TypeOK, ListsMatchState,
           NEW n \in 1..Len(queued), TimeoutAdvances(n)
    PROVE  ListsMatchState'
<1> USE DEF TypeOK, ListsMatchState
<1> DEFINE moved == {queued[i] : i \in 1..n}
<1>1. /\ IsInjective(active') /\ IsInjective(queued')
      /\ ToSet(active') = moved
      /\ ToSet(queued') = ToSet(queued) \ moved
      /\ moved \subseteq ToSet(queued)
  BY CutSet DEF TimeoutAdvances
<1>2. \A b \in Bufs :
         state'[b] = IF b \in moved THEN "ACTIVE"
                     ELSE IF state[b] = "ACTIVE" THEN "ERROR" ELSE state[b]
  BY DEF TimeoutAdvances
<1> HIDE DEF moved
<1> QED
  BY <1>1, <1>2

LEMMA ListsStep ==
    ASSUME QueueAssumption, TypeOK, ListsMatchState, [Next]_vars
    PROVE  ListsMatchState'
<1> USE DEF TypeOK, ListsMatchState
<1>1. ASSUME NEW b \in Bufs,
             Prepare(b) \/ Dequeue(b) \/ DmaFree(b)
      PROVE  ListsMatchState'
  BY <1>1 DEF Prepare, Dequeue, DmaFree, lists
<1>2. ASSUME NEW b \in Bufs, BufferQueue(b) PROVE ListsMatchState'
  <2>1. state[b] = "PREPARED" /\ b \notin ToSet(active) /\ b \notin ToSet(queued)
    BY <1>2 DEF BufferQueue
  <2>2. CASE QueueFirst(b)
    <3>1. /\ IsInjective(active') /\ ToSet(active') = {b}
          /\ ToSet(active) = {} /\ UNCHANGED queued
      BY <2>2 DEF QueueFirst, IsInjective, ToSet
    <3> QED
      BY <2>1, <2>2, <3>1 DEF QueueFirst
  <2>3. CASE QueueChained(b)
    BY <2>1, <2>3, AppendSet DEF QueueChained
  <2>4. CASE QueueWaiting(b)
    BY <2>1, <2>4, AppendSet DEF QueueWaiting
  <2> QED
    BY <1>2, <2>2, <2>3, <2>4 DEF BufferQueue
<1>3. ASSUME NEW b \in Bufs, QueueCancel(b) PROVE ListsMatchState'
  <2>1. /\ ToSet(queued') = ToSet(queued) \ {b} /\ IsInjective(queued')
        /\ b \in ToSet(queued)
    BY SMTT(60), <1>3, RemoveSet DEF QueueCancel
  <2> QED
    BY <1>3, <2>1 DEF QueueCancel
<1>4. ASSUME BufferTimeout PROVE ListsMatchState'
  <2>1. TimeoutEmpties \/ \E n \in 1..Len(queued) : TimeoutAdvances(n)
    BY <1>4, TimeoutCases
  <2>2. CASE TimeoutEmpties
    <3>1. /\ ToSet(active') = {} /\ IsInjective(active')
          /\ ToSet(queued') = {} /\ IsInjective(queued')
          /\ ToSet(queued) = {}
      BY <2>2 DEF TimeoutEmpties, ToSet, IsInjective
    <3> QED
      BY <2>2, <3>1 DEF TimeoutEmpties
  <2>3. ASSUME NEW n \in 1..Len(queued), TimeoutAdvances(n)
        PROVE  ListsMatchState'
    BY <2>3, AdvanceLists
  <2> QED
    BY <2>1, <2>2, <2>3
<1>5. ASSUME IrqVideoDone PROVE ListsMatchState'
  <2>1. CASE active # <<>> /\ DMAPI \in irq.status
    <3>1. /\ active' = Tail(active) /\ UNCHANGED queued
          /\ state' = [state EXCEPT ![Head(active)] = "DONE"]
      BY <1>5, <2>1 DEF IrqVideoDone, Wakeup
    <3>2. /\ IsInjective(active') /\ ToSet(active') = ToSet(active) \ {Head(active)}
          /\ Head(active) \in Bufs /\ Head(active) \in ToSet(active)
      BY <2>1, <3>1, TailSet, TailAt
    <3> QED
      BY <3>1, <3>2
  <2>2. CASE ~(active # <<>> /\ DMAPI \in irq.status)
    BY <1>5, <2>2 DEF IrqVideoDone, Wakeup
  <2> QED
    BY <2>1, <2>2
<1>6. ASSUME \/ TimerExpire \/ IrqEnter \/ IrqReread
             \/ EngineFinish \/ EngineWild \/ HwFault \/ UNCHANGED vars
      PROVE  ListsMatchState'
  <2>1. UNCHANGED <<active, queued, state>>
    BY <1>6 DEF TimerExpire, IrqEnter, IrqReread, EngineFinish, EngineWild,
                HwFault, vars, lists
  <2> QED
    BY <2>1
<1> QED
  BY <1>1, <1>2, <1>3, <1>4, <1>5, <1>6 DEF Next, Videobuf
\* Elements of the lists, by position.
LEMMA ListAt ==
    ASSUME TypeOK, ListsMatchState
    PROVE  /\ Len(active) \in Nat /\ Len(queued) \in Nat
           /\ \A i \in 1..Len(active) :
                 active[i] \in Bufs /\ state[active[i]] = "ACTIVE"
           /\ \A i \in 1..Len(queued) :
                 queued[i] \in Bufs /\ state[queued[i]] = "QUEUED"
           /\ \A i, j \in 1..Len(active) : active[i] = active[j] => i = j
           /\ \A i, j \in 1..Len(queued) : queued[i] = queued[j] => i = j
<1>1. /\ DOMAIN active = 1..Len(active) /\ Len(active) \in Nat
      /\ DOMAIN queued = 1..Len(queued) /\ Len(queued) \in Nat
      /\ \A i \in 1..Len(active) : active[i] \in Bufs
      /\ \A i \in 1..Len(queued) : queued[i] \in Bufs
  BY DEF TypeOK
<1>2. /\ \A i \in 1..Len(active) : active[i] \in ToSet(active)
      /\ \A i \in 1..Len(queued) : queued[i] \in ToSet(queued)
  BY <1>1 DEF ToSet
<1>3. /\ \A i \in 1..Len(active) : state[active[i]] = "ACTIVE"
      /\ \A i \in 1..Len(queued) : state[queued[i]] = "QUEUED"
  BY <1>1, <1>2 DEF ListsMatchState
<1> QED
  BY <1>1, <1>3 DEF ListsMatchState, IsInjective

-----------------------------------------------------------------------------
(* The scaler.                                                             *)

LEMMA LeastElement ==
    ASSUME NEW T \in SUBSET Nat, T # {}
    PROVE  \E x \in T : \A y \in T : x <= y
<1>1. PICK x \in T : \A y \in T : <<y, x>> \notin OpToRel(<, Nat)
  BY NatLessThanWellFounded, WFMin
<1>2. \A y \in T : ~(y < x)
  BY <1>1 DEF OpToRel
<1> QED
  BY <1>2

\* Compatibility, checked against the buffer before, holds along the run.
LEMMA RunHasOneDim ==
    ASSUME TypeOK, NEW n \in 1..Len(queued), CompatRun(queued, n)
    PROVE  \A i \in 1..n : geom[queued[i]].dim = geom[queued[1]].dim
<1> DEFINE T == {i \in 1..n : geom[queued[i]].dim # geom[queued[1]].dim}
<1>1. SUFFICES ASSUME T # {} PROVE FALSE
  OBVIOUS
<1>2. PICK x \in T : \A y \in T : x <= y
  <2>1. T \in SUBSET Nat
    OBVIOUS
  <2> HIDE DEF T
  <2> QED
    BY <1>1, <2>1, LeastElement
<1>3. x \in 2..n /\ x - 1 \in 1..(n - 1) /\ x - 1 \notin T
  BY <1>2
<1>4. geom[queued[x - 1]].dim = geom[queued[1]].dim
  BY <1>3
<1>5. geom[queued[x - 1]].dim = geom[queued[x]].dim
  BY <1>3 DEF CompatRun, BufCompat
<1> QED
  BY <1>4, <1>5

LEMMA AdvanceScaler ==
    ASSUME TypeOK, UNCHANGED geom,
           NEW n \in 1..Len(queued), TimeoutAdvances(n)
    PROVE  ScalerFitsActive'
<1>1. /\ Len(active') = n /\ \A i \in 1..n : active'[i] = queued[i]
      /\ hwgeom' = geom[queued[1]]
  BY CutAt DEF TimeoutAdvances, StartDma, TypeOK
<1>2. \A i \in 1..n : geom[queued[i]].dim = geom[queued[1]].dim
  BY RunHasOneDim DEF TimeoutAdvances
<1> QED
  BY <1>1, <1>2 DEF ScalerFitsActive

LEMMA ScalerStep ==
    ASSUME TypeOK, ListsMatchState, ScalerFitsActive, [Next]_vars
    PROVE  ScalerFitsActive'
<1> USE DEF ScalerFitsActive
<1>1. ASSUME NEW b \in Bufs, Prepare(b) PROVE ScalerFitsActive'
  <2>1. \A c \in Bufs : state[c] = "ACTIVE" => geom'[c] = geom[c]
    BY <1>1 DEF Prepare, TypeOK
  <2>2. UNCHANGED <<active, hwgeom>>
    BY <1>1 DEF Prepare, lists, chip
  <2> QED
    BY <2>1, <2>2, ListAt
<1>2. ASSUME NEW b \in Bufs, BufferQueue(b) PROVE ScalerFitsActive'
  <2>1. UNCHANGED geom
    BY <1>2 DEF BufferQueue
  <2>2. CASE QueueFirst(b)
    <3>1. Len(active') = 1 /\ active'[1] = b /\ hwgeom' = geom[b]
      BY <2>2 DEF QueueFirst, StartDma
    <3> QED
      BY <2>1, <3>1
  <2>3. CASE QueueChained(b)
    <3>1. /\ active' = Append(active, b) /\ UNCHANGED hwgeom
          /\ active # <<>> /\ geom[Last(active)].dim = geom[b].dim
      BY <2>3 DEF QueueChained, NoStartDma, BufCompat
    <3>2. geom[b].dim = hwgeom.dim
      <4>1. Last(active) = active[Len(active)] /\ Len(active) \in Nat \ {0}
        BY <3>1, LastAt DEF TypeOK
      <4> QED
        BY <3>1, <4>1
    <3> QED
      BY <2>1, <3>1, <3>2, AppendAt DEF TypeOK
  <2>4. CASE QueueWaiting(b)
    BY <2>1, <2>4 DEF QueueWaiting, NoStartDma
  <2> QED
    BY <1>2, <2>2, <2>3, <2>4 DEF BufferQueue
<1>3. ASSUME BufferTimeout PROVE ScalerFitsActive'
  <2>1. /\ UNCHANGED geom
        /\ TimeoutEmpties \/ \E n \in 1..Len(queued) : TimeoutAdvances(n)
    BY <1>3, TimeoutCases
  <2>2. CASE TimeoutEmpties
    BY <2>2 DEF TimeoutEmpties
  <2>3. ASSUME NEW n \in 1..Len(queued), TimeoutAdvances(n)
        PROVE  ScalerFitsActive'
    BY <2>1, <2>3, AdvanceScaler
  <2> QED
    BY <2>1, <2>2, <2>3
<1>4. ASSUME IrqVideoDone PROVE ScalerFitsActive'
  <2>1. UNCHANGED <<geom, hwgeom>>
    BY <1>4 DEF IrqVideoDone, chip
  <2>2. active' = active \/ (active # <<>> /\ active' = Tail(active))
    BY <1>4 DEF IrqVideoDone, Wakeup
  <2>3. \A i \in 1..Len(active') : \E k \in 1..Len(active) : active'[i] = active[k]
    <3>1. CASE active # <<>> /\ active' = Tail(active)
      <4>1. /\ Len(active') = Len(active) - 1 /\ Len(active) \in Nat
            /\ \A i \in 1..Len(active') : active'[i] = active[i + 1]
        BY <3>1, TailAt DEF TypeOK
      <4> QED
        BY <4>1
    <3> QED
      BY <2>2, <3>1
  <2> QED
    BY <2>1, <2>3
<1>5. ASSUME \/ \E b \in Bufs : Dequeue(b) \/ DmaFree(b) \/ QueueCancel(b)
             \/ TimerExpire \/ IrqEnter \/ IrqReread
             \/ EngineFinish \/ EngineWild \/ HwFault \/ UNCHANGED vars
      PROVE  ScalerFitsActive'
  <2>1. UNCHANGED <<active, geom, hwgeom>>
    BY <1>5 DEF Dequeue, DmaFree, QueueCancel, TimerExpire, IrqEnter, IrqReread,
                EngineFinish, EngineWild, HwFault, vars, lists, chip
  <2> QED
    BY <2>1
<1> QED
  BY <1>1, <1>2, <1>3, <1>4, <1>5 DEF Next, Videobuf
-----------------------------------------------------------------------------
(* The chain of programs.                                                  *)

\* Every buffer that is queued after a cancellation was queued before it.
LEMMA RemoveFrom ==
    ASSUME NEW S, NEW s \in Seq(S), IsInjective(s), NEW i \in 1..Len(s),
           NEW k \in 1..Len(RemoveAt(s, i))
    PROVE  \E m \in 1..Len(s) : RemoveAt(s, i)[k] = s[m]
<1> DEFINE r == RemoveAt(s, i)
<1>1. /\ Len(r) = Len(s) - 1 /\ Len(s) \in Nat
      /\ \A j \in 1..(i - 1) : r[j] = s[j]
      /\ \A j \in i..(Len(s) - 1) : r[j] = s[j + 1]
  BY RemoveSet
<1>2. k \in 1..Len(r)
  OBVIOUS
<1> HIDE DEF r
<1>3. CASE k < i
  <2>1. k \in 1..(i - 1) /\ k \in 1..Len(s)
    BY <1>1, <1>2, <1>3
  <2> QED
    BY <1>1, <2>1 DEF r
<1>4. CASE k >= i
  <2>1. k \in i..(Len(s) - 1) /\ k + 1 \in 1..Len(s)
    BY <1>1, <1>2, <1>4
  <2> QED
    BY <1>1, <2>1 DEF r
<1> QED
  BY <1>1, <1>2, <1>3, <1>4

LEMMA CancelShifts ==
    ASSUME TypeOK, ListsMatchState, NEW b \in Bufs, QueueCancel(b)
    PROVE  \A k \in 1..Len(queued') :
              \E m \in 1..Len(queued) : queued'[k] = queued[m]
<1>1. PICK i \in 1..Len(queued) : queued' = RemoveAt(queued, i)
  BY DEF QueueCancel
<1>2. queued \in Seq(Bufs) /\ IsInjective(queued)
  BY DEF TypeOK, ListsMatchState
<1>3. \A k \in 1..Len(RemoveAt(queued, i)) :
         \E m \in 1..Len(queued) : RemoveAt(queued, i)[k] = queued[m]
  BY <1>1, <1>2, RemoveFrom
<1> QED
  BY <1>1, <1>3

LEMMA AdvanceChain ==
    ASSUME TypeOK, ListsMatchState, QueuedStops,
           NEW n \in 1..Len(queued), TimeoutAdvances(n)
    PROVE  ChainFollowsActive' /\ QueuedStops'
<1> USE DEF ChainFollowsActive, QueuedStops
<1>1. /\ Len(active') = n /\ \A i \in 1..n : active'[i] = queued[i]
      /\ Len(queued') = Len(queued) - n
      /\ \A i \in 1..(Len(queued) - n) : queued'[i] = queued[n + i]
      /\ Len(queued) \in Nat
  BY CutAt DEF TimeoutAdvances, TypeOK
<1>2. /\ \A i \in 1..(n - 1) : jmp'[queued[i]] = queued[i + 1]
      /\ \A b \in Bufs : (\A i \in 1..(n - 1) : queued[i] # b)
                           => jmp'[b] = jmp[b]
  BY SMTT(60), LinkFirstAt DEF TimeoutAdvances, TypeOK, ListsMatchState
<1>3. ASSUME NEW k \in n..Len(queued) PROVE jmp'[queued[k]] = Stopper
  <2>1. queued[k] \in Bufs /\ \A i \in 1..(n - 1) : queued[i] # queued[k]
    BY <1>1, ListAt
  <2> QED
    BY <1>1, <1>2, <2>1
<1>4. ChainFollowsActive'
  <2> SUFFICES ASSUME NEW i \in 1..n
               PROVE  jmp'[active'[i]] = IF i < n THEN active'[i + 1]
                                         ELSE Stopper
    BY <1>1
  <2>1. CASE i < n
    <3>1. i \in 1..(n - 1) /\ i + 1 \in 1..n
      BY <2>1
    <3> QED
      BY <1>1, <1>2, <2>1, <3>1
  <2>2. CASE i = n
    <3>1. i \in n..Len(queued)
      BY <1>1, <2>2
    <3> QED
      BY <1>1, <1>3, <2>2, <3>1
  <2> QED
    BY <2>1, <2>2
<1>5. QueuedStops'
  <2>1. \A i \in 1..(Len(queued) - n) : n + i \in n..Len(queued)
    BY <1>1
  <2> QED
    BY <1>1, <1>3, <2>1
<1> QED
  BY <1>4, <1>5

LEMMA ChainStep ==
    ASSUME TypeOK, ListsMatchState, ChainFollowsActive, QueuedStops, [Next]_vars
    PROVE  ChainFollowsActive' /\ QueuedStops'
<1> USE DEF ChainFollowsActive, QueuedStops
<1>1. ASSUME NEW b \in Bufs, BufferQueue(b)
      PROVE  ChainFollowsActive' /\ QueuedStops'
  <2>1. /\ state[b] = "PREPARED" /\ Len(active) \in Nat /\ Len(queued) \in Nat
        /\ \A i \in 1..Len(active) : active[i] # b /\ active[i] \in Bufs
        /\ \A i \in 1..Len(queued) : queued[i] # b /\ queued[i] \in Bufs
    BY <1>1, ListAt DEF BufferQueue
  <2>2. CASE QueueFirst(b)
    <3>1. /\ Len(active') = 1 /\ active'[1] = b /\ queued' = <<>>
          /\ jmp'[b] = Stopper
      BY <2>2 DEF QueueFirst, TypeOK
    <3> QED
      BY <3>1
  <2>3. CASE QueueChained(b)
    <3>1. /\ Last(active) = active[Len(active)] /\ Len(active) \in Nat \ {0}
          /\ Len(active') = Len(active) + 1 /\ UNCHANGED queued /\ queued = <<>>
          /\ \A i \in 1..Len(active) : active'[i] = active[i]
          /\ active'[Len(active) + 1] = b
      BY <2>3, LastAt, AppendAt DEF QueueChained, TypeOK
    <3>2. /\ jmp'[b] = Stopper /\ jmp'[active[Len(active)]] = b
          /\ \A c \in Bufs \ {b, active[Len(active)]} : jmp'[c] = jmp[c]
      BY <2>1, <2>3, <3>1 DEF QueueChained, TypeOK
    <3>3. ASSUME NEW i \in 1..(Len(active) - 1)
          PROVE  jmp'[active[i]] = active[i + 1]
      <4>1. active[i] # active[Len(active)]
        BY <2>1, ListAt
      <4> QED
        BY <2>1, <3>2, <4>1
    <3> QED
      BY <3>1, <3>2, <3>3
  <2>4. CASE QueueWaiting(b)
    <3>1. /\ Len(queued') = Len(queued) + 1 /\ UNCHANGED active
          /\ \A i \in 1..Len(queued) : queued'[i] = queued[i]
          /\ queued'[Len(queued) + 1] = b
      BY <2>4, AppendAt DEF QueueWaiting, TypeOK
    <3>2. jmp'[b] = Stopper /\ \A c \in Bufs \ {b} : jmp'[c] = jmp[c]
      BY <2>4 DEF QueueWaiting, TypeOK
    <3> QED
      BY <2>1, <3>1, <3>2
  <2> QED
    BY <1>1, <2>2, <2>3, <2>4 DEF BufferQueue
<1>2. ASSUME NEW b \in Bufs, DmaFree(b)
      PROVE  ChainFollowsActive' /\ QueuedStops'
  <2>1. /\ UNCHANGED <<active, queued>>
        /\ \A c \in Bufs : state[c] \in {"ACTIVE", "QUEUED"} => jmp'[c] = jmp[c]
    BY <1>2 DEF DmaFree, TypeOK, lists
  <2> QED
    BY <2>1, ListAt
<1>3. ASSUME NEW b \in Bufs, QueueCancel(b)
      PROVE  ChainFollowsActive' /\ QueuedStops'
  <2>1. UNCHANGED <<active, jmp>>
    BY <1>3 DEF QueueCancel
  <2>2. \A k \in 1..Len(queued') :
           \E m \in 1..Len(queued) : queued'[k] = queued[m]
    BY <1>3, CancelShifts
  <2> QED
    BY <2>1, <2>2
<1>4. ASSUME BufferTimeout PROVE ChainFollowsActive' /\ QueuedStops'
  <2>1. TimeoutEmpties \/ \E n \in 1..Len(queued) : TimeoutAdvances(n)
    BY <1>4, TimeoutCases
  <2>2. CASE TimeoutEmpties
    BY <2>2 DEF TimeoutEmpties
  <2>3. ASSUME NEW n \in 1..Len(queued), TimeoutAdvances(n)
        PROVE  ChainFollowsActive' /\ QueuedStops'
    BY <2>3, AdvanceChain
  <2> QED
    BY <2>1, <2>2, <2>3
<1>5. ASSUME IrqVideoDone PROVE ChainFollowsActive' /\ QueuedStops'
  <2>1. /\ UNCHANGED <<jmp, queued>>
        /\ active' = active \/ (active # <<>> /\ active' = Tail(active))
    BY <1>5 DEF IrqVideoDone, Wakeup
  <2>2. CASE active # <<>> /\ active' = Tail(active)
    <3>1. /\ Len(active') = Len(active) - 1 /\ Len(active) \in Nat
          /\ \A i \in 1..Len(active') : active'[i] = active[i + 1]
      BY <2>2, TailAt DEF TypeOK
    <3> QED
      BY SMTT(60), <2>1, <3>1
  <2> QED
    BY <2>1, <2>2
<1>6. ASSUME \/ \E b \in Bufs : Prepare(b) \/ Dequeue(b)
             \/ TimerExpire \/ IrqEnter \/ IrqReread
             \/ EngineFinish \/ EngineWild \/ HwFault \/ UNCHANGED vars
      PROVE  ChainFollowsActive' /\ QueuedStops'
  <2>1. UNCHANGED <<active, queued, jmp>>
    BY <1>6 DEF Prepare, Dequeue, TimerExpire, IrqEnter, IrqReread,
                EngineFinish, EngineWild, HwFault, vars, lists
  <2> QED
    BY <2>1
<1> QED
  BY <1>1, <1>2, <1>3, <1>4, <1>5, <1>6 DEF Next, Videobuf

-----------------------------------------------------------------------------
(* The watchdog.                                                           *)

LEMMA WatchdogStep ==
    ASSUME TypeOK, ListsMatchState, WatchdogArmed, [Next]_vars
    PROVE  WatchdogArmed'
<1> USE DEF WatchdogArmed
<1>1. ASSUME NEW b \in Bufs, BufferQueue(b) PROVE WatchdogArmed'
  BY <1>1 DEF BufferQueue, QueueFirst, QueueChained, QueueWaiting, ModTimer
<1>2. ASSUME TimerExpire PROVE WatchdogArmed'
  BY <1>2 DEF TimerExpire
<1>3. ASSUME BufferTimeout PROVE WatchdogArmed'
  BY <1>3, TimeoutCases DEF TimeoutEmpties, TimeoutAdvances
<1>4. ASSUME IrqVideoDone PROVE WatchdogArmed'
  BY <1>4 DEF IrqVideoDone, Wakeup, ModTimer
<1>5. ASSUME \/ \E b \in Bufs : \/ Prepare(b) \/ Dequeue(b) \/ DmaFree(b)
                                \/ QueueCancel(b)
             \/ IrqEnter \/ IrqReread
             \/ EngineFinish \/ EngineWild \/ HwFault \/ UNCHANGED vars
      PROVE  WatchdogArmed'
  <2>1. UNCHANGED <<active, timer, firing>>
    BY <1>5 DEF Prepare, Dequeue, DmaFree, QueueCancel, IrqEnter, IrqReread,
                EngineFinish, EngineWild, HwFault, vars, lists
  <2> QED
    BY <2>1
<1> QED
  BY <1>1, <1>2, <1>3, <1>4, <1>5 DEF Next, Videobuf

-----------------------------------------------------------------------------
(* The theorems.                                                           *)

\* Inv holds initially and every step preserves it.
THEOREM InvHolds == Spec => []Inv
<1>1. Init => Inv
  <2> SUFFICES ASSUME Init PROVE Inv
    OBVIOUS
  <2>1. Len(<<>>) = 0
    OBVIOUS
  <2>2. ScalerFitsActive /\ ChainFollowsActive /\ QueuedStops /\ WatchdogArmed
    BY <2>1 DEF Init, ScalerFitsActive, ChainFollowsActive, QueuedStops,
                WatchdogArmed
  <2> QED
    BY <2>2, QueueAssumption, TypeInit, ListsInit DEF Inv
<1>2. Inv /\ [Next]_vars => Inv'
  BY QueueAssumption, TypeStep, ListsStep, ScalerStep, ChainStep, WatchdogStep
     DEF Inv, ListsMatchState
<1> QED
  BY <1>1, <1>2, PTL DEF Spec

\* Every variable keeps its type.
THEOREM TypeCorrect == Spec => []TypeOK
  BY InvHolds, PTL DEF Inv

\* A buffer is on exactly the list its state names, once: no list_del on a
\* buffer that is on no list, no freed or dequeued buffer on a list.
THEOREM ListsMatchStateHolds == Spec => []ListsMatchState
  BY InvHolds, PTL DEF Inv

\* The jumps of the active programs follow the active list.
THEOREM ChainFollowsActiveHolds == Spec => []ChainFollowsActive
  BY InvHolds, PTL DEF Inv

\* The scaler is set for the size and format of every active buffer.
THEOREM ScalerFitsActiveHolds == Spec => []ScalerFitsActive
  BY InvHolds, PTL DEF Inv

\* While a buffer is active the timer is pending or about to run.
THEOREM WatchdogArmedHolds == Spec => []WatchdogArmed
  BY InvHolds, PTL DEF Inv

-----------------------------------------------------------------------------
(***************************************************************************)
(* The engine, the interrupt and the active list of Tw68Queue keep in      *)
(* step, as long as tw68_video_start_dma does not run between the          *)
(* acknowledgement of a DMAPI and the tw68_wakeup for it.  The lemmas ask  *)
(* for no more of the lists than what holds also in the middle of a        *)
(* requeue, and leave open where an engine with nothing to do may be.      *)
(***************************************************************************)

\* The wakeups to come: one for a DMAPI in the status register, one for a
\* DMAPI that tw68_irq has taken.
Pending == (IF DMAPI \in intstat THEN 1 ELSE 0)
           + (IF WakeupPending THEN 1 ELSE 0)

\* The first m active buffers are full, at least as many as there are wakeups
\* to come, and the engine is in the next one or has come to rest.
FilledAhead(m, rest) ==
    /\ Pending <= m
    /\ \A i \in 1..m : active[i] \in full
    /\ \/ pp \in rest
       \/ m < Len(active) /\ pp = active[m + 1]

\* Buffers that wait behind an empty active list wait for a resting engine.
InStepWith(rest) ==
    ~lateIrq /\ (active # <<>> \/ queued # <<>>)
        => \E m \in 0..Len(active) : FilledAhead(m, rest)

InStep == InStepWith({Stopper})

Rests(rest) == Stopper \in rest /\ rest \subseteq {Stopper, Off}

\* What is on the active list has not been given back.
ActiveHeld == \A i \in 1..Len(active) : state[active[i]] \in {"ACTIVE", "QUEUED"}

\* A jump does not lead out of the active list, nor back or ahead in it.
ChainLeadsOn ==
    \A i \in 1..Len(active) :
        \/ jmp[active[i]] = Stopper
        \/ i < Len(active) /\ jmp[active[i]] = active[i + 1]

-----------------------------------------------------------------------------
LEMMA PendingNat == Pending \in 0..2 /\ Pending' \in 0..2
  BY DEF Pending

\* A step that leaves the list and the engine alone, adds no wakeup and takes
\* nothing away from what is filled.
LEMMA Keeps ==
    ASSUME NEW rest, TypeOK, InStepWith(rest), UNCHANGED <<active, pp, lateIrq>>,
           active = <<>> /\ queued' # <<>> => queued # <<>>,
           Pending' <= Pending,
           \A i \in 1..Len(active) : active[i] \in full => active[i] \in full'
    PROVE  InStepWith(rest)'
<1> SUFFICES ASSUME ~lateIrq, active # <<>> \/ queued # <<>>
             PROVE  \E m \in 0..Len(active') : FilledAhead(m, rest)'
  BY DEF InStepWith
<1>1. PICK m \in 0..Len(active) : FilledAhead(m, rest)
  BY DEF InStepWith
<1>2. m \in Nat /\ Len(active) \in Nat /\ m <= Len(active)
  BY DEF TypeOK
<1>3. Pending' <= m
  BY <1>1, <1>2, PendingNat DEF FilledAhead
<1>4. \A i \in 1..m : active'[i] \in full'
  BY <1>1, <1>2 DEF FilledAhead
<1>5. pp' \in rest \/ (m < Len(active') /\ pp' = active'[m + 1])
  BY <1>1 DEF FilledAhead
<1> QED
  BY <1>3, <1>4, <1>5 DEF FilledAhead

\* tw68_video_start_dma on the head of the new active list.
LEMMA Restarts ==
    ASSUME NEW rest, NEW b \in Bufs, StartDma(b), UNCHANGED irq,
           Len(active') \in Nat \ {0}, active'[1] = b
    PROVE  InStepWith(rest)'
<1> SUFFICES ASSUME ~lateIrq'
             PROVE  FilledAhead(0, rest)'
  BY DEF InStepWith
<1>1. ~WakeupPending /\ ~WakeupPending' /\ intstat' = {} /\ pp' = b
  BY DEF StartDma, WakeupPending
<1>2. Pending' = 0
  BY <1>1 DEF Pending
<1> QED
  BY <1>1, <1>2 DEF FilledAhead

LEMMA InStepInit == ASSUME Init, NEW rest PROVE InStepWith(rest)
  BY DEF Init, InStepWith

\* Buffers that are with the application, or wait.
LEMMA UserInStep ==
    ASSUME NEW rest, TypeOK, ActiveHeld, InStepWith(rest), NEW b \in Bufs,
           Prepare(b) \/ QueueCancel(b) \/ Dequeue(b) \/ DmaFree(b)
    PROVE  InStepWith(rest)'
<1>1. UNCHANGED <<active, pp, intstat, irq, lateIrq>>
  BY DEF Prepare, QueueCancel, Dequeue, DmaFree, lists, chip
<1>2. \/ full' = full
      \/ full' = full \ {b} /\ state[b] \notin {"ACTIVE", "QUEUED"}
  BY DEF Prepare, QueueCancel, Dequeue, DmaFree
<1>3. \A i \in 1..Len(active) : active[i] \in full => active[i] \in full'
  BY <1>2 DEF ActiveHeld
<1>4. Pending' = Pending
  BY <1>1 DEF Pending, WakeupPending
<1>5. queued' # <<>> => queued # <<>>
  <2>1. CASE QueueCancel(b)
    <3>1. PICK i \in 1..Len(queued) : queued[i] = b
      BY <2>1 DEF QueueCancel
    <3> QED
      BY <3>1
  <2>2. CASE Prepare(b) \/ Dequeue(b) \/ DmaFree(b)
    BY <2>2 DEF Prepare, Dequeue, DmaFree, lists
  <2> QED
    BY <2>1, <2>2
<1> QED
  BY <1>1, <1>3, <1>4, <1>5, Keeps, PendingNat

LEMMA QueueInStep ==
    ASSUME NEW rest, TypeOK, InStepWith(rest), NEW b \in Bufs, BufferQueue(b)
    PROVE  InStepWith(rest)'
<1>1. UNCHANGED <<irq, full>>
  BY DEF BufferQueue
<1>2. CASE QueueFirst(b)
  <2>1. StartDma(b) /\ Len(active') = 1 /\ active'[1] = b
    BY <1>2 DEF QueueFirst
  <2> QED
    BY <1>1, <2>1, Restarts
<1>3. CASE QueueChained(b)
  <2>1. active' = Append(active, b) /\ active # <<>>
        /\ UNCHANGED <<pp, intstat, lateIrq>>
    BY <1>3 DEF QueueChained, NoStartDma
  <2>2. /\ Len(active') = Len(active) + 1 /\ Len(active) \in Nat
        /\ \A i \in 1..Len(active) : active'[i] = active[i]
    BY <2>1, AppendAt DEF TypeOK
  <2>3. Pending' = Pending
    BY <1>1, <2>1 DEF Pending, WakeupPending
  <2> SUFFICES ASSUME ~lateIrq
               PROVE  \E m \in 0..Len(active') : FilledAhead(m, rest)'
    BY <2>1 DEF InStepWith
  <2>4. PICK m \in 0..Len(active) : FilledAhead(m, rest)
    BY <2>1 DEF InStepWith
  <2>5. \A i \in 1..m : active'[i] \in full'
    BY <1>1, <2>2, <2>4 DEF FilledAhead
  <2>6. pp' \in rest \/ (m < Len(active') /\ pp' = active'[m + 1])
    BY <2>1, <2>2, <2>4 DEF FilledAhead
  <2>7. Pending' <= m
    BY <2>3, <2>4 DEF FilledAhead
  <2> QED
    BY <2>2, <2>5, <2>6, <2>7 DEF FilledAhead
<1>4. CASE QueueWaiting(b)
  <2>1. UNCHANGED <<active, pp, intstat, lateIrq>>
    BY <1>4 DEF QueueWaiting, NoStartDma
  <2>2. Pending' = Pending
    BY <1>1, <2>1 DEF Pending, WakeupPending
  <2>3. active = <<>> => queued # <<>>
    BY <1>4 DEF QueueWaiting
  <2> QED
    BY <1>1, <2>1, <2>2, <2>3, Keeps, PendingNat
<1> QED
  BY <1>2, <1>3, <1>4 DEF BufferQueue

LEMMA TimeoutInStep ==
    ASSUME NEW rest, TypeOK, BufferTimeout
    PROVE  InStepWith(rest)'
<1>1. CASE active' = <<>> /\ queued' = <<>>
  BY <1>1 DEF InStepWith
<1>2. ASSUME NEW n \in 1..Len(queued), active' = SubSeq(queued, 1, n),
             StartDma(Head(queued))
      PROVE  InStepWith(rest)'
  <2>1. /\ Head(queued) \in Bufs
        /\ Len(active') \in Nat \ {0} /\ active'[1] = Head(queued)
    BY <1>2, CutAt DEF TypeOK
  <2> QED
    BY <1>2, <2>1, TimeoutMoves, Restarts
<1> QED
  BY <1>1, <1>2, TimeoutMoves

\* The wakeup takes the first of the filled buffers.
LEMMA WakeupInStep ==
    ASSUME NEW rest, TypeOK, InStepWith(rest), IrqVideoDone
    PROVE  /\ InStepWith(rest)'
           /\ DMAPI \in irq.status /\ active # <<>> /\ ~lateIrq
                => Head(active) \in full
<1>1. /\ irq.pc = "serve" /\ irq' = [irq EXCEPT !.pc = "reread", !.status = {}]
      /\ UNCHANGED <<queued, pp, intstat, full, lateIrq>>
  BY DEF IrqVideoDone, chip
<1>2. ~WakeupPending' /\ (WakeupPending <=> DMAPI \in irq.status)
  BY <1>1 DEF WakeupPending, TypeOK
<1>3. CASE DMAPI \notin irq.status
  <2>1. Pending' = Pending
    BY <1>1, <1>2, <1>3 DEF Pending
  <2>2. UNCHANGED active
    BY <1>3 DEF IrqVideoDone
  <2> QED
    BY <1>1, <1>3, <2>1, <2>2, Keeps, PendingNat
<1>4. CASE DMAPI \in irq.status /\ active = <<>>
  <2>1. active' = <<>>
    BY <1>4 DEF IrqVideoDone, Wakeup
  <2>2. ASSUME ~lateIrq, queued # <<>> PROVE FALSE
    <3>1. PICK m \in 0..0 : Pending <= m
      BY <1>4, <2>2 DEF InStepWith, FilledAhead
    <3>2. Pending \in {1, 2}
      BY <1>2, <1>4 DEF Pending
    <3> QED
      BY <3>1, <3>2
  <2> QED
    BY <1>1, <1>4, <2>1, <2>2 DEF InStepWith
<1>5. CASE DMAPI \in irq.status /\ active # <<>>
  <2>1. active' = Tail(active)
    BY <1>5 DEF IrqVideoDone, Wakeup
  <2>2. /\ Len(active) \in Nat \ {0} /\ Len(active') = Len(active) - 1
        /\ \A i \in 1..Len(active') : active'[i] = active[i + 1]
        /\ Head(active) = active[1]
    BY <1>5, <2>1, TailAt DEF TypeOK
  <2>3. Pending = Pending' + 1
    BY <1>1, <1>2, <1>5 DEF Pending
  <2> SUFFICES ASSUME ~lateIrq
               PROVE  /\ \E m \in 0..Len(active') : FilledAhead(m, rest)'
                      /\ Head(active) \in full
    BY <1>1 DEF InStepWith
  <2>4. PICK m \in 0..Len(active) : FilledAhead(m, rest)
    BY <1>5 DEF InStepWith
  <2>5. m \in 1..Len(active) /\ m - 1 \in 0..Len(active') /\ Pending' <= m - 1
    <3>1. Pending' \in 0..2 /\ Pending' + 1 <= m
      BY <2>3, <2>4, PendingNat DEF FilledAhead
    <3>2. PICK p \in 0..2 : p = Pending'
      BY <3>1
    <3>3. Len(active) \in Nat /\ Len(active') = Len(active) - 1
      BY <2>2
    <3>4. p + 1 <= m
      BY <3>1, <3>2
    <3>5. m \in 1..Len(active) /\ m - 1 \in 0..Len(active') /\ p <= m - 1
      BY <3>3, <3>4
    <3> QED
      BY <3>2, <3>5
  <2>6. Head(active) \in full
    BY <2>2, <2>4, <2>5 DEF FilledAhead
  <2>7. \A i \in 1..(m - 1) : active'[i] \in full'
    <3>1. \A i \in 1..(m - 1) : i \in 1..Len(active') /\ i + 1 \in 1..m
      BY <2>2, <2>5
    <3> QED
      BY <1>1, <2>2, <2>4, <3>1 DEF FilledAhead
  <2>8. pp' \in rest \/ (m - 1 < Len(active') /\ pp' = active'[(m - 1) + 1])
    <3>1. CASE pp \in rest
      BY <1>1, <3>1
    <3>2. CASE pp \notin rest
      <4>1. m < Len(active) /\ pp = active[m + 1]
        BY <2>4, <3>2 DEF FilledAhead
      <4>2. (m - 1) + 1 = m /\ m \in 1..Len(active')
        BY <2>2, <2>5, <4>1
      <4> QED
        BY <1>1, <2>2, <2>5, <4>1, <4>2
    <3> QED
      BY <3>1, <3>2
  <2>9. FilledAhead(m - 1, rest)'
    BY <2>5, <2>7, <2>8 DEF FilledAhead
  <2> QED
    BY <2>5, <2>6, <2>9
<1> QED
  BY <1>3, <1>4, <1>5

\* The engine fills the buffer after the filled ones and follows the chain.
LEMMA EngineInStep ==
    ASSUME NEW rest, Rests(rest), QueueAssumption, TypeOK, ActiveHeld,
           ChainLeadsOn, InStepWith(rest), EngineFinish \/ EngineWild
    PROVE  InStepWith(rest)'
<1>1. UNCHANGED <<active, queued, irq, lateIrq, state>> /\ pp \in Bufs
  BY DEF EngineFinish, EngineWild, lists
<1> SUFFICES ASSUME ~lateIrq, active # <<>> \/ queued # <<>>
             PROVE  \E m \in 0..Len(active') : FilledAhead(m, rest)'
  BY <1>1 DEF InStepWith
<1>2. PICK m \in 0..Len(active) : FilledAhead(m, rest)
  BY DEF InStepWith
<1>3. /\ m < Len(active) /\ pp = active[m + 1] /\ m + 1 \in 1..Len(active)
      /\ Len(active) \in Nat
  BY <1>1, <1>2 DEF FilledAhead, QueueAssumption, TypeOK, Rests
<1>4. state[pp] \in {"ACTIVE", "QUEUED"} /\ pp \in ToSet(active)
  BY <1>3 DEF ActiveHeld, ToSet, TypeOK
<1>5. /\ full' = full \union {pp} /\ pp' = jmp[pp]
      /\ intstat' = intstat \union {DMAPI}
  BY <1>4 DEF EngineFinish, EngineWild, HasProgram
<1>6. Pending' <= m + 1
  <2>1. Pending' <= Pending + 1
    BY <1>1, <1>5 DEF Pending, WakeupPending
  <2> QED
    BY <1>2, <2>1, PendingNat DEF FilledAhead
<1>7. \A i \in 1..(m + 1) : active'[i] \in full'
  BY <1>1, <1>2, <1>3, <1>5 DEF FilledAhead
<1>8. pp' \in rest \/ (m + 1 < Len(active') /\ pp' = active'[(m + 1) + 1])
  BY <1>1, <1>3, <1>5 DEF ChainLeadsOn, Rests
<1>9. FilledAhead(m + 1, rest)'
  BY <1>6, <1>7, <1>8 DEF FilledAhead
<1> QED
  BY <1>1, <1>3, <1>9

\* The timer expires, or the handler takes the status or leaves.
LEMMA HandlerInStep ==
    ASSUME NEW rest, TypeOK, InStepWith(rest), TimerExpire \/ IrqEnter \/ IrqReread
    PROVE  InStepWith(rest)'
<1>1. UNCHANGED <<active, queued, pp, lateIrq, full>>
  BY DEF TimerExpire, IrqEnter, IrqReread, lists, chip
<1>2. Pending' = Pending
  BY DEF TimerExpire, IrqEnter, IrqReread, TakeStatus, IrqIdle, Pending,
         WakeupPending, chip
<1> QED
  BY <1>1, <1>2, Keeps, PendingNat

LEMMA InStepStep ==
    ASSUME NEW rest, Rests(rest), QueueAssumption, TypeOK, ActiveHeld,
           ChainLeadsOn, InStepWith(rest), [Next]_vars
    PROVE  InStepWith(rest)'
<1>1. ASSUME NEW b \in Bufs,
             \/ Prepare(b) \/ QueueCancel(b) \/ Dequeue(b) \/ DmaFree(b)
             \/ BufferQueue(b)
      PROVE  InStepWith(rest)'
  BY <1>1, UserInStep, QueueInStep
<1>2. ASSUME BufferTimeout PROVE InStepWith(rest)'
  BY <1>2, TimeoutInStep
<1>3. ASSUME IrqVideoDone PROVE InStepWith(rest)'
  BY <1>3, WakeupInStep
<1>4. ASSUME EngineFinish \/ EngineWild PROVE InStepWith(rest)'
  BY <1>4, EngineInStep
<1>5. ASSUME TimerExpire \/ IrqEnter \/ IrqReread PROVE InStepWith(rest)'
  BY <1>5, HandlerInStep
<1>6. ASSUME HwFault \/ UNCHANGED vars PROVE InStepWith(rest)'
  <2>1. UNCHANGED <<active, queued, pp, irq, lateIrq, full>>
    BY <1>6 DEF HwFault, vars, lists, chip
  <2>2. DMAPI \in intstat' <=> DMAPI \in intstat
    BY <1>6 DEF HwFault, vars, chip, QueueAssumption
  <2>3. Pending' = Pending
    BY <2>1, <2>2 DEF Pending, WakeupPending
  <2> QED
    BY <2>1, <2>3, Keeps, PendingNat
<1> QED
  BY <1>1, <1>2, <1>3, <1>4, <1>5, <1>6 DEF Next, Videobuf

LEMMA DoneStep ==
    ASSUME NEW rest, TypeOK, InStepWith(rest), DoneIsFull, [Next]_vars
    PROVE  DoneIsFull'
<1> USE DEF DoneIsFull
<1>1. ASSUME NEW b \in Bufs,
             Prepare(b) \/ QueueCancel(b) \/ Dequeue(b) \/ DmaFree(b)
      PROVE  DoneIsFull'
  <2>1. /\ UNCHANGED lateIrq
        /\ \A c \in Bufs \ {b} : state'[c] = state[c]
                                 /\ (c \in full => c \in full')
        /\ state'[b] # "DONE"
    BY <1>1 DEF Prepare, QueueCancel, Dequeue, DmaFree, TypeOK
  <2> QED
    BY <2>1
<1>2. ASSUME NEW b \in Bufs, BufferQueue(b) PROVE DoneIsFull'
  <2>1. state' = [state EXCEPT ![b] = state'[b]] /\ state'[b] # "DONE"
    BY <1>2 DEF BufferQueue, QueueFirst, QueueChained, QueueWaiting, TypeOK
  <2>2. UNCHANGED full
    BY <1>2 DEF BufferQueue
  <2>3. lateIrq' = lateIrq \/ lateIrq' = (IF WakeupPending THEN TRUE ELSE lateIrq)
    BY <1>2 DEF BufferQueue, QueueFirst, QueueChained, QueueWaiting, StartDma,
                NoStartDma
  <2>4. ~lateIrq' => ~lateIrq
    BY <2>3 DEF TypeOK
  <2> QED
    BY <2>1, <2>2, <2>4 DEF TypeOK
<1>3. ASSUME BufferTimeout PROVE DoneIsFull'
  <2>1. UNCHANGED full
    BY <1>3 DEF BufferTimeout
  <2>2. lateIrq => lateIrq'
    BY <1>3, TimeoutMoves DEF StartDma, NoStartDma
  <2> QED
    BY <1>3, <2>1, <2>2, TimeoutMoves
<1>4. ASSUME IrqVideoDone PROVE DoneIsFull'
  <2>1. UNCHANGED <<full, lateIrq>>
    BY <1>4 DEF IrqVideoDone
  <2>2. \A b \in Bufs : state'[b] = "DONE" =>
            \/ state[b] = "DONE"
            \/ b = Head(active) /\ active # <<>> /\ DMAPI \in irq.status
    BY <1>4 DEF IrqVideoDone, Wakeup, TypeOK
  <2> QED
    BY <1>4, <2>1, <2>2, WakeupInStep
<1>5. ASSUME \/ TimerExpire \/ IrqEnter \/ IrqReread
             \/ EngineFinish \/ EngineWild \/ HwFault \/ UNCHANGED vars
      PROVE  DoneIsFull'
  <2>1. UNCHANGED <<state, lateIrq>> /\ full \subseteq full'
    BY <1>5 DEF TimerExpire, IrqEnter, IrqReread, EngineFinish, EngineWild,
                HwFault, vars
  <2> QED
    BY <2>1
<1> QED
  BY <1>1, <1>2, <1>3, <1>4, <1>5 DEF Next, Videobuf

-----------------------------------------------------------------------------
(* The theorems.                                                           *)

LEMMA InStepInActive == TypeOK /\ InStep => EngineInActive
<1> SUFFICES ASSUME TypeOK, InStep, ~lateIrq, active # <<>>
             PROVE  pp \in ToSet(active) \union {Stopper}
  BY DEF EngineInActive
<1>1. PICK m \in 0..Len(active) : FilledAhead(m, {Stopper})
  BY DEF InStep, InStepWith
<1>2. pp = Stopper \/ \E i \in 1..Len(active) : pp = active[i]
  <2>1. m < Len(active) => m + 1 \in 1..Len(active)
    BY DEF TypeOK
  <2> QED
    BY <1>1, <2>1 DEF FilledAhead
<1> QED
  BY <1>2 DEF ToSet, TypeOK

\* The strengthening: filled buffers first, no more wakeups than those.
THEOREM InStepHolds == Spec => [](InStep /\ DoneIsFull)
<1>1. Init => InStep /\ DoneIsFull
  BY InStepInit DEF Init, DoneIsFull, InStep
<1>2. ASSUME Inv, InStep, DoneIsFull, [Next]_vars PROVE InStep' /\ DoneIsFull'
  <2>1. /\ TypeOK /\ InStepWith({Stopper}) /\ Rests({Stopper})
        /\ ActiveHeld /\ ChainLeadsOn
    BY <1>2, ListAt
       DEF Inv, InStep, Rests, ActiveHeld, ChainLeadsOn, ChainFollowsActive
  <2>2. InStep'
    BY <1>2, <2>1, QueueAssumption, InStepStep DEF InStep
  <2> QED
    BY <1>2, <2>1, <2>2, DoneStep
<1> QED
  BY <1>1, <1>2, InvHolds, PTL DEF Spec

\* tw68_wakeup hands over as DONE only what the engine has filled, unless
\* start_dma ran between an acknowledgement and its wakeup.
THEOREM DoneIsFullHolds == Spec => []DoneIsFull
  BY InStepHolds, PTL

\* While buffers are active the engine is in one of their programs or in the
\* stopper, with the same exception.
THEOREM EngineInActiveHolds == Spec => []EngineInActive
  BY InStepInActive, InStepHolds, TypeCorrect, PTL

-----------------------------------------------------------------------------
(***************************************************************************)
(* The DMA queue keeps the promise of BufferFifo: every step of Tw68Queue  *)
(* is a step of the line of buffers, or changes nothing the application    *)
(* can see, for every set of buffers, dimensions, fields and faults.  On   *)
(* the way the line is the active list followed by the queued one.         *)
(***************************************************************************)

\* The refinement mapping, by name.
line == active \o queued

Place(s) == CASE s \in {"ACTIVE", "QUEUED"} -> "driver"
              [] s = "DONE" -> "filled"
              [] s = "ERROR" -> "failed"
              [] OTHER -> "app"

place == [b \in Bufs |-> Place(state[b])]

-----------------------------------------------------------------------------
(* The line.                                                               *)

LEMMA LineAt ==
    ASSUME NEW S, NEW a \in Seq(S), NEW q \in Seq(S)
    PROVE  /\ a \o q \in Seq(S) /\ Len(a \o q) = Len(a) + Len(q)
           /\ Len(a) \in Nat /\ Len(q) \in Nat
           /\ \A i \in 1..Len(a) : (a \o q)[i] = a[i]
           /\ \A i \in 1..Len(q) : (a \o q)[Len(a) + i] = q[i]
<1>1. \A i \in 1..Len(q) : Len(a) + i - Len(a) = i /\ ~(Len(a) + i <= Len(a))
                           /\ Len(a) + i \in 1..(Len(a) + Len(q))
  BY LenProperties
<1>2. \A i \in 1..Len(a) : i <= Len(a) /\ i \in 1..(Len(a) + Len(q))
  BY LenProperties
<1> QED
  BY <1>1, <1>2, ConcatProperties, LenProperties

LEMMA LineTail ==
    ASSUME NEW S, NEW a \in Seq(S), NEW q \in Seq(S), a # <<>>
    PROVE  Tail(a \o q) = Tail(a) \o q /\ Head(a \o q) = Head(a) /\ a \o q # <<>>
<1>1. a \o q # <<>> /\ Head(a \o q) = Head(a)
  BY LineAt, EmptySeq
<1>2. /\ Tail(a) \in Seq(S) /\ Tail(a \o q) \in Seq(S) /\ a \o q \in Seq(S)
      /\ Len(Tail(a)) = Len(a) - 1 /\ Len(Tail(a \o q)) = Len(a) + Len(q) - 1
      /\ Len(a) \in Nat \ {0} /\ Len(q) \in Nat
      /\ \A i \in 1..(Len(a) + Len(q) - 1) : Tail(a \o q)[i] = (a \o q)[i + 1]
      /\ \A i \in 1..(Len(a) - 1) : Tail(a)[i] = a[i + 1]
  BY <1>1, LineAt, HeadTailProperties, EmptySeq
<1>3. ASSUME NEW i \in 1..(Len(a) + Len(q) - 1)
      PROVE  Tail(a \o q)[i] = (Tail(a) \o q)[i]
  <2>1. CASE i \in 1..(Len(a) - 1)
    <3>1. i + 1 \in 1..Len(a)
      BY <1>2, <2>1
    <3> QED
      BY <1>2, <2>1, <3>1, LineAt
  <2>2. CASE i \notin 1..(Len(a) - 1)
    <3> DEFINE j == i - (Len(a) - 1)
    <3>1. j \in 1..Len(q) /\ i = Len(Tail(a)) + j /\ i + 1 = Len(a) + j
      BY <1>2, <2>2
    <3> HIDE DEF j
    <3> QED
      BY <1>2, <3>1, LineAt
  <2> QED
    BY <2>1, <2>2
<1>4. Tail(a) \o q \in Seq(S) /\ Len(Tail(a) \o q) = Len(a) + Len(q) - 1
  BY <1>2, LineAt
<1>5. Tail(a \o q) = Tail(a) \o q
  BY <1>2, <1>3, <1>4, SeqEqual
<1> QED
  BY <1>1, <1>5

LEMMA LineAppend ==
    ASSUME NEW S, NEW a \in Seq(S), NEW q \in Seq(S), NEW e \in S
    PROVE  a \o Append(q, e) = Append(a \o q, e)
<1>1. Append(q, e) = q \o <<e>> /\ Append(a \o q, e) = (a \o q) \o <<e>>
  BY LineAt, AppendIsConcat
<1>2. <<e>> \in Seq(S)
  OBVIOUS
<1> QED
  BY <1>1, <1>2, ConcatAssociative

\* The parts of a sequence before and after its i-th element.
LEMMA PartsAt ==
    ASSUME NEW S, NEW s \in Seq(S), NEW i \in 1..Len(s)
    PROVE  /\ SubSeq(s, 1, i - 1) \in Seq(S) /\ Len(SubSeq(s, 1, i - 1)) = i - 1
           /\ \A j \in 1..(i - 1) : SubSeq(s, 1, i - 1)[j] = s[j]
           /\ SubSeq(s, i + 1, Len(s)) \in Seq(S)
           /\ Len(SubSeq(s, i + 1, Len(s))) = Len(s) - i
           /\ \A j \in 1..(Len(s) - i) : SubSeq(s, i + 1, Len(s))[j] = s[i + j]
<1>1. /\ SubSeq(s, 1, i - 1) \in Seq(S) /\ Len(SubSeq(s, 1, i - 1)) = i - 1
      /\ \A j \in 1..(i - 1) : SubSeq(s, 1, i - 1)[j] = s[j]
  OBVIOUS
<1>2. /\ SubSeq(s, i + 1, Len(s)) \in Seq(S)
      /\ Len(SubSeq(s, i + 1, Len(s))) = Len(s) - i
      /\ \A j \in 1..(Len(s) - i) : SubSeq(s, i + 1, Len(s))[j] = s[i + j]
  OBVIOUS
<1> QED
  BY <1>1, <1>2

\* Removing from the second part.
LEMMA LineRemove ==
    ASSUME NEW S, NEW a \in Seq(S), NEW q \in Seq(S), NEW i \in 1..Len(q)
    PROVE  LET k == Len(a) + i IN
           a \o RemoveAt(q, i) = SubSeq(a \o q, 1, k - 1)
                                 \o SubSeq(a \o q, k + 1, Len(a \o q))
<1>01. \A r \in Seq(S) :
          /\ a \o r \in Seq(S) /\ Len(a \o r) = Len(a) + Len(r)
          /\ \A j \in 1..Len(a) : (a \o r)[j] = a[j]
          /\ \A j \in 1..Len(r) : (a \o r)[Len(a) + j] = r[j]
  BY LineAt
<1>02. \A r, p \in Seq(S) : (a \o r) \o p = a \o (r \o p)
  <2> SUFFICES ASSUME NEW r \in Seq(S), NEW p \in Seq(S)
               PROVE  (a \o r) \o p = a \o (r \o p)
    OBVIOUS
  <2> QED
    BY ConcatAssociative, SMTT(60)
<1> DEFINE k == Len(a) + i
           s == a \o q
           t == SubSeq(q, 1, i - 1)
           u == SubSeq(q, i + 1, Len(q))
           l == SubSeq(s, 1, k - 1)
           m == SubSeq(s, k + 1, Len(s))
<1>1. /\ s \in Seq(S) /\ Len(s) = Len(a) + Len(q) /\ Len(a) \in Nat
      /\ Len(q) \in Nat /\ i \in Nat /\ k \in 1..Len(s) /\ k \in Nat
  BY LineAt
<1>2. /\ t \in Seq(S) /\ Len(t) = i - 1 /\ \A j \in 1..(i - 1) : t[j] = q[j]
      /\ u \in Seq(S) /\ Len(u) = Len(q) - i
      /\ \A j \in 1..(Len(q) - i) : u[j] = q[i + j]
  BY PartsAt
<1> HIDE DEF s, k
<1>3. /\ l \in Seq(S) /\ Len(l) = k - 1 /\ \A j \in 1..(k - 1) : l[j] = s[j]
      /\ m \in Seq(S) /\ Len(m) = Len(s) - k
      /\ \A j \in 1..(Len(s) - k) : m[j] = s[k + j]
  BY <1>1, PartsAt
<1>4. RemoveAt(q, i) = t \o u
  BY DEF RemoveAt
<1> HIDE DEF t, u, l, m
<1>5. /\ \A j \in 1..Len(a) : s[j] = a[j]
      /\ \A j \in 1..Len(q) : s[Len(a) + j] = q[j]
  BY LineAt DEF s
<1>21. t \in Seq(S) /\ u \in Seq(S)
  BY <1>2
<1>6. m = u
  <2>1. Len(m) = Len(u) /\ Len(u) = Len(q) - i
    BY <1>1, <1>2, <1>3 DEF k
  <2>2. ASSUME NEW j \in 1..(Len(q) - i) PROVE m[j] = u[j]
    <3>1. i + j \in 1..Len(q) /\ k + j = Len(a) + (i + j)
          /\ j \in 1..(Len(s) - k)
      BY <1>1 DEF k
    <3> QED
      BY SMTT(60), <1>2, <1>3, <1>5, <3>1
  <2> QED
    BY <1>2, <1>3, <2>1, <2>2, SeqEqual
<1>7. l = a \o t
  <2>1. /\ a \o t \in Seq(S) /\ Len(a \o t) = Len(a) + Len(t)
        /\ \A j \in 1..Len(a) : (a \o t)[j] = a[j]
        /\ \A j \in 1..Len(t) : (a \o t)[Len(a) + j] = t[j]
    BY <1>01, <1>21
  <2>2. Len(a) + Len(t) = k - 1
    BY <1>1, <1>2 DEF k
  <2>3. ASSUME NEW j \in 1..(k - 1) PROVE l[j] = (a \o t)[j]
    <3>1. CASE j \in 1..Len(a)
      BY <1>3, <1>5, <2>1, <3>1
    <3>2. CASE j \notin 1..Len(a)
      <4> DEFINE n == j - Len(a)
      <4>1. n \in 1..(i - 1) /\ j = Len(a) + n /\ n \in 1..Len(q)
        BY <1>1, <3>2 DEF k
      <4> HIDE DEF n
      <4>2. l[j] = q[n]
        BY <1>3, <1>5, <4>1
      <4>3. (a \o t)[j] = q[n]
        BY <1>2, <2>1, <4>1
      <4> QED
        BY <4>2, <4>3
    <3> QED
      BY <3>1, <3>2
  <2> QED
    BY SMTT(60), <1>3, <2>1, <2>2, <2>3, SeqEqual
<1>8. a \o (t \o u) = (a \o t) \o u
  BY <1>02, <1>21
<1> QED
  BY <1>4, <1>6, <1>7, <1>8 DEF k, s, l, m

-----------------------------------------------------------------------------
(* The actions of BufferFifo, in terms of the mapping.                     *)

LEMMA IsSubmit ==
    ASSUME NEW b \in Bufs, place[b] = "app", line' = Append(line, b),
           place' = [place EXCEPT ![b] = "driver"],
           \/ Len(active) = Len(line) /\ Len(active') = Len(active) + 1
           \/ line # <<>> /\ Len(active') = Len(active)
    PROVE  Fifo!Submit(b)
  BY DEF Fifo!Submit, line, place, Place

LEMMA IsDeliver ==
    ASSUME Len(active) > 0, line' = Tail(line), Len(active') = Len(active) - 1,
           place' = [place EXCEPT ![Head(line)] = "filled"]
    PROVE  Fifo!Deliver
  BY DEF Fifo!Deliver, line, place, Place

LEMMA IsTimeout ==
    ASSUME line' = SubSeq(line, Len(active) + 1, Len(line)),
           \/ line' = <<>> /\ Len(active') = 0
           \/ Len(active') \in 1..Len(line'),
           place' = [b \in Bufs |-> IF \E i \in 1..Len(active) : line[i] = b
                                    THEN "failed" ELSE place[b]]
    PROVE  Fifo!Timeout
  BY DEF Fifo!Timeout, line, place, Place

LEMMA IsCancel ==
    ASSUME NEW k \in (Len(active) + 1)..Len(line),
           line' = SubSeq(line, 1, k - 1) \o SubSeq(line, k + 1, Len(line)),
           place' = [place EXCEPT ![line[k]] = "failed"],
           Len(active') = Len(active)
    PROVE  Fifo!Cancel(k)
  BY DEF Fifo!Cancel, line, place, Place

LEMMA IsReclaim ==
    ASSUME NEW b \in Bufs, place[b] \in {"filled", "failed"},
           place' = [place EXCEPT ![b] = "app"], UNCHANGED <<active, queued>>
    PROVE  Fifo!Reclaim(b)
  BY DEF Fifo!Reclaim, line, place, Place

\* Nothing moves, and no buffer changes its place.
LEMMA IsStutter ==
    ASSUME UNCHANGED <<active, queued>>, place' = place
    PROVE  UNCHANGED Fifo!fifo
  BY DEF Fifo!fifo, place, Place

\* A change of state of one buffer, as a change of place.
LEMMA PlaceOne ==
    ASSUME TypeOK, NEW b \in Bufs, NEW s \in BufStates,
           state' = [state EXCEPT ![b] = s]
    PROVE  /\ place' = [place EXCEPT ![b] = Place(s)]
           /\ Place(s) = place[b] => place' = place
  BY DEF place, TypeOK

-----------------------------------------------------------------------------
(* The steps.                                                              *)

LEMMA FifoInit == ASSUME Init PROVE Fifo!Init
<1>1. active \o queued = <<>> /\ Len(active) = 0
  BY EmptySeq, LineAt DEF Init
<1> QED
  BY <1>1 DEF Init, Fifo!Init

LEMMA QueueSubmits ==
    ASSUME TypeOK, NEW b \in Bufs, BufferQueue(b)
    PROVE  Fifo!Submit(b)
<1>1. place[b] = "app"
  BY DEF BufferQueue, place, Place
<1>2. /\ line \in Seq(Bufs) /\ Len(line) = Len(active) + Len(queued)
      /\ Len(active) \in Nat /\ Len(queued) \in Nat
  BY LineAt DEF TypeOK, line
<1>3. CASE QueueFirst(b)
  <2>1. /\ line = <<>> /\ Len(line) = 0 /\ Len(active) = 0
        /\ line' = Append(line, b) /\ Len(active') = 1
    BY <1>2, <1>3, ConcatEmptySeq, EmptySeq DEF QueueFirst, line, TypeOK
  <2>2. place' = [place EXCEPT ![b] = "driver"]
    BY <1>3, PlaceOne DEF QueueFirst, BufStates, Place
  <2>3. line' = Append(line, b)
    BY <2>1
  <2>4. Len(active) = Len(line) /\ Len(active') = Len(active) + 1
    BY <2>1
  <2> QED
    BY <1>1, <2>2, <2>3, <2>4, IsSubmit
<1>4. CASE QueueChained(b)
  <2>1. /\ queued = <<>> /\ queued' = <<>> /\ active' = Append(active, b)
        /\ line = active /\ line' = active'
    BY <1>4, ConcatEmptySeq, AppendAt DEF QueueChained, line, TypeOK
  <2>2. place' = [place EXCEPT ![b] = "driver"]
    BY <1>4, PlaceOne DEF QueueChained, BufStates, Place
  <2>3. Len(active) = Len(line) /\ Len(active') = Len(active) + 1
    BY <1>2, <2>1, AppendAt DEF TypeOK
  <2>4. line' = Append(line, b)
    BY <2>1
  <2> QED
    BY <1>1, <2>2, <2>3, <2>4, IsSubmit
<1>5. CASE QueueWaiting(b)
  <2>1. /\ queued' = Append(queued, b) /\ active' = active
        /\ active # <<>> \/ queued # <<>>
    BY <1>5 DEF QueueWaiting
  <2>2. line' = Append(line, b) /\ line # <<>>
    BY <1>2, <2>1, LineAppend, EmptySeq DEF TypeOK, line
  <2>3. place' = [place EXCEPT ![b] = "driver"]
    BY <1>5, PlaceOne DEF QueueWaiting, BufStates, Place
  <2> QED
    BY <1>1, <2>1, <2>2, <2>3, IsSubmit
<1> QED
  BY <1>3, <1>4, <1>5 DEF BufferQueue

LEMMA CancelCancels ==
    ASSUME TypeOK, NEW b \in Bufs, QueueCancel(b)
    PROVE  \E k \in 1..Len(line) : Fifo!Cancel(k)
<1>1. PICK i \in 1..Len(queued) :
          queued[i] = b /\ queued' = RemoveAt(queued, i)
  BY DEF QueueCancel
<1>2. active' = active /\ state' = [state EXCEPT ![b] = "ERROR"]
  BY DEF QueueCancel
<1>3. /\ Len(line) = Len(active) + Len(queued)
      /\ Len(active) \in Nat /\ Len(queued) \in Nat
      /\ line[Len(active) + i] = b
  BY <1>1, LineAt DEF TypeOK, line
<1>31. PICK k \in Nat : k = Len(active) + i
  BY <1>3
<1>4. k \in (Len(active) + 1)..Len(line) /\ k \in 1..Len(line)
  BY <1>3, <1>31
<1>5. line' = SubSeq(line, 1, k - 1) \o SubSeq(line, k + 1, Len(line))
  BY ZenonT(60), <1>1, <1>2, <1>31, LineRemove DEF TypeOK, line
<1>6. place' = [place EXCEPT ![line[k]] = "failed"]
  BY <1>2, <1>3, <1>31, PlaceOne DEF BufStates, Place
<1>7. Fifo!Cancel(k)
  <2>1. Len(active') = Len(active)
    BY <1>2
  <2> QED
    BY <1>4, <1>5, <1>6, <2>1, IsCancel
<1> QED
  BY <1>4, <1>7

LEMMA WakeupDelivers ==
    ASSUME TypeOK, IrqVideoDone
    PROVE  Fifo!Deliver \/ UNCHANGED Fifo!fifo
<1>1. CASE DMAPI \in irq.status /\ active # <<>>
  <2>1. /\ active' = Tail(active) /\ queued' = queued
        /\ state' = [state EXCEPT ![Head(active)] = "DONE"]
    BY <1>1 DEF IrqVideoDone, Wakeup
  <2>2. /\ Len(active) \in Nat \ {0} /\ Len(active') = Len(active) - 1
        /\ Head(active) \in Bufs
    BY <1>1, <2>1, TailAt DEF TypeOK
  <2>3. line' = Tail(line) /\ Head(line) = Head(active)
    BY <1>1, <2>1, LineTail DEF TypeOK, line
  <2>4. place' = [place EXCEPT ![Head(line)] = "filled"]
    BY <2>1, <2>2, <2>3, PlaceOne DEF BufStates, Place
  <2> QED
    BY <2>2, <2>3, <2>4, IsDeliver
<1>2. CASE ~(DMAPI \in irq.status /\ active # <<>>)
  <2>1. UNCHANGED <<active, queued, state>>
    BY <1>2 DEF IrqVideoDone, Wakeup
  <2> QED
    BY <2>1, IsStutter DEF place
<1> QED
  BY <1>1, <1>2

\* Who is in the line is with the driver, and on one list.
LineHeld ==
    /\ \A b \in ToSet(active) \union ToSet(queued) : Place(state[b]) = "driver"
    /\ ToSet(active) \intersect ToSet(queued) = {}

\* The line after the active buffers is the queued list.
LEMMA LineRest ==
    ASSUME NEW S, NEW a \in Seq(S), NEW q \in Seq(S)
    PROVE  SubSeq(a \o q, Len(a) + 1, Len(a \o q)) = q
<1> DEFINE s == a \o q
           r == SubSeq(s, Len(a) + 1, Len(s))
<1>1. /\ s \in Seq(S) /\ Len(s) = Len(a) + Len(q)
      /\ Len(a) \in Nat /\ Len(q) \in Nat
      /\ \A i \in 1..Len(q) : s[Len(a) + i] = q[i]
  BY LineAt
<1> HIDE DEF s
<1>2. /\ r \in Seq(S) /\ Len(r) = Len(s) - Len(a)
      /\ \A i \in 1..(Len(s) - Len(a)) : r[i] = s[Len(a) + i]
  BY <1>1
<1> HIDE DEF r
<1>3. r = q
  BY <1>1, <1>2, SeqEqual
<1> QED
  BY <1>3 DEF r, s

\* A sequence cut in two is the two parts joined.
LEMMA PartsJoin ==
    ASSUME NEW S, NEW q \in Seq(S), NEW h \in Seq(S), NEW r \in Seq(S),
           Len(q) = Len(h) + Len(r),
           \A i \in 1..Len(h) : h[i] = q[i],
           \A i \in 1..Len(r) : r[i] = q[Len(h) + i]
    PROVE  h \o r = q
<1>1. /\ h \o r \in Seq(S) /\ Len(h \o r) = Len(h) + Len(r)
      /\ \A i \in 1..Len(h) : (h \o r)[i] = h[i]
      /\ \A i \in 1..Len(r) : (h \o r)[Len(h) + i] = r[i]
      /\ Len(h) \in Nat /\ Len(r) \in Nat
  BY LineAt
<1>2. ASSUME NEW i \in 1..Len(q) PROVE (h \o r)[i] = q[i]
  <2>1. CASE i \in 1..Len(h)
    BY <1>1, <2>1
  <2>2. CASE i \notin 1..Len(h)
    <3> DEFINE j == i - Len(h)
    <3>1. j \in 1..Len(r) /\ i = Len(h) + j
      BY <1>1, <2>2
    <3> HIDE DEF j
    <3> QED
      BY <1>1, <3>1
  <2> QED
    BY <2>1, <2>2
<1> QED
  BY <1>1, <1>2, SeqEqual

\* The list that a timeout makes active and the one it leaves queued are,
\* together, the list that was queued.
LEMMA CutJoins ==
    ASSUME NEW S, NEW q \in Seq(S), NEW n \in 1..Len(q)
    PROVE  SubSeq(q, 1, n) \o SubSeq(q, n + 1, Len(q)) = q
<1> DEFINE h == SubSeq(q, 1, n)
           r == SubSeq(q, n + 1, Len(q))
<1>1. /\ h \in Seq(S) /\ Len(h) = n /\ \A i \in 1..n : h[i] = q[i]
      /\ r \in Seq(S) /\ Len(r) = Len(q) - n
      /\ \A i \in 1..(Len(q) - n) : r[i] = q[n + i]
      /\ Len(q) \in Nat
  BY CutAt
<1> HIDE DEF h, r
<1>2. Len(q) = Len(h) + Len(r)
  BY <1>1
<1>3. /\ \A i \in 1..Len(h) : h[i] = q[i]
      /\ \A i \in 1..Len(r) : r[i] = q[Len(h) + i]
      /\ h \in Seq(S) /\ r \in Seq(S)
  BY <1>1
<1>4. h \o r = q
  BY ZenonT(60), <1>2, <1>3, PartsJoin, SMTT(30)
<1> QED
  BY <1>4 DEF h, r

LEMMA TimeoutFails ==
    ASSUME TypeOK, LineHeld, BufferTimeout
    PROVE  Fifo!Timeout
<1>1. /\ Len(active) \in Nat /\ Len(queued) \in Nat
      /\ SubSeq(line, Len(active) + 1, Len(line)) = queued
      /\ \A i \in 1..Len(active) : line[i] = active[i]
  BY LineAt, LineRest DEF TypeOK, line
<1>2. \A b \in Bufs : (\E i \in 1..Len(active) : line[i] = b)
                        <=> b \in ToSet(active)
  <2>1. DOMAIN active = 1..Len(active)
    BY DEF TypeOK
  <2> QED
    BY <1>1, <2>1 DEF ToSet
<1>3. \A b \in Bufs : Place(state'[b]) = IF b \in ToSet(active) THEN "failed"
                                        ELSE Place(state[b])
  <2> SUFFICES ASSUME NEW b \in Bufs
               PROVE  Place(state'[b]) = IF b \in ToSet(active) THEN "failed"
                                         ELSE Place(state[b])
    OBVIOUS
  <2>1. \/ state'[b] = IF b \in ToSet(active) THEN "ERROR" ELSE state[b]
        \/ b \in ToSet(queued) /\ state'[b] = "ACTIVE"
    BY TimeoutMoves
  <2>2. Place("ERROR") = "failed" /\ Place("ACTIVE") = "driver"
    BY DEF Place
  <2>3. b \in ToSet(queued) => b \notin ToSet(active)
                               /\ Place(state[b]) = "driver"
    BY DEF LineHeld
  <2> QED
    BY <2>1, <2>2, <2>3
<1>4. place' = [b \in Bufs |-> IF \E i \in 1..Len(active) : line[i] = b
                               THEN "failed" ELSE place[b]]
  BY <1>2, <1>3 DEF place
<1>5. CASE active' = <<>> /\ queued' = <<>> /\ queued = <<>>
  <2>1. line' = queued /\ line' = <<>> /\ Len(active') = 0
    BY <1>5, ConcatEmptySeq, EmptySeq DEF line, TypeOK
  <2> QED
    BY <1>1, <1>4, <2>1, IsTimeout
<1>6. ASSUME NEW n \in 1..Len(queued), active' = SubSeq(queued, 1, n),
             queued' = SubSeq(queued, n + 1, Len(queued))
      PROVE  Fifo!Timeout
  <2>1. line' = queued /\ Len(active') = n
    BY <1>6, CutJoins, CutAt DEF line, TypeOK
  <2> QED
    BY <1>1, <1>4, <2>1, IsTimeout
<1> QED
  BY <1>5, <1>6, TimeoutMoves

LEMMA FifoStep ==
    ASSUME TypeOK, LineHeld, [Next]_vars
    PROVE  [Fifo!Next]_(Fifo!fifo)
<1>1. ASSUME NEW b \in Bufs, Prepare(b) PROVE UNCHANGED Fifo!fifo
  <2>1. UNCHANGED <<active, queued>>
    BY <1>1 DEF Prepare, lists
  <2>2. place' = place
    <3>1. \/ state' = [state EXCEPT ![b] = "PREPARED"]
             /\ Place("PREPARED") = place[b]
          \/ state' = state
      BY <1>1 DEF Prepare, Place, place
    <3> QED
      BY <3>1, PlaceOne DEF BufStates, place
  <2> QED
    BY <2>1, <2>2, IsStutter
<1>2. ASSUME NEW b \in Bufs, BufferQueue(b) PROVE Fifo!Next
  BY <1>2, QueueSubmits DEF Fifo!Next
<1>3. ASSUME NEW b \in Bufs, QueueCancel(b) PROVE Fifo!Next
  BY <1>3, CancelCancels DEF Fifo!Next, line
<1>4. ASSUME NEW b \in Bufs, Dequeue(b) PROVE Fifo!Next
  <2>1. /\ UNCHANGED <<active, queued>> /\ place[b] \in {"filled", "failed"}
        /\ place' = [place EXCEPT ![b] = "app"]
    BY <1>4, PlaceOne DEF Dequeue, lists, BufStates, Place, place
  <2> QED
    BY <2>1, IsReclaim DEF Fifo!Next
<1>5. ASSUME NEW b \in Bufs, DmaFree(b)
      PROVE  Fifo!Next \/ UNCHANGED Fifo!fifo
  <2>1. UNCHANGED <<active, queued>>
    BY <1>5 DEF DmaFree, lists
  <2>2. state' = [state EXCEPT ![b] = "NEEDS_INIT"]
    BY <1>5 DEF DmaFree
  <2>3. CASE state[b] \in {"DONE", "ERROR"}
    <3>1. /\ place[b] \in {"filled", "failed"}
          /\ place' = [place EXCEPT ![b] = "app"]
      BY <2>2, <2>3, PlaceOne DEF BufStates, Place, place
    <3> QED
      BY <2>1, <3>1, IsReclaim DEF Fifo!Next
  <2>4. CASE state[b] \notin {"DONE", "ERROR"}
    <3>1. Place("NEEDS_INIT") = place[b]
      BY <1>5, <2>4 DEF DmaFree, Place, place
    <3> QED
      BY <2>1, <2>2, <3>1, PlaceOne, IsStutter DEF BufStates
  <2> QED
    BY <2>3, <2>4
<1>6. ASSUME IrqVideoDone PROVE Fifo!Next \/ UNCHANGED Fifo!fifo
  BY <1>6, WakeupDelivers DEF Fifo!Next
<1>7. ASSUME BufferTimeout PROVE Fifo!Next
  BY <1>7, TimeoutFails DEF Fifo!Next
<1>8. ASSUME \/ TimerExpire \/ IrqEnter \/ IrqReread
             \/ EngineFinish \/ EngineWild \/ HwFault \/ UNCHANGED vars
      PROVE  UNCHANGED Fifo!fifo
  <2>1. UNCHANGED <<active, queued, state>>
    BY <1>8 DEF TimerExpire, IrqEnter, IrqReread, EngineFinish, EngineWild,
                HwFault, vars, lists
  <2> QED
    BY <2>1, IsStutter DEF place
<1> QED
  BY <1>1, <1>2, <1>3, <1>4, <1>5, <1>6, <1>7, <1>8 DEF Next, Videobuf

-----------------------------------------------------------------------------
\* The buffers handed to the driver come back one by one, each once, in the
\* order in which buffer_queue took them: whatever the chip, the timer and
\* the application do, the two lists and the states of the buffers behave as
\* the line of BufferFifo.
THEOREM KeepsThePromise == Spec => InOrderOnce
<1>1. Init => Fifo!Init
  BY FifoInit
<1>2. ASSUME Inv, [Next]_vars PROVE [Fifo!Next]_(Fifo!fifo)
  <2>1. LineHeld
    <3>1. \A b \in ToSet(active) \union ToSet(queued) : b \in Bufs
      BY <1>2 DEF Inv, TypeOK, ToSet
    <3> QED
      BY <1>2, <3>1 DEF Inv, ListsMatchState, LineHeld, Place
  <2> QED
    BY <1>2, <2>1, FifoStep DEF Inv
<1> QED
  BY <1>1, <1>2, InvHolds, PTL DEF Spec, InOrderOnce, Fifo!Spec
=============================================================================
